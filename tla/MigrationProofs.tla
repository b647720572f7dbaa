-------------------------- MODULE MigrationProofs --------------------------
(***************************************************************************)
(* Every host computes the same place of each block of shared memory: what *)
(* jia_alloc and its variants leave in a page table is the reference       *)
(* placement, for any number of hosts, any page size and any calls, until  *)
(* the first barrier lets pages move.                                      *)
(*                                                                         *)
(* The loop of a call keeps three things that go round at different        *)
(* speeds: the host, the block size and the address.  After n blocks they  *)
(* are those of the reference placement for block n; what has been placed  *)
(* lies below the address and is not touched any more.                     *)
(***************************************************************************)
EXTENDS Migration, SequenceTheorems, WellFoundedInduction, TLAPS

-----------------------------------------------------------------------------
(***************************************************************************)
(* Numbers.                                                                *)
(***************************************************************************)
\* A set of numbers that is not empty has a least one.
LEMMA LeastNumber ==
    ASSUME NEW T, T \subseteq Nat, T # {}
    PROVE  \E x \in T : \A y \in T : x <= y
<1> DEFINE Less == {p \in Nat \X Nat : p[1] < p[2]}
<1>1. IsWellFoundedOn(Less, Nat)
  BY NatLessThanWellFounded DEF OpToRel
<1>2. PICK x \in T : \A y \in T : <<y, x>> \notin Less
  BY <1>1, WFMin
<1>3. ASSUME NEW y \in T PROVE x <= y
  <2>1. <<y, x>> \notin Less BY <1>2
  <2> QED BY <2>1
<1> QED BY <1>3

\* Multiplying keeps the order, and shows it.
LEMMA Scaling ==
    ASSUME NEW a \in Nat, NEW b \in Nat, NEW d \in Nat, d > 0
    PROVE  /\ a * d \in Nat /\ b * d \in Nat
           /\ a <= b <=> a * d <= b * d
           /\ a < b <=> a * d < b * d
<1>1. \A x, y \in Nat : x * y \in Nat OBVIOUS
<1>2. ASSUME NEW x \in Nat, NEW y \in Nat, x <= y PROVE x * d <= y * d
  <2> DEFINE c == y - x
  <2>1. c \in Nat /\ y = x + c BY <1>2
  <2>2. y * d = x * d + c * d BY <2>1
  <2>3. x * d \in Nat /\ y * d \in Nat /\ c * d \in Nat BY <2>1, <1>1
  <2> HIDE DEF c
  <2> QED BY <2>2, <2>3
<1>3. ASSUME NEW x \in Nat, NEW y \in Nat, x < y PROVE x * d < y * d
  <2>1. x + 1 \in Nat /\ x + 1 <= y BY <1>3
  <2>2. (x + 1) * d <= y * d BY <2>1, <1>2
  <2>3. (x + 1) * d = x * d + d OBVIOUS
  <2>4. x * d \in Nat /\ y * d \in Nat BY <1>1
  <2> QED BY <2>2, <2>3, <2>4
<1>4. a * d \in Nat /\ b * d \in Nat BY <1>1
<1>5. a <= b => a * d <= b * d BY <1>2
<1>6. b < a => b * d < a * d BY <1>3
<1>7. a < b => a * d < b * d BY <1>3
<1>8. b <= a => b * d <= a * d BY <1>2
<1> QED BY <1>4, <1>5, <1>6, <1>7, <1>8

\* Quotient and remainder are determined.
LEMMA Division ==
    ASSUME NEW d \in Nat, d > 0, NEW a \in Nat
    PROVE  /\ a \div d \in Nat /\ a % d \in 0 .. d - 1
           /\ a = (a \div d) * d + (a % d)
           /\ \A q \in Nat, r \in 0 .. d - 1 : a = q * d + r => a \div d = q /\ a % d = r
<1>1. a \div d \in Int /\ a % d \in 0 .. d - 1 /\ a = d * (a \div d) + (a % d)
  OBVIOUS
<1>2. PICK x \in Int, y \in 0 .. d - 1 : x = a \div d /\ y = a % d /\ a = d * x + y
  BY <1>1
<1>3. x \in Nat
  <2>1. ASSUME x < 0 PROVE FALSE
    <3>1. PICK z \in Nat : x = - (z + 1) BY <2>1, <1>2
    <3>2. d * x = - (d * z) - d /\ d * z \in Nat BY <3>1
    <3> QED BY <3>2, <1>2
  <2> QED BY <2>1, <1>2
<1>4. a = x * d + y
  <2>1. x * d = d * x BY <1>2
  <2> QED BY <2>1, <1>2
<1>5. ASSUME NEW q \in Nat, NEW r \in 0 .. d - 1, a = q * d + r PROVE q = x /\ r = y
  <2>1. x * d \in Nat /\ q * d \in Nat BY <1>3, Scaling
  <2>2. CASE q < x
    <3>1. q + 1 \in Nat /\ q + 1 <= x BY <2>2, <1>3
    <3>2. (q + 1) * d <= x * d BY <3>1, <1>3, Scaling
    <3>3. (q + 1) * d = q * d + d OBVIOUS
    <3> QED BY <3>2, <3>3, <2>1, <1>4, <1>5
  <2>3. CASE x < q
    <3>1. x + 1 \in Nat /\ x + 1 <= q BY <2>3, <1>3
    <3>2. (x + 1) * d <= q * d BY <3>1, <1>3, Scaling
    <3>3. (x + 1) * d = x * d + d BY <1>3
    <3> QED BY <3>2, <3>3, <2>1, <1>4, <1>5
  <2>4. CASE q = x BY <2>4, <2>1, <1>4, <1>5
  <2> QED BY <2>2, <2>3, <2>4, <1>3
<1>6. \A q \in Nat, r \in 0 .. d - 1 : a = q * d + r => x = q /\ y = r BY <1>5, Zenon
<1>7. a \div d \in Nat /\ a % d \in 0 .. d - 1 BY <1>2, <1>3
<1>8. a = (a \div d) * d + (a % d)
  <2>1. \A u, v \in Int : u * v = v * u OBVIOUS
  <2>2. d * (a \div d) = (a \div d) * d
    <3>1. d \in Int /\ a \div d \in Int BY <1>1
    <3> QED BY <2>1, <3>1, Zenon
  <2> QED BY <1>1, <2>2, Zenon
<1>9. \A q \in Nat, r \in 0 .. d - 1 : a = q * d + r => a \div d = q /\ a % d = r
  BY <1>2, <1>6, Zenon
<1> QED BY <1>7, <1>8, <1>9, Zenon

\* A number less than the divisor is its own remainder.
LEMMA Small ==
    ASSUME NEW d \in Nat, NEW a \in Nat, a < d
    PROVE  a % d = a /\ a \div d = 0
<1>1. d > 0 /\ a \in 0 .. d - 1 /\ 0 \in Nat OBVIOUS
<1>2. a = 0 * d + a OBVIOUS
<1> QED BY <1>1, <1>2, Division

\* The next number: the remainder goes on, or starts again and the quotient goes on.
LEMMA NextQuotient ==
    ASSUME NEW d \in Nat, d > 0, NEW a \in Nat
    PROVE  /\ (a + 1) % d = ((a % d) + 1) % d
           /\ (a + 1) \div d = IF (a + 1) % d = 0 THEN a \div d + 1 ELSE a \div d
<1>1. PICK q \in Nat, r \in 0 .. d - 1 : q = a \div d /\ r = a % d /\ a = q * d + r
  BY Division
<1>2. q * d \in Nat BY Scaling
<1>3. CASE r + 1 < d
  <2>1. r + 1 \in 0 .. d - 1 /\ a + 1 = q * d + (r + 1) BY <1>1, <1>2, <1>3
  <2>2. (a + 1) \div d = q /\ (a + 1) % d = r + 1 BY <2>1, Division
  <2>3. 0 * d = 0 /\ r + 1 = 0 * d + (r + 1) BY <1>1
  <2>4. (r + 1) % d = r + 1 BY <2>1, <2>3, Division
  <2> QED BY <1>1, <2>1, <2>2, <2>4
<1>4. CASE r + 1 = d
  <2>1. (q + 1) * d = q * d + d BY <1>1
  <2>2. 0 \in 0 .. d - 1 /\ a + 1 = (q + 1) * d + 0 BY <1>1, <1>2, <1>4, <2>1
  <2>3. (a + 1) \div d = q + 1 /\ (a + 1) % d = 0 BY <2>2, Division
  <2>4. r + 1 \in Nat /\ r + 1 = 1 * d + 0 BY <1>4
  <2>5. (r + 1) % d = 0 BY <2>2, <2>4, Division
  <2> QED BY <1>1, <2>3, <2>5
<1> QED BY <1>1, <1>3, <1>4

-----------------------------------------------------------------------------
(***************************************************************************)
(* Sizes and addresses.                                                    *)
(***************************************************************************)
\* Whole pages.
Multiple(x) == \E m \in Nat : x = m * Pagesize

\* ALIGN2PAGE: the least number of whole pages that hold the size.
LEMMA Aligning ==
    ASSUME NEW x \in Bytes
    PROVE  \E m \in Nat : /\ m >= 1 /\ Align(x) = m * Pagesize /\ x <= m * Pagesize
                         /\ \A k \in Nat : k < m => k * Pagesize < x
<1>1. PICK P \in Nat : P = Pagesize /\ P > 0 BY AllocAssumption
<1>2. x \in Nat /\ x > 0 BY DEF Bytes
<1>3. PICK q \in Nat, r \in 0 .. P - 1 : q = x \div P /\ r = x % P /\ x = q * P + r
  BY <1>1, <1>2, Division
<1>4. q * P \in Nat BY <1>1, Scaling
<1>5. (q + 1) * P = q * P + P BY <1>1, <1>3
<1>6. CASE r = 0
  <2>1. Align(x) = x /\ x = q * P BY <1>1, <1>3, <1>4, <1>6 DEF Align
  <2>2. q # 0
    <3>1. 0 * P = 0 OBVIOUS
    <3> QED BY <3>1, <2>1, <1>2
  <2>3. \A k \in Nat : k < q => k * P < q * P BY <1>1, Scaling
  <2>4. q \in Nat /\ q >= 1 /\ x <= x BY <1>2, <1>3, <2>2
  <2>5. Align(x) = q * Pagesize /\ x = q * Pagesize BY <1>1, <2>1, Zenon
  <2>6. \A k \in Nat : k < q => k * Pagesize < x BY <1>1, <2>1, <2>3, Zenon
  <2> QED BY <2>4, <2>5, <2>6, Zenon
<1>7. CASE r # 0
  <2>1. Align(x) = (q + 1) * P
    <3>1. Align(x) = (x \div Pagesize + 1) * Pagesize BY <1>1, <1>3, <1>7 DEF Align
    <3> QED BY <3>1, <1>1, <1>3
  <2>2. q + 1 \in Nat /\ q + 1 >= 1 /\ x <= (q + 1) * P BY <1>3, <1>4, <1>5
  <2>3. ASSUME NEW k \in Nat, k < q + 1 PROVE k * P < x
    <3>1. k <= q BY <2>3
    <3>2. k * P \in Nat /\ k * P <= q * P BY <3>1, <1>1, Scaling
    <3> QED BY <3>2, <1>3, <1>4, <1>7
  <2> QED BY <1>1, <2>1, <2>2, <2>3
<1> QED BY <1>6, <1>7

\* What is reached after each number of steps.
SumsUp(f, S) == f[0] = 0 /\ \A k \in Nat : f[k + 1] = f[k] + S[k]

\* For each steps there is one such function.
LEMMA SumsExist ==
    ASSUME NEW S \in [Nat -> Nat]
    PROVE  /\ \E f \in [Nat -> Nat] : SumsUp(f, S)
           /\ \A f, g : SumsUp(f, S) /\ SumsUp(g, S) => \A k \in Nat : f[k] = g[k]
<1> DEFINE Sums(n, f) == f[0] = 0 /\ \A k \in Nat : k < n => f[k + 1] = f[k] + S[k]
           Upto(n) == {f \in [Nat -> Nat] : Sums(n, f)}
<1>1. ASSUME NEW n \in Nat, NEW m \in Nat, NEW f, NEW g, Sums(n, f), Sums(m, g),
             NEW k \in Nat, k <= n, k <= m
      PROVE  f[k] = g[k]
  <2> DEFINE Wrong == {i \in Nat : i <= n /\ i <= m /\ f[i] # g[i]}
  <2> SUFFICES ASSUME Wrong # {} PROVE FALSE
    BY <1>1
  <2>1. PICK x \in Wrong : \A y \in Wrong : x <= y BY LeastNumber
  <2>2. x # 0 BY <1>1, <2>1
  <2>3. PICK y \in Nat : x = y + 1
    <3>1. x - 1 \in Nat /\ x = (x - 1) + 1 BY <2>1, <2>2
    <3> QED BY <3>1
  <2>4. f[y] = g[y] BY <2>1, <2>3
  <2>5. y < n /\ y < m BY <2>1, <2>3
  <2>6. f[y + 1] = f[y] + S[y] /\ g[y + 1] = g[y] + S[y] BY <1>1, <2>5
  <2> QED BY <2>1, <2>3, <2>4, <2>6
<1>2. \A n \in Nat : Upto(n) # {}
  <2> DEFINE Wrong == {n \in Nat : Upto(n) = {}}
  <2> SUFFICES ASSUME Wrong # {} PROVE FALSE
    OBVIOUS
  <2>1. PICK x \in Wrong : \A y \in Wrong : x <= y
    <3>1. Wrong \subseteq Nat OBVIOUS
    <3> HIDE DEF Wrong
    <3> QED BY <3>1, LeastNumber
  <2>2. x # 0
    <3>1. [i \in Nat |-> 0] \in Upto(0) OBVIOUS
    <3> QED BY <3>1, <2>1
  <2>3. PICK y \in Nat : x = y + 1
    <3>1. x - 1 \in Nat /\ x = (x - 1) + 1 BY <2>1, <2>2
    <3> QED BY <3>1
  <2>4. PICK f \in [Nat -> Nat] : Sums(y, f)
    <3>1. ~ (x <= y) BY <2>3
    <3>2. y \notin Wrong BY <2>1, <3>1, Zenon
    <3>3. Upto(y) # {} BY <3>2
    <3> QED BY <3>3
  <2> DEFINE g == [i \in Nat |-> IF i = y + 1 THEN f[y] + S[y] ELSE f[i]]
  <2>5. g \in [Nat -> Nat]
    <3>1. f[y] + S[y] \in Nat OBVIOUS
    <3> QED BY <3>1
  <2>6. Sums(y + 1, g)
    <3>1. g[0] = 0 BY <2>4
    <3>2. ASSUME NEW k \in Nat, k < y + 1 PROVE g[k + 1] = g[k] + S[k]
      <4>1. g[k] = f[k] BY <3>2
      <4>2. CASE k = y BY <4>1, <4>2
      <4>3. CASE k # y
        <5>1. k < y /\ k + 1 # y + 1 BY <3>2, <4>3
        <5> QED BY <4>1, <5>1, <2>4
      <4> QED BY <4>2, <4>3
    <3> QED BY <3>1, <3>2
  <2> QED BY <2>1, <2>3, <2>5, <2>6
<1> DEFINE first(n) == CHOOSE f \in [Nat -> Nat] : Sums(n, f)
           whole == [n \in Nat |-> first(n)[n]]
<1>3. \A n \in Nat : first(n) \in [Nat -> Nat] /\ Sums(n, first(n))
  <2> TAKE n \in Nat
  <2>1. \E g \in [Nat -> Nat] : Sums(n, g) BY <1>2
  <2> QED BY <2>1
<1> HIDE DEF first, Sums
<1>4. whole \in [Nat -> Nat] BY <1>3
<1>5. whole[0] = 0
  <2>1. 0 \in Nat /\ whole[0] = first(0)[0] OBVIOUS
  <2> QED BY <2>1, <1>3 DEF Sums
<1>6. ASSUME NEW k \in Nat PROVE whole[k + 1] = whole[k] + S[k]
  <2>1. k + 1 \in Nat /\ k <= k + 1 /\ k < k + 1 /\ k <= k OBVIOUS
  <2>2. whole[k] = first(k + 1)[k]
    <3>1. Sums(k, first(k)) /\ Sums(k + 1, first(k + 1)) BY <1>3, <2>1
    <3>2. first(k)[k] = first(k + 1)[k] BY <3>1, <2>1, <1>1
    <3> QED BY <3>2
  <2>3. whole[k + 1] = first(k + 1)[k + 1] BY <2>1
  <2>4. first(k + 1)[k + 1] = first(k + 1)[k] + S[k]
    <3>1. Sums(k + 1, first(k + 1)) BY <1>3, <2>1
    <3> QED BY <3>1, <2>1 DEF Sums
  <2> QED BY <2>2, <2>3, <2>4
<1>7. ASSUME NEW g, NEW h, SumsUp(g, S), SumsUp(h, S), NEW k \in Nat
      PROVE  g[k] = h[k]
  <2>1. Sums(k, g) /\ Sums(k, h) BY <1>7 DEF Sums, SumsUp
  <2>2. k <= k OBVIOUS
  <2> QED BY <2>1, <2>2, <1>1
<1> HIDE DEF whole
<1>8. \E f \in [Nat -> Nat] : SumsUp(f, S)
  BY <1>4, <1>5, <1>6 DEF SumsUp
<1>9. \A f, g : SumsUp(f, S) /\ SumsUp(g, S) => \A k \in Nat : f[k] = g[k]
  BY <1>7
<1> QED BY <1>8, <1>9

\* The size of each block, and where each begins, counted from the first.
Sizes(blocks, start) ==
    [k \in Nat |-> Align(blocks[(((start + k) \div HostC) % Len(blocks)) + 1])]
Begins(blocks, start) == CHOOSE f \in [Nat -> Nat] : SumsUp(f, Sizes(blocks, start))

\* Blocks are whole pages, one at least.
LEMMA BlockSizes ==
    ASSUME NEW blocks \in Blocks, NEW start \in Host
    PROVE  /\ Sizes(blocks, start) \in [Nat -> Nat]
           /\ \A k \in Nat : \E m \in Nat : m >= 1 /\ Sizes(blocks, start)[k] = m * Pagesize
<1>1. HostC \in Nat /\ HostC > 0 /\ Pagesize \in Nat /\ Pagesize > 0 /\ start \in Nat
  BY AllocAssumption DEF Host
<1>2. Len(blocks) \in Nat /\ Len(blocks) > 0 /\ \A i \in 1 .. Len(blocks) : blocks[i] \in Bytes
  <2>1. blocks \in Seq(Bytes) /\ blocks # <<>> BY DEF Blocks
  <2> QED BY <2>1, LenProperties, EmptySeq, ElementOfSeq
<1>3. ASSUME NEW k \in Nat
      PROVE  \E m \in Nat : m >= 1 /\ Sizes(blocks, start)[k] = m * Pagesize
                            /\ Sizes(blocks, start)[k] \in Nat
  <2>1. PICK q \in Nat : q = (start + k) \div HostC
    <3>1. start + k \in Nat BY <1>1
    <3> QED BY <3>1, <1>1, Division
  <2>2. PICK b \in 0 .. Len(blocks) - 1 : b = q % Len(blocks)
    BY <1>2, Division
  <2>3. blocks[b + 1] \in Bytes
    <3>1. b + 1 \in 1 .. Len(blocks) BY <1>2
    <3> QED BY <3>1, <1>2
  <2>4. Sizes(blocks, start)[k] = Align(blocks[b + 1]) BY <2>1, <2>2 DEF Sizes
  <2>5. PICK m \in Nat : m >= 1 /\ Align(blocks[b + 1]) = m * Pagesize BY <2>3, Aligning
  <2>6. m * Pagesize \in Nat BY <1>1, Scaling
  <2> QED BY <2>4, <2>5, <2>6
<1>4. Sizes(blocks, start) \in [Nat -> Nat]
  <2>1. \A k \in Nat : Sizes(blocks, start)[k] \in Nat BY <1>3
  <2>2. Sizes(blocks, start) = [k \in Nat |-> Sizes(blocks, start)[k]] BY DEF Sizes
  <2> QED BY <2>1, <2>2
<1> QED BY <1>3, <1>4

\* Blocks begin at whole pages, one behind the other.
LEMMA BlockBegins ==
    ASSUME NEW blocks \in Blocks, NEW start \in Host
    PROVE  /\ Begins(blocks, start) \in [Nat -> Nat]
           /\ SumsUp(Begins(blocks, start), Sizes(blocks, start))
           /\ \A k \in Nat : Multiple(Begins(blocks, start)[k])
           /\ \A k \in Nat : k * Pagesize <= Begins(blocks, start)[k]
           /\ \A j, k \in Nat : j <= k => Begins(blocks, start)[j] <= Begins(blocks, start)[k]
<1>1. PICK S : S = Sizes(blocks, start) BY Zenon
<1>2. S \in [Nat -> Nat] /\ \A k \in Nat : \E m \in Nat : m >= 1 /\ S[k] = m * Pagesize
  BY <1>1, BlockSizes
<1>3. PICK f : f = Begins(blocks, start) BY Zenon
<1>4. f \in [Nat -> Nat] /\ SumsUp(f, S)
  <2>1. \E g \in [Nat -> Nat] : SumsUp(g, S) BY <1>2, SumsExist
  <2>2. f = CHOOSE g \in [Nat -> Nat] : SumsUp(g, S) BY <1>1, <1>3, Zenon DEF Begins
  <2> QED BY <2>1, <2>2
<1>5. f[0] = 0 /\ \A k \in Nat : f[k + 1] = f[k] + S[k] BY <1>4 DEF SumsUp
<1>6. PICK P \in Nat : P = Pagesize /\ P > 0 BY AllocAssumption
<1>7. \A k \in Nat : S[k] >= P /\ \E m \in Nat : S[k] = m * P
  <2> TAKE k \in Nat
  <2>1. PICK m \in Nat : m >= 1 /\ S[k] = m * P BY <1>2, <1>6
  <2>2. 1 * P <= m * P BY <2>1, <1>6, Scaling
  <2>3. 1 * P = P BY <1>6
  <2> QED BY <2>1, <2>2, <2>3
<1>8. \A k \in Nat : k * P <= f[k] /\ \E m \in Nat : f[k] = m * P
  <2> DEFINE Wrong == {k \in Nat : ~(k * P <= f[k] /\ \E m \in Nat : f[k] = m * P)}
  <2> SUFFICES ASSUME Wrong # {} PROVE FALSE
    OBVIOUS
  <2>1. PICK x \in Wrong : \A y \in Wrong : x <= y
    <3>1. Wrong \subseteq Nat OBVIOUS
    <3> HIDE DEF Wrong
    <3> QED BY <3>1, LeastNumber
  <2>2. x # 0
    <3>1. 0 * P = 0 /\ 0 \in Nat BY <1>6
    <3>2. 0 * P <= f[0] /\ f[0] = 0 * P BY <3>1, <1>5
    <3>3. 0 \notin Wrong BY <3>1, <3>2
    <3> QED BY <3>3, <2>1
  <2>3. PICK y \in Nat : x = y + 1
    <3>1. x - 1 \in Nat /\ x = (x - 1) + 1 BY <2>1, <2>2
    <3> QED BY <3>1
  <2>4. y * P <= f[y] /\ \E m \in Nat : f[y] = m * P
    <3>1. ~ (x <= y) BY <2>3
    <3>2. y \notin Wrong
      <4> HIDE DEF Wrong
      <4> QED BY <2>1, <3>1
    <3> QED BY <3>2
  <2>5. PICK m \in Nat, n \in Nat : f[y] = m * P /\ S[y] = n * P BY <2>4, <1>7
  <2>6. (y + 1) * P = y * P + P /\ (m + n) * P = m * P + n * P BY <1>6
  <2>7. y * P \in Nat /\ f[y] \in Nat /\ S[y] \in Nat /\ S[y] >= P
    BY <1>2, <1>4, <1>6, <1>7, Scaling
  <2>8. f[y + 1] = f[y] + S[y] BY <1>5
  <2>9. (y + 1) * P <= f[y + 1] BY <2>4, <2>6, <2>7, <2>8
  <2>10. f[y + 1] = (m + n) * P /\ m + n \in Nat BY <2>5, <2>6, <2>8
  <2> QED BY <2>1, <2>3, <2>9, <2>10
<1>9. \A j, k \in Nat : j <= k => f[j] <= f[k]
  <2> SUFFICES ASSUME NEW j \in Nat, NEW n \in Nat, j <= n, ~ (f[j] <= f[n]) PROVE FALSE
    OBVIOUS
  <2> DEFINE Wrong == {k \in Nat : j <= k /\ ~ (f[j] <= f[k])}
  <2>1. PICK x \in Wrong : \A y \in Wrong : x <= y
    <3>1. Wrong \subseteq Nat /\ Wrong # {} OBVIOUS
    <3> HIDE DEF Wrong
    <3> QED BY <3>1, LeastNumber
  <2>2. f[j] \in Nat /\ f[j] <= f[j] BY <1>4
  <2>3. PICK y \in Nat : x = y + 1 /\ j <= y
    <3>1. x # j BY <2>1, <2>2
    <3>2. x - 1 \in Nat /\ x = (x - 1) + 1 /\ j <= x - 1 BY <2>1, <3>1
    <3> QED BY <3>2
  <2>4. f[j] <= f[y]
    <3>1. ~ (x <= y) BY <2>3
    <3>2. y \notin Wrong
      <4> HIDE DEF Wrong
      <4> QED BY <2>1, <3>1
    <3> QED BY <2>3, <3>2
  <2>5. f[y + 1] = f[y] + S[y] /\ f[y] \in Nat /\ S[y] \in Nat BY <1>2, <1>4, <1>5
  <2> QED BY <2>1, <2>2, <2>3, <2>4, <2>5
<1> QED BY <1>1, <1>3, <1>4, <1>6, <1>8, <1>9 DEF Multiple

\* The reference placement counts in the same way.
LEMMA OffsetBegins ==
    ASSUME NEW d, d.blocks \in Blocks, d.start \in Host
    PROVE  \A k \in Nat : Offset(d)[k] = Begins(d.blocks, d.start)[k]
<1>1. PICK S, f : S = Sizes(d.blocks, d.start) /\ f = Begins(d.blocks, d.start) BY Zenon
<1>2. S \in [Nat -> Nat] /\ f \in [Nat -> Nat] /\ SumsUp(f, S)
  BY <1>1, BlockSizes, BlockBegins
<1>3. \A k \in Nat : S[k] = SizeOf(d, k) BY <1>1 DEF Sizes, SizeOf
<1> DEFINE Next0(o) == [k \in Nat |-> IF k = 0 THEN 0 ELSE o[k - 1] + SizeOf(d, k - 1)]
<1>4. f = Next0(f)
  <2>1. ASSUME NEW k \in Nat PROVE f[k] = IF k = 0 THEN 0 ELSE f[k - 1] + SizeOf(d, k - 1)
    <3>1. CASE k = 0 BY <3>1, <1>2 DEF SumsUp
    <3>2. CASE k # 0
      <4>1. PICK j \in Nat : k = j + 1 /\ j = k - 1
        <5>1. k - 1 \in Nat /\ k = (k - 1) + 1 BY <3>2
        <5> QED BY <5>1
      <4>2. f[j + 1] = f[j] + S[j] BY <1>2 DEF SumsUp
      <4> QED BY <3>2, <4>1, <4>2, <1>3
    <3> QED BY <3>1, <3>2
  <2> QED BY <2>1, <1>2
<1>5. Offset(d) = CHOOSE o : o = Next0(o) BY DEF Offset
<1>6. Offset(d) = Next0(Offset(d))
  <2>1. \E o : o = Next0(o) BY <1>4, Zenon
  <2> HIDE DEF Next0
  <2> QED BY <2>1, <1>5, Zenon
<1>7. SumsUp(Offset(d), S)
  <2>1. Offset(d)[0] = 0 BY <1>6
  <2>2. ASSUME NEW k \in Nat PROVE Offset(d)[k + 1] = Offset(d)[k] + S[k]
    <3>1. k + 1 \in Nat /\ k + 1 # 0 /\ (k + 1) - 1 = k OBVIOUS
    <3>2. Offset(d)[k + 1] = Offset(d)[(k + 1) - 1] + SizeOf(d, (k + 1) - 1) BY <1>6, <3>1
    <3> QED BY <3>1, <3>2, <1>3
  <2> QED BY <2>1, <2>2 DEF SumsUp
<1> QED BY <1>1, <1>2, <1>7, SumsExist

-----------------------------------------------------------------------------
(***************************************************************************)
(* The invariant.  A host's part of it says nothing of the other hosts,    *)
(* but for the barriers they have passed.                                  *)
(***************************************************************************)
Local ==
    [allocsize : Int, homepid : Host, blocki : Nat, op : {"alloc4", "array"},
     blocks : Blocks, origin : Nat, start : Host, total : Bytes]
Finished ==
    [op : {"alloc4", "array"}, total : Bytes, blocks : Blocks, start : Host, origin : Nat,
     end : Nat]

Total(f) == f = [h \in Host |-> f[h]]

Types ==
    /\ prog \in [Host -> Seq(AllocCall \cup Phase)]
    /\ globaladdr \in [Host -> Nat] /\ starthost \in [Host -> Host \cup {-1}]
    /\ draws \in [Host -> Nat \cup {-1}] /\ handled \in [Host -> Nat]
    /\ done \in [Host -> Seq(Finished)]
    /\ Total(pc) /\ Total(loop) /\ Total(page)

\* A host in a call or at a barrier has that still to do.
Busy == \A h \in Host : pc[h] \in {"loop", "barrier", "wait"} => prog[h] # <<>>

\* No host has handled the grant of a barrier.
Early(barriers) == \A h \in Host : barriers[h] = 0

\* Page p is one of block k of the call d.
Within(d, k, p) ==
    /\ d.origin + Begins(d.blocks, d.start)[k] <= p * Pagesize
    /\ p * Pagesize < d.origin + Begins(d.blocks, d.start)[k + 1]

\* The first n blocks of d are where they should be.
Placed(d, n, pages) ==
    \A k \in Nat : k < n =>
        \A p \in PageNo : Within(d, k, p) => pages[p].homepid = (d.start + k) % HostC

\* The loop has mapped n blocks: host, block size and address are those of block n.
Reached(l, addr, n) ==
    /\ addr = l.origin + Begins(l.blocks, l.start)[n]
    /\ l.homepid = (l.start + n) % HostC
    /\ l.blocki = ((l.start + n) \div HostC) % Len(l.blocks)
    /\ l.allocsize = Align(l.total) - Begins(l.blocks, l.start)[n]
    /\ n > 0 => Begins(l.blocks, l.start)[n - 1] < l.total

LoopOk(l, addr, pages, barriers) ==
    /\ l \in Local /\ l.blocki < Len(l.blocks)
    /\ l.origin + l.total <= Maxmempages * Pagesize
    /\ l.op = "alloc4" =>
          \E n \in Nat : Reached(l, addr, n) /\ (Early(barriers) => Placed(l, n, pages))

Complete(d, n) ==
    /\ d.end = d.origin + Begins(d.blocks, d.start)[n]
    /\ Begins(d.blocks, d.start)[n - 1] < d.total
    /\ d.total <= Begins(d.blocks, d.start)[n]

DoneOk(d, addr, pages, barriers) ==
    /\ d.end <= addr
    /\ d.op = "alloc4" =>
          \E n \in 1 .. Maxmempages :
              Complete(d, n) /\ (Early(barriers) => Placed(d, n, pages))

HostOk(state, l, addr, calls, pages, barriers) ==
    /\ Multiple(addr)
    /\ state = "loop" => LoopOk(l, addr, pages, barriers)
    /\ \A i \in 1 .. Len(calls) : DoneOk(calls[i], addr, pages, barriers)

Inv ==
    /\ Types /\ Busy
    /\ \A h \in Host :
          HostOk(pc[h], loop[h], globaladdr[h], done[h], page[h], handled)

-----------------------------------------------------------------------------
\* What is said of the pages is not needed after the first barrier.
LEMMA Later ==
    ASSUME NEW state, NEW l, NEW addr, NEW calls, NEW pages, NEW barriers,
           HostOk(state, l, addr, calls, pages, barriers),
           NEW state2, NEW pages2, NEW barriers2,
           state2 = "loop" => state = "loop",
           Early(barriers2) => Early(barriers) /\ pages2 = pages
    PROVE  HostOk(state2, l, addr, calls, pages2, barriers2)
<1>1. ASSUME NEW d, NEW n, Early(barriers) => Placed(d, n, pages)
      PROVE  Early(barriers2) => Placed(d, n, pages2)
  BY <1>1, Zenon
<1>2. LoopOk(l, addr, pages, barriers) => LoopOk(l, addr, pages2, barriers2)
  <2>1. ASSUME NEW n \in Nat, Reached(l, addr, n) /\ (Early(barriers) => Placed(l, n, pages))
        PROVE  Reached(l, addr, n) /\ (Early(barriers2) => Placed(l, n, pages2))
    BY <2>1, <1>1, Zenon
  <2> QED BY <2>1, Zenon DEF LoopOk
<1>3. ASSUME NEW d, DoneOk(d, addr, pages, barriers) PROVE DoneOk(d, addr, pages2, barriers2)
  <2>1. ASSUME NEW n \in 1 .. Maxmempages,
               Complete(d, n) /\ (Early(barriers) => Placed(d, n, pages))
        PROVE  Complete(d, n) /\ (Early(barriers2) => Placed(d, n, pages2))
    BY <2>1, <1>1, Zenon
  <2> QED BY <1>3, <2>1, Zenon DEF DoneOk
<1> QED BY <1>2, <1>3, Zenon DEF HostOk

\* A call begins with block 0.
LEMMA CallBegins ==
    ASSUME NEW l \in Local, NEW pages, NEW barriers,
           l.blocki = 0, l.homepid = l.start, l.allocsize = Align(l.total),
           l.origin + l.total <= Maxmempages * Pagesize
    PROVE  LoopOk(l, l.origin, pages, barriers)
<1>1. HostC \in Nat /\ HostC > 0 /\ l.start \in Nat /\ l.start < HostC /\ l.origin \in Nat
      /\ l.start \in Host /\ l.blocks \in Blocks /\ l.total \in Bytes
  BY AllocAssumption DEF Host, Local
<1>2. Len(l.blocks) \in Nat /\ Len(l.blocks) > 0
  BY <1>1, LenProperties, EmptySeq DEF Blocks
<1>3. Begins(l.blocks, l.start)[0] = 0
  BY <1>1, BlockBegins DEF SumsUp
<1>4. l.start % HostC = l.start /\ l.start \div HostC = 0 /\ 0 % Len(l.blocks) = 0
  <2>1. l.start % HostC = l.start /\ l.start \div HostC = 0 BY <1>1, Small, Zenon
  <2>2. 0 \in Nat /\ 0 < Len(l.blocks) BY <1>2
  <2>3. 0 % Len(l.blocks) = 0 BY <2>2, <1>2, Small, Zenon
  <2> QED BY <2>1, <2>3
<1>6. Align(l.total) \in Int
  <2>1. PICK m \in Nat : Align(l.total) = m * Pagesize BY <1>1, Aligning
  <2> QED BY <2>1, AllocAssumption, Scaling
<1>7. Reached(l, l.origin, 0)
  <2>1. l.start + 0 = l.start /\ l.origin = l.origin + 0 /\ ~ (0 > 0) BY <1>1
  <2>2. l.allocsize = Align(l.total) - 0 BY <1>6
  <2>3. ((l.start + 0) \div HostC) % Len(l.blocks) = 0 BY <1>4, <2>1, Zenon
  <2>4. (l.start + 0) % HostC = l.start BY <1>4, <2>1, Zenon
  <2>5. l.origin = l.origin + Begins(l.blocks, l.start)[0] BY <1>3, <2>1, Zenon
  <2>6. l.allocsize = Align(l.total) - Begins(l.blocks, l.start)[0] BY <1>3, <2>2, Zenon
  <2> QED BY <2>1, <2>3, <2>4, <2>5, <2>6, Zenon DEF Reached
<1>8. Placed(l, 0, pages) BY DEF Placed
<1>9. 0 \in Nat /\ l.blocki < Len(l.blocks) BY <1>2
<1> QED BY <1>7, <1>8, <1>9, Zenon DEF LoopOk

\* Whole pages reach an aligned size exactly when they reach the size.
LEMMA Enough ==
    ASSUME NEW total \in Bytes, NEW x \in Nat, Multiple(x)
    PROVE  /\ Align(total) \in Nat
           /\ x < Align(total) => x < total
           /\ Align(total) <= x => total <= x
<1>1. PICK P \in Nat : P = Pagesize /\ P > 0 BY AllocAssumption
<1>2. PICK m \in Nat : /\ m >= 1 /\ Align(total) = m * Pagesize /\ total <= m * Pagesize
                       /\ \A k \in Nat : k < m => k * Pagesize < total
  BY Aligning
<1>3. PICK j \in Nat : x = j * Pagesize BY DEF Multiple
<1>4. m * P \in Nat /\ j * P \in Nat /\ (j < m <=> j * P < m * P) BY <1>1, Scaling
<1>5. total \in Nat BY DEF Bytes
<1> QED BY <1>1, <1>2, <1>3, <1>4, <1>5

\* The pages of a block.
LEMMA BlockPages ==
    ASSUME NEW addr \in Nat, NEW size \in Nat, Multiple(addr), Multiple(size), NEW p \in Nat
    PROVE  /\ Multiple(addr + size)
           /\ p \in addr \div Pagesize .. (addr + size) \div Pagesize - 1
                 <=> addr <= p * Pagesize /\ p * Pagesize < addr + size
<1>1. PICK P \in Nat : P = Pagesize /\ P > 0 BY AllocAssumption
<1>2. PICK m \in Nat, n \in Nat : addr = m * P /\ size = n * P BY <1>1 DEF Multiple
<1>3. addr + size = (m + n) * P /\ m + n \in Nat BY <1>1, <1>2
<1>4. ASSUME NEW k \in Nat PROVE (k * P) \div P = k
  <2>1. 0 \in 0 .. P - 1 /\ k * P \in Nat BY <1>1
  <2>2. k * P = k * P + 0 BY <2>1
  <2> QED BY <1>1, <2>1, <2>2, Division
<1>5. addr \div P = m /\ (addr + size) \div P = m + n BY <1>2, <1>3, <1>4
<1>6. (m <= p <=> m * P <= p * P) /\ (p < m + n <=> p * P < (m + n) * P)
  BY <1>1, <1>3, Scaling
<1>7. p \in m .. (m + n) - 1 <=> m <= p /\ p < m + n OBVIOUS
<1>8. Multiple(addr + size) BY <1>1, <1>3 DEF Multiple
<1> QED BY <1>1, <1>2, <1>3, <1>5, <1>6, <1>7, <1>8

\* The fields of a call.
LEMMA CallFields ==
    ASSUME NEW l \in Local
    PROVE  /\ HostC \in Nat /\ HostC > 0 /\ Pagesize \in Nat /\ Pagesize > 0
           /\ Maxmempages \in Nat
           /\ l.start \in Nat /\ l.start \in Host /\ l.origin \in Nat /\ l.allocsize \in Int
           /\ l.total \in Nat /\ l.total \in Bytes /\ l.total > 0
           /\ l.blocki \in Nat /\ l.homepid \in Host
           /\ l.blocks \in Blocks /\ Len(l.blocks) \in Nat /\ Len(l.blocks) > 0
           /\ \A i \in 1 .. Len(l.blocks) : l.blocks[i] \in Bytes
<1>1. /\ l.start \in Host /\ l.origin \in Nat /\ l.allocsize \in Int /\ l.total \in Bytes
      /\ l.blocki \in Nat /\ l.homepid \in Host /\ l.blocks \in Blocks
  BY DEF Local
<1>2. l.blocks \in Seq(Bytes) /\ l.blocks # <<>> BY <1>1 DEF Blocks
<1>3. /\ Len(l.blocks) \in Nat /\ Len(l.blocks) > 0
      /\ \A i \in 1 .. Len(l.blocks) : l.blocks[i] \in Bytes
  BY <1>2, LenProperties, EmptySeq, ElementOfSeq
<1> QED BY <1>1, <1>3, AllocAssumption DEF Bytes, Host

\* A call returns with the first block that reaches the total.
LEMMA CallEnds ==
    ASSUME NEW l, NEW addr \in Nat, NEW pages, NEW barriers,
           LoopOk(l, addr, pages, barriers), l.allocsize <= 0,
           NEW d, d = [op |-> l.op, total |-> l.total, blocks |-> l.blocks,
                       start |-> l.start, origin |-> l.origin, end |-> addr]
    PROVE  d \in Finished /\ DoneOk(d, addr, pages, barriers)
<1>1. l \in Local /\ l.origin + l.total <= Maxmempages * Pagesize BY DEF LoopOk
<1>2. d \in Finished BY <1>1 DEF Local, Finished
<1>3. /\ d.op = l.op /\ d.total = l.total /\ d.blocks = l.blocks /\ d.start = l.start
      /\ d.origin = l.origin /\ d.end = addr
  OBVIOUS
<1>4. d.end <= addr BY <1>3
<1>5. CASE d.op = "alloc4"
  <2>1. PICK n \in Nat : Reached(l, addr, n) /\ (Early(barriers) => Placed(l, n, pages))
    BY <1>3, <1>5, Zenon DEF LoopOk
  <2>2. PICK f \in [Nat -> Nat] :
           /\ f = Begins(l.blocks, l.start) /\ f[0] = 0
           /\ \A k \in Nat : Multiple(f[k]) /\ k * Pagesize <= f[k]
    BY <1>1, CallFields, BlockBegins DEF SumsUp
  <2>3. addr = l.origin + f[n] /\ l.allocsize = Align(l.total) - f[n]
        /\ (n > 0 => f[n - 1] < l.total)
    BY <2>1, <2>2, Zenon DEF Reached
  <2>4. l.total <= f[n]
    <3>1. Align(l.total) \in Nat /\ (Align(l.total) <= f[n] => l.total <= f[n])
      BY <1>1, <2>2, CallFields, Enough
    <3> QED BY <2>2, <2>3, <3>1
  <2>5. l.total \in Nat /\ l.total > 0 /\ l.origin \in Nat /\ Pagesize \in Nat /\ Pagesize > 0
        /\ Maxmempages \in Nat
    BY <1>1, CallFields
  <2>6. n > 0 BY <2>2, <2>4, <2>5
  <2>7. n <= Maxmempages
    <3>1. PICK k \in Nat : k = n - 1 BY <2>6
    <3>2. PICK P \in Nat, M \in Nat : P = Pagesize /\ M = Maxmempages /\ P > 0 BY <2>5
    <3>3. k * P \in Nat /\ M * P \in Nat /\ (k < M <=> k * P < M * P) BY <3>2, Scaling
    <3>4. k * P <= f[k] /\ f[k] < l.total /\ f[k] \in Nat BY <2>2, <2>3, <2>6, <3>1, <3>2
    <3>5. l.origin + l.total <= M * P BY <1>1, <3>2
    <3> QED BY <2>5, <3>1, <3>2, <3>3, <3>4, <3>5
  <2>8. Complete(d, n) BY <1>3, <2>2, <2>3, <2>4, <2>6 DEF Complete
  <2>9. Early(barriers) => Placed(d, n, pages)
    BY <1>3, <2>1, Zenon DEF Placed, Within
  <2>10. n \in 1 .. Maxmempages BY <2>6, <2>7
  <2> QED BY <1>2, <1>3, <1>4, <2>8, <2>9, <2>10, Zenon DEF DoneOk
<1>6. CASE d.op # "alloc4" BY <1>2, <1>3, <1>4, <1>6 DEF DoneOk
<1> QED BY <1>2, <1>5, <1>6

\* One iteration: the loop is at the next block.
LEMMA NextBlock ==
    ASSUME NEW l \in Local, l.op = "alloc4",
           NEW addr, NEW n \in Nat, Reached(l, addr, n), l.allocsize > 0,
           NEW size, size = Align(l.blocks[l.blocki + 1]),
           NEW next, next = (l.homepid + 1) % HostC,
           NEW k, k.start = l.start, k.blocks = l.blocks, k.origin = l.origin,
           k.total = l.total, k.homepid = next, k.allocsize = l.allocsize - size,
           k.blocki = NextBlocki(l, next, size)
    PROVE  /\ Reached(k, addr + size, n + 1)
           /\ size = Begins(l.blocks, l.start)[n + 1] - Begins(l.blocks, l.start)[n]
<1>1. PICK f \in [Nat -> Nat] :
         /\ f = Begins(l.blocks, l.start)
         /\ \A i \in Nat : f[i + 1] = f[i] + Sizes(l.blocks, l.start)[i]
         /\ \A i \in Nat : Multiple(f[i])
  BY CallFields, BlockBegins DEF SumsUp
<1>2. PICK c \in Nat, L \in Nat : c = HostC /\ c > 0 /\ L = Len(l.blocks) /\ L > 0
  BY CallFields
<1>3. PICK a \in Nat : a = l.start + n
  <2>1. l.start \in Nat BY CallFields
  <2> QED BY <2>1
<1>4. PICK q \in Nat : q = a \div c BY <1>2, Division
<1>5. addr = l.origin + f[n] /\ l.allocsize = Align(l.total) - f[n]
  BY <1>1, Zenon DEF Reached
<1>6. l.homepid = a % c /\ l.blocki = q % L
  BY <1>2, <1>3, <1>4, Zenon DEF Reached
<1>7. (a + 1) % c = ((a % c) + 1) % c /\ (q + 1) % L = ((q % L) + 1) % L
      /\ (a + 1) \div c = IF (a + 1) % c = 0 THEN q + 1 ELSE q
  BY <1>2, <1>4, NextQuotient
<1>8. next = (a + 1) % c BY <1>2, <1>6, <1>7, Zenon
<1>9. NextBlocki(l, next, size) = ((a + 1) \div c) % L
  <2>1. NextBlocki(l, next, size) = IF next = 0 THEN (l.blocki + 1) % L ELSE l.blocki
    BY <1>2 DEF NextBlocki
  <2>2. CASE next = 0
    <3>1. NextBlocki(l, next, size) = ((q % L) + 1) % L BY <1>6, <2>1, <2>2
    <3>2. (a + 1) \div c = q + 1 BY <1>7, <1>8, <2>2
    <3> QED BY <1>7, <3>1, <3>2, Zenon
  <2>3. CASE next # 0
    <3>1. NextBlocki(l, next, size) = q % L BY <1>6, <2>1, <2>3
    <3>2. (a + 1) \div c = q BY <1>7, <1>8, <2>3
    <3> QED BY <3>1, <3>2, Zenon
  <2> QED BY <2>2, <2>3
<1>10. size = Sizes(l.blocks, l.start)[n]
  <2>1. Sizes(l.blocks, l.start)[n]
           = Align(l.blocks[(((l.start + n) \div HostC) % Len(l.blocks)) + 1])
    BY DEF Sizes
  <2>2. ((l.start + n) \div HostC) % Len(l.blocks) = l.blocki BY Zenon DEF Reached
  <2> QED BY <2>1, <2>2, Zenon
<1>11. f[n + 1] = f[n] + size BY <1>1, <1>10, Zenon
<1>12. size \in Nat
  <2>1. Sizes(l.blocks, l.start) \in [Nat -> Nat] BY CallFields, BlockSizes
  <2> QED BY <1>10, <2>1
<1>13. f[n] \in Nat /\ f[n + 1] \in Nat /\ n + 1 \in Nat /\ n + 1 > 0 /\ (n + 1) - 1 = n
       /\ k.start + (n + 1) = a + 1
  <2>1. l.start \in Nat BY CallFields
  <2> QED BY <1>1, <1>3, <2>1
<1>14. f[n] < l.total
  <2>1. Align(l.total) \in Nat /\ (f[n] < Align(l.total) => f[n] < l.total)
    BY <1>1, <1>13, CallFields, Enough
  <2> QED BY <1>5, <1>13, <2>1
<1>15. addr + size = k.origin + f[n + 1] /\ k.allocsize = Align(k.total) - f[n + 1]
  <2>1. l.origin \in Nat /\ Align(l.total) \in Nat
    BY <1>1, <1>13, CallFields, Enough
  <2>2. addr + size = l.origin + f[n + 1] BY <1>5, <1>11, <1>12, <1>13, <2>1
  <2>3. l.allocsize - size = Align(l.total) - f[n + 1]
    BY <1>5, <1>11, <1>12, <1>13, <2>1
  <2> QED BY <2>2, <2>3, Zenon
<1>16. f = Begins(k.blocks, k.start) BY <1>1, Zenon
<1>17. k.homepid = (k.start + (n + 1)) % HostC BY <1>2, <1>8, <1>13, Zenon
<1>18. k.blocki = ((k.start + (n + 1)) \div HostC) % Len(k.blocks)
  BY <1>2, <1>9, <1>13, Zenon
<1>19. f[(n + 1) - 1] < k.total BY <1>13, <1>14, Zenon
<1>20. Reached(k, addr + size, n + 1)
  BY <1>15, <1>16, <1>17, <1>18, <1>19, Zenon DEF Reached
<1>21. size = f[n + 1] - f[n] BY <1>11, <1>12, <1>13
<1> QED BY <1>1, <1>20, <1>21, Zenon

\* The pages of a block get their home, the pages below keep theirs.
PagesOf(addr, size) == addr \div Pagesize .. (addr + size) \div Pagesize - 1

Remapped(pages2, pages, addr, size, homepid) ==
    \A p \in PageNo : pages2[p].homepid = IF p \in PagesOf(addr, size)
                                          THEN homepid ELSE pages[p].homepid

\* What the loop goes on with after a block of this size.
Onward(l, size, next) ==
    [l EXCEPT !.allocsize = l.allocsize - size, !.homepid = next,
              !.blocki = NextBlocki(l, next, size)]

LEMMA LoopPasses ==
    ASSUME NEW l, NEW addr \in Nat, NEW pages, NEW barriers, Multiple(addr),
           LoopOk(l, addr, pages, barriers), l.allocsize > 0,
           NEW size, size = Align(l.blocks[l.blocki + 1]),
           NEW next, next = (l.homepid + 1) % HostC,
           NEW k, k = Onward(l, size, next),
           NEW pages2, Remapped(pages2, pages, addr, size, l.homepid)
    PROVE  size \in Nat /\ Multiple(size) /\ LoopOk(k, addr + size, pages2, barriers)
<1>1. /\ l \in Local /\ l.blocki < Len(l.blocks)
      /\ l.origin + l.total <= Maxmempages * Pagesize
  BY DEF LoopOk
<1>2. /\ HostC \in Nat /\ HostC > 0 /\ Pagesize \in Nat /\ Pagesize > 0
      /\ l.start \in Nat /\ l.start \in Host /\ l.origin \in Nat /\ l.allocsize \in Int
      /\ l.blocki \in Nat /\ l.homepid \in Host /\ l.blocks \in Blocks
      /\ Len(l.blocks) \in Nat /\ Len(l.blocks) > 0
      /\ \A i \in 1 .. Len(l.blocks) : l.blocks[i] \in Bytes
  BY <1>1, CallFields
<1>3. size \in Nat /\ Multiple(size)
  <2>1. l.blocki + 1 \in 1 .. Len(l.blocks) BY <1>1, <1>2
  <2>2. l.blocks[l.blocki + 1] \in Bytes BY <1>2, <2>1
  <2>3. PICK m \in Nat : Align(l.blocks[l.blocki + 1]) = m * Pagesize BY <2>2, Aligning
  <2>4. m * Pagesize \in Nat BY <1>2, Scaling
  <2> QED BY <2>3, <2>4 DEF Multiple
<1>4. next \in Host
  <2>1. l.homepid + 1 \in Nat
    <3>1. l.homepid \in 0 .. HostC - 1 BY <1>2, Zenon DEF Host
    <3> QED BY <3>1
  <2>2. next \in 0 .. HostC - 1 BY <1>2, <2>1, Division
  <2> QED BY <2>2 DEF Host
<1>5. /\ NextBlocki(l, next, size) \in Nat
      /\ NextBlocki(l, next, size) < Len(l.blocks)
  <2>1. PICK L \in Nat : L = Len(l.blocks) /\ L > 0 BY <1>2
  <2>2. (size + 1) % L \in 0 .. L - 1 /\ (l.blocki + 1) % L \in 0 .. L - 1
    <3>1. size + 1 \in Nat /\ l.blocki + 1 \in Nat BY <1>2, <1>3
    <3> QED BY <2>1, <3>1, Division
  <2>3. NextBlocki(l, next, size) \in {(size + 1) % L, (l.blocki + 1) % L, l.blocki}
    BY <2>1 DEF NextBlocki
  <2>4. l.blocki \in 0 .. L - 1 BY <1>1, <1>2, <2>1
  <2>5. NextBlocki(l, next, size) \in 0 .. L - 1 BY <2>2, <2>3, <2>4, Zenon
  <2> QED BY <2>1, <2>5
<1>6. /\ k.op = l.op /\ k.blocks = l.blocks /\ k.origin = l.origin /\ k.start = l.start
      /\ k.total = l.total /\ k.homepid = next /\ k.allocsize = l.allocsize - size
      /\ k.blocki = NextBlocki(l, next, size)
  BY <1>1 DEF Local, Onward
<1>7. k \in Local
  <2>1. l.allocsize - size \in Int BY <1>2, <1>3
  <2> QED BY <1>1, <1>4, <1>5, <2>1 DEF Local, Onward
<1>8. ASSUME l.op = "alloc4"
      PROVE  \E n \in Nat : /\ Reached(k, addr + size, n)
                            /\ (Early(barriers) => Placed(k, n, pages2))
  <2>1. PICK n \in Nat : Reached(l, addr, n) /\ (Early(barriers) => Placed(l, n, pages))
    BY <1>8, Zenon DEF LoopOk
  <2>2. PICK f \in [Nat -> Nat] :
           /\ f = Begins(l.blocks, l.start)
           /\ \A i, j \in Nat : i <= j => f[i] <= f[j]
    BY <1>2, BlockBegins
  <2>3. Reached(k, addr + size, n + 1) /\ size = f[n + 1] - f[n]
    <3>1. Reached(l, addr, n) BY <2>1
    <3>2. /\ Reached(k, addr + size, n + 1)
          /\ size = Begins(l.blocks, l.start)[n + 1] - Begins(l.blocks, l.start)[n]
      <4>1. l \in Local /\ l.op = "alloc4" /\ l.allocsize > 0 BY <1>1, <1>8
      <4>2. size = Align(l.blocks[l.blocki + 1]) /\ next = (l.homepid + 1) % HostC OBVIOUS
      <4>3. PICK m : m = k BY Zenon
      <4>4. /\ m.start = l.start /\ m.blocks = l.blocks /\ m.origin = l.origin
            /\ m.total = l.total /\ m.homepid = next /\ m.allocsize = l.allocsize - size
            /\ m.blocki = NextBlocki(l, next, size)
        BY <1>6, <4>3, Zenon
      <4>5. /\ Reached(m, addr + size, n + 1)
            /\ size = Begins(l.blocks, l.start)[n + 1] - Begins(l.blocks, l.start)[n]
        BY <3>1, <4>1, <4>2, <4>4, NextBlock, SMTT(30)
      <4> QED BY <4>3, <4>5, Zenon
    <3> QED BY <2>2, <3>2, Zenon
  <2>4. addr = l.origin + f[n] /\ l.homepid = (l.start + n) % HostC
    BY <2>1, <2>2, Zenon DEF Reached
  <2>5. ASSUME Early(barriers), NEW j \in Nat, j < n + 1, NEW p \in PageNo, Within(k, j, p)
        PROVE  pages2[p].homepid = (k.start + j) % HostC
    <3>1. l.origin + f[j] <= p * Pagesize /\ p * Pagesize < l.origin + f[j + 1]
      BY <1>6, <2>2, <2>5, Zenon DEF Within
    <3>2. p \in Nat /\ p * Pagesize \in Nat BY <1>2, Scaling DEF PageNo
    <3>3. p \in PagesOf(addr, size) <=> addr <= p * Pagesize /\ p * Pagesize < addr + size
      BY <1>3, <3>2, BlockPages DEF PagesOf
    <3>4. PICK x \in Nat, y \in Nat, z \in Nat, o \in Nat :
             x = f[n] /\ y = f[n + 1] /\ z = f[j + 1] /\ o = l.origin
      <4>1. f[n] \in Nat /\ f[n + 1] \in Nat /\ f[j + 1] \in Nat OBVIOUS
      <4> QED BY <1>2, <4>1, Zenon
    <3>5. CASE j = n
      <4>1. addr = o + x /\ size = y - x BY <2>3, <2>4, <3>4, Zenon
      <4>3. addr + size = o + y BY <4>1
      <4>2. p \in PagesOf(addr, size) BY <2>4, <3>1, <3>3, <3>4, <3>5, <4>3
      <4> QED BY <1>6, <2>4, <3>5, <4>2 DEF Remapped
    <3>6. CASE j < n
      <4>1. z <= x BY <2>2, <3>4, <3>6
      <4>2. p \notin PagesOf(addr, size)
        <5>1. p * Pagesize < o + z /\ addr = o + x BY <2>4, <3>1, <3>4, Zenon
        <5>2. ~ (addr <= p * Pagesize) BY <3>2, <4>1, <5>1
        <5> QED BY <3>3, <5>2, Zenon
      <4>3. Within(l, j, p) BY <2>2, <3>1, Zenon DEF Within
      <4>4. pages[p].homepid = (l.start + j) % HostC
        BY <2>1, <2>5, <3>6, <4>3, Zenon DEF Placed
      <4> QED BY <1>6, <4>2, <4>4 DEF Remapped
    <3> QED BY <2>5, <3>5, <3>6
  <2>6. Early(barriers) => Placed(k, n + 1, pages2) BY <2>5, Zenon DEF Placed
  <2>7. n + 1 \in Nat OBVIOUS
  <2> QED BY <2>3, <2>6, <2>7, Zenon
<1>9. k.blocki < Len(k.blocks) BY <1>5, <1>6
<1>10. k.origin + k.total <= Maxmempages * Pagesize BY <1>1, <1>6
<1>11. LoopOk(k, addr + size, pages2, barriers)
  BY <1>6, <1>7, <1>8, <1>9, <1>10, Zenon DEF LoopOk
<1> QED BY <1>3, <1>11

LEMMA DonePasses ==
    ASSUME NEW d \in Finished, NEW addr \in Nat, NEW pages, NEW barriers,
           DoneOk(d, addr, pages, barriers), Multiple(addr),
           NEW size \in Nat, Multiple(size), NEW pages2,
           \A p \in PageNo : p \notin PagesOf(addr, size) =>
                                 pages2[p].homepid = pages[p].homepid
    PROVE  DoneOk(d, addr + size, pages2, barriers)
<1>1. d.end <= addr + size
  <2>1. d.end \in Nat /\ d.end <= addr BY DEF Finished, DoneOk
  <2> QED BY <2>1
<1>2. ASSUME d.op = "alloc4"
      PROVE  \E n \in 1 .. Maxmempages :
                Complete(d, n) /\ (Early(barriers) => Placed(d, n, pages2))
  <2>1. PICK n \in 1 .. Maxmempages :
           Complete(d, n) /\ (Early(barriers) => Placed(d, n, pages))
    BY <1>2, Zenon DEF DoneOk
  <2>2. d.blocks \in Blocks /\ d.start \in Host /\ d.origin \in Nat BY DEF Finished
  <2>3. PICK f \in [Nat -> Nat] :
           /\ f = Begins(d.blocks, d.start)
           /\ \A i, j \in Nat : i <= j => f[i] <= f[j]
    BY <2>2, BlockBegins
  <2>4. d.end = d.origin + f[n] BY <2>1, <2>3, Zenon DEF Complete
  <2>5. ASSUME Early(barriers), NEW j \in Nat, j < n, NEW p \in PageNo, Within(d, j, p)
        PROVE  pages2[p].homepid = (d.start + j) % HostC
    <3>1. p * Pagesize < d.origin + f[j + 1] BY <2>3, <2>5, Zenon DEF Within
    <3>2. p \in Nat /\ Pagesize \in Nat /\ p * Pagesize \in Nat
      BY AllocAssumption, Scaling DEF PageNo
    <3>3. f[j + 1] <= f[n] /\ f[j + 1] \in Nat /\ f[n] \in Nat
      <4>1. n \in Nat /\ j + 1 \in Nat /\ j + 1 <= n
        <5>1. Maxmempages \in Nat BY AllocAssumption
        <5> QED BY <2>5, <5>1
      <4> QED BY <2>3, <4>1
    <3>4. d.end <= addr BY DEF DoneOk
    <3>5. ~ (addr <= p * Pagesize) BY <2>2, <2>4, <3>1, <3>2, <3>3, <3>4
    <3>6. p \notin PagesOf(addr, size) BY <3>2, <3>5, BlockPages DEF PagesOf
    <3>7. pages[p].homepid = (d.start + j) % HostC BY <2>1, <2>5, Zenon DEF Placed
    <3> QED BY <3>6, <3>7, Zenon
  <2>6. Early(barriers) => Placed(d, n, pages2) BY <2>5, Zenon DEF Placed
  <2> QED BY <2>1, <2>6, Zenon
<1> QED BY <1>1, <1>2, Zenon DEF DoneOk

-----------------------------------------------------------------------------
(***************************************************************************)
(* The steps.                                                              *)
(***************************************************************************)
Mine(h) == HostOk(pc[h], loop[h], globaladdr[h], done[h], page[h], handled)

\* At first nothing is allocated.
LEMMA InitOk == MInit => Inv
<1> SUFFICES ASSUME MInit PROVE Inv
  OBVIOUS
<1>1. Types
  <2>1. PICK p \in Programs : prog = [h \in Host |-> p] BY DEF MInit, Init
  <2>2. p \in Seq(AllocCall \cup Phase) BY MigrationAssumption
  <2>3. prog \in [Host -> Seq(AllocCall \cup Phase)] BY <2>1, <2>2
  <2>4. globaladdr \in [Host -> Nat] /\ starthost \in [Host -> Host \cup {-1}]
        /\ draws \in [Host -> Nat \cup {-1}] /\ handled \in [Host -> Nat]
    <3>1. /\ globaladdr = [h \in Host |-> 0] /\ starthost = [h \in Host |-> -1]
          /\ draws = [h \in Host |-> -1] /\ handled = [h \in Host |-> 0]
      BY DEF MInit, Init
    <3> QED BY <3>1
  <2>5. done \in [Host -> Seq(Finished)] BY EmptySeq DEF MInit, Init
  <2>6. Total(pc) /\ Total(loop) /\ Total(page) BY DEF MInit, Init, Total
  <2> QED BY <2>3, <2>4, <2>5, <2>6 DEF Types
<1>2. ASSUME NEW h \in Host PROVE Mine(h)
  <2>1. pc[h] = "run" /\ globaladdr[h] = 0 /\ done[h] = <<>> BY DEF MInit, Init
  <2>2. Multiple(0)
    <3>1. 0 = 0 * Pagesize /\ 0 \in Nat BY AllocAssumption
    <3> QED BY <3>1 DEF Multiple
  <2>3. 1 .. Len(done[h]) = {} BY <2>1
  <2> QED BY <2>1, <2>2, <2>3 DEF Mine, HostOk
<1>3. Busy BY DEF MInit, Init, Busy
<1> QED BY <1>1, <1>2, <1>3 DEF Inv, Mine

\* Steps that do not allocate.
LEMMA Quiet ==
    ASSUME Inv, Types', Busy', UNCHANGED <<loop, globaladdr, done>>,
           \A g \in Host : pc'[g] = "loop" => pc[g] = "loop",
           Early(handled') => Early(handled) /\ page' = page
    PROVE  Inv'
<1>1. ASSUME NEW g \in Host PROVE Mine(g)'
  <2>1. HostOk(pc[g], loop[g], globaladdr[g], done[g], page[g], handled) BY DEF Inv
  <2>2. Early(handled') => Early(handled) /\ page'[g] = page[g] OBVIOUS
  <2>3. HostOk(pc'[g], loop[g], globaladdr[g], done[g], page'[g], handled')
    BY <2>1, <2>2, Later, Zenon
  <2> QED BY <2>3 DEF Mine
<1> QED BY <1>1, Zenon DEF Inv, Mine

\* A call up to its loop.
LEMMA BeginOk ==
    ASSUME Inv, NEW h \in Host, pc[h] = "run", prog[h] # <<>>,
           NEW op \in {"alloc4", "array"}, NEW total \in Bytes, NEW blocks \in Blocks,
           NEW start \in Host, Begin(h, op, total, blocks, start), handled' = handled,
           starthost' \in [Host -> Host \cup {-1}], draws' \in [Host -> Nat \cup {-1}]
    PROVE  Inv'
<1>1. Types /\ Busy /\ UNCHANGED <<prog, globaladdr, homesize, page, home, done>>
  BY Zenon DEF Inv, Begin
<1>2. CASE globaladdr[h] + total > Maxmempages * Pagesize
  <2>1. pc' = [pc EXCEPT ![h] = "asserted"] /\ loop' = loop BY <1>2 DEF Begin
  <2>2. Total(pc) /\ Total(pc') BY <1>1, <2>1 DEF Types, Total
  <2>3. \A g \in Host : pc'[g] = "loop" => pc[g] = "loop" BY <2>1, <2>2 DEF Total
  <2>4. Types' BY <1>1, <2>1, <2>2 DEF Types
  <2>5. Busy' BY <1>1, <2>1, <2>2 DEF Busy, Total
  <2> QED BY <1>1, <2>1, <2>3, <2>4, <2>5, Quiet, Zenon
<1>3. CASE ~ (globaladdr[h] + total > Maxmempages * Pagesize)
  <2> DEFINE l == [allocsize |-> Align(total), homepid |-> start, blocki |-> 0, op |-> op,
                   blocks |-> blocks, origin |-> globaladdr[h], start |-> start,
                   total |-> total]
  <2>1. pc' = [pc EXCEPT ![h] = "loop"] /\ loop' = [loop EXCEPT ![h] = l]
    BY <1>3 DEF Begin
  <2>2. /\ Total(pc) /\ Total(loop) /\ globaladdr[h] \in Nat
    BY <1>1 DEF Types
  <2>3. Types'
    <3>1. Total(pc') BY <2>1, <2>2 DEF Total
    <3>2. Total(loop') BY <2>1, <2>2 DEF Total
    <3> QED BY <1>1, <3>1, <3>2 DEF Types
  <2>4. Align(total) \in Int
    <3>1. PICK m \in Nat : Align(total) = m * Pagesize BY Aligning
    <3> QED BY <3>1, AllocAssumption, Scaling
  <2>5. l \in Local BY <2>2, <2>4 DEF Local
  <2>6. /\ l.blocki = 0 /\ l.homepid = l.start /\ l.allocsize = Align(l.total)
        /\ l.origin = globaladdr[h] /\ l.total = total
    OBVIOUS
  <2>7. l.origin + l.total <= Maxmempages * Pagesize
    <3>1. total \in Nat BY DEF Bytes
    <3>2. Maxmempages * Pagesize \in Nat BY AllocAssumption, Scaling
    <3> QED BY <1>3, <2>2, <2>6, <3>1, <3>2
  <2>8. pc'[h] = "loop" /\ loop'[h] = l BY <2>1, <2>2 DEF Total
  <2>9. \A g \in Host : g # h => pc'[g] = pc[g] /\ loop'[g] = loop[g]
    BY <2>1, <2>2 DEF Total
  <2> HIDE DEF l
  <2>10. LoopOk(l, globaladdr[h], page[h], handled) BY <2>5, <2>6, <2>7, CallBegins
  <2>11. ASSUME NEW g \in Host PROVE Mine(g)'
    <3>1. Mine(g) BY DEF Inv, Mine
    <3>2. CASE g = h BY <1>1, <2>8, <2>10, <3>1, <3>2, Zenon DEF Mine, HostOk
    <3>3. CASE g # h BY <1>1, <2>9, <3>1, <3>3, Zenon DEF Mine
    <3> QED BY <3>2, <3>3
  <2>12. Busy' BY <1>1, <2>8, <2>9 DEF Busy
  <2> QED BY <2>3, <2>11, <2>12, Zenon DEF Inv, Mine
<1> QED BY <1>2, <1>3

\* The fields of a call that may be made.
LEMMA CallTypes ==
    ASSUME Inv, NEW h \in Host, NEW op, op # "phase", Calls(h, op)
    PROVE  /\ pc[h] = "run" /\ prog[h] # <<>> /\ Call(h) \in AllocCall /\ Call(h).op = op
           /\ Call(h).total \in Bytes
<1>1. prog[h] \in Seq(AllocCall \cup Phase) /\ prog[h] # <<>> /\ pc[h] = "run"
      /\ Call(h).op = op
  BY Zenon DEF Inv, Types, Calls
<1>2. Call(h) \in AllocCall \cup Phase BY <1>1, HeadTailProperties DEF Call
<1>3. Call(h) \notin Phase BY <1>1 DEF Phase
<1>4. Call(h).total \in Bytes BY <1>2, <1>3 DEF AllocCall
<1> QED BY <1>1, <1>2, <1>3, <1>4

\* One size makes an array of them.
LEMMA OneBlock == ASSUME NEW size \in Bytes PROVE <<size>> \in Blocks
  BY DEF Blocks

\* A remainder is the number of a host.
LEMMA Hosts ==
    ASSUME NEW a \in Nat
    PROVE  a % HostC \in Host /\ 0 \in Host
<1>1. HostC \in Nat /\ HostC > 0 BY AllocAssumption
<1>2. a % HostC \in 0 .. HostC - 1 BY <1>1, Division
<1> QED BY <1>1, <1>2 DEF Host

\* The calls.
LEMMA CallsOk ==
    ASSUME Inv, NEW h \in Host, UNCHANGED mvars,
           \/ jia_alloc3(h) \/ jia_alloc4(h) \/ jia_alloc(h) \/ jia_alloc_random(h)
           \/ jia_alloc_array(h)
    PROVE  Inv'
<1>1. handled' = handled /\ starthost \in [Host -> Host \cup {-1}]
      /\ draws \in [Host -> Nat \cup {-1}]
  BY DEF mvars, Inv, Types
<1>2. CASE jia_alloc3(h)
  <2>1. /\ Calls(h, "alloc3")
        /\ Begin(h, "alloc4", Call(h).total, <<Call(h).block>>, Call(h).start)
        /\ starthost' = starthost /\ draws' = draws
    BY <1>2 DEF jia_alloc3
  <2>2. pc[h] = "run" /\ prog[h] # <<>> /\ Call(h).total \in Bytes /\ Call(h) \in AllocCall /\ Call(h).op = "alloc3"
    BY <2>1, CallTypes
  <2>3. Call(h).block \in Bytes /\ Call(h).start \in Host BY <2>2 DEF AllocCall
  <2>4. <<Call(h).block>> \in Blocks BY <2>3, OneBlock
  <2> QED BY <1>1, <2>1, <2>2, <2>3, <2>4, BeginOk
<1>3. CASE jia_alloc4(h)
  <2>1. /\ Calls(h, "alloc4")
        /\ Begin(h, "alloc4", Call(h).total, Call(h).blocks, Call(h).start)
        /\ starthost' = starthost /\ draws' = draws
    BY <1>3 DEF jia_alloc4
  <2>2. pc[h] = "run" /\ prog[h] # <<>> /\ Call(h).total \in Bytes /\ Call(h) \in AllocCall /\ Call(h).op = "alloc4"
    BY <2>1, CallTypes
  <2>3. Call(h).blocks \in Blocks /\ Call(h).start \in Host BY <2>2 DEF AllocCall
  <2> QED BY <1>1, <2>1, <2>2, <2>3, BeginOk
<1>4. CASE jia_alloc(h)
  <2>1. /\ Calls(h, "alloc") /\ starthost' = [starthost EXCEPT ![h] = NextStart(h)]
        /\ Begin(h, "alloc4", Call(h).total, <<Call(h).total>>, NextStart(h))
        /\ draws' = draws
    BY <1>4 DEF jia_alloc
  <2>2. pc[h] = "run" /\ prog[h] # <<>> /\ Call(h).total \in Bytes BY <2>1, CallTypes
  <2>3. NextStart(h) \in Host
    <3>1. starthost[h] + 1 \in Nat
      <4>1. starthost[h] \in Host \cup {-1} BY <1>1
      <4> QED BY <4>1 DEF Host
    <3> QED BY <3>1, Hosts DEF NextStart
  <2>4. starthost' \in [Host -> Host \cup {-1}] BY <1>1, <2>1, <2>3
  <2>5. <<Call(h).total>> \in Blocks BY <2>2, OneBlock
  <2> QED BY <1>1, <2>1, <2>2, <2>3, <2>4, <2>5, BeginOk
<1>5. CASE jia_alloc_random(h)
  <2>1. PICK n : /\ n = IF draws[h] = -1 THEN 0 ELSE draws[h]
                 /\ Calls(h, "random") /\ n < Len(Rand) /\ draws' = [draws EXCEPT ![h] = n + 1]
                 /\ Begin(h, "alloc4", Call(h).total, <<Call(h).total>>, Rand[n + 1] % HostC)
                 /\ starthost' = starthost
    BY <1>5 DEF jia_alloc_random
  <2>2. pc[h] = "run" /\ prog[h] # <<>> /\ Call(h).total \in Bytes BY <2>1, CallTypes
  <2>3. n \in Nat
    <3>1. draws[h] \in Nat \cup {-1} BY <1>1
    <3> QED BY <2>1, <3>1
  <2>4. draws' \in [Host -> Nat \cup {-1}] BY <1>1, <2>1, <2>3
  <2>5. Rand[n + 1] % HostC \in Host
    <3>1. Rand \in Seq(Nat) BY AllocAssumption
    <3>2. Rand[n + 1] \in Nat
      <4>1. Len(Rand) \in Nat /\ \A i \in 1 .. Len(Rand) : Rand[i] \in Nat
        BY <3>1, LenProperties, ElementOfSeq
      <4>2. n + 1 \in 1 .. Len(Rand) BY <2>1, <2>3, <4>1
      <4> QED BY <4>1, <4>2
    <3> QED BY <3>2, Hosts
  <2>6. <<Call(h).total>> \in Blocks BY <2>2, OneBlock
  <2> QED BY <1>1, <2>1, <2>2, <2>4, <2>5, <2>6, BeginOk
<1>6. CASE jia_alloc_array(h)
  <2>1. /\ Calls(h, "array") /\ Begin(h, "array", Call(h).total, Call(h).array, 0)
        /\ starthost' = starthost /\ draws' = draws
    BY <1>6 DEF jia_alloc_array
  <2>2. pc[h] = "run" /\ prog[h] # <<>> /\ Call(h).total \in Bytes /\ Call(h) \in AllocCall /\ Call(h).op = "array"
    BY <2>1, CallTypes
  <2>3. Call(h).array \in Blocks BY <2>2 DEF AllocCall
  <2>4. 0 \in Host BY Hosts
  <2> QED BY <1>1, <2>1, <2>2, <2>3, <2>4, BeginOk
<1> QED BY <1>2, <1>3, <1>4, <1>5, <1>6

\* One iteration of the loop of a call.
LEMMA MapBlockOk ==
    ASSUME Inv, NEW h \in Host, UNCHANGED mvars, MapBlock(h)
    PROVE  Inv'
<1>1. Types /\ pc[h] = "loop" /\ loop[h].allocsize > 0 /\ UNCHANGED <<prog, starthost, draws, done>>
      /\ handled' = handled /\ Mine(h) /\ Busy
  BY DEF Inv, Mine, MapBlock, mvars
<1>2. PICK l, size, next : /\ l = loop[h] /\ size = Align(l.blocks[l.blocki + 1])
                           /\ next = (l.homepid + 1) % HostC
  BY Zenon
<1>3. CASE l.homepid = h /\ homesize[h][h] + size >= Homepages * Pagesize
  <2>1. pc' = [pc EXCEPT ![h] = "asserted"] /\ UNCHANGED <<page, globaladdr, loop>>
    BY <1>2, <1>3 DEF MapBlock
  <2>2. Total(pc) /\ Total(pc') BY <1>1, <2>1 DEF Types, Total
  <2>3. \A g \in Host : pc'[g] = "loop" => pc[g] = "loop" BY <2>1, <2>2 DEF Total
  <2>4. Types' BY <1>1, <2>1, <2>2 DEF Types
  <2>5. Busy' BY <1>1, <2>1, <2>2 DEF Busy, Total
  <2> QED BY <1>1, <2>1, <2>3, <2>4, <2>5, Quiet, Zenon
<1>4. CASE ~ (l.homepid = h /\ homesize[h][h] + size >= Homepages * Pagesize)
  <2>1. PICK k, pages :
           /\ k = Onward(l, size, next)
           /\ Remapped(pages, page[h], globaladdr[h], size, l.homepid)
           /\ page' = [page EXCEPT ![h] = pages]
           /\ globaladdr' = [globaladdr EXCEPT ![h] = globaladdr[h] + size]
           /\ loop' = [loop EXCEPT ![h] = k]
           /\ pc' = pc
    <3> DEFINE indexes == l.homepid = h /\ l.op # "array"
               pages == [p \in PageNo |->
                      IF p \notin PagesOf(globaladdr[h], size) THEN page[h][p]
                      ELSE [homepid |-> l.homepid,
                            homei |-> IF indexes THEN HomeIndex(h, p) ELSE page[h][p].homei]]
    <3>1. /\ page' = [page EXCEPT ![h] = pages] /\ pc' = pc
          /\ globaladdr' = [globaladdr EXCEPT ![h] = globaladdr[h] + size]
          /\ loop' = [loop EXCEPT ![h] = Onward(l, size, next)]
      <4>1. pc' = pc /\ globaladdr' = [globaladdr EXCEPT ![h] = globaladdr[h] + size]
        BY <1>2, <1>4, Zenon DEF MapBlock
      <4>2. loop' = [loop EXCEPT ![h] = Onward(l, size, next)]
        BY <1>2, <1>4, Zenon DEF MapBlock, Onward
      <4>3. page' = [page EXCEPT ![h] = pages]
        BY <1>2, <1>4, Zenon DEF MapBlock, PagesOf
      <4> QED BY <4>1, <4>2, <4>3, Zenon
    <3>2. Remapped(pages, page[h], globaladdr[h], size, l.homepid) BY DEF Remapped
    <3> HIDE DEF pages
    <3> QED BY <3>1, <3>2, Zenon
  <2>2. globaladdr[h] \in Nat /\ Total(loop) /\ Total(page) /\ globaladdr \in [Host -> Nat]
        /\ done[h] \in Seq(Finished)
    BY <1>1 DEF Types
  <2>3. Multiple(globaladdr[h]) /\ LoopOk(l, globaladdr[h], page[h], handled)
        /\ \A i \in 1 .. Len(done[h]) : DoneOk(done[h][i], globaladdr[h], page[h], handled)
    BY <1>1, <1>2, Zenon DEF Mine, HostOk
  <2>4. size \in Nat /\ Multiple(size) /\ LoopOk(k, globaladdr[h] + size, pages, handled)
    <3>1. l.allocsize > 0 BY <1>1, <1>2
    <3>2. globaladdr[h] \in Nat /\ Multiple(globaladdr[h]) BY <2>2, <2>3
    <3>3. /\ size = Align(l.blocks[l.blocki + 1]) /\ next = (l.homepid + 1) % HostC
          /\ LoopOk(l, globaladdr[h], page[h], handled)
          /\ k = Onward(l, size, next)
          /\ Remapped(pages, page[h], globaladdr[h], size, l.homepid)
      BY <1>2, <2>1, <2>3
    <3> QED BY <3>1, <3>2, <3>3, LoopPasses, Zenon
  <2>5. Multiple(globaladdr[h] + size)
    <3>1. 0 \in Nat OBVIOUS
    <3> QED BY <2>2, <2>3, <2>4, <3>1, BlockPages, Zenon
  <2>6. ASSUME NEW i \in 1 .. Len(done[h])
        PROVE  DoneOk(done[h][i], globaladdr[h] + size, pages, handled)
    <3>1. done[h][i] \in Finished BY <2>2, ElementOfSeq
    <3>2. DoneOk(done[h][i], globaladdr[h], page[h], handled) BY <2>3
    <3>3. \A p \in PageNo : p \notin PagesOf(globaladdr[h], size) =>
                                pages[p].homepid = page[h][p].homepid
      BY <2>1 DEF Remapped
    <3> QED BY <2>2, <2>3, <2>4, <3>1, <3>2, <3>3, DonePasses, Zenon
  <2>7. globaladdr'[h] = globaladdr[h] + size /\ loop'[h] = k /\ page'[h] = pages
    BY <2>1, <2>2 DEF Total
  <2>8. \A g \in Host : g # h => /\ globaladdr'[g] = globaladdr[g] /\ loop'[g] = loop[g]
                                 /\ page'[g] = page[g]
    BY <2>1, <2>2 DEF Total
  <2>9. Types'
    <3>1. globaladdr' \in [Host -> Nat] BY <2>1, <2>2, <2>4
    <3>2. Total(loop') /\ Total(page') BY <2>1, <2>2 DEF Total
    <3> QED BY <1>1, <2>1, <3>1, <3>2 DEF Types
  <2>10. ASSUME NEW g \in Host PROVE Mine(g)'
    <3>1. Mine(g) BY DEF Inv, Mine
    <3>2. CASE g = h BY <1>1, <2>1, <2>4, <2>5, <2>6, <2>7, <3>2, Zenon DEF Mine, HostOk
    <3>3. CASE g # h BY <1>1, <2>1, <2>8, <3>1, <3>3, Zenon DEF Mine
    <3> QED BY <3>2, <3>3
  <2>11. Busy' BY <1>1, <2>1 DEF Busy
  <2> QED BY <2>9, <2>10, <2>11, Zenon DEF Inv, Mine
<1> QED BY <1>3, <1>4

\* The end of a call.
LEMMA ReturnOk ==
    ASSUME Inv, NEW h \in Host, UNCHANGED mvars, Return(h)
    PROVE  Inv'
<1>1. Types /\ pc[h] = "loop" /\ loop[h].allocsize <= 0 /\ handled' = handled /\ Mine(h)
      /\ Busy /\ UNCHANGED <<loop, globaladdr, homesize, page, home, starthost, draws>>
  BY DEF Inv, Mine, Return, mvars
<1>2. PICK l, d :
         /\ l = loop[h]
         /\ d = [op |-> l.op, total |-> l.total, blocks |-> l.blocks, start |-> l.start,
                 origin |-> l.origin, end |-> globaladdr[h]]
  BY Zenon
<1>3. /\ pc' = [pc EXCEPT ![h] = "run"] /\ prog' = [prog EXCEPT ![h] = Tail(prog[h])]
      /\ done' = [done EXCEPT ![h] = Append(done[h], d)]
  BY <1>2, Zenon DEF Return
<1>4. globaladdr[h] \in Nat /\ done[h] \in Seq(Finished) /\ Total(pc)
      /\ prog[h] \in Seq(AllocCall \cup Phase)
  BY <1>1 DEF Types
<1>5. LoopOk(l, globaladdr[h], page[h], handled) /\ l.allocsize <= 0
  BY <1>1, <1>2 DEF Mine, HostOk
<1>6. d \in Finished /\ DoneOk(d, globaladdr[h], page[h], handled)
  BY <1>2, <1>4, <1>5, CallEnds, Zenon
<1>7. Tail(prog[h]) \in Seq(AllocCall \cup Phase)
  <2>1. prog[h] # <<>> BY <1>1 DEF Busy
  <2> QED BY <1>4, <2>1, HeadTailProperties
<1>8. Types'
  <2>1. done' \in [Host -> Seq(Finished)]
    <3>1. Append(done[h], d) \in Seq(Finished) BY <1>4, <1>6, AppendProperties
    <3> QED BY <1>1, <1>3, <3>1 DEF Types
  <2>2. prog' \in [Host -> Seq(AllocCall \cup Phase)]
    BY <1>1, <1>3, <1>7 DEF Types
  <2>3. Total(pc') BY <1>3, <1>4 DEF Total
  <2> QED BY <1>1, <2>1, <2>2, <2>3 DEF Types
<1>9. pc'[h] = "run" /\ done'[h] = Append(done[h], d)
      /\ \A g \in Host : g # h => pc'[g] = pc[g] /\ done'[g] = done[g]
  <2>1. done \in [Host -> Seq(Finished)] BY <1>1 DEF Types
  <2> QED BY <1>3, <1>4, <2>1 DEF Total
<1>10. \A i \in 1 .. Len(done'[h]) : DoneOk(done'[h][i], globaladdr[h], page[h], handled)
  <2>1. \A i \in 1 .. Len(done[h]) : DoneOk(done[h][i], globaladdr[h], page[h], handled)
    BY <1>1, Zenon DEF Mine, HostOk
  <2>2. /\ Len(done'[h]) = Len(done[h]) + 1 /\ Len(done[h]) \in Nat
        /\ \A i \in 1 .. Len(done[h]) : done'[h][i] = done[h][i]
        /\ done'[h][Len(done[h]) + 1] = d
    BY <1>4, <1>6, <1>9, AppendProperties, LenProperties
  <2>3. ASSUME NEW i \in 1 .. Len(done'[h])
        PROVE  DoneOk(done'[h][i], globaladdr[h], page[h], handled)
    <3>1. CASE i = Len(done[h]) + 1 BY <1>6, <2>2, <3>1, Zenon
    <3>2. CASE i # Len(done[h]) + 1
      <4>1. i \in 1 .. Len(done[h]) BY <2>2, <3>2
      <4> QED BY <2>1, <2>2, <4>1, Zenon
    <3> QED BY <3>1, <3>2
  <2> QED BY <2>3
<1>11. ASSUME NEW g \in Host PROVE Mine(g)'
  <2>1. Mine(g) BY DEF Inv, Mine
  <2>2. CASE g = h
    <3>1. Multiple(globaladdr[h]) BY <1>1 DEF Mine, HostOk
    <3>2. pc'[h] # "loop" BY <1>9
    <3> QED BY <1>1, <1>10, <2>2, <3>1, <3>2, Zenon DEF Mine, HostOk
  <2>3. CASE g # h BY <1>1, <1>9, <2>1, <2>3, Zenon DEF Mine
  <2> QED BY <2>2, <2>3
<1>12. Busy'
  <2>1. \A g \in Host : g # h => prog'[g] = prog[g] BY <1>1, <1>3 DEF Types
  <2> QED BY <1>1, <1>9, <2>1 DEF Busy
<1> QED BY <1>8, <1>11, <1>12, Zenon DEF Inv, Mine

\* A random number for the replacement.
LEMMA ReplaceiOk ==
    ASSUME Inv, NEW h \in Host, UNCHANGED mvars, replacei(h)
    PROVE  Inv'
<1>1. Types /\ handled' = handled
      /\ UNCHANGED <<prog, pc, loop, globaladdr, page, starthost, done>>
      /\ draws[h] \in 0 .. MaxDraws - 1 /\ draws' = [draws EXCEPT ![h] = draws[h] + 1]
  BY DEF Inv, replacei, mvars
<1>2. draws' \in [Host -> Nat \cup {-1}]
  <2>1. draws[h] + 1 \in Nat BY <1>1
  <2>2. draws \in [Host -> Nat \cup {-1}] BY <1>1 DEF Types
  <2> QED BY <1>1, <2>1, <2>2
<1>3. Types' BY <1>1, <1>2 DEF Types
<1>4. Busy' BY <1>1 DEF Inv, Busy
<1> QED BY <1>1, <1>3, <1>4, Quiet, Zenon

\* Accesses, faults, fetches, the barrier: the page tables stay.
LEMMA ProgramOk ==
    ASSUME Inv, NEW h \in Host,
           \/ Hit(h) \/ FaultLocal(h) \/ FaultRemote(h) \/ getpserver(h) \/ EndSection(h)
           \/ jia_barrier(h)
    PROVE  Inv'
<1>1. Types /\ Busy BY DEF Inv
<1>2. CASE Hit(h) \/ FaultLocal(h) \/ EndSection(h)
  <2>1. UNCHANGED <<prog, pc, loop, globaladdr, page, starthost, draws, done, handled>>
    BY <1>2 DEF Hit, FaultLocal, EndSection, vars
  <2>2. Types' BY <1>1, <2>1 DEF Types
  <2>3. Busy' BY <1>1, <2>1 DEF Busy
  <2> QED BY <2>1, <2>2, <2>3, Quiet, Zenon
<1>3. CASE FaultRemote(h) \/ jia_barrier(h)
  <2>1. /\ UNCHANGED <<prog, loop, globaladdr, page, starthost, draws, done, handled>>
        /\ pc' = [pc EXCEPT ![h] = "getp"] \/ pc' = [pc EXCEPT ![h] = "barrier"]
        /\ prog[h] # <<>>
    BY <1>3 DEF FaultRemote, jia_barrier, Accessing, InPhase, Calls
  <2>2. Total(pc') /\ \A g \in Host : pc'[g] = "loop" => pc[g] = "loop"
    BY <1>1, <2>1 DEF Types, Total
  <2>3. Types' BY <1>1, <2>1, <2>2 DEF Types
  <2>4. Busy' BY <1>1, <2>1 DEF Types, Total, Busy
  <2> QED BY <2>1, <2>2, <2>3, <2>4, Quiet, Zenon
<1>4. CASE getpserver(h)
  <2>1. /\ UNCHANGED <<prog, loop, globaladdr, page, starthost, draws, done, handled>>
        /\ \E g : pc' = [pc EXCEPT ![g] = "run"] \/ pc' = [pc EXCEPT ![g] = "crashed"]
    BY <1>4, Zenon DEF getpserver
  <2>2. Total(pc') /\ \A g \in Host : pc'[g] = "loop" => pc[g] = "loop"
    BY <1>1, <2>1 DEF Types, Total
  <2>3. Types' BY <1>1, <2>1, <2>2 DEF Types
  <2>4. Busy' BY <1>1, <2>1 DEF Types, Total, Busy
  <2> QED BY <2>1, <2>2, <2>3, <2>4, Quiet, Zenon
<1> QED BY <1>2, <1>3, <1>4

\* The grant of a barrier is handled: from now on pages may have moved.
LEMMA GrantOk ==
    ASSUME Inv, NEW h \in Host, barrgrantserver(h)
    PROVE  Inv'
<1>1. Types /\ Busy BY DEF Inv
<1>2. PICK s, v : /\ pc' = [pc EXCEPT ![h] = s] /\ s \in {"wait", "asserted"}
                  /\ page' = [page EXCEPT ![h] = v]
                  /\ handled' = [handled EXCEPT ![h] = handled[h] + 1]
                  /\ UNCHANGED <<prog, loop, globaladdr, starthost, draws, done>>
                  /\ pc[h] = "barrier"
  BY Zenon DEF barrgrantserver
<1>3. Total(pc') /\ \A g \in Host : pc'[g] = "loop" => pc[g] = "loop"
  BY <1>1, <1>2 DEF Types, Total
<1>4. Total(page') BY <1>1, <1>2 DEF Types, Total
<1>5. handled' \in [Host -> Nat] /\ handled'[h] # 0
  <2>1. handled \in [Host -> Nat] BY <1>1 DEF Types
  <2> QED BY <1>2, <2>1
<1>6. ~ Early(handled') BY <1>5 DEF Early
<1>7. Types' BY <1>1, <1>2, <1>3, <1>4, <1>5 DEF Types
<1>8. Busy' BY <1>1, <1>2 DEF Types, Total, Busy
<1> QED BY <1>2, <1>3, <1>6, <1>7, <1>8, Quiet, Zenon

\* The end of a barrier.
LEMMA LeaveOk ==
    ASSUME Inv, NEW h \in Host, Leave(h)
    PROVE  Inv'
<1>1. Types /\ Busy BY DEF Inv
<1>2. /\ pc[h] = "wait" /\ pc' = [pc EXCEPT ![h] = "run"]
      /\ prog' = [prog EXCEPT ![h] = Tail(prog[h])]
      /\ UNCHANGED <<loop, globaladdr, page, starthost, draws, done, handled>>
  BY Zenon DEF Leave
<1>3. Total(pc') /\ \A g \in Host : pc'[g] = "loop" => pc[g] = "loop"
  BY <1>1, <1>2 DEF Types, Total
<1>4. prog' \in [Host -> Seq(AllocCall \cup Phase)]
  <2>1. prog[h] \in Seq(AllocCall \cup Phase) BY <1>1 DEF Types
  <2>2. Tail(prog[h]) \in Seq(AllocCall \cup Phase)
    <3>1. prog[h] # <<>> BY <1>1, <1>2 DEF Busy
    <3> QED BY <2>1, <3>1, HeadTailProperties
  <2> QED BY <1>1, <1>2, <2>2 DEF Types
<1>5. Types' BY <1>1, <1>2, <1>3, <1>4 DEF Types
<1>6. Busy' BY <1>1, <1>2 DEF Types, Total, Busy
<1> QED BY <1>2, <1>3, <1>5, <1>6, Quiet, Zenon

\* Every step keeps the invariant.
LEMMA StepOk == Inv /\ [MNext]_<<vars, mvars>> => Inv'
<1> SUFFICES ASSUME Inv, [MNext]_<<vars, mvars>> PROVE Inv'
  OBVIOUS
<1>1. CASE Allocate
  <2>1. PICK h \in Host :
           \/ jia_alloc3(h) \/ jia_alloc4(h) \/ jia_alloc(h) \/ jia_alloc_random(h)
           \/ jia_alloc_array(h) \/ MapBlock(h) \/ Return(h) \/ replacei(h)
    BY <1>1, Zenon DEF Allocate, Next
  <2>2. UNCHANGED mvars BY <1>1, Zenon DEF Allocate
  <2>3. CASE \/ jia_alloc3(h) \/ jia_alloc4(h) \/ jia_alloc(h) \/ jia_alloc_random(h)
             \/ jia_alloc_array(h)
    BY <2>2, <2>3, CallsOk, Zenon
  <2>4. CASE MapBlock(h) BY <2>2, <2>4, MapBlockOk, Zenon
  <2>5. CASE Return(h) BY <2>2, <2>5, ReturnOk, Zenon
  <2>6. CASE replacei(h) BY <2>2, <2>6, ReplaceiOk, Zenon
  <2> QED BY <2>1, <2>3, <2>4, <2>5, <2>6, Zenon
<1>2. ASSUME NEW h \in Host,
             \/ Hit(h) \/ FaultLocal(h) \/ FaultRemote(h) \/ getpserver(h) \/ EndSection(h)
             \/ jia_barrier(h) \/ barrgrantserver(h) \/ Leave(h)
      PROVE  Inv'
  <2>1. CASE \/ Hit(h) \/ FaultLocal(h) \/ FaultRemote(h) \/ getpserver(h) \/ EndSection(h)
             \/ jia_barrier(h)
    BY <2>1, ProgramOk, Zenon
  <2>2. CASE barrgrantserver(h) BY <2>2, GrantOk, Zenon
  <2>3. CASE Leave(h) BY <2>3, LeaveOk, Zenon
  <2> QED BY <1>2, <2>1, <2>2, <2>3, Zenon
<1>3. ASSUME UNCHANGED <<vars, mvars>> PROVE Inv'
  <2>1. UNCHANGED <<prog, pc, loop, globaladdr, page, starthost, draws, done, handled>>
    BY <1>3 DEF vars, mvars
  <2>2. Types' BY <2>1 DEF Inv, Types
  <2>3. Busy' BY <2>1 DEF Inv, Busy
  <2> QED BY <2>1, <2>2, <2>3, Quiet, Zenon
<1>4. CASE Ended BY <1>3, <1>4, Zenon DEF Ended
<1> QED BY <1>1, <1>2, <1>3, <1>4, Zenon DEF MNext

\* An interval counted from o.
LEMMA Shift ==
    ASSUME NEW x \in Nat, NEW y \in Nat, NEW o \in Nat, NEW z \in Nat, z - o \in x .. y - 1
    PROVE  o + x <= z /\ z < o + y
OBVIOUS

\* The invariant says where the blocks of the finished calls are.
LEMMA PlacedIsCyclic == Inv => PlacementUntilBarrier
<1> SUFFICES ASSUME Inv, Early(handled), NEW h \in Host, NEW i \in 1 .. Len(done[h]),
                    done[h][i].op = "alloc4"
             PROVE  LET d == done[h][i]
                        Block(k) == {p \in PageNo : p * Pagesize - d.origin
                                                      \in Offset(d)[k] .. Offset(d)[k + 1] - 1}
                    IN  \E n \in 1 .. Maxmempages :
                           /\ d.end = d.origin + Offset(d)[n] /\ Offset(d)[n - 1] < d.total
                           /\ d.total <= Offset(d)[n]
                           /\ \A k \in 0 .. n - 1 : \A p \in Block(k) :
                                 page[h][p].homepid = (d.start + k) % HostC
  BY Zenon DEF PlacementUntilBarrier, CyclicPlacement, Early
<1>1. PICK d : d = done[h][i] BY Zenon
<1>2. d \in Finished
  <2>1. done[h] \in Seq(Finished) BY DEF Inv, Types
  <2> QED BY <1>1, <2>1, ElementOfSeq
<1>3. DoneOk(d, globaladdr[h], page[h], handled) BY <1>1, Zenon DEF Inv, HostOk
<1>4. d.op = "alloc4" BY <1>1
<1>5. PICK n \in 1 .. Maxmempages : Complete(d, n) /\ Placed(d, n, page[h])
  BY <1>3, <1>4, Zenon DEF DoneOk
<1>6. d.blocks \in Blocks /\ d.start \in Host /\ d.origin \in Nat BY <1>2 DEF Finished
<1>7. PICK f \in [Nat -> Nat] :
         /\ f = Begins(d.blocks, d.start) /\ \A k \in Nat : Offset(d)[k] = f[k]
  <2>1. Begins(d.blocks, d.start) \in [Nat -> Nat] BY <1>6, BlockBegins
  <2> QED BY <1>6, <2>1, OffsetBegins
<1>8. Maxmempages \in Nat /\ Pagesize \in Nat BY AllocAssumption
<1>9. n \in Nat /\ n - 1 \in Nat BY <1>8
<1>10. d.end = d.origin + Offset(d)[n] /\ Offset(d)[n - 1] < d.total /\ d.total <= Offset(d)[n]
  BY <1>5, <1>7, <1>9 DEF Complete
<1>11. ASSUME NEW k \in 0 .. n - 1, NEW p \in PageNo,
              p * Pagesize - d.origin \in Offset(d)[k] .. Offset(d)[k + 1] - 1
       PROVE  page[h][p].homepid = (d.start + k) % HostC
  <2>1. k \in Nat /\ k + 1 \in Nat /\ k < n BY <1>9
  <2>2. p \in Nat /\ p * Pagesize \in Nat BY <1>8, AllocAssumption, Scaling DEF PageNo
  <2>3. PICK x \in Nat, y \in Nat, o \in Nat, z \in Nat :
           x = f[k] /\ y = f[k + 1] /\ o = d.origin /\ z = p * Pagesize
    BY <1>6, <2>1, <2>2
  <2>4. z - o \in x .. y - 1 BY <1>7, <1>11, <2>1, <2>3, Zenon
  <2>5. o + x <= z /\ z < o + y BY <2>4, Shift
  <2>6. Within(d, k, p) BY <1>7, <2>3, <2>5, Zenon DEF Within
  <2> QED BY <1>5, <2>1, <2>6, Zenon DEF Placed
<1> QED BY <1>1, <1>10, <1>11

-----------------------------------------------------------------------------
\* Until the first barrier is passed every finished jia_alloc, jia_alloc2, jia_alloc3,
\* jia_alloc4 and jia_alloc_random has put each of its blocks at the host of the
\* reference placement, and stopped with the first block that reaches the size asked for.
THEOREM BlocksPlaced == MSpec => []PlacementUntilBarrier
<1>1. MInit => Inv BY InitOk
<1>2. Inv /\ [MNext]_<<vars, mvars>> => Inv' BY StepOk
<1>3. Inv => PlacementUntilBarrier BY PlacedIsCyclic
<1> QED BY <1>1, <1>2, <1>3, PTL DEF MSpec
=============================================================================
