--------------------------- MODULE MsgPassProofs ---------------------------
(***************************************************************************)
(* Broadcasts arrive once and in order at every host, the message buffer   *)
(* keeps what has not been read, and jia_recv takes no packet that came    *)
(* after one that was waiting for it, for any number of hosts and of       *)
(* places, and any programs.                                               *)
(*                                                                         *)
(* The argument for broadcasts follows the packets that are still to reach *)
(* one host.  A packet at level l stands for the 2^l positions from the    *)
(* one it goes to, and these positions start at a multiple of 2^l.  So for *)
(* each host and level there is one position, and one host that sends to   *)
(* it: the packets of a root for a host follow each other through the same *)
(* queues, the lower the level the earlier they were broadcast.            *)
(*                                                                         *)
(* The argument for jia_recv is about one buffer and the two threads that  *)
(* share it: of the packets numbered since msgseqno was last written over  *)
(* the later ones have the higher numbers (Numbered), and of the places    *)
(* that a scan has passed none holds a packet that was waiting and has a   *)
(* lower number than the one it has chosen (Scanned).                      *)
(***************************************************************************)
EXTENDS MsgPass, FiniteSetTheorems, SequenceTheorems, WellFoundedInduction, TLAPS

(***************************************************************************)
(* Types.                                                                  *)
(***************************************************************************)
AnyTag == Tags \cup {BCAST_TAG, REDUCE_TAG}

Value == [count : [Host -> Nat], rounds : SUBSET Nat, junk : BOOLEAN]

Packets ==
    [bcast : BOOLEAN, root : Host, level : Nat, frompid : Host, topid : Host, tag : AnyTag,
     no : Nat, tail : BOOLEAN, value : Value]

Slot == [op : {"MSG", "ERRMSG"}, seqno : Nat, packet : Packets \cup {Junk}, arrival : Nat]

ServerState ==
    [at : {"search"}, place : 0 .. Maxmsgbufs, packet : Packets]
    \cup [at : {"fill"}, place : Place, packet : Packets] \cup {Idle}

RecvState ==
    [at : {"none", "scan", "copy", "done"}, from : Host \cup {All}, tag : AnyTag \cup {All},
     len : Nat, buf : Seq(Packets \cup {Junk}),
     place : 0 .. Maxmsgbufs, index : 0 .. Maxmsgbufs, next : Nat,
     start : Nat, torn : BOOLEAN, taken : Packets \cup {Junk}, spoilt : BOOLEAN]

RedState == [j : Nat \cup {-1}, value : Value]

TypeNet ==
    /\ outq \in [Host -> Seq(Packets)] /\ inq \in [Host -> Seq(Packets)]
    /\ sent \in [Host -> Nat]
    /\ got \in [Host -> [Host -> Seq(Nat)]]

TypeBuf ==
    /\ msgbuf \in [Host -> [Place -> Slot]] /\ msgseqno \in [Host -> Nat]
    /\ arrivals \in [Host -> [count : Nat, renumbered : Nat]]
    /\ server \in [Host -> ServerState]
    /\ status \in [Host -> {"run", "overflow", "asserted"}]
    /\ recv \in [Host -> RecvState]

TypeApp ==
    /\ prog \in [Host -> Seq(Call)]
    /\ left \in [Host -> Nat] /\ round \in [Host -> Nat]
    /\ red \in [Host -> RedState] /\ junk \subseteq Host

TypeOK == TypeNet /\ TypeBuf /\ TypeApp

(***************************************************************************)
(* The invariant of the broadcast tree.                                    *)
(***************************************************************************)
\* The position of h in the tree of root r.
Pos(h, r) == IF h - r >= 0 THEN h - r ELSE h - r + HostC

\* The packet stands for the hosts of its subtree: it is to be handled by h.
Carries(m, r, h) ==
    /\ m.tag = BCAST_TAG /\ m.root = r
    /\ Pos(m.topid, r) <= Pos(h, r) /\ Pos(h, r) < Pos(m.topid, r) + 2^m.level

\* A position where subtrees of level l begin.
Aligned(p, l) == \E k \in Host : p = k * 2^l

\* A packet under way in the tree is at the beginning of its subtree.
Node(m) ==
    /\ m.bcast <=> (m.tag = BCAST_TAG /\ m.level > 0)
    /\ m.tag = BCAST_TAG => m.level < RootLevel /\ Aligned(Pos(m.topid, m.root), m.level)

\* g is the host that passes the packet on: at the same position or one subtree before it.
SentBy(m, g) ==
    m.tag = BCAST_TAG =>
        /\ Aligned(Pos(g, m.root), m.level + 1)
        /\ Pos(m.topid, m.root) \in {Pos(g, m.root), Pos(g, m.root) + 2^m.level}

OnWayIn(m) == \E g \in Host : \E i \in 1 .. Len(inq[g]) : inq[g][i] = m
OnWayOut(m) == \E g \in Host : \E i \in 1 .. Len(outq[g]) : outq[g][i] = m
OnWay(m) == OnWayIn(m) \/ OnWayOut(m)

PlacedIn ==
    \A g \in Host : \A i \in 1 .. Len(inq[g]) : Node(inq[g][i]) /\ inq[g][i].topid = g
PlacedOut ==
    \A g \in Host : \A i \in 1 .. Len(outq[g]) : Node(outq[g][i]) /\ SentBy(outq[g][i], g)

\* The lower a packet for h is in the tree, the earlier it was broadcast; of those of
\* one level the ones that have been transferred are the earlier ones.
Ranked ==
    \A r, h \in Host : \A a, b \in Packets :
        /\ Carries(a, r, h) /\ Carries(b, r, h) /\ OnWay(a) /\ OnWay(b)
        /\ a.level < b.level \/ (a.level = b.level /\ OnWayIn(a) /\ OnWayOut(b))
        => a.no < b.no

\* The packets of one level for h are in each queue in their order.
InOrder(s) ==
    \A r, h \in Host : \A i, j \in 1 .. Len(s) :
        i < j /\ Carries(s[i], r, h) /\ Carries(s[j], r, h) /\ s[i].level = s[j].level
            => s[i].no < s[j].no

QueuedIn == \A g \in Host : InOrder(inq[g])
QueuedOut == \A g \in Host : InOrder(outq[g])

\* Still to be handled by h, and no other: the packets after the ones it has handled.
Pending ==
    \A r, h \in Host :
        /\ \A m \in Packets :
              OnWay(m) /\ Carries(m, r, h) => Len(got[h][r]) < m.no /\ m.no <= sent[r]
        /\ \A n \in Len(got[h][r]) + 1 .. sent[r] :
              \E m \in Packets : OnWay(m) /\ Carries(m, r, h) /\ m.no = n

TreeInv ==
    PlacedIn /\ PlacedOut /\ QueuedIn /\ QueuedOut /\ Ranked /\ Pending /\ BcastInOrder

-----------------------------------------------------------------------------
(***************************************************************************)
(* Numbers.                                                                *)
(***************************************************************************)
\* A set of numbers that is not empty has a least one.
LEMMA LeastNumber ==
    ASSUME NEW T, T \subseteq Nat, T # {}
    PROVE  \E x \in T : \A y \in T : x <= y
<1> DEFINE Less == {p \in Nat \X Nat : p[1] < p[2]}
<1>1. IsWellFoundedOn(Less, Nat)
  BY NatLessThanWellFounded DEF OpToRel
<1>2. PICK x \in T : \A y \in T : <<y, x>> \notin Less
  BY <1>1, WFMin
<1>3. ASSUME NEW y \in T PROVE x <= y
  <2>1. <<y, x>> \notin Less BY <1>2
  <2> QED BY <2>1
<1> QED BY <1>3

\* Powers of two count the subsets of an interval.
LEMMA PowerCounts ==
    ASSUME NEW n \in Nat
    PROVE  /\ IsFiniteSet(SUBSET (1 .. n))
           /\ Cardinality(SUBSET (1 .. n)) = 2^n
<1>1. IsFiniteSet(1 .. n) /\ Cardinality(1 .. n) = n
  BY FS_Interval
<1> QED BY <1>1, FS_SUBSET, Zenon

\* The next power of two is twice as large.
LEMMA Doubling ==
    ASSUME NEW n \in Nat
    PROVE  2^n \in Nat /\ 2^n >= 1 /\ 2^(n + 1) = 2 * 2^n
<1> DEFINE Old == SUBSET (1 .. n)
           New == {B \cup {n + 1} : B \in Old}
           f == [B \in Old |-> B \cup {n + 1}]
<1>1. IsFiniteSet(Old) /\ Cardinality(Old) = 2^n
  BY PowerCounts, Zenon
<1>2. 2^n \in Nat
  BY <1>1, FS_CardinalityType
<1>3. n + 1 \in Nat /\ Cardinality(SUBSET (1 .. n + 1)) = 2^(n + 1)
  BY PowerCounts
<1>4. 1 .. n + 1 = (1 .. n) \cup {n + 1} /\ n + 1 \notin 1 .. n
  OBVIOUS
<1>5. SUBSET (1 .. n + 1) = Old \cup New
  <2>1. ASSUME NEW C \in SUBSET (1 .. n + 1) PROVE C \in Old \cup New
    <3>1. CASE n + 1 \in C
      <4>1. C \ {n + 1} \in Old /\ C = (C \ {n + 1}) \cup {n + 1} BY <3>1, <1>4
      <4> QED BY <4>1, Zenon
    <3>2. CASE n + 1 \notin C BY <3>2, <1>4
    <3> QED BY <3>1, <3>2
  <2>2. ASSUME NEW C \in Old \cup New PROVE C \in SUBSET (1 .. n + 1)
    BY <1>4
  <2> QED BY <2>1, <2>2
<1>6. Old \cap New = {}
  BY <1>4
<1>7. f \in Bijection(Old, New)
  <2>1. ASSUME NEW B \in Old, NEW C \in Old, f[B] = f[C] PROVE B = C
    <3>1. B \cup {n + 1} = C \cup {n + 1} BY <2>1
    <3> QED BY <3>1, <1>4
  <2>2. f \in [Old -> New] BY Zenon
  <2>3. f \in Injection(Old, New) BY <2>1, <2>2, Zenon DEF Injection, IsInjective
  <2>4. f \in Surjection(Old, New) BY <2>2, Zenon DEF Surjection
  <2> QED BY <2>3, <2>4, Zenon DEF Bijection
<1>8. IsFiniteSet(New) /\ Cardinality(New) = 2^n
  <2>1. ExistsBijection(Old, New) BY <1>7, Zenon DEF ExistsBijection
  <2> HIDE DEF Old, New, f
  <2> QED BY <1>1, <2>1, FS_Bijection, Zenon
<1>9. Cardinality(Old \cup New) = Cardinality(Old) + Cardinality(New) - Cardinality(Old \cap New)
  <2> HIDE DEF Old, New
  <2> QED BY <1>1, <1>8, FS_Union
<1>10. 2^n # 0
  <2>1. {} \in Old OBVIOUS
  <2> QED BY <2>1, <1>1, FS_EmptySet, Zenon
<1>11. Cardinality(SUBSET (1 .. n + 1)) = (2^n + 2^n) - 0
  <2>1. Cardinality(Old \cap New) = 0 BY <1>6, FS_EmptySet, Zenon
  <2>2. Cardinality(SUBSET (1 .. n + 1)) = Cardinality(Old \cup New) BY <1>5, Zenon
  <2>3. Cardinality(Old \cup New) = (2^n + 2^n) - 0
    <3> HIDE DEF Old, New, f
    <3> QED BY <2>1, <1>1, <1>8, <1>9
  <2> QED BY <2>2, <2>3, Zenon
<1> HIDE DEF Old, New, f
<1> QED BY <1>2, <1>3, <1>10, <1>11

\* A power of two is larger than its exponent.
LEMMA PowerExceeds ==
    ASSUME NEW n \in Nat
    PROVE  n < 2^n
<1> DEFINE Wrong == {k \in Nat : ~ (k < 2^k)}
<1>1. SUFFICES ASSUME Wrong # {} PROVE FALSE
  OBVIOUS
<1>2. PICK x \in Wrong : \A y \in Wrong : x <= y
  BY <1>1, LeastNumber
<1>3. CASE x = 0
  <2>1. 2^0 = 1 OBVIOUS
  <2> QED BY <2>1, <1>3, <1>2
<1>4. CASE x # 0
  <2> DEFINE y == x - 1
  <2>1. y \in Nat /\ y + 1 = x /\ ~ (x <= y) BY <1>4
  <2>2. y < 2^y BY <2>1, <1>2
  <2>3. 2^(y + 1) = 2 * 2^y /\ 2^y \in Nat BY <2>1, Doubling
  <2> QED BY <2>1, <2>2, <2>3
<1> QED BY <1>3, <1>4

\* RootLevel is well defined: some level has a tree that holds all hosts.
LEMMA RootLevels ==
    RootLevel \in Nat /\ RootLevel >= 1 /\ HostC <= 2^RootLevel
<1>0. HostC \in Nat /\ HostC >= 1 BY BcastAssumption
<1>1. CASE HostC = 1
  <2>1. 1 <= 2^1 BY Doubling
  <2> QED BY <1>1, <2>1 DEF RootLevel
<1>2. CASE HostC # 1
  <2> DEFINE Enough == {l \in 0 .. HostC : 2^l >= HostC}
  <2>1. HostC \in Enough BY <1>0, PowerExceeds, Doubling
  <2>a. Enough \subseteq Nat /\ Enough # {}
    BY <2>1, <1>0
  <2>2. PICK l \in Enough : \A k \in Enough : l <= k
    <3> HIDE DEF Enough
    <3> QED BY <2>a, LeastNumber
  <2>3. \A k \in 0 .. l - 1 : 2^k < HostC
    <3> SUFFICES ASSUME NEW k \in 0 .. l - 1, ~ (2^k < HostC) PROVE FALSE
      OBVIOUS
    <3>1. k \in Nat /\ k \in 0 .. HostC /\ ~ (l <= k) BY <1>0
    <3>2. 2^k \in Nat BY <3>1, Doubling
    <3> QED BY <3>1, <3>2, <2>2, <1>0
  <2> DEFINE P(x) == 2^x >= HostC /\ \A k \in 0 .. x - 1 : 2^k < HostC
  <2>4. RootLevel = CHOOSE x \in 0 .. HostC : P(x)
    BY <1>2 DEF RootLevel
  <2>5. \E x \in 0 .. HostC : P(x)
    BY <2>2, <2>3
  <2>6. RootLevel \in 0 .. HostC /\ P(RootLevel)
    BY <2>4, <2>5
  <2> HIDE DEF Enough
  <2>7. RootLevel \in Nat /\ 2^RootLevel \in Nat /\ 2^RootLevel >= HostC
    BY <2>6, <1>0, Doubling
  <2>8. RootLevel # 0
    <3>1. 2^0 = 1 OBVIOUS
    <3> SUFFICES ASSUME RootLevel = 0 PROVE FALSE
      OBVIOUS
    <3>2. 2^RootLevel = 1 BY <3>1
    <3> QED BY <3>2, <2>7, <1>0, <1>2
  <2> QED BY <2>7, <2>8, <1>0
<1> QED BY <1>1, <1>2

-----------------------------------------------------------------------------
(***************************************************************************)
(* Subtrees.                                                               *)
(***************************************************************************)
\* Multiplying keeps the order.
LEMMA Scaling ==
    ASSUME NEW a \in Nat, NEW b \in Nat, NEW d \in Nat, a <= b
    PROVE  a * d \in Nat /\ b * d \in Nat /\ a * d <= b * d
<1> DEFINE c == b - a
<1>1. c \in Nat /\ b = a + c OBVIOUS
<1>2. \A x, y \in Nat : x * y \in Nat OBVIOUS
<1>3. b * d = a * d + c * d BY <1>1
<1>4. a * d \in Nat /\ b * d \in Nat /\ c * d \in Nat BY <1>1, <1>2
<1> HIDE DEF c
<1> QED BY <1>3, <1>4

\* A number is in one block of d numbers.
LEMMA OneBlock ==
    ASSUME NEW a \in Nat, NEW b \in Nat, NEW d \in Nat, NEW p \in Nat,
           a * d <= p, p < a * d + d, b * d <= p, p < b * d + d
    PROVE  a = b
<1>1. ASSUME NEW x \in Nat, NEW y \in Nat, x < y, p < x * d + d, y * d <= p PROVE FALSE
  <2>1. x + 1 \in Nat /\ x + 1 <= y BY <1>1
  <2>2. (x + 1) * d <= y * d BY <2>1, Scaling
  <2>3. (x + 1) * d = x * d + d OBVIOUS
  <2>4. x * d \in Nat /\ y * d \in Nat BY Scaling
  <2> QED BY <2>2, <2>3, <2>4, <1>1
<1> QED BY <1>1

\* Positions are numbers below HostC, one for each host, the root's is 0.
LEMMA Positions ==
    ASSUME NEW r \in Host
    PROVE  /\ \A h \in Host : Pos(h, r) \in Host
           /\ \A g, h \in Host : Pos(g, r) = Pos(h, r) => g = h
           /\ Pos(r, r) = 0
BY BcastAssumption DEF Pos, Host

\* The host at a position.
LEMMA HostAt ==
    ASSUME NEW r \in Host, NEW x \in Host
    PROVE  (x + r) % HostC \in Host /\ Pos((x + r) % HostC, r) = x
<1>0. HostC \in Nat /\ HostC >= 1 /\ x \in Nat /\ r \in Nat /\ x < HostC /\ r < HostC
  BY BcastAssumption DEF Host
<1>1. CASE x + r < HostC
  <2>1. (x + r) % HostC = x + r BY <1>0, <1>1
  <2>2. x + r \in Host BY <1>0, <1>1 DEF Host
  <2>3. Pos(x + r, r) = x BY <1>0 DEF Pos
  <2> QED BY <2>1, <2>2, <2>3
<1>2. CASE x + r >= HostC
  <2>1. (x + r) % HostC = (x + r) - HostC BY <1>0, <1>2
  <2>2. (x + r) - HostC \in Host BY <1>0, <1>2 DEF Host
  <2>3. Pos((x + r) - HostC, r) = x BY <1>0 DEF Pos
  <2> QED BY <2>1, <2>2, <2>3
<1> QED BY <1>0, <1>1, <1>2

\* The number of a block of positions is a position itself.
LEMMA BlockNumber ==
    ASSUME NEW q \in Host, NEW l \in Nat, NEW k \in Nat, q = k * 2^l
    PROVE  Aligned(q, l)
<1>1. 2^l \in Nat /\ 2^l >= 1 BY Doubling
<1>2. k * 1 <= k * 2^l
  <2> DEFINE d == 2^l
  <2>1. d \in Nat /\ 1 <= d BY <1>1
  <2> HIDE DEF d
  <2>2. 1 * k <= d * k BY <2>1, Scaling
  <2>3. d * k = k * d /\ 1 * k = k * 1 BY <2>1
  <2>4. k * 1 <= k * d BY <2>2, <2>3
  <2> QED BY <2>4 DEF d
<1>3. k \in Host BY <1>2, BcastAssumption DEF Host
<1> QED BY <1>3 DEF Aligned

\* A subtree is cut into the one at the same position and the one behind it.
LEMMA Halves ==
    ASSUME NEW q \in Host, NEW l \in Nat, Aligned(q, l + 1)
    PROVE  /\ Aligned(q, l)
           /\ q + 2^l \in Host => Aligned(q + 2^l, l)
           /\ 2^l \in Nat /\ 2^l >= 1 /\ 2^(l + 1) = 2^l + 2^l
<1>1. 2^l \in Nat /\ 2^l >= 1 /\ 2^(l + 1) = 2 * 2^l BY Doubling
<1>2. PICK k \in Host : q = k * 2^(l + 1) BY DEF Aligned
<1> DEFINE d == 2^l
<1>3. d \in Nat /\ 2^(l + 1) = 2 * d /\ k \in Nat BY <1>1 DEF Host
<1>4. q = k * (2 * d) BY <1>2, <1>3
<1>5. q = (2 * k) * d /\ q + d = (2 * k + 1) * d
  <2> HIDE DEF d
  <2> QED BY <1>3, <1>4
<1>6. 2 * k \in Nat /\ 2 * k + 1 \in Nat BY <1>3
<1>7. Aligned(q, l) BY <1>5, <1>6, BlockNumber
<1>8. q + 2^l \in Host => Aligned(q + 2^l, l) BY <1>5, <1>6, BlockNumber
<1> QED BY <1>1, <1>7, <1>8

-----------------------------------------------------------------------------
(***************************************************************************)
(* Packets in the tree.                                                    *)
(***************************************************************************)
\* For each level one position stands for h.
LEMMA SameNode ==
    ASSUME NEW a \in Packets, NEW b \in Packets, Node(a), Node(b),
           NEW r \in Host, NEW h \in Host, Carries(a, r, h), Carries(b, r, h),
           a.level = b.level
    PROVE  a.topid = b.topid
<1> DEFINE d == 2^a.level
<1>1. a.level \in Nat /\ a.topid \in Host /\ b.topid \in Host BY DEF Packets
<1>2. d \in Nat /\ d = 2^b.level BY <1>1, Doubling
<1>3. a.tag = BCAST_TAG /\ a.root = r /\ b.tag = BCAST_TAG /\ b.root = r BY DEF Carries
<1>4. Pos(h, r) \in Nat BY Positions DEF Host
<1>5. PICK i \in Host : Pos(a.topid, r) = i * d BY <1>3 DEF Node, Aligned
<1>6. PICK j \in Host : Pos(b.topid, r) = j * d BY <1>2, <1>3 DEF Node, Aligned
<1>7. /\ i * d <= Pos(h, r) /\ Pos(h, r) < i * d + d
      /\ j * d <= Pos(h, r) /\ Pos(h, r) < j * d + d
  BY <1>2, <1>5, <1>6 DEF Carries
<1>8. i \in Nat /\ j \in Nat BY DEF Host
<1> HIDE DEF d
<1>9. i = j BY <1>2, <1>4, <1>7, <1>8, OneBlock
<1> QED BY <1>1, <1>5, <1>6, <1>9, Positions

\* For each position and level one host sends.
LEMMA SameSender ==
    ASSUME NEW a \in Packets, NEW b \in Packets, a.tag = BCAST_TAG, b.tag = BCAST_TAG,
           a.root = b.root, a.level = b.level, a.topid = b.topid,
           NEW f \in Host, NEW g \in Host, SentBy(a, f), SentBy(b, g)
    PROVE  f = g
<1> DEFINE l == a.level
           r == a.root
           q == Pos(a.topid, r)
           d == 2^(l + 1)
<1>1. l \in Nat /\ r \in Host /\ q \in Host BY Positions DEF Packets
<1>2. Pos(f, r) \in Host /\ Pos(g, r) \in Host BY <1>1, Positions
<1>3. Aligned(Pos(f, r), l + 1) /\ q \in {Pos(f, r), Pos(f, r) + 2^l} BY DEF SentBy
<1>4. Aligned(Pos(g, r), l + 1) /\ q \in {Pos(g, r), Pos(g, r) + 2^l} BY DEF SentBy
<1>5. d \in Nat /\ 2^l \in Nat /\ 2^l >= 1 /\ d = 2 * 2^l BY <1>1, Doubling
<1>6. PICK i \in Host : Pos(f, r) = i * d BY <1>3 DEF Aligned
<1>7. PICK j \in Host : Pos(g, r) = j * d BY <1>4 DEF Aligned
<1> HIDE DEF d, q, r, l
<1>8. i * d <= q /\ q < i * d + d
  BY <1>2, <1>3, <1>5, <1>6 DEF Host
<1>9. j * d <= q /\ q < j * d + d
  BY <1>2, <1>4, <1>5, <1>7 DEF Host
<1>10. i = j
  <2>1. i \in Nat /\ j \in Nat /\ q \in Nat BY <1>1 DEF Host
  <2> QED BY <2>1, <1>5, <1>8, <1>9, OneBlock
<1>11. Pos(f, r) = Pos(g, r) BY <1>6, <1>7, <1>10
<1> QED BY <1>1, <1>11, Positions

\* A packet for one position carries what this host handles.
LEMMA LeafCarries ==
    ASSUME NEW a \in Packets, a.level = 0, NEW r \in Host, NEW h \in Host, Carries(a, r, h)
    PROVE  a.topid = h
<1>1. 2^0 = 1 OBVIOUS
<1>2. Pos(a.topid, r) <= Pos(h, r) /\ Pos(h, r) < Pos(a.topid, r) + 1
  BY <1>1 DEF Carries
<1>3. a.topid \in Host BY DEF Packets
<1>4. Pos(a.topid, r) = Pos(h, r)
  <2>1. Pos(a.topid, r) \in Host /\ Pos(h, r) \in Host BY <1>3, Positions
  <2>2. Host \subseteq Int BY DEF Host
  <2>3. \A x, y \in Int : x <= y /\ y < x + 1 => x = y OBVIOUS
  <2> QED BY <1>2, <2>1, <2>2, <2>3
<1> QED BY <1>3, <1>4, Positions

\* What g makes of a packet for host to, one level lower.
Kid(m, g, to) ==
    [m EXCEPT !.bcast = ~LastLevel(m.level - 1), !.level = m.level - 1,
              !.frompid = g, !.topid = to]

\* Its fields.
LEMMA KidFields ==
    ASSUME NEW m \in Packets, m.level > 0, NEW g \in Host, NEW to \in Host
    PROVE  LET k == Kid(m, g, to)
           IN  /\ k \in Packets /\ k.bcast = (m.level - 1 # 0) /\ k.level = m.level - 1
               /\ k.topid = to /\ k.tag = m.tag /\ k.root = m.root /\ k.no = m.no
<1> DEFINE k == Kid(m, g, to)
<1>1. m.level \in Nat /\ m.level - 1 \in Nat BY DEF Packets
<1>2. PICK b \in BOOLEAN, l \in Nat : b = ~LastLevel(m.level - 1) /\ l = m.level - 1
  BY <1>1 DEF LastLevel
<1>3. k = [m EXCEPT !.bcast = b, !.level = l, !.frompid = g, !.topid = to]
  BY <1>2 DEF Kid
<1>4. k \in Packets BY <1>3 DEF Packets
<1>5. /\ k.bcast = b /\ k.level = l /\ k.topid = to
      /\ k.tag = m.tag /\ k.root = m.root /\ k.no = m.no
  BY <1>3 DEF Packets
<1>6. b = (m.level - 1 # 0) BY <1>2, Zenon DEF LastLevel
<1> QED BY <1>2, <1>4, <1>5, <1>6

\* Appending to a sequence of one element.
LEMMA AppendToOne ==
    ASSUME NEW S, NEW x \in S, NEW y \in S
    PROVE  Append(<<x>>, y) = <<x, y>>
<1>1. <<x>> \in Seq(S) /\ <<y>> \in Seq(S) /\ <<x, y>> \in Seq(S)
      /\ Len(<<x>>) = 1 /\ Len(<<x, y>>) = 2
  OBVIOUS
<1>2. /\ Append(<<x>>, y) \in Seq(S) /\ Len(Append(<<x>>, y)) = Len(<<x>>) + 1
      /\ \A i \in 1 .. Len(<<x>>) : Append(<<x>>, y)[i] = <<x>>[i]
      /\ Append(<<x>>, y)[Len(<<x>>) + 1] = y
  BY <1>1, AppendProperties
<1>3. \A i \in 1 .. 2 : Append(<<x>>, y)[i] = <<x, y>>[i] BY <1>2
<1>4. Len(Append(<<x>>, y)) = 2 BY <1>2
<1> QED BY <1>1, <1>2, <1>3, <1>4, SeqEqual, Zenon

\* The packets to which g passes a packet on.
LEMMA ForwardsAre ==
    ASSUME NEW m \in Packets, m.level > 0, NEW g \in Host
    PROVE  LET p == Pos(g, m.root) + 2^(m.level - 1)
           IN  \/ /\ p \notin Host
                  /\ Forwards(g, m) = <<Kid(m, g, g)>>
               \/ \E c \in Host :
                     /\ p \in Host /\ Pos(c, m.root) = p
                     /\ Forwards(g, m) = <<Kid(m, g, c), Kid(m, g, g)>>
<1> DEFINE l == m.level - 1
           r == m.root
           q == Pos(g, r)
           p == q + 2^l
           c == (p + r) % HostC
<1>1. l \in Nat /\ r \in Host /\ m.level \in Nat BY DEF Packets
<1>2. q \in Host /\ 2^l \in Nat /\ 2^l >= 1 BY <1>1, Positions, Doubling
<1>3. p \in Nat /\ (p \in Host <=> p < HostC) BY <1>2, BcastAssumption DEF Host
<1>4. Child2(g, r, l) = IF p < HostC THEN <<c>> ELSE <<>>
  BY DEF Child2, Pos
<1>5. CASE p < HostC
  <2>1. c \in Host /\ Pos(c, r) = p BY <1>1, <1>3, <1>5, HostAt
  <2> HIDE DEF c
  <2>2. Append(Child2(g, r, l), g) = <<c, g>>
    <3>1. Child2(g, r, l) = <<c>> BY <1>4, <1>5, Zenon
    <3>2. Append(<<c>>, g) = <<c, g>> BY <2>1, AppendToOne
    <3> QED BY <3>1, <3>2, Zenon
  <2>3. Forwards(g, m) = [i \in 1 .. 2 |-> Kid(m, g, <<c, g>>[i])]
    <3>1. Len(<<c, g>>) = 2 OBVIOUS
    <3> QED BY <2>2, <3>1, Zenon DEF Forwards, Kid
  <2>4. [i \in 1 .. 2 |-> Kid(m, g, <<c, g>>[i])] = <<Kid(m, g, c), Kid(m, g, g)>>
    OBVIOUS
  <2> QED BY <2>1, <2>3, <2>4, <1>3, <1>5
<1>6. CASE ~ (p < HostC)
  <2>1. Append(Child2(g, r, l), g) = <<g>>
    <3>1. Child2(g, r, l) = <<>> BY <1>4, <1>6, Zenon
    <3>2. Append(<<>>, g) = <<g>> OBVIOUS
    <3> QED BY <3>1, <3>2, Zenon
  <2>2. Forwards(g, m) = [i \in 1 .. 1 |-> Kid(m, g, <<g>>[i])]
    <3>1. Len(<<g>>) = 1 OBVIOUS
    <3> QED BY <2>1, <3>1, Zenon DEF Forwards, Kid
  <2>3. [i \in 1 .. 1 |-> Kid(m, g, <<g>>[i])] = <<Kid(m, g, g)>>
    OBVIOUS
  <2> QED BY <2>2, <2>3, <1>3, <1>6
<1> QED BY <1>5, <1>6

\* The packets of s, sent by g, are m one level down: each is at the beginning of
\* its own subtree, and together they stand for the hosts m stood for.
Shares(s, m, g) ==
    /\ \A i \in 1 .. Len(s) :
          /\ s[i].tag = BCAST_TAG /\ s[i].root = m.root /\ s[i].no = m.no
          /\ s[i].level = m.level - 1
          /\ Node(s[i]) /\ SentBy(s[i], g)
    /\ \A r, h \in Host :
          /\ \A i \in 1 .. Len(s) : Carries(s[i], r, h) => Carries(m, r, h)
          /\ Carries(m, r, h) => \E i \in 1 .. Len(s) : Carries(s[i], r, h)
          /\ \A i, j \in 1 .. Len(s) : Carries(s[i], r, h) /\ Carries(s[j], r, h) => i = j

\* Passing a packet on: what it stood for is shared out among the packets that
\* are sent, each of which is at the beginning of its own subtree.
LEMMA ForwardTree ==
    ASSUME NEW m \in Packets, m.tag = BCAST_TAG, m.level > 0, m.level <= RootLevel,
           Aligned(Pos(m.topid, m.root), m.level)
    PROVE  LET F == Forwards(m.topid, m)
           IN  F \in Seq(Packets) /\ Shares(F, m, m.topid)
<1> DEFINE g == m.topid
           F == Forwards(g, m)
           r == m.root
           l == m.level - 1
           q == Pos(g, r)
           d == 2^l
<1> SUFFICES /\ F \in Seq(Packets)
             /\ \A i \in 1 .. Len(F) :
                   /\ F[i].tag = BCAST_TAG /\ F[i].root = m.root /\ F[i].no = m.no
                   /\ F[i].level = m.level - 1
                   /\ Node(F[i]) /\ SentBy(F[i], g)
             /\ \A s, h \in Host :
                   /\ \A i \in 1 .. Len(F) : Carries(F[i], s, h) => Carries(m, s, h)
                   /\ Carries(m, s, h) => \E i \in 1 .. Len(F) : Carries(F[i], s, h)
                   /\ \A i, j \in 1 .. Len(F) :
                         Carries(F[i], s, h) /\ Carries(F[j], s, h) => i = j
  <2> HIDE DEF F, g
  <2> QED BY Zenon DEF Shares, F, g
<1>1. l \in Nat /\ r \in Host /\ g \in Host /\ m.level = l + 1 /\ l < RootLevel
  BY RootLevels DEF Packets
<1>2. q \in Host BY <1>1, Positions
<1>3. /\ Aligned(q, l)
      /\ q + d \in Host => Aligned(q + d, l)
      /\ d \in Nat /\ d >= 1 /\ 2^m.level = d + d
  <2>1. Aligned(q, l + 1) BY <1>1, Zenon
  <2>2. /\ Aligned(q, l)
        /\ q + 2^l \in Host => Aligned(q + 2^l, l)
        /\ 2^l \in Nat /\ 2^l >= 1 /\ 2^(l + 1) = 2^l + 2^l
    <3> HIDE DEF q, l
    <3> QED BY <1>1, <1>2, <2>1, Halves
  <2> QED BY <1>1, <2>2, Zenon
<1>4. /\ q \in Nat /\ (q + d \in Host <=> q + d < HostC)
      /\ \A h \in Host : Pos(h, r) \in Nat /\ Pos(h, r) < HostC
  <2>1. q \in Nat BY <1>2 DEF Host
  <2>2. q + d \in Nat BY <2>1, <1>3
  <2>3. \A x \in Nat : x \in Host <=> x < HostC BY BcastAssumption DEF Host
  <2>4. \A h \in Host : Pos(h, r) \in Host BY <1>1, Positions
  <2>5. Host \subseteq Nat BY DEF Host
  <2> QED BY <2>1, <2>2, <2>3, <2>4, <2>5, Zenon
<1>5. \A s, h \in Host : Carries(m, s, h) <=> s = r /\ q <= Pos(h, r) /\ Pos(h, r) < q + (d + d)
  BY <1>3 DEF Carries
\* A packet for the position t of the two.
<1>6. ASSUME NEW c \in Host, Pos(c, r) = q \/ (q + d \in Host /\ Pos(c, r) = q + d)
      PROVE  LET k == Kid(m, g, c)
             IN  /\ k \in Packets /\ k.tag = BCAST_TAG /\ k.root = r /\ k.no = m.no
                 /\ k.level = l /\ Node(k) /\ SentBy(k, g)
                 /\ \A s, h \in Host : Carries(k, s, h) <=>
                       s = r /\ Pos(c, r) <= Pos(h, r) /\ Pos(h, r) < Pos(c, r) + d
  <2> DEFINE k == Kid(m, g, c)
  <2>1. /\ k \in Packets /\ k.bcast = (l # 0) /\ k.level = l /\ k.topid = c
        /\ k.tag = BCAST_TAG /\ k.root = r /\ k.no = m.no
    BY <1>1, KidFields
  <2> HIDE DEF k
  <2>2. Node(k)
    <3>1. Aligned(Pos(k.topid, k.root), k.level) BY <2>1, <1>3, <1>6
    <3>2. k.bcast <=> (k.level > 0)
      <4>1. (l # 0) <=> (l > 0) BY <1>1
      <4> QED BY <2>1, <4>1, Zenon
    <3> QED BY <2>1, <3>1, <3>2, <1>1 DEF Node
  <2>3. SentBy(k, g)
    <3>1. Aligned(Pos(g, k.root), k.level + 1) BY <2>1, <1>1
    <3>2. Pos(k.topid, k.root) \in {Pos(g, k.root), Pos(g, k.root) + 2^k.level}
      BY <2>1, <1>6
    <3> QED BY <3>1, <3>2 DEF SentBy
  <2>4. \A s, h \in Host : Carries(k, s, h) <=>
           s = r /\ Pos(c, r) <= Pos(h, r) /\ Pos(h, r) < Pos(c, r) + d
    BY <2>1 DEF Carries
  <2> QED BY <2>1, <2>2, <2>3, <2>4 DEF k
<1> HIDE DEF d
<1>7. CASE q + d \notin Host /\ F = <<Kid(m, g, g)>>
  <2> DEFINE k == Kid(m, g, g)
  <2>1. /\ k \in Packets /\ k.tag = BCAST_TAG /\ k.root = r /\ k.no = m.no
        /\ k.level = l /\ Node(k) /\ SentBy(k, g)
        /\ \A s, h \in Host : Carries(k, s, h) <=>
              s = r /\ q <= Pos(h, r) /\ Pos(h, r) < q + d
    BY <1>1, <1>6
  <2> HIDE DEF k, F, r, l, q, g
  <2>2. F \in Seq(Packets) /\ Len(F) = 1 /\ F[1] = k BY <1>7, <2>1 DEF k
  <2>3. \A i \in 1 .. Len(F) : F[i] = k /\ i = 1 BY <2>2
  <2>4. \A s, h \in Host : Carries(m, s, h) <=> Carries(k, s, h)
    <3> SUFFICES ASSUME NEW s \in Host, NEW h \in Host
                 PROVE  Carries(m, s, h) <=> Carries(k, s, h)
      OBVIOUS
    <3>1. Pos(h, r) < q + d
      <4>1. q + d \in Nat /\ ~ (q + d < HostC) BY <1>3, <1>4, <1>7
      <4>2. Pos(h, r) \in Nat /\ Pos(h, r) < HostC BY <1>4
      <4> QED BY <4>1, <4>2, BcastAssumption
    <3>2. Pos(h, r) < q + (d + d) BY <1>3, <1>4, <3>1
    <3> QED BY <3>1, <3>2, <1>5, <2>1
  <2> QED BY <2>1, <2>2, <2>3, <2>4 DEF F, g, r, l
<1>8. CASE \E c \in Host : /\ q + d \in Host /\ Pos(c, r) = q + d
                           /\ F = <<Kid(m, g, c), Kid(m, g, g)>>
  <2> PICK c \in Host : /\ q + d \in Host /\ Pos(c, r) = q + d
                        /\ F = <<Kid(m, g, c), Kid(m, g, g)>>
    BY <1>8
  <2> DEFINE k == Kid(m, g, g)
             n == Kid(m, g, c)
  <2>1. /\ k \in Packets /\ k.tag = BCAST_TAG /\ k.root = r /\ k.no = m.no
        /\ k.level = l /\ Node(k) /\ SentBy(k, g)
        /\ \A s, h \in Host : Carries(k, s, h) <=>
              s = r /\ q <= Pos(h, r) /\ Pos(h, r) < q + d
    BY <1>1, <1>6
  <2>2. /\ n \in Packets /\ n.tag = BCAST_TAG /\ n.root = r /\ n.no = m.no
        /\ n.level = l /\ Node(n) /\ SentBy(n, g)
        /\ \A s, h \in Host : Carries(n, s, h) <=>
              s = r /\ q + d <= Pos(h, r) /\ Pos(h, r) < (q + d) + d
    BY <1>6
  <2> HIDE DEF k, n, F, r, l, q, g
  <2>3. F \in Seq(Packets) /\ Len(F) = 2 /\ F[1] = n /\ F[2] = k
    BY <2>1, <2>2 DEF k, n
  <2>4. \A i \in 1 .. Len(F) : (i = 1 /\ F[i] = n) \/ (i = 2 /\ F[i] = k) BY <2>3
  <2>5. \A s, h \in Host :
           /\ Carries(m, s, h) <=> Carries(k, s, h) \/ Carries(n, s, h)
           /\ ~ (Carries(k, s, h) /\ Carries(n, s, h))
    <3> SUFFICES ASSUME NEW s \in Host, NEW h \in Host
                 PROVE  /\ Carries(m, s, h) <=> Carries(k, s, h) \/ Carries(n, s, h)
                        /\ ~ (Carries(k, s, h) /\ Carries(n, s, h))
      OBVIOUS
    <3>1. \A x, y, z \in Nat :
             /\ (y <= x /\ x < y + (z + z)) <=>
                   \/ (y <= x /\ x < y + z)
                   \/ (y + z <= x /\ x < (y + z) + z)
             /\ ~ (x < y + z /\ y + z <= x)
      OBVIOUS
    <3>2. Pos(h, r) \in Nat /\ q \in Nat /\ d \in Nat BY <1>3, <1>4
    <3> QED BY <3>1, <3>2, <1>5, <2>1, <2>2
  <2>6. 1 \in 1 .. Len(F) /\ 2 \in 1 .. Len(F) BY <2>3
  <2>7. \A i \in 1 .. Len(F) :
           /\ F[i].tag = BCAST_TAG /\ F[i].root = r /\ F[i].no = m.no
           /\ F[i].level = l /\ Node(F[i]) /\ SentBy(F[i], g)
    BY <2>1, <2>2, <2>4
  <2>8. \A s, h \in Host :
           /\ \A i \in 1 .. Len(F) : Carries(F[i], s, h) => Carries(m, s, h)
           /\ Carries(m, s, h) => \E i \in 1 .. Len(F) : Carries(F[i], s, h)
           /\ \A i, j \in 1 .. Len(F) :
                 Carries(F[i], s, h) /\ Carries(F[j], s, h) => i = j
    BY <2>3, <2>4, <2>5, <2>6
  <2> QED BY <2>3, <2>7, <2>8 DEF F, g, r, l
<1> QED BY <1>1, <1>7, <1>8, ForwardsAre DEF d

-----------------------------------------------------------------------------
(***************************************************************************)
(* Queues.                                                                 *)
(***************************************************************************)
\* The elements behind the head of a queue.
LEMMA TailQueue ==
    ASSUME NEW S, NEW s \in Seq(S), s # <<>>
    PROVE  /\ Tail(s) \in Seq(S) /\ Head(s) \in S
           /\ 1 \in 1 .. Len(s) /\ s[1] = Head(s)
           /\ \A i \in 1 .. Len(Tail(s)) : i + 1 \in 2 .. Len(s) /\ Tail(s)[i] = s[i + 1]
           /\ \A i \in 1 .. Len(s) :
                 i = 1 \/ (i - 1 \in 1 .. Len(Tail(s)) /\ s[i] = Tail(s)[i - 1])
<1>1. /\ Head(s) \in S /\ Tail(s) \in Seq(S) /\ Len(Tail(s)) = Len(s) - 1
      /\ \A i \in 1 .. Len(Tail(s)) : Tail(s)[i] = s[i + 1]
  BY HeadTailProperties
<1>2. PICK n \in Nat : n = Len(s) /\ n >= 1
  BY EmptySeq, LenProperties
<1>3. s[1] = Head(s) OBVIOUS
<1>4. \A i \in 1 .. n - 1 : i + 1 \in 2 .. n /\ Tail(s)[i] = s[i + 1]
  BY <1>1, <1>2
<1>5. \A i \in 1 .. n : i = 1 \/ (i - 1 \in 1 .. n - 1 /\ s[i] = Tail(s)[i - 1])
  <2> SUFFICES ASSUME NEW i \in 1 .. n, i # 1
               PROVE  i - 1 \in 1 .. n - 1 /\ s[i] = Tail(s)[i - 1]
    OBVIOUS
  <2>1. i - 1 \in 1 .. n - 1 /\ (i - 1) + 1 = i OBVIOUS
  <2> QED BY <2>1, <1>4
<1>6. Len(Tail(s)) = n - 1 /\ 1 \in 1 .. n BY <1>1, <1>2
<1> QED BY <1>1, <1>2, <1>3, <1>4, <1>5, <1>6, Zenon

\* The elements of u are those of s and those of t behind them.
Joined(s, t, u) ==
    /\ \A i \in 1 .. Len(s) : i \in 1 .. Len(u) /\ u[i] = s[i]
    /\ \A i \in 1 .. Len(t) : \E j \in 1 .. Len(u) : u[j] = t[i]
    /\ \A j \in 1 .. Len(u) : \/ j \in 1 .. Len(s) /\ u[j] = s[j]
                            \/ \E i \in 1 .. Len(t) : j = Len(s) + i /\ u[j] = t[i]

\* Concatenation puts one queue behind the other.
LEMMA ConcatQueue ==
    ASSUME NEW S, NEW s \in Seq(S), NEW t \in Seq(S)
    PROVE  s \o t \in Seq(S) /\ Joined(s, t, s \o t)
<1>1. PICK k \in Nat, n \in Nat : k = Len(s) /\ n = Len(t)
  BY LenProperties
<1>2. /\ s \o t \in Seq(S) /\ Len(s \o t) = k + n
      /\ \A i \in 1 .. k + n : (s \o t)[i] = IF i <= k THEN s[i] ELSE t[i - k]
  BY <1>1, ConcatProperties
<1>3. \A i \in 1 .. k : i \in 1 .. k + n /\ (s \o t)[i] = s[i]
  BY <1>2
<1>4. ASSUME NEW i \in 1 .. n PROVE k + i \in 1 .. k + n /\ (s \o t)[k + i] = t[i]
  <2>1. k + i \in 1 .. k + n /\ ~ (k + i <= k) /\ (k + i) - k = i OBVIOUS
  <2> QED BY <2>1, <1>2
<1>5. ASSUME NEW j \in 1 .. k + n
      PROVE  \/ j \in 1 .. k /\ (s \o t)[j] = s[j]
             \/ \E i \in 1 .. n : j = k + i /\ (s \o t)[j] = t[i]
  <2>1. CASE j <= k
    <3>1. j \in 1 .. k BY <2>1
    <3> QED BY <3>1, <1>3, Zenon
  <2>2. CASE ~ (j <= k)
    <3>1. PICK i \in 1 .. n : i = j - k /\ j = k + i BY <2>2
    <3>2. (s \o t)[j] = t[i] BY <1>2, <2>2, <3>1
    <3> QED BY <3>1, <3>2, Zenon
  <2> QED BY <2>1, <2>2
<1>6. Joined(s, t, s \o t)
  BY <1>1, <1>2, <1>3, <1>4, <1>5, Zenon DEF Joined
<1> QED BY <1>2, <1>6

\* What is behind the head comes after it, and stays in order.
LEMMA TailInOrder ==
    ASSUME NEW s \in Seq(Packets), s # <<>>, InOrder(s)
    PROVE  /\ InOrder(Tail(s))
           /\ \A r, h \in Host : \A i \in 1 .. Len(Tail(s)) :
                 Carries(Head(s), r, h) /\ Carries(Tail(s)[i], r, h)
                     /\ Tail(s)[i].level = Head(s).level
                     => Head(s).no < Tail(s)[i].no
<1> DEFINE t == Tail(s)
<1>1. /\ 1 \in 1 .. Len(s) /\ s[1] = Head(s)
      /\ \A i \in 1 .. Len(t) : i + 1 \in 2 .. Len(s) /\ t[i] = s[i + 1]
  BY TailQueue
<1>2. \A i \in 1 .. Len(t) : i + 1 \in 1 .. Len(s) /\ 1 < i + 1
  BY <1>1
<1>3. \A i, j \in 1 .. Len(t) : i < j => i + 1 < j + 1
  OBVIOUS
<1> HIDE DEF t
<1>4. InOrder(t) BY <1>1, <1>2, <1>3, Zenon DEF InOrder
<1>5. ASSUME NEW r \in Host, NEW h \in Host, NEW i \in 1 .. Len(t),
             Carries(Head(s), r, h), Carries(t[i], r, h), t[i].level = Head(s).level
      PROVE  Head(s).no < t[i].no
  BY <1>1, <1>2, <1>5, Zenon DEF InOrder
<1> QED BY <1>4, <1>5 DEF t

\* Two queues in order stay so if what the second has comes after the first.
LEMMA ConcatInOrder ==
    ASSUME NEW s \in Seq(Packets), NEW t \in Seq(Packets), InOrder(s), InOrder(t),
           \A r, h \in Host : \A i \in 1 .. Len(s) : \A j \in 1 .. Len(t) :
               Carries(s[i], r, h) /\ Carries(t[j], r, h) /\ s[i].level = t[j].level
                   => s[i].no < t[j].no
    PROVE  InOrder(s \o t)
<1> DEFINE u == s \o t
<1>1. \A j \in 1 .. Len(u) : \/ j \in 1 .. Len(s) /\ u[j] = s[j]
                             \/ \E i \in 1 .. Len(t) : j = Len(s) + i /\ u[j] = t[i]
  <2>1. Joined(s, t, u) BY ConcatQueue
  <2> HIDE DEF u
  <2> QED BY <2>1 DEF Joined
<1>2. Len(s) \in Nat /\ Len(t) \in Nat BY LenProperties
<1> HIDE DEF u
<1> SUFFICES ASSUME NEW r \in Host, NEW h \in Host, NEW i \in 1 .. Len(u), NEW j \in 1 .. Len(u),
                    i < j, Carries(u[i], r, h), Carries(u[j], r, h), u[i].level = u[j].level
             PROVE  u[i].no < u[j].no
  BY Zenon DEF InOrder, u
<1>3. CASE i \in 1 .. Len(s) /\ u[i] = s[i]
  <2>1. CASE j \in 1 .. Len(s) /\ u[j] = s[j] BY <1>3, <2>1, Zenon DEF InOrder
  <2>2. CASE \E y \in 1 .. Len(t) : j = Len(s) + y /\ u[j] = t[y] BY <1>3, <2>2, Zenon
  <2> QED BY <1>1, <2>1, <2>2
<1>4. CASE \E x \in 1 .. Len(t) : i = Len(s) + x /\ u[i] = t[x]
  <2> PICK x \in 1 .. Len(t) : i = Len(s) + x /\ u[i] = t[x] BY <1>4
  <2>1. ~ (j \in 1 .. Len(s)) BY <1>2
  <2>2. PICK y \in 1 .. Len(t) : j = Len(s) + y /\ u[j] = t[y] BY <1>1, <2>1
  <2>3. x < y BY <1>2, <2>2
  <2> QED BY <2>2, <2>3, Zenon DEF InOrder
<1> QED BY <1>1, <1>3, <1>4

-----------------------------------------------------------------------------
(***************************************************************************)
(* What the steps do to the queues of all hosts.                           *)
(***************************************************************************)
\* Reading the head of the in queue of g.
LEMMA InTail ==
    ASSUME TypeNet, PlacedIn, QueuedIn, NEW g \in Host, inq[g] # <<>>,
           inq' = [inq EXCEPT ![g] = Tail(@)]
    PROVE  /\ inq' \in [Host -> Seq(Packets)]
           /\ PlacedIn' /\ QueuedIn'
           /\ Head(inq[g]) \in Packets /\ OnWayIn(Head(inq[g]))
           /\ Node(Head(inq[g])) /\ Head(inq[g]).topid = g
           /\ \A m : OnWayIn(m)' => OnWayIn(m)
           /\ \A m : OnWayIn(m) => OnWayIn(m)' \/ m = Head(inq[g])
           /\ \A r, h \in Host : \A m \in Packets :
                 OnWayIn(m)' /\ Carries(Head(inq[g]), r, h) /\ Carries(m, r, h)
                     /\ m.level = Head(inq[g]).level
                     => Head(inq[g]).no < m.no
<1> DEFINE s == inq[g]
           t == Tail(s)
           m0 == Head(s)
<1>1. s \in Seq(Packets) BY DEF TypeNet
<1>2. /\ t \in Seq(Packets) /\ m0 \in Packets
      /\ 1 \in 1 .. Len(s) /\ s[1] = m0
      /\ \A i \in 1 .. Len(t) : i + 1 \in 2 .. Len(s) /\ t[i] = s[i + 1]
      /\ \A i \in 1 .. Len(s) : i = 1 \/ (i - 1 \in 1 .. Len(t) /\ s[i] = t[i - 1])
  BY <1>1, TailQueue
<1>3. \A i \in 1 .. Len(t) : i + 1 \in 1 .. Len(s) BY <1>2
<1>4. inq'[g] = t /\ \A f \in Host : f # g => inq'[f] = inq[f]
  BY DEF TypeNet
<1>5. inq' \in [Host -> Seq(Packets)] BY <1>2 DEF TypeNet
<1>6. Node(m0) /\ m0.topid = g BY <1>2, Zenon DEF PlacedIn
<1>7. InOrder(s) BY DEF QueuedIn
<1>8. /\ InOrder(t)
      /\ \A r, h \in Host : \A i \in 1 .. Len(t) :
            Carries(m0, r, h) /\ Carries(t[i], r, h) /\ t[i].level = m0.level => m0.no < t[i].no
  BY <1>1, <1>7, TailInOrder
<1> HIDE DEF s, t, m0
<1>9. ASSUME NEW f \in Host, NEW i \in 1 .. Len(inq'[f])
      PROVE  \E j \in 1 .. Len(inq[f]) : inq'[f][i] = inq[f][j]
  <2>1. CASE f # g
    <3>1. inq'[f] = inq[f] BY <2>1, <1>4
    <3>2. i \in 1 .. Len(inq[f]) /\ inq'[f][i] = inq[f][i] BY <3>1, <1>9
    <3> QED BY <3>2
  <2>2. CASE f = g
    <3>1. inq'[f] = t /\ inq[f] = s BY <2>2, <1>4 DEF s
    <3>2. i \in 1 .. Len(t) BY <3>1, <1>9, Zenon
    <3>3. i + 1 \in 1 .. Len(s) /\ t[i] = s[i + 1] BY <3>2, <1>2, <1>3
    <3>4. i + 1 \in 1 .. Len(inq[f]) /\ inq'[f][i] = inq[f][i + 1] BY <3>1, <3>3, Zenon
    <3> QED BY <3>4, Zenon
  <2> QED BY <2>1, <2>2
<1>10. PlacedIn'
  <2> SUFFICES ASSUME NEW f \in Host, NEW i \in 1 .. Len(inq'[f])
               PROVE  Node(inq'[f][i]) /\ inq'[f][i].topid = f
    BY DEF PlacedIn
  <2>1. PICK j \in 1 .. Len(inq[f]) : inq'[f][i] = inq[f][j] BY <1>9
  <2> QED BY <2>1, Zenon DEF PlacedIn
<1>11. QueuedIn' BY <1>4, <1>8, Zenon DEF QueuedIn
<1>12. ASSUME NEW m, OnWayIn(m)' PROVE OnWayIn(m)
  <2>1. PICK f \in Host : \E i \in 1 .. Len(inq'[f]) : inq'[f][i] = m BY <1>12 DEF OnWayIn
  <2>2. PICK i \in 1 .. Len(inq'[f]) : inq'[f][i] = m BY <2>1
  <2>3. PICK j \in 1 .. Len(inq[f]) : inq'[f][i] = inq[f][j] BY <1>9
  <2> QED BY <2>2, <2>3, Zenon DEF OnWayIn
<1>13. OnWayIn(m0) BY <1>2, Zenon DEF OnWayIn, s
<1>14. ASSUME NEW m, OnWayIn(m) PROVE OnWayIn(m)' \/ m = m0
  <2>1. PICK f \in Host : \E i \in 1 .. Len(inq[f]) : inq[f][i] = m BY <1>14 DEF OnWayIn
  <2>2. PICK i \in 1 .. Len(inq[f]) : inq[f][i] = m BY <2>1
  <2>3. CASE f # g
    <3>1. inq'[f] = inq[f] BY <2>3, <1>4
    <3> QED BY <2>2, <3>1, Zenon DEF OnWayIn
  <2>4. CASE f = g
    <3>1. inq'[f] = t /\ inq[f] = s BY <2>4, <1>4 DEF s
    <3>2. i \in 1 .. Len(s) /\ s[i] = m BY <2>2, <3>1, Zenon
    <3>3. CASE i = 1 BY <3>2, <3>3, <1>2, Zenon
    <3>4. CASE i - 1 \in 1 .. Len(t) /\ s[i] = t[i - 1]
      <4>1. t[i - 1] = m BY <3>2, <3>4, Zenon
      <4> QED BY <3>1, <3>4, <4>1, Zenon DEF OnWayIn
    <3> QED BY <3>2, <3>3, <3>4, <1>2, Zenon
  <2> QED BY <2>3, <2>4
<1>15. ASSUME NEW r \in Host, NEW h \in Host, NEW m \in Packets, OnWayIn(m)',
              Carries(m0, r, h), Carries(m, r, h), m.level = m0.level
       PROVE  m0.no < m.no
  <2>1. PICK f \in Host : \E i \in 1 .. Len(inq'[f]) : inq'[f][i] = m BY <1>15 DEF OnWayIn
  <2>2. PICK i \in 1 .. Len(inq'[f]) : inq'[f][i] = m BY <2>1
  <2>3. Node(m) /\ m.topid = f BY <1>10, <2>2, Zenon DEF PlacedIn
  <2>4. f = g BY <1>2, <1>6, <1>15, <2>3, SameNode
  <2>5. inq'[f] = t BY <1>4, <2>4
  <2>6. i \in 1 .. Len(t) /\ t[i] = m BY <2>2, <2>5, Zenon
  <2> QED BY <1>8, <1>15, <2>6
<1> QED BY <1>2, <1>5, <1>6, <1>10, <1>11, <1>12, <1>13, <1>14, <1>15 DEF m0, s

\* Taking the head of the out queue of g.
LEMMA OutTail ==
    ASSUME TypeNet, PlacedOut, QueuedOut, NEW g \in Host, outq[g] # <<>>,
           outq' = [outq EXCEPT ![g] = Tail(@)]
    PROVE  /\ outq' \in [Host -> Seq(Packets)]
           /\ PlacedOut' /\ QueuedOut'
           /\ Head(outq[g]) \in Packets /\ OnWayOut(Head(outq[g]))
           /\ Node(Head(outq[g]))
           /\ \A m : OnWayOut(m)' => OnWayOut(m)
           /\ \A m : OnWayOut(m) => OnWayOut(m)' \/ m = Head(outq[g])
           /\ \A r, h \in Host : \A m \in Packets :
                 OnWayOut(m)' /\ Carries(Head(outq[g]), r, h) /\ Carries(m, r, h)
                     /\ m.level = Head(outq[g]).level
                     => Head(outq[g]).no < m.no
<1> DEFINE s == outq[g]
           t == Tail(s)
           m0 == Head(s)
<1>1. s \in Seq(Packets) BY DEF TypeNet
<1>2. /\ t \in Seq(Packets) /\ m0 \in Packets
      /\ 1 \in 1 .. Len(s) /\ s[1] = m0
      /\ \A i \in 1 .. Len(t) : i + 1 \in 2 .. Len(s) /\ t[i] = s[i + 1]
      /\ \A i \in 1 .. Len(s) : i = 1 \/ (i - 1 \in 1 .. Len(t) /\ s[i] = t[i - 1])
  BY <1>1, TailQueue
<1>3. \A i \in 1 .. Len(t) : i + 1 \in 1 .. Len(s) BY <1>2
<1>4. outq'[g] = t /\ \A f \in Host : f # g => outq'[f] = outq[f]
  BY DEF TypeNet
<1>5. outq' \in [Host -> Seq(Packets)] BY <1>2 DEF TypeNet
<1>6. Node(m0) /\ SentBy(m0, g) BY <1>2, Zenon DEF PlacedOut
<1>7. InOrder(s) BY DEF QueuedOut
<1>8. /\ InOrder(t)
      /\ \A r, h \in Host : \A i \in 1 .. Len(t) :
            Carries(m0, r, h) /\ Carries(t[i], r, h) /\ t[i].level = m0.level => m0.no < t[i].no
  BY <1>1, <1>7, TailInOrder
<1> HIDE DEF s, t, m0
<1>9. ASSUME NEW f \in Host, NEW i \in 1 .. Len(outq'[f])
      PROVE  \E j \in 1 .. Len(outq[f]) : outq'[f][i] = outq[f][j]
  <2>1. CASE f # g
    <3>1. outq'[f] = outq[f] BY <2>1, <1>4
    <3>2. i \in 1 .. Len(outq[f]) /\ outq'[f][i] = outq[f][i] BY <3>1, <1>9
    <3> QED BY <3>2
  <2>2. CASE f = g
    <3>1. outq'[f] = t /\ outq[f] = s BY <2>2, <1>4 DEF s
    <3>2. i \in 1 .. Len(t) BY <3>1, <1>9, Zenon
    <3>3. i + 1 \in 1 .. Len(s) /\ t[i] = s[i + 1] BY <3>2, <1>2, <1>3
    <3>4. i + 1 \in 1 .. Len(outq[f]) /\ outq'[f][i] = outq[f][i + 1] BY <3>1, <3>3, Zenon
    <3> QED BY <3>4, Zenon
  <2> QED BY <2>1, <2>2
<1>10. PlacedOut'
  <2> SUFFICES ASSUME NEW f \in Host, NEW i \in 1 .. Len(outq'[f])
               PROVE  Node(outq'[f][i]) /\ SentBy(outq'[f][i], f)
    BY DEF PlacedOut
  <2>1. PICK j \in 1 .. Len(outq[f]) : outq'[f][i] = outq[f][j] BY <1>9
  <2> QED BY <2>1, Zenon DEF PlacedOut
<1>11. QueuedOut' BY <1>4, <1>8, Zenon DEF QueuedOut
<1>12. ASSUME NEW m, OnWayOut(m)' PROVE OnWayOut(m)
  <2>1. PICK f \in Host : \E i \in 1 .. Len(outq'[f]) : outq'[f][i] = m BY <1>12 DEF OnWayOut
  <2>2. PICK i \in 1 .. Len(outq'[f]) : outq'[f][i] = m BY <2>1
  <2>3. PICK j \in 1 .. Len(outq[f]) : outq'[f][i] = outq[f][j] BY <1>9
  <2> QED BY <2>2, <2>3, Zenon DEF OnWayOut
<1>13. OnWayOut(m0) BY <1>2, Zenon DEF OnWayOut, s
<1>14. ASSUME NEW m, OnWayOut(m) PROVE OnWayOut(m)' \/ m = m0
  <2>1. PICK f \in Host : \E i \in 1 .. Len(outq[f]) : outq[f][i] = m BY <1>14 DEF OnWayOut
  <2>2. PICK i \in 1 .. Len(outq[f]) : outq[f][i] = m BY <2>1
  <2>3. CASE f # g
    <3>1. outq'[f] = outq[f] BY <2>3, <1>4
    <3> QED BY <2>2, <3>1, Zenon DEF OnWayOut
  <2>4. CASE f = g
    <3>1. outq'[f] = t /\ outq[f] = s BY <2>4, <1>4 DEF s
    <3>2. i \in 1 .. Len(s) /\ s[i] = m BY <2>2, <3>1, Zenon
    <3>3. CASE i = 1 BY <3>2, <3>3, <1>2, Zenon
    <3>4. CASE i - 1 \in 1 .. Len(t) /\ s[i] = t[i - 1]
      <4>1. t[i - 1] = m BY <3>2, <3>4, Zenon
      <4> QED BY <3>1, <3>4, <4>1, Zenon DEF OnWayOut
    <3> QED BY <3>2, <3>3, <3>4, <1>2, Zenon
  <2> QED BY <2>3, <2>4
<1>15. ASSUME NEW r \in Host, NEW h \in Host, NEW m \in Packets, OnWayOut(m)',
              Carries(m0, r, h), Carries(m, r, h), m.level = m0.level
       PROVE  m0.no < m.no
  <2>1. PICK f \in Host : \E i \in 1 .. Len(outq'[f]) : outq'[f][i] = m BY <1>15 DEF OnWayOut
  <2>2. PICK i \in 1 .. Len(outq'[f]) : outq'[f][i] = m BY <2>1
  <2>3. Node(m) /\ SentBy(m, f) BY <1>10, <2>2, Zenon DEF PlacedOut
  <2>4. m.topid = m0.topid BY <1>2, <1>6, <1>15, <2>3, SameNode
  <2>5. m.tag = BCAST_TAG /\ m0.tag = BCAST_TAG /\ m.root = m0.root BY <1>15 DEF Carries
  <2>6. f = g BY <1>2, <1>6, <1>15, <2>3, <2>4, <2>5, SameSender
  <2>7. outq'[f] = t BY <1>4, <2>6
  <2>8. i \in 1 .. Len(t) /\ t[i] = m BY <2>2, <2>7, Zenon
  <2> QED BY <1>8, <1>15, <2>8
<1> QED BY <1>2, <1>5, <1>6, <1>10, <1>11, <1>12, <1>13, <1>14, <1>15 DEF m0, s

\* New packets at the beginning of their subtrees, on the way to g ...
GoTo(F, g) == \A i \in 1 .. Len(F) : Node(F[i]) /\ F[i].topid = g

\* ... or sent by g, ...
ComeFrom(F, g) == \A i \in 1 .. Len(F) : Node(F[i]) /\ SentBy(F[i], g)

\* ... which are later than those of their level in the in queues, or in the out queues.
LaterIn(F) ==
    \A r, h \in Host : \A m \in Packets : \A i \in 1 .. Len(F) :
        OnWayIn(m) /\ Carries(m, r, h) /\ Carries(F[i], r, h) /\ m.level = F[i].level
            => m.no < F[i].no
LaterOut(F) ==
    \A r, h \in Host : \A m \in Packets : \A i \in 1 .. Len(F) :
        OnWayOut(m) /\ Carries(m, r, h) /\ Carries(F[i], r, h) /\ m.level = F[i].level
            => m.no < F[i].no

\* Appending packets to the in queue of g: each at the beginning of its subtree, and
\* later than what is under way to the same hosts.
LEMMA InAppend ==
    ASSUME TypeNet, PlacedIn, QueuedIn, NEW g \in Host, NEW F \in Seq(Packets), InOrder(F),
           GoTo(F, g), LaterIn(F),
           inq' = [inq EXCEPT ![g] = @ \o F]
    PROVE  /\ inq' \in [Host -> Seq(Packets)]
           /\ PlacedIn' /\ QueuedIn'
           /\ \A m : OnWayIn(m) => OnWayIn(m)'
           /\ \A i \in 1 .. Len(F) : OnWayIn(F[i])'
           /\ \A m : OnWayIn(m)' => OnWayIn(m) \/ \E i \in 1 .. Len(F) : F[i] = m
<1> DEFINE s == inq[g]
           u == s \o F
<1>1. s \in Seq(Packets) BY DEF TypeNet
<1>2. /\ u \in Seq(Packets)
      /\ \A i \in 1 .. Len(s) : i \in 1 .. Len(u) /\ u[i] = s[i]
      /\ \A i \in 1 .. Len(F) : \E j \in 1 .. Len(u) : u[j] = F[i]
      /\ \A j \in 1 .. Len(u) : \/ j \in 1 .. Len(s) /\ u[j] = s[j]
                              \/ \E i \in 1 .. Len(F) : j = Len(s) + i /\ u[j] = F[i]
  <2> HIDE DEF s
  <2>1. u \in Seq(Packets) /\ Joined(s, F, u) BY <1>1, ConcatQueue
  <2> HIDE DEF u
  <2> QED BY <2>1 DEF Joined
<1>3. inq'[g] = u /\ \A f \in Host : f # g => inq'[f] = inq[f]
  BY DEF TypeNet
<1>4. inq' \in [Host -> Seq(Packets)] BY <1>2 DEF TypeNet
<1>5. InOrder(s) BY DEF QueuedIn
<1>6. \A r, h \in Host : \A i \in 1 .. Len(s) : \A j \in 1 .. Len(F) :
         Carries(s[i], r, h) /\ Carries(F[j], r, h) /\ s[i].level = F[j].level
             => s[i].no < F[j].no
  <2>1. \A i \in 1 .. Len(s) : s[i] \in Packets BY <1>1, ElementOfSeq
  <2>2. \A i \in 1 .. Len(s) : OnWayIn(s[i]) BY Zenon DEF OnWayIn
  <2> HIDE DEF s
  <2> QED BY <2>1, <2>2, Zenon DEF LaterIn
<1>7. InOrder(u)
  <2> HIDE DEF s
  <2> QED BY <1>1, <1>5, <1>6, ConcatInOrder
<1> HIDE DEF s, u
<1>8. ASSUME NEW f \in Host, NEW i \in 1 .. Len(inq'[f])
      PROVE  \/ \E j \in 1 .. Len(inq[f]) : inq'[f][i] = inq[f][j]
             \/ f = g /\ \E j \in 1 .. Len(F) : inq'[f][i] = F[j]
  <2>1. CASE f # g
    <3>1. inq'[f] = inq[f] BY <2>1, <1>3
    <3> QED BY <3>1, <1>8, Zenon
  <2>2. CASE f = g
    <3>1. inq'[f] = u /\ inq[f] = s BY <2>2, <1>3 DEF s
    <3>2. i \in 1 .. Len(u) BY <3>1, <1>8, Zenon
    <3>3. CASE i \in 1 .. Len(s) /\ u[i] = s[i] BY <3>1, <3>3, Zenon
    <3>4. CASE \E j \in 1 .. Len(F) : i = Len(s) + j /\ u[i] = F[j]
      BY <2>2, <3>1, <3>4, Zenon
    <3> QED BY <3>2, <3>3, <3>4, <1>2, Zenon
  <2> QED BY <2>1, <2>2
<1>9. PlacedIn'
  <2> SUFFICES ASSUME NEW f \in Host, NEW i \in 1 .. Len(inq'[f])
               PROVE  Node(inq'[f][i]) /\ inq'[f][i].topid = f
    BY DEF PlacedIn
  <2>1. CASE \E j \in 1 .. Len(inq[f]) : inq'[f][i] = inq[f][j]
    BY <2>1, Zenon DEF PlacedIn
  <2>2. CASE f = g /\ \E j \in 1 .. Len(F) : inq'[f][i] = F[j]
    <3>1. PICK j \in 1 .. Len(F) : inq'[f][i] = F[j] BY <2>2
    <3> QED BY <2>2, <3>1, Zenon DEF GoTo
  <2> QED BY <1>8, <2>1, <2>2
<1>10. QueuedIn' BY <1>3, <1>7, Zenon DEF QueuedIn
<1>11. ASSUME NEW m, OnWayIn(m) PROVE OnWayIn(m)'
  <2>1. PICK f \in Host : \E i \in 1 .. Len(inq[f]) : inq[f][i] = m BY <1>11 DEF OnWayIn
  <2>2. PICK i \in 1 .. Len(inq[f]) : inq[f][i] = m BY <2>1
  <2>3. CASE f # g
    <3>1. inq'[f] = inq[f] BY <2>3, <1>3
    <3> QED BY <2>2, <3>1, Zenon DEF OnWayIn
  <2>4. CASE f = g
    <3>1. inq'[f] = u /\ inq[f] = s BY <2>4, <1>3 DEF s
    <3>2. i \in 1 .. Len(u) /\ u[i] = m BY <2>2, <3>1, <1>2, Zenon
    <3> QED BY <3>1, <3>2, Zenon DEF OnWayIn
  <2> QED BY <2>3, <2>4
<1>12. ASSUME NEW i \in 1 .. Len(F) PROVE OnWayIn(F[i])'
  <2>1. PICK j \in 1 .. Len(u) : u[j] = F[i] BY <1>2
  <2> QED BY <2>1, <1>3, Zenon DEF OnWayIn
<1>13. ASSUME NEW m, OnWayIn(m)' PROVE OnWayIn(m) \/ \E i \in 1 .. Len(F) : F[i] = m
  <2>1. PICK f \in Host : \E i \in 1 .. Len(inq'[f]) : inq'[f][i] = m BY <1>13 DEF OnWayIn
  <2>2. PICK i \in 1 .. Len(inq'[f]) : inq'[f][i] = m BY <2>1
  <2>3. CASE \E j \in 1 .. Len(inq[f]) : inq'[f][i] = inq[f][j]
    BY <2>2, <2>3, Zenon DEF OnWayIn
  <2>4. CASE \E j \in 1 .. Len(F) : inq'[f][i] = F[j] BY <2>2, <2>4, Zenon
  <2> QED BY <1>8, <2>3, <2>4
<1> QED BY <1>4, <1>9, <1>10, <1>11, <1>12, <1>13

\* Appending packets to the out queue of g: each at the beginning of its subtree, and
\* later than what is under way to the same hosts.
LEMMA OutAppend ==
    ASSUME TypeNet, PlacedOut, QueuedOut, NEW g \in Host, NEW F \in Seq(Packets), InOrder(F),
           ComeFrom(F, g), LaterOut(F),
           outq' = [outq EXCEPT ![g] = @ \o F]
    PROVE  /\ outq' \in [Host -> Seq(Packets)]
           /\ PlacedOut' /\ QueuedOut'
           /\ \A m : OnWayOut(m) => OnWayOut(m)'
           /\ \A i \in 1 .. Len(F) : OnWayOut(F[i])'
           /\ \A m : OnWayOut(m)' => OnWayOut(m) \/ \E i \in 1 .. Len(F) : F[i] = m
<1> DEFINE s == outq[g]
           u == s \o F
<1>1. s \in Seq(Packets) BY DEF TypeNet
<1>2. /\ u \in Seq(Packets)
      /\ \A i \in 1 .. Len(s) : i \in 1 .. Len(u) /\ u[i] = s[i]
      /\ \A i \in 1 .. Len(F) : \E j \in 1 .. Len(u) : u[j] = F[i]
      /\ \A j \in 1 .. Len(u) : \/ j \in 1 .. Len(s) /\ u[j] = s[j]
                              \/ \E i \in 1 .. Len(F) : j = Len(s) + i /\ u[j] = F[i]
  <2> HIDE DEF s
  <2>1. u \in Seq(Packets) /\ Joined(s, F, u) BY <1>1, ConcatQueue
  <2> HIDE DEF u
  <2> QED BY <2>1 DEF Joined
<1>3. outq'[g] = u /\ \A f \in Host : f # g => outq'[f] = outq[f]
  BY DEF TypeNet
<1>4. outq' \in [Host -> Seq(Packets)] BY <1>2 DEF TypeNet
<1>5. InOrder(s) BY DEF QueuedOut
<1>6. \A r, h \in Host : \A i \in 1 .. Len(s) : \A j \in 1 .. Len(F) :
         Carries(s[i], r, h) /\ Carries(F[j], r, h) /\ s[i].level = F[j].level
             => s[i].no < F[j].no
  <2>1. \A i \in 1 .. Len(s) : s[i] \in Packets BY <1>1, ElementOfSeq
  <2>2. \A i \in 1 .. Len(s) : OnWayOut(s[i]) BY Zenon DEF OnWayOut
  <2> HIDE DEF s
  <2> QED BY <2>1, <2>2, Zenon DEF LaterOut
<1>7. InOrder(u)
  <2> HIDE DEF s
  <2> QED BY <1>1, <1>5, <1>6, ConcatInOrder
<1> HIDE DEF s, u
<1>8. ASSUME NEW f \in Host, NEW i \in 1 .. Len(outq'[f])
      PROVE  \/ \E j \in 1 .. Len(outq[f]) : outq'[f][i] = outq[f][j]
             \/ f = g /\ \E j \in 1 .. Len(F) : outq'[f][i] = F[j]
  <2>1. CASE f # g
    <3>1. outq'[f] = outq[f] BY <2>1, <1>3
    <3> QED BY <3>1, <1>8, Zenon
  <2>2. CASE f = g
    <3>1. outq'[f] = u /\ outq[f] = s BY <2>2, <1>3 DEF s
    <3>2. i \in 1 .. Len(u) BY <3>1, <1>8, Zenon
    <3>3. CASE i \in 1 .. Len(s) /\ u[i] = s[i] BY <3>1, <3>3, Zenon
    <3>4. CASE \E j \in 1 .. Len(F) : i = Len(s) + j /\ u[i] = F[j]
      BY <2>2, <3>1, <3>4, Zenon
    <3> QED BY <3>2, <3>3, <3>4, <1>2, Zenon
  <2> QED BY <2>1, <2>2
<1>9. PlacedOut'
  <2> SUFFICES ASSUME NEW f \in Host, NEW i \in 1 .. Len(outq'[f])
               PROVE  Node(outq'[f][i]) /\ SentBy(outq'[f][i], f)
    BY DEF PlacedOut
  <2>1. CASE \E j \in 1 .. Len(outq[f]) : outq'[f][i] = outq[f][j]
    BY <2>1, Zenon DEF PlacedOut
  <2>2. CASE f = g /\ \E j \in 1 .. Len(F) : outq'[f][i] = F[j]
    <3>1. PICK j \in 1 .. Len(F) : outq'[f][i] = F[j] BY <2>2
    <3> QED BY <2>2, <3>1, Zenon DEF ComeFrom
  <2> QED BY <1>8, <2>1, <2>2
<1>10. QueuedOut' BY <1>3, <1>7, Zenon DEF QueuedOut
<1>11. ASSUME NEW m, OnWayOut(m) PROVE OnWayOut(m)'
  <2>1. PICK f \in Host : \E i \in 1 .. Len(outq[f]) : outq[f][i] = m BY <1>11 DEF OnWayOut
  <2>2. PICK i \in 1 .. Len(outq[f]) : outq[f][i] = m BY <2>1
  <2>3. CASE f # g
    <3>1. outq'[f] = outq[f] BY <2>3, <1>3
    <3> QED BY <2>2, <3>1, Zenon DEF OnWayOut
  <2>4. CASE f = g
    <3>1. outq'[f] = u /\ outq[f] = s BY <2>4, <1>3 DEF s
    <3>2. i \in 1 .. Len(u) /\ u[i] = m BY <2>2, <3>1, <1>2, Zenon
    <3> QED BY <3>1, <3>2, Zenon DEF OnWayOut
  <2> QED BY <2>3, <2>4
<1>12. ASSUME NEW i \in 1 .. Len(F) PROVE OnWayOut(F[i])'
  <2>1. PICK j \in 1 .. Len(u) : u[j] = F[i] BY <1>2
  <2> QED BY <2>1, <1>3, Zenon DEF OnWayOut
<1>13. ASSUME NEW m, OnWayOut(m)' PROVE OnWayOut(m) \/ \E i \in 1 .. Len(F) : F[i] = m
  <2>1. PICK f \in Host : \E i \in 1 .. Len(outq'[f]) : outq'[f][i] = m BY <1>13 DEF OnWayOut
  <2>2. PICK i \in 1 .. Len(outq'[f]) : outq'[f][i] = m BY <2>1
  <2>3. CASE \E j \in 1 .. Len(outq[f]) : outq'[f][i] = outq[f][j]
    BY <2>2, <2>3, Zenon DEF OnWayOut
  <2>4. CASE \E j \in 1 .. Len(F) : outq'[f][i] = F[j] BY <2>2, <2>4, Zenon
  <2> QED BY <1>8, <2>3, <2>4
<1> QED BY <1>4, <1>9, <1>10, <1>11, <1>12, <1>13

-----------------------------------------------------------------------------
(***************************************************************************)
(* The tree, step by step.                                                 *)
(***************************************************************************)
\* A queue of one packet.
LEMMA OnePacket ==
    ASSUME NEW m \in Packets
    PROVE  /\ <<m>> \in Seq(Packets) /\ 1 \in 1 .. Len(<<m>>)
           /\ \A i \in 1 .. Len(<<m>>) : <<m>>[i] = m
           /\ InOrder(<<m>>)
<1>1. <<m>> \in Seq(Packets) /\ Len(<<m>>) = 1 OBVIOUS
<1>2. \A i \in 1 .. 1 : <<m>>[i] = m OBVIOUS
<1>3. \A i, j \in 1 .. 1 : ~ (i < j) OBVIOUS
<1>4. InOrder(<<m>>) BY <1>1, <1>3, Zenon DEF InOrder
<1>5. 1 \in 1 .. 1 OBVIOUS
<1> QED BY <1>1, <1>2, <1>4, <1>5, Zenon

\* A step leaves the numbers of what is under way to each host as they are.
SameNumbers ==
    \A r, h \in Host : \A m \in Packets : Carries(m, r, h) =>
        /\ OnWay(m)' => \E k \in Packets : OnWay(k) /\ Carries(k, r, h) /\ k.no = m.no
        /\ OnWay(m) => \E k \in Packets : OnWay(k)' /\ Carries(k, r, h) /\ k.no = m.no

\* Then the same packets are still to be handled, whoever carries them.
LEMMA SamePending ==
    ASSUME Pending, SameNumbers, got' = got, sent' = sent
    PROVE  Pending'
<1> SUFFICES ASSUME NEW r \in Host, NEW h \in Host
             PROVE  /\ \A m \in Packets : OnWay(m)' /\ Carries(m, r, h)
                           => Len(got'[h][r]) < m.no /\ m.no <= sent'[r]
                    /\ \A n \in Len(got'[h][r]) + 1 .. sent'[r] :
                          \E m \in Packets : OnWay(m)' /\ Carries(m, r, h) /\ m.no = n
  BY DEF Pending
<1>1. PICK d, t : d = Len(got[h][r]) /\ t = sent[r] BY Zenon
<1>2. d = Len(got'[h][r]) /\ t = sent'[r] BY <1>1, Zenon
<1>3. /\ \A m \in Packets : OnWay(m) /\ Carries(m, r, h) => d < m.no /\ m.no <= t
      /\ \A n \in d + 1 .. t : \E m \in Packets : OnWay(m) /\ Carries(m, r, h) /\ m.no = n
  BY <1>1 DEF Pending
<1>4. ASSUME NEW m \in Packets, OnWay(m)', Carries(m, r, h) PROVE d < m.no /\ m.no <= t
  <2>1. PICK k \in Packets : OnWay(k) /\ Carries(k, r, h) /\ k.no = m.no
    BY <1>4, Zenon DEF SameNumbers
  <2> QED BY <1>3, <2>1, Zenon
<1>5. ASSUME NEW n \in d + 1 .. t
      PROVE  \E m \in Packets : OnWay(m)' /\ Carries(m, r, h) /\ m.no = n
  <2>1. PICK m \in Packets : OnWay(m) /\ Carries(m, r, h) /\ m.no = n BY <1>3
  <2>2. PICK k \in Packets : OnWay(k)' /\ Carries(k, r, h) /\ k.no = m.no
    BY <2>1, Zenon DEF SameNumbers
  <2> QED BY <2>1, <2>2, Zenon
<1> QED BY <1>2, <1>4, <1>5, Zenon

\* Whatever is under way is at the beginning of its subtree.
LEMMA OnWayNode ==
    ASSUME PlacedIn, PlacedOut, NEW m, OnWay(m)
    PROVE  Node(m)
<1>1. CASE OnWayIn(m) BY <1>1, Zenon DEF OnWayIn, PlacedIn
<1>2. CASE OnWayOut(m) BY <1>2, Zenon DEF OnWayOut, PlacedOut
<1> QED BY <1>1, <1>2, Zenon DEF OnWay

\* The client thread moves a packet from one queue to the other.
LEMMA TransferTree ==
    ASSUME TypeNet, TreeInv, NEW g \in Host, Transfer(g), UNCHANGED <<sent, got>>
    PROVE  TypeNet' /\ TreeInv'
<1>1. outq[g] # <<>> /\ outq' = [outq EXCEPT ![g] = Tail(@)] BY DEF Transfer
<1>a. PlacedIn /\ PlacedOut /\ QueuedIn /\ QueuedOut /\ Ranked /\ Pending BY DEF TreeInv
<1>b. Head(outq[g]) \in Packets BY <1>1, <1>a, OutTail
<1>c. PICK m0 \in Packets : m0 = Head(outq[g]) BY <1>b
<1>2. /\ outq' \in [Host -> Seq(Packets)]
      /\ PlacedOut' /\ QueuedOut'
      /\ m0 \in Packets /\ OnWayOut(m0) /\ Node(m0)
      /\ \A m : OnWayOut(m)' => OnWayOut(m)
      /\ \A m : OnWayOut(m) => OnWayOut(m)' \/ m = m0
      /\ \A r, h \in Host : \A m \in Packets :
            OnWayOut(m)' /\ Carries(m0, r, h) /\ Carries(m, r, h) /\ m.level = m0.level
                => m0.no < m.no
  BY <1>1, <1>a, <1>c, OutTail
<1>3. inq' = [inq EXCEPT ![m0.topid] = Append(@, m0)] BY <1>c DEF Transfer
<1>d. PICK F \in Seq(Packets) : F = <<m0>> BY OnePacket
<1>4. 1 \in 1 .. Len(F) /\ (\A i \in 1 .. Len(F) : F[i] = m0) /\ InOrder(F)
  BY <1>d, OnePacket, Zenon
<1>5. m0.topid \in Host /\ m0.level \in Nat BY <1>2 DEF Packets
<1>6. inq' = [inq EXCEPT ![m0.topid] = @ \o F]
  <2>1. inq[m0.topid] \in Seq(Packets) BY <1>5 DEF TypeNet
  <2>2. Append(inq[m0.topid], m0) = inq[m0.topid] \o <<m0>>
    BY <1>2, <2>1, AppendIsConcat
  <2> QED BY <1>3, <1>d, <2>2, Zenon
<1>7. ASSUME NEW r \in Host, NEW h \in Host, NEW m \in Packets, NEW i \in 1 .. Len(F),
             OnWayIn(m), Carries(m, r, h), Carries(F[i], r, h), m.level = F[i].level
      PROVE  m.no < F[i].no
  <2>1. F[i] = m0 BY <1>4
  <2>2. OnWay(m) /\ OnWay(m0) BY <1>2, <1>7 DEF OnWay
  <2>3. Ranked BY DEF TreeInv
  <2> QED BY <1>2, <1>7, <2>1, <2>2, <2>3, Zenon DEF Ranked
<1>e. LaterIn(F) BY <1>7, Zenon DEF LaterIn
<1>f. GoTo(F, m0.topid) BY <1>2, <1>4, Zenon DEF GoTo
<1>8. /\ inq' \in [Host -> Seq(Packets)]
      /\ PlacedIn' /\ QueuedIn'
      /\ \A m : OnWayIn(m) => OnWayIn(m)'
      /\ \A i \in 1 .. Len(F) : OnWayIn(F[i])'
      /\ \A m : OnWayIn(m)' => OnWayIn(m) \/ \E i \in 1 .. Len(F) : F[i] = m
  BY <1>4, <1>5, <1>6, <1>a, <1>e, <1>f, InAppend
<1>9. OnWayIn(m0)' BY <1>4, <1>8, Zenon
<1>10. \A m : OnWayIn(m)' => OnWayIn(m) \/ m = m0 BY <1>4, <1>8, Zenon
<1>11. ASSUME NEW m PROVE OnWay(m)' <=> OnWay(m)
  <2>1. OnWay(m) => OnWay(m)' BY <1>2, <1>8, <1>9, Zenon DEF OnWay
  <2>2. OnWay(m)' => OnWay(m) BY <1>2, <1>10, Zenon DEF OnWay
  <2> QED BY <2>1, <2>2
<1>12. TypeNet' BY <1>2, <1>8 DEF TypeNet
<1>13. Ranked'
  <2> SUFFICES ASSUME NEW r \in Host, NEW h \in Host, NEW a \in Packets, NEW b \in Packets,
                      Carries(a, r, h), Carries(b, r, h), OnWay(a)', OnWay(b)',
                      a.level < b.level \/ (a.level = b.level /\ OnWayIn(a)' /\ OnWayOut(b)')
               PROVE  a.no < b.no
    BY Zenon DEF Ranked
  <2>1. Ranked /\ OnWay(a) /\ OnWay(b) BY <1>11 DEF TreeInv
  <2>2. CASE a.level < b.level BY <2>1, <2>2, Zenon DEF Ranked
  <2>3. CASE a.level = b.level /\ OnWayIn(a)' /\ OnWayOut(b)'
    <3>1. CASE a = m0 BY <1>2, <2>3, <3>1, Zenon
    <3>2. CASE a # m0
      <4>1. OnWayIn(a) /\ OnWayOut(b) BY <1>2, <1>10, <2>3, <3>2, Zenon
      <4> QED BY <2>1, <2>3, <4>1, Zenon DEF Ranked
    <3> QED BY <3>1, <3>2
  <2> QED BY <2>2, <2>3
<1>14. Pending'
  <2>1. SameNumbers BY <1>11, Zenon DEF SameNumbers
  <2>2. got' = got /\ sent' = sent OBVIOUS
  <2> QED BY <1>a, <2>1, <2>2, SamePending
<1>15. BcastInOrder' BY DEF TreeInv, BcastInOrder
<1> QED BY <1>2, <1>8, <1>12, <1>13, <1>14, <1>15 DEF TreeInv

\* The server thread passes a packet on to its own host and to a second one.
LEMMA ForwardStep ==
    ASSUME TypeNet, TreeInv, NEW g \in Host, bcastserver(g), UNCHANGED <<sent, got>>
    PROVE  TypeNet' /\ TreeInv'
<1>a. PlacedIn /\ PlacedOut /\ QueuedIn /\ QueuedOut /\ Ranked /\ Pending BY DEF TreeInv
<1>b. inq[g] # <<>> /\ inq' = [inq EXCEPT ![g] = Tail(@)] /\ Head(inq[g]).bcast
  BY DEF bcastserver
<1>c. Head(inq[g]) \in Packets BY <1>a, <1>b, InTail
<1>d. PICK m0 \in Packets : m0 = Head(inq[g]) BY <1>c
<1>1. m0.bcast BY <1>b, <1>d
<1>2. /\ inq' \in [Host -> Seq(Packets)]
      /\ PlacedIn' /\ QueuedIn'
      /\ m0 \in Packets /\ OnWayIn(m0) /\ Node(m0) /\ m0.topid = g
      /\ \A m : OnWayIn(m)' => OnWayIn(m)
      /\ \A m : OnWayIn(m) => OnWayIn(m)' \/ m = m0
      /\ \A r, h \in Host : \A m \in Packets :
            OnWayIn(m)' /\ Carries(m0, r, h) /\ Carries(m, r, h) /\ m.level = m0.level
                => m0.no < m.no
  BY <1>a, <1>b, <1>d, InTail
<1>4. m0.tag = BCAST_TAG /\ m0.level > 0 /\ m0.level \in Nat
  BY <1>1, <1>2 DEF Node, Packets
<1>5. m0.level <= RootLevel /\ Aligned(Pos(m0.topid, m0.root), m0.level)
  BY <1>2, <1>4, RootLevels DEF Node
<1>e. Forwards(g, m0) \in Seq(Packets) BY <1>2, <1>4, <1>5, ForwardTree
<1>f. PICK F \in Seq(Packets) : F = Forwards(g, m0) BY <1>e
<1>3. outq' = [outq EXCEPT ![g] = @ \o F] BY <1>d, <1>f DEF bcastserver, Send
<1>6. /\ \A i \in 1 .. Len(F) :
            /\ F[i].tag = BCAST_TAG /\ F[i].root = m0.root /\ F[i].no = m0.no
            /\ F[i].level = m0.level - 1
            /\ Node(F[i]) /\ SentBy(F[i], g)
      /\ \A r, h \in Host :
            /\ \A i \in 1 .. Len(F) : Carries(F[i], r, h) => Carries(m0, r, h)
            /\ Carries(m0, r, h) => \E i \in 1 .. Len(F) : Carries(F[i], r, h)
            /\ \A i, j \in 1 .. Len(F) : Carries(F[i], r, h) /\ Carries(F[j], r, h) => i = j
  <2>1. F = Forwards(m0.topid, m0) /\ g = m0.topid BY <1>2, <1>f
  <2>2. Shares(Forwards(m0.topid, m0), m0, m0.topid) BY <1>2, <1>4, <1>5, ForwardTree
  <2>3. Shares(F, m0, g) BY <2>1, <2>2, Zenon
  <2> QED BY <2>3, Zenon DEF Shares
<1>7. InOrder(F)
  <2>1. \A i, j \in 1 .. Len(F) : i < j => i # j
    OBVIOUS
  <2> QED BY <1>6, <2>1, Zenon DEF InOrder
<1>8. ASSUME NEW r \in Host, NEW h \in Host, NEW m \in Packets, NEW i \in 1 .. Len(F),
             OnWay(m), Carries(m, r, h), Carries(F[i], r, h), m.level <= F[i].level
      PROVE  m.no < F[i].no
  <2>1. m.level \in Nat BY DEF Packets
  <2>2. m.level < m0.level BY <1>4, <1>6, <1>8, <2>1
  <2>3. OnWay(m0) /\ Carries(m0, r, h) /\ F[i].no = m0.no BY <1>2, <1>6, <1>8 DEF OnWay
  <2>4. Ranked BY DEF TreeInv
  <2> QED BY <1>2, <1>8, <2>2, <2>3, <2>4, Zenon DEF Ranked
<1>9. \A m \in Packets : m.level \in Nat BY DEF Packets
<1>10. \A i \in 1 .. Len(F) : F[i] \in Packets BY <1>6, ElementOfSeq
<1>11. /\ outq' \in [Host -> Seq(Packets)]
       /\ PlacedOut' /\ QueuedOut'
       /\ \A m : OnWayOut(m) => OnWayOut(m)'
       /\ \A i \in 1 .. Len(F) : OnWayOut(F[i])'
       /\ \A m : OnWayOut(m)' => OnWayOut(m) \/ \E i \in 1 .. Len(F) : F[i] = m
  <2>2. ComeFrom(F, g) BY <1>6, Zenon DEF ComeFrom
  <2>3. ASSUME NEW r \in Host, NEW h \in Host, NEW m \in Packets, NEW i \in 1 .. Len(F),
               OnWayOut(m), Carries(m, r, h), Carries(F[i], r, h), m.level = F[i].level
        PROVE  m.no < F[i].no
    <3>1. OnWay(m) /\ m.level <= F[i].level BY <2>3, <1>9, <1>10 DEF OnWay
    <3> QED BY <2>3, <3>1, <1>8
  <2>4. LaterOut(F) BY <2>3, Zenon DEF LaterOut
  <2> QED BY <1>3, <1>7, <1>a, <2>2, <2>4, OutAppend
<1>12. \A m : OnWay(m)' => OnWay(m) \/ \E i \in 1 .. Len(F) : F[i] = m
  BY <1>2, <1>11, Zenon DEF OnWay
<1>13. TypeNet' BY <1>2, <1>11 DEF TypeNet
<1>14. Ranked'
  <2> SUFFICES ASSUME NEW r \in Host, NEW h \in Host, NEW a \in Packets, NEW b \in Packets,
                      Carries(a, r, h), Carries(b, r, h), OnWay(a)', OnWay(b)',
                      a.level < b.level \/ (a.level = b.level /\ OnWayIn(a)' /\ OnWayOut(b)')
               PROVE  a.no < b.no
    BY Zenon DEF Ranked
  <2>1. a.level \in Nat /\ b.level \in Nat BY <1>9
  <2>2. Ranked BY DEF TreeInv
  <2>3. CASE \E i \in 1 .. Len(F) : F[i] = a
    <3> PICK i \in 1 .. Len(F) : F[i] = a BY <2>3
    <3>1. a.no = m0.no /\ a.level = m0.level - 1 /\ Carries(m0, r, h) BY <1>6
    <3>2. CASE m0.level < b.level
      <4>1. OnWay(m0) BY <1>2 DEF OnWay
      <4>2. CASE OnWay(b) BY <3>1, <3>2, <4>1, <4>2, <2>2, <1>2, Zenon DEF Ranked
      <4>3. CASE \E j \in 1 .. Len(F) : F[j] = b
        <5>1. b.level = m0.level - 1 BY <4>3, <1>6
        <5> QED BY <5>1, <3>2, <1>4
      <4> QED BY <4>2, <4>3, <1>12
    <3>3. CASE m0.level = b.level
      <4>1. CASE OnWayIn(b)' BY <1>2, <3>1, <3>3, <4>1, Zenon
      <4>2. CASE OnWayOut(b)'
        <5>1. CASE OnWayOut(b)
          <6>1. OnWay(m0) /\ OnWay(b) BY <1>2, <5>1 DEF OnWay
          <6> QED BY <1>2, <2>2, <3>1, <3>3, <5>1, <6>1, Zenon DEF Ranked
        <5>2. CASE \E j \in 1 .. Len(F) : F[j] = b
          <6>1. b.level = m0.level - 1 BY <5>2, <1>6
          <6> QED BY <6>1, <3>3, <1>4
        <5> QED BY <4>2, <5>1, <5>2, <1>11
      <4> QED BY <4>1, <4>2 DEF OnWay
    <3>4. CASE b.level < m0.level
      <4>1. a.level = b.level /\ OnWayIn(a)' BY <3>1, <3>4, <2>1, <1>4
      <4>2. OnWayIn(a) BY <4>1, <1>2
      <4>3. OnWay(a) /\ OnWay(m0) /\ a.level < m0.level BY <4>2, <1>2, <3>1, <1>4 DEF OnWay
      <4>4. a.no < m0.no BY <4>3, <3>1, <2>2, <1>2, Zenon DEF Ranked
      <4>5. a.no \in Nat BY DEF Packets
      <4> QED BY <4>4, <4>5, <3>1
    <3> QED BY <3>2, <3>3, <3>4, <2>1, <1>4
  <2>4. CASE OnWay(a) /\ \E i \in 1 .. Len(F) : F[i] = b
    <3> PICK i \in 1 .. Len(F) : F[i] = b BY <2>4
    <3>1. a.level <= F[i].level BY <2>1
    <3> QED BY <2>4, <3>1, <1>8
  <2>5. CASE OnWay(a) /\ OnWay(b)
    <3>1. CASE a.level < b.level BY <2>2, <2>5, <3>1, Zenon DEF Ranked
    <3>2. CASE a.level = b.level /\ OnWayIn(a)' /\ OnWayOut(b)'
      <4>1. OnWayIn(a) BY <1>2, <3>2
      <4>2. CASE OnWayOut(b) BY <2>2, <2>5, <3>2, <4>1, <4>2, Zenon DEF Ranked
      <4>3. CASE \E i \in 1 .. Len(F) : F[i] = b BY <2>4, <2>5, <4>3
      <4> QED BY <3>2, <4>2, <4>3, <1>11
    <3> QED BY <3>1, <3>2
  <2> QED BY <2>3, <2>4, <2>5, <1>12
<1>15. Pending'
  <2>1. ASSUME NEW r \in Host, NEW h \in Host, NEW m \in Packets, OnWay(m)', Carries(m, r, h)
        PROVE  \E k \in Packets : OnWay(k) /\ Carries(k, r, h) /\ k.no = m.no
    <3>1. CASE OnWay(m) BY <2>1, <3>1, Zenon
    <3>2. CASE \E i \in 1 .. Len(F) : F[i] = m
      <4>1. m.no = m0.no /\ Carries(m0, r, h) BY <2>1, <3>2, <1>6
      <4>2. OnWay(m0) BY <1>2 DEF OnWay
      <4> QED BY <4>1, <4>2, Zenon
    <3> QED BY <2>1, <3>1, <3>2, <1>12
  <2>2. ASSUME NEW r \in Host, NEW h \in Host, NEW m \in Packets, OnWay(m), Carries(m, r, h)
        PROVE  \E k \in Packets : OnWay(k)' /\ Carries(k, r, h) /\ k.no = m.no
    <3>1. CASE m = m0
      <4>1. PICK i \in 1 .. Len(F) : Carries(F[i], r, h) BY <2>2, <3>1, <1>6
      <4>2. F[i] \in Packets /\ OnWay(F[i])' /\ F[i].no = m.no
        BY <3>1, <1>6, <1>10, <1>11 DEF OnWay
      <4> QED BY <4>1, <4>2, Zenon
    <3>2. CASE m # m0
      <4>1. OnWay(m)' BY <2>2, <3>2, <1>2, <1>11 DEF OnWay
      <4> QED BY <2>2, <4>1, Zenon
    <3> QED BY <3>1, <3>2
  <2>3. SameNumbers
    <3> SUFFICES ASSUME NEW r \in Host, NEW h \in Host, NEW m \in Packets, Carries(m, r, h)
                 PROVE  /\ OnWay(m)' => \E k \in Packets :
                                           OnWay(k) /\ Carries(k, r, h) /\ k.no = m.no
                        /\ OnWay(m) => \E k \in Packets :
                                          OnWay(k)' /\ Carries(k, r, h) /\ k.no = m.no
      BY DEF SameNumbers
    <3> QED BY <2>1, <2>2
  <2>4. got' = got /\ sent' = sent OBVIOUS
  <2> QED BY <1>a, <2>3, <2>4, SamePending
<1>16. BcastInOrder' BY DEF TreeInv, BcastInOrder
<1> QED BY <1>2, <1>11, <1>13, <1>14, <1>15, <1>16 DEF TreeInv

\* The root sends a packet: it stands for all hosts.
LEMMA BcastStep ==
    ASSUME TypeNet, TreeInv, NEW g \in Host, NEW m0 \in Packets, m0.tag = BCAST_TAG,
           m0.level = RootLevel, m0.root = g, m0.topid = g, m0.no = sent[g] + 1,
           Send(g, Forwards(g, m0)), sent' = [sent EXCEPT ![g] = @ + 1], UNCHANGED <<inq, got>>
    PROVE  TypeNet' /\ TreeInv'
<1>1. PlacedIn /\ PlacedOut /\ QueuedIn /\ QueuedOut /\ Ranked /\ Pending /\ BcastInOrder
  BY DEF TreeInv
<1>2. RootLevel \in Nat /\ RootLevel >= 1 /\ HostC <= 2^RootLevel /\ 2^RootLevel \in Nat
  BY RootLevels, Doubling
<1>3. Pos(g, g) = 0 /\ g \in Nat BY Positions DEF Host
<1>4. Aligned(Pos(m0.topid, m0.root), m0.level)
  <2>1. 0 \in Host /\ 0 = 0 * 2^RootLevel BY <1>2, BcastAssumption DEF Host
  <2> QED BY <1>2, <1>3, <2>1 DEF Aligned
<1>5. Forwards(g, m0) \in Seq(Packets) BY <1>2, <1>4, ForwardTree
<1>6. PICK F \in Seq(Packets) : F = Forwards(g, m0) BY <1>5
<1>7. /\ \A i \in 1 .. Len(F) :
            /\ F[i].tag = BCAST_TAG /\ F[i].root = g /\ F[i].no = sent[g] + 1
            /\ F[i].level = m0.level - 1
            /\ Node(F[i]) /\ SentBy(F[i], g)
      /\ \A r, h \in Host :
            /\ \A i \in 1 .. Len(F) : Carries(F[i], r, h) => Carries(m0, r, h)
            /\ Carries(m0, r, h) => \E i \in 1 .. Len(F) : Carries(F[i], r, h)
            /\ \A i, j \in 1 .. Len(F) : Carries(F[i], r, h) /\ Carries(F[j], r, h) => i = j
  <2>1. F = Forwards(m0.topid, m0) BY <1>6
  <2>2. Shares(Forwards(m0.topid, m0), m0, m0.topid) BY <1>2, <1>4, ForwardTree
  <2>3. Shares(F, m0, g) BY <2>1, <2>2, Zenon
  <2> QED BY <2>3 DEF Shares
<1>8. \A h \in Host : Carries(m0, g, h)
  <2> SUFFICES ASSUME NEW h \in Host PROVE Carries(m0, g, h)
    OBVIOUS
  <2>1. Pos(h, g) \in Nat /\ Pos(h, g) < HostC
    <3>1. Pos(h, g) \in Host BY Positions
    <3> QED BY <3>1, BcastAssumption DEF Host
  <2>2. 0 <= Pos(h, g) /\ Pos(h, g) < 0 + 2^RootLevel BY <1>2, <2>1, BcastAssumption
  <2> QED BY <1>3, <2>2 DEF Carries
<1>9. \A r, h \in Host : \A i \in 1 .. Len(F) : Carries(F[i], r, h) => r = g
  BY <1>7 DEF Carries
<1>10. \A r \in Host : /\ sent[r] \in Nat /\ sent'[r] \in Nat /\ sent[r] <= sent'[r]
                       /\ r # g => sent'[r] = sent[r]
  BY DEF TypeNet
<1>11. sent'[g] = sent[g] + 1 BY DEF TypeNet
<1>12. \A r, h \in Host : Len(got[h][r]) \in Nat /\ Len(got[h][r]) <= sent[r]
  <2>1. \A r, h \in Host : got[h][r] \in Seq(Nat) BY DEF TypeNet
  <2> QED BY <1>1, <2>1, LenProperties DEF BcastInOrder
\* What was under way before is earlier.
<1>13. ASSUME NEW m \in Packets, NEW h \in Host, OnWay(m), Carries(m, g, h)
       PROVE  m.no < sent[g] + 1
  <2>1. m.no <= sent[g] BY <1>1, <1>13, Zenon DEF Pending
  <2>2. m.no \in Nat BY DEF Packets
  <2> QED BY <2>1, <2>2, <1>10
<1>14. InOrder(F)
  <2>1. \A i, j \in 1 .. Len(F) : i < j => i # j OBVIOUS
  <2> QED BY <1>7, <2>1, Zenon DEF InOrder
<1>15. ComeFrom(F, g) BY <1>7, Zenon DEF ComeFrom
<1>16. LaterOut(F)
  <2> SUFFICES ASSUME NEW r \in Host, NEW h \in Host, NEW m \in Packets, NEW i \in 1 .. Len(F),
                      OnWayOut(m), Carries(m, r, h), Carries(F[i], r, h)
               PROVE  m.no < F[i].no
    BY Zenon DEF LaterOut
  <2>1. r = g BY <1>9
  <2>2. OnWay(m) BY DEF OnWay
  <2>3. F[i].no = sent[g] + 1 BY <1>7
  <2> QED BY <1>13, <2>1, <2>2, <2>3
<1>17. outq' = [outq EXCEPT ![g] = @ \o F] BY <1>6 DEF Send
<1>18. /\ outq' \in [Host -> Seq(Packets)]
       /\ PlacedOut' /\ QueuedOut'
       /\ \A m : OnWayOut(m) => OnWayOut(m)'
       /\ \A i \in 1 .. Len(F) : OnWayOut(F[i])'
       /\ \A m : OnWayOut(m)' => OnWayOut(m) \/ \E i \in 1 .. Len(F) : F[i] = m
  BY <1>1, <1>14, <1>15, <1>16, <1>17, OutAppend
<1>19. PlacedIn' /\ QueuedIn' /\ \A m : OnWayIn(m)' <=> OnWayIn(m)
  <2>1. PlacedIn' BY <1>1 DEF PlacedIn
  <2>2. QueuedIn' BY <1>1 DEF QueuedIn
  <2>3. \A m : OnWayIn(m)' <=> OnWayIn(m) BY DEF OnWayIn
  <2> QED BY <2>1, <2>2, <2>3
<1>20. \A m : OnWay(m)' => OnWay(m) \/ \E i \in 1 .. Len(F) : F[i] = m
  BY <1>18, <1>19, Zenon DEF OnWay
<1>21. \A m : OnWay(m) => OnWay(m)' BY <1>18, <1>19, Zenon DEF OnWay
<1>22. \A i \in 1 .. Len(F) : F[i] \in Packets BY ElementOfSeq
<1>23. TypeNet'
  <2>1. sent' \in [Host -> Nat] BY DEF TypeNet
  <2> QED BY <1>18, <2>1 DEF TypeNet
<1>24. Ranked'
  <2> SUFFICES ASSUME NEW r \in Host, NEW h \in Host, NEW a \in Packets, NEW b \in Packets,
                      Carries(a, r, h), Carries(b, r, h), OnWay(a)', OnWay(b)',
                      a.level < b.level \/ (a.level = b.level /\ OnWayIn(a)' /\ OnWayOut(b)')
               PROVE  a.no < b.no
    BY Zenon DEF Ranked
  <2>1. CASE OnWay(a)
    <3>1. CASE OnWay(b)
      <4>1. CASE a.level < b.level BY <1>1, <2>1, <3>1, <4>1, Zenon DEF Ranked
      <4>2. CASE a.level = b.level /\ OnWayIn(a)' /\ OnWayOut(b)'
        <5>1. CASE OnWayOut(b) BY <1>1, <1>19, <2>1, <3>1, <4>2, <5>1, Zenon DEF Ranked
        <5>2. CASE \E i \in 1 .. Len(F) : F[i] = b
          <6>1. b.no = sent[g] + 1 /\ r = g BY <1>7, <1>9, <5>2
          <6> QED BY <6>1, <1>13, <2>1
        <5> QED BY <4>2, <5>1, <5>2, <1>18
      <4> QED BY <4>1, <4>2
    <3>2. CASE \E i \in 1 .. Len(F) : F[i] = b
      <4>1. b.no = sent[g] + 1 /\ r = g BY <1>7, <1>9, <3>2
      <4> QED BY <4>1, <1>13, <2>1
    <3> QED BY <3>1, <3>2, <1>20
  <2>2. CASE ~ OnWay(a)
    <3>1. PICK i \in 1 .. Len(F) : F[i] = a BY <2>2, <1>20
    <3>2. a.level = RootLevel - 1 BY <3>1, <1>7
    <3>3. ~ OnWayIn(a)' BY <2>2, <1>19, Zenon DEF OnWay
    <3>4. a.level < b.level BY <3>3
    <3>5. b.level < RootLevel
      <4>1. b.tag = BCAST_TAG BY DEF Carries
      <4>2. CASE OnWay(b) BY <1>1, <4>1, <4>2, OnWayNode DEF Node
      <4>3. CASE \E j \in 1 .. Len(F) : F[j] = b BY <1>7, <4>1, <4>3 DEF Node
      <4> QED BY <4>2, <4>3, <1>20
    <3>6. b.level \in Nat BY DEF Packets
    <3> QED BY <3>2, <3>4, <3>5, <3>6, <1>2
  <2> QED BY <2>1, <2>2
<1>25. Pending'
  <2> SUFFICES ASSUME NEW r \in Host, NEW h \in Host
               PROVE  /\ \A m \in Packets : OnWay(m)' /\ Carries(m, r, h)
                             => Len(got'[h][r]) < m.no /\ m.no <= sent'[r]
                      /\ \A n \in Len(got'[h][r]) + 1 .. sent'[r] :
                            \E m \in Packets : OnWay(m)' /\ Carries(m, r, h) /\ m.no = n
    BY Zenon DEF Pending
  <2>1. /\ \A m \in Packets :
              OnWay(m) /\ Carries(m, r, h) => Len(got[h][r]) < m.no /\ m.no <= sent[r]
        /\ \A n \in Len(got[h][r]) + 1 .. sent[r] :
              \E m \in Packets : OnWay(m) /\ Carries(m, r, h) /\ m.no = n
    BY <1>1 DEF Pending
  <2>2. PICK k, s, t \in Nat : k = Len(got[h][r]) /\ s = sent[r] /\ t = sent'[r]
    BY <1>10, <1>12
  <2>3. k <= s /\ s <= t /\ (r # g => t = s) /\ (r = g => t = s + 1)
    BY <1>10, <1>11, <1>12, <2>2
  <2>4. ASSUME NEW m \in Packets, OnWay(m)', Carries(m, r, h)
        PROVE  k < m.no /\ m.no <= t
    <3>0. m.no \in Nat BY DEF Packets
    <3>1. CASE OnWay(m)
      <4>1. k < m.no /\ m.no <= s BY <2>1, <2>2, <2>4, <3>1
      <4> QED BY <4>1, <2>3, <3>0
    <3>2. CASE \E i \in 1 .. Len(F) : F[i] = m
      <4>1. m.no = s + 1 /\ r = g BY <1>7, <1>9, <2>2, <2>4, <3>2
      <4> QED BY <4>1, <2>3
    <3> QED BY <2>4, <3>1, <3>2, <1>20
  <2>5. ASSUME NEW n \in k + 1 .. t
        PROVE  \E m \in Packets : OnWay(m)' /\ Carries(m, r, h) /\ m.no = n
    <3>1. CASE n \in k + 1 .. s
      <4>1. PICK m \in Packets : OnWay(m) /\ Carries(m, r, h) /\ m.no = n
        BY <2>1, <2>2, <3>1
      <4> QED BY <4>1, <1>21, Zenon
    <3>2. CASE n \notin k + 1 .. s
      <4>1. r = g /\ n = s + 1 BY <2>3, <3>2
      <4>2. PICK i \in 1 .. Len(F) : Carries(F[i], r, h) BY <4>1, <1>7, <1>8
      <4>3. F[i] \in Packets /\ OnWayOut(F[i])' /\ F[i].no = n
        BY <1>7, <1>18, <1>22, <2>2, <4>1
      <4>4. OnWay(F[i])' BY <4>3 DEF OnWay
      <4> QED BY <4>2, <4>3, <4>4, Zenon
    <3> QED BY <3>1, <3>2
  <2>6. \A m \in Packets : OnWay(m)' /\ Carries(m, r, h)
            => Len(got[h][r]) < m.no /\ m.no <= sent'[r]
    BY <2>2, <2>4, Zenon
  <2>7. \A n \in Len(got[h][r]) + 1 .. sent'[r] :
            \E m \in Packets : OnWay(m)' /\ Carries(m, r, h) /\ m.no = n
    BY <2>2, <2>5, Zenon
  <2>8. got' = got OBVIOUS
  <2> QED BY <2>6, <2>7, <2>8, Zenon
<1>26. BcastInOrder'
  <2> SUFFICES ASSUME NEW h \in Host, NEW r \in Host
               PROVE  /\ Len(got[h][r]) <= sent'[r]
                      /\ \A i \in 1 .. Len(got[h][r]) : got[h][r][i] = i
    BY DEF BcastInOrder
  <2>1. \A i \in 1 .. Len(got[h][r]) : got[h][r][i] = i BY <1>1 DEF BcastInOrder
  <2>2. Len(got[h][r]) <= sent'[r] BY <1>10, <1>12
  <2> QED BY <2>1, <2>2
<1> QED BY <1>18, <1>19, <1>23, <1>24, <1>25, <1>26 DEF TreeInv

\* A host sends a packet that is not part of a broadcast.
LEMMA PlainStep ==
    ASSUME TypeNet, TreeInv, NEW g \in Host, NEW m0 \in Packets, m0.tag # BCAST_TAG, ~ m0.bcast,
           Send(g, <<m0>>), UNCHANGED <<inq, sent, got>>
    PROVE  TypeNet' /\ TreeInv'
<1>1. PlacedIn /\ PlacedOut /\ QueuedIn /\ QueuedOut /\ Ranked /\ Pending /\ BcastInOrder
  BY DEF TreeInv
<1>2. PICK F \in Seq(Packets) : F = <<m0>> BY OnePacket
<1>3. 1 \in 1 .. Len(F) /\ (\A i \in 1 .. Len(F) : F[i] = m0) /\ InOrder(F)
  BY <1>2, OnePacket, Zenon
<1>4. \A r, h \in Host : ~ Carries(m0, r, h) BY DEF Carries
<1>5. ComeFrom(F, g)
  <2>1. Node(m0) /\ SentBy(m0, g) BY Zenon DEF Node, SentBy
  <2> QED BY <1>3, <2>1, Zenon DEF ComeFrom
<1>6. LaterOut(F) BY <1>3, <1>4, Zenon DEF LaterOut
<1>7. outq' = [outq EXCEPT ![g] = @ \o F] BY <1>2 DEF Send
<1>8. /\ outq' \in [Host -> Seq(Packets)]
      /\ PlacedOut' /\ QueuedOut'
      /\ \A m : OnWayOut(m) => OnWayOut(m)'
      /\ \A m : OnWayOut(m)' => OnWayOut(m) \/ \E i \in 1 .. Len(F) : F[i] = m
  BY <1>1, <1>3, <1>5, <1>6, <1>7, OutAppend
<1>9. PlacedIn' /\ QueuedIn' /\ \A m : OnWayIn(m)' <=> OnWayIn(m)
  <2>1. PlacedIn' BY <1>1 DEF PlacedIn
  <2>2. QueuedIn' BY <1>1 DEF QueuedIn
  <2>3. \A m : OnWayIn(m)' <=> OnWayIn(m) BY DEF OnWayIn
  <2> QED BY <2>1, <2>2, <2>3
<1>10. \A m : OnWay(m)' => OnWay(m) \/ m = m0 BY <1>3, <1>8, <1>9, Zenon DEF OnWay
<1>11. \A m : OnWay(m) => OnWay(m)' BY <1>8, <1>9, Zenon DEF OnWay
<1>12. \A m : OnWayOut(m)' => OnWayOut(m) \/ m = m0 BY <1>3, <1>8, Zenon
<1>13. TypeNet' BY <1>8 DEF TypeNet
<1>14. Ranked'
  <2> SUFFICES ASSUME NEW r \in Host, NEW h \in Host, NEW a \in Packets, NEW b \in Packets,
                      Carries(a, r, h), Carries(b, r, h), OnWay(a)', OnWay(b)',
                      a.level < b.level \/ (a.level = b.level /\ OnWayIn(a)' /\ OnWayOut(b)')
               PROVE  a.no < b.no
    BY Zenon DEF Ranked
  <2>1. a # m0 /\ b # m0 BY <1>4
  <2>2. OnWay(a) /\ OnWay(b) BY <2>1, <1>10
  <2>3. CASE a.level < b.level BY <1>1, <2>2, <2>3, Zenon DEF Ranked
  <2>4. CASE a.level = b.level /\ OnWayIn(a)' /\ OnWayOut(b)'
    <3>1. OnWayIn(a) /\ OnWayOut(b) BY <2>1, <2>4, <1>9, <1>12, Zenon
    <3> QED BY <1>1, <2>2, <2>4, <3>1, Zenon DEF Ranked
  <2> QED BY <2>3, <2>4
<1>15. Pending'
  <2>1. SameNumbers BY <1>4, <1>10, <1>11, Zenon DEF SameNumbers
  <2>2. got' = got /\ sent' = sent OBVIOUS
  <2> QED BY <1>1, <2>1, <2>2, SamePending
<1>16. BcastInOrder' BY <1>1 DEF BcastInOrder
<1> QED BY <1>8, <1>9, <1>13, <1>14, <1>15, <1>16 DEF TreeInv

\* Nothing happens to the network.
LEMMA QuietStep ==
    ASSUME TypeNet, TreeInv, UNCHANGED <<outq, inq, sent, got>>
    PROVE  TypeNet' /\ TreeInv'
<1>1. PlacedIn /\ PlacedOut /\ QueuedIn /\ QueuedOut /\ Ranked /\ Pending /\ BcastInOrder
  BY DEF TreeInv
<1>2. TypeNet' BY DEF TypeNet
<1>3. \A m : (OnWayIn(m)' <=> OnWayIn(m)) /\ (OnWayOut(m)' <=> OnWayOut(m))
  BY DEF OnWayIn, OnWayOut
<1>4. \A m : OnWay(m)' <=> OnWay(m) BY <1>3 DEF OnWay
<1>5. PlacedIn' /\ PlacedOut' BY <1>1 DEF PlacedIn, PlacedOut
<1>6. QueuedIn' /\ QueuedOut' BY <1>1 DEF QueuedIn, QueuedOut
<1>7. Ranked'
  <2> SUFFICES ASSUME NEW r \in Host, NEW h \in Host, NEW a \in Packets, NEW b \in Packets,
                      Carries(a, r, h), Carries(b, r, h), OnWay(a)', OnWay(b)',
                      a.level < b.level \/ (a.level = b.level /\ OnWayIn(a)' /\ OnWayOut(b)')
               PROVE  a.no < b.no
    BY Zenon DEF Ranked
  <2> QED BY <1>1, <1>3, <1>4, Zenon DEF Ranked
<1>8. Pending'
  <2>1. SameNumbers BY <1>4, Zenon DEF SameNumbers
  <2>2. got' = got /\ sent' = sent OBVIOUS
  <2> QED BY <1>1, <2>1, <2>2, SamePending
<1>9. BcastInOrder' BY <1>1 DEF BcastInOrder
<1> QED BY <1>2, <1>5, <1>6, <1>7, <1>8, <1>9 DEF TreeInv

\* What replacing one element of a table of tables does.
LEMMA OneEntry ==
    ASSUME NEW S, NEW f \in [Host -> [Host -> S]], NEW g \in Host, NEW r0 \in Host, NEW q \in S,
           NEW f2, f2 = [f EXCEPT ![g][r0] = q]
    PROVE  /\ f2[g][r0] = q
           /\ \A r, h \in Host : r # r0 \/ h # g => f2[h][r] = f[h][r]
           /\ f2 \in [Host -> [Host -> S]]
OBVIOUS

\* What StartStore does to the network.
Handling(g) ==
    /\ inq[g] # <<>> /\ ~ Head(inq[g]).bcast
    /\ inq' = [inq EXCEPT ![g] = Tail(@)]
    /\ got' = IF Head(inq[g]).tag = BCAST_TAG
              THEN [got EXCEPT ![g][Head(inq[g]).root] = Append(@, Head(inq[g]).no)]
              ELSE got
    /\ outq' = outq /\ sent' = sent

\* The server thread hands a packet to msgrecvserver: of its root the one that is due.
LEMMA HandleStep ==
    ASSUME TypeNet, TreeInv, NEW g \in Host, Handling(g)
    PROVE  TypeNet' /\ TreeInv'
<1>1. PlacedIn /\ PlacedOut /\ QueuedIn /\ QueuedOut /\ Ranked /\ Pending /\ BcastInOrder
  BY DEF TreeInv
<1>a. inq[g] # <<>> /\ ~ Head(inq[g]).bcast /\ inq' = [inq EXCEPT ![g] = Tail(@)]
  BY DEF Handling
<1>b. outq' = outq /\ sent' = sent BY DEF Handling
<1>2. Head(inq[g]) \in Packets BY <1>1, <1>a, InTail
<1>3. PICK m0 \in Packets : m0 = Head(inq[g]) BY <1>2
<1>4. /\ inq' \in [Host -> Seq(Packets)]
      /\ PlacedIn' /\ QueuedIn'
      /\ OnWayIn(m0) /\ Node(m0) /\ m0.topid = g
      /\ \A m : OnWayIn(m)' => OnWayIn(m)
      /\ \A m : OnWayIn(m) => OnWayIn(m)' \/ m = m0
      /\ \A r, h \in Host : \A m \in Packets :
            OnWayIn(m)' /\ Carries(m0, r, h) /\ Carries(m, r, h) /\ m.level = m0.level
                => m0.no < m.no
  BY <1>1, <1>3, <1>a, InTail
<1>5. PlacedOut' /\ QueuedOut' /\ \A m : OnWayOut(m)' <=> OnWayOut(m)
  <2>1. PlacedOut' BY <1>1, <1>b DEF PlacedOut
  <2>2. QueuedOut' BY <1>1, <1>b DEF QueuedOut
  <2>3. \A m : OnWayOut(m)' <=> OnWayOut(m) BY <1>b DEF OnWayOut
  <2> QED BY <2>1, <2>2, <2>3
<1>6. \A m : OnWay(m)' => OnWay(m) BY <1>4, <1>5, Zenon DEF OnWay
<1>7. \A m : OnWay(m) => OnWay(m)' \/ m = m0 BY <1>4, <1>5, Zenon DEF OnWay
<1>8. OnWay(m0) BY <1>4, Zenon DEF OnWay
<1>9. m0.root \in Host /\ m0.no \in Nat /\ m0.level \in Nat BY DEF Packets
<1>10. \A m \in Packets : m.no \in Nat /\ m.level \in Nat BY DEF Packets
<1>11. Ranked'
  <2> SUFFICES ASSUME NEW r \in Host, NEW h \in Host, NEW a \in Packets, NEW b \in Packets,
                      Carries(a, r, h), Carries(b, r, h), OnWay(a)', OnWay(b)',
                      a.level < b.level \/ (a.level = b.level /\ OnWayIn(a)' /\ OnWayOut(b)')
               PROVE  a.no < b.no
    BY Zenon DEF Ranked
  <2> QED BY <1>1, <1>4, <1>5, <1>6, Zenon DEF Ranked
<1>12. \A r, h \in Host :
          /\ \A m \in Packets :
                OnWay(m) /\ Carries(m, r, h) => Len(got[h][r]) < m.no /\ m.no <= sent[r]
          /\ \A n \in Len(got[h][r]) + 1 .. sent[r] :
                \E m \in Packets : OnWay(m) /\ Carries(m, r, h) /\ m.no = n
  BY <1>1, Zenon DEF Pending
<1>13. \A r, h \in Host : got[h][r] \in Seq(Nat) /\ Len(got[h][r]) \in Nat /\ sent[r] \in Nat
  <2>1. \A r, h \in Host : got[h][r] \in Seq(Nat) /\ sent[r] \in Nat BY DEF TypeNet
  <2> QED BY <2>1, LenProperties
<1>14. CASE m0.tag # BCAST_TAG
  <2>1. got' = got BY <1>3, <1>14 DEF Handling
  <2>2. \A r, h \in Host : ~ Carries(m0, r, h) BY <1>14 DEF Carries
  <2>3. TypeNet' BY <1>4, <1>b, <2>1 DEF TypeNet
  <2>4. \A r, h \in Host : \A m \in Packets :
           OnWay(m) /\ Carries(m, r, h) => OnWay(m)'
    BY <1>7, <2>2, Zenon
  <2>6. Pending'
    <3>1. SameNumbers BY <1>6, <2>4, Zenon DEF SameNumbers
    <3> QED BY <1>1, <1>b, <2>1, <3>1, SamePending
  <2>7. BcastInOrder' BY <1>1, <1>b, <2>1 DEF BcastInOrder
  <2> QED BY <1>4, <1>5, <1>11, <2>3, <2>6, <2>7 DEF TreeInv
<1>15. CASE m0.tag = BCAST_TAG
  <2> DEFINE k == Len(got[g][m0.root])
  <2>1. m0.level = 0 BY <1>3, <1>4, <1>9, <1>15, <1>a DEF Node
  <2>2. Carries(m0, m0.root, g)
    <3>1. Pos(g, m0.root) \in Nat
      <4>1. Pos(g, m0.root) \in Host BY <1>9, Positions
      <4> QED BY <4>1 DEF Host
    <3>2. Pos(g, m0.root) < Pos(g, m0.root) + 2^m0.level
      <4>1. 2^m0.level \in Nat /\ 2^m0.level >= 1 BY <1>9, Doubling
      <4> QED BY <3>1, <4>1
    <3> QED BY <1>4, <1>15, <3>1, <3>2 DEF Carries
  <2>3. \A r, h \in Host : Carries(m0, r, h) => r = m0.root /\ h = g
    <3> SUFFICES ASSUME NEW r \in Host, NEW h \in Host, Carries(m0, r, h)
                 PROVE  r = m0.root /\ h = g
      OBVIOUS
    <3>1. m0.topid = h BY <2>1, LeafCarries
    <3> QED BY <3>1, <1>4 DEF Carries
  <2>4. k \in Nat /\ k < m0.no /\ m0.no <= sent[m0.root] /\ sent[m0.root] \in Nat
    BY <1>8, <1>9, <1>12, <1>13, <2>2
\* The other packets for this host are later.
  <2>5. ASSUME NEW m \in Packets, OnWay(m), m # m0, Carries(m, m0.root, g)
        PROVE  m0.no < m.no
    <3>1. CASE m0.level < m.level BY <1>1, <1>8, <1>9, <2>2, <2>5, <3>1, Zenon DEF Ranked
    <3>2. CASE m0.level = m.level
      <4>1. CASE OnWayIn(m)
        <5>1. OnWayIn(m)' BY <4>1, <2>5, <1>4, Zenon
        <5> QED BY <5>1, <1>4, <1>9, <2>2, <2>5, <3>2, Zenon
      <4>2. CASE OnWayOut(m)
        BY <1>1, <1>4, <1>8, <1>9, <2>2, <2>5, <3>2, <4>2, Zenon DEF Ranked
      <4> QED BY <2>5, <4>1, <4>2, Zenon DEF OnWay
    <3> QED BY <3>1, <3>2, <2>1, <1>10
  <2>6. m0.no = k + 1
    <3>1. k + 1 \in k + 1 .. sent[m0.root] BY <2>4, <1>9
    <3>2. PICK m \in Packets : OnWay(m) /\ Carries(m, m0.root, g) /\ m.no = k + 1
      <4>1. \A n \in k + 1 .. sent[m0.root] :
               \E m \in Packets : OnWay(m) /\ Carries(m, m0.root, g) /\ m.no = n
        BY <1>9, <1>12, Zenon
      <4> HIDE DEF k
      <4> QED BY <3>1, <4>1
    <3>3. CASE m = m0 BY <3>2, <3>3
    <3>4. CASE m # m0
      <4>1. m0.no < m.no BY <2>5, <3>2, <3>4
      <4> QED BY <4>1, <3>2, <2>4, <1>9
    <3> QED BY <3>3, <3>4
  <2> HIDE DEF k
  <2>7. PICK r0 \in Host, n0 \in Nat : r0 = m0.root /\ n0 = m0.no BY <1>9
  <2>8. got' = [got EXCEPT ![g][r0] = Append(@, n0)] BY <1>3, <1>15, <2>7 DEF Handling
  <2>9. /\ got'[g][r0] = Append(got[g][r0], n0)
        /\ \A r, h \in Host : r # r0 \/ h # g => got'[h][r] = got[h][r]
        /\ got' \in [Host -> [Host -> Seq(Nat)]]
    <3>1. Append(got[g][r0], n0) \in Seq(Nat) BY <1>13, AppendProperties
    <3>2. PICK q \in Seq(Nat) : q = Append(got[g][r0], n0) BY <3>1
    <3>3. got' = [got EXCEPT ![g][r0] = q] BY <2>8, <3>2, Zenon
    <3>4. got \in [Host -> [Host -> Seq(Nat)]] BY DEF TypeNet
    <3>5. /\ got'[g][r0] = q
          /\ \A r, h \in Host : r # r0 \/ h # g => got'[h][r] = got[h][r]
          /\ got' \in [Host -> [Host -> Seq(Nat)]]
      BY <3>3, <3>4, OneEntry
    <3> QED BY <3>2, <3>5, Zenon
  <2>10. /\ Len(got'[g][r0]) = k + 1
         /\ \A i \in 1 .. k : got'[g][r0][i] = got[g][r0][i]
         /\ got'[g][r0][k + 1] = n0
    <3>1. got[g][r0] \in Seq(Nat) /\ k = Len(got[g][r0]) BY <1>13, <2>7 DEF k
    <3>2. PICK q \in Seq(Nat) : q = got[g][r0] BY <3>1
    <3>3. /\ Len(Append(q, n0)) = Len(q) + 1
          /\ \A i \in 1 .. Len(q) : Append(q, n0)[i] = q[i]
          /\ Append(q, n0)[Len(q) + 1] = n0
      BY AppendProperties
    <3>4. got'[g][r0] = Append(q, n0) /\ k = Len(q) BY <2>9, <3>1, <3>2
    <3>5. got[g][r0] = q BY <3>2
    <3> QED BY <3>3, <3>4, <3>5, Zenon
  <2>11. TypeNet' BY <1>4, <1>b, <2>9 DEF TypeNet
  <2>12. sent' = sent BY <1>b
  <2>13. \A r, h \in Host :
          /\ \A m \in Packets :
                OnWay(m)' /\ Carries(m, r, h) => Len(got'[h][r]) < m.no /\ m.no <= sent[r]
          /\ \A n \in Len(got'[h][r]) + 1 .. sent[r] :
                \E m \in Packets : OnWay(m)' /\ Carries(m, r, h) /\ m.no = n
    <3> SUFFICES ASSUME NEW r \in Host, NEW h \in Host
                 PROVE  /\ \A m \in Packets : OnWay(m)' /\ Carries(m, r, h)
                               => Len(got'[h][r]) < m.no /\ m.no <= sent[r]
                        /\ \A n \in Len(got'[h][r]) + 1 .. sent[r] :
                              \E m \in Packets : OnWay(m)' /\ Carries(m, r, h) /\ m.no = n
      OBVIOUS
    <3>1. CASE r # r0 \/ h # g
      <4>1. got'[h][r] = got[h][r] /\ ~ Carries(m0, r, h) BY <2>3, <2>7, <2>9, <3>1
      <4>2. /\ \A m \in Packets :
                  OnWay(m) /\ Carries(m, r, h) => Len(got'[h][r]) < m.no /\ m.no <= sent[r]
            /\ \A n \in Len(got'[h][r]) + 1 .. sent[r] :
                  \E m \in Packets : OnWay(m) /\ Carries(m, r, h) /\ m.no = n
        <5>1. /\ \A m \in Packets :
                    OnWay(m) /\ Carries(m, r, h) => Len(got[h][r]) < m.no /\ m.no <= sent[r]
              /\ \A n \in Len(got[h][r]) + 1 .. sent[r] :
                    \E m \in Packets : OnWay(m) /\ Carries(m, r, h) /\ m.no = n
          BY <1>12
        <5> QED BY <4>1, <5>1, Zenon
      <4>3. \A m \in Packets : OnWay(m) /\ Carries(m, r, h) => OnWay(m)'
        BY <4>1, <1>7, Zenon
      <4> QED BY <4>2, <4>3, <1>6, Zenon
    <3>2. CASE r = r0 /\ h = g
      <4>1. PICK t \in Nat : t = sent[r0] BY <1>13
      <4>2. ASSUME NEW m \in Packets, OnWay(m)', Carries(m, r0, g)
            PROVE  k + 1 < m.no /\ m.no <= t
        <5>1. OnWay(m) BY <4>2, <1>6
        <5>2. m.no <= t BY <4>1, <4>2, <5>1, <1>12
        <5>3. m # m0
          <6> SUFFICES ASSUME m = m0 PROVE FALSE
            OBVIOUS
          <6>1. CASE OnWayIn(m)'
            <7>1. m0.no < m0.no BY <6>1, <1>4, <1>9, <2>2, Zenon
            <7> QED BY <7>1, <1>9
          <6>2. CASE OnWayOut(m)'
            <7>1. OnWayOut(m0) BY <6>2, <1>5
            <7>2. m0.no < m0.no BY <7>1, <1>1, <1>4, <1>8, <1>9, <2>2, Zenon DEF Ranked
            <7> QED BY <7>2, <1>9
          <6> QED BY <4>2, <6>1, <6>2, Zenon DEF OnWay
        <5>4. m0.no < m.no BY <5>1, <5>3, <4>2, <2>5, <2>7
        <5> QED BY <5>2, <5>4, <2>6
      <4>3. ASSUME NEW n \in (k + 1) + 1 .. t
            PROVE  \E m \in Packets : OnWay(m)' /\ Carries(m, r0, g) /\ m.no = n
        <5>1. n \in k + 1 .. t /\ n # k + 1 BY <2>4
        <5>2. PICK m \in Packets : OnWay(m) /\ Carries(m, r0, g) /\ m.no = n
          <6>1. k = Len(got[g][r0]) BY <2>7 DEF k
          <6>2. n \in Len(got[g][r0]) + 1 .. sent[r0] BY <5>1, <6>1, <4>1
          <6> QED BY <6>2, <1>12
        <5>3. OnWay(m)' BY <5>1, <5>2, <1>7, <2>6
        <5> QED BY <5>2, <5>3, Zenon
      <4>4. \A m \in Packets : OnWay(m)' /\ Carries(m, r, h)
                               => Len(got'[h][r]) < m.no /\ m.no <= sent[r]
        BY <3>2, <4>1, <4>2, <2>10, Zenon
      <4>5. \A n \in Len(got'[h][r]) + 1 .. sent[r] :
               \E m \in Packets : OnWay(m)' /\ Carries(m, r, h) /\ m.no = n
        BY <3>2, <4>1, <4>3, <2>10, Zenon
      <4> QED BY <4>4, <4>5, Zenon
    <3> QED BY <3>1, <3>2, Zenon
  <2>14. Pending'
    <3> SUFFICES ASSUME NEW r \in Host, NEW h \in Host
                 PROVE  /\ \A m \in Packets : OnWay(m)' /\ Carries(m, r, h)
                               => Len(got'[h][r]) < m.no /\ m.no <= sent[r]
                        /\ \A n \in Len(got'[h][r]) + 1 .. sent[r] :
                              \E m \in Packets : OnWay(m)' /\ Carries(m, r, h) /\ m.no = n
      BY <2>12, Zenon DEF Pending
    <3> QED BY <2>13, Zenon
  <2>15. BcastInOrder'
    <3> SUFFICES ASSUME NEW h \in Host, NEW r \in Host
                 PROVE  /\ Len(got'[h][r]) <= sent[r]
                        /\ \A i \in 1 .. Len(got'[h][r]) : got'[h][r][i] = i
      BY <2>12, Zenon DEF BcastInOrder
    <3>0. /\ Len(got[h][r]) <= sent[r]
          /\ \A i \in 1 .. Len(got[h][r]) : got[h][r][i] = i
      BY <1>1 DEF BcastInOrder
    <3>1. CASE r # r0 \/ h # g BY <3>0, <3>1, <2>9, Zenon
    <3>2. CASE r = r0 /\ h = g
      <4>1. k + 1 <= sent[r0] BY <2>4, <2>6, <2>7
      <4>2. \A i \in 1 .. k + 1 : i \in 1 .. k \/ i = k + 1 BY <2>4
      <4>3. \A i \in 1 .. k : got[g][r0][i] = i BY <3>0, <3>2, <2>7, Zenon DEF k
      <4>4. \A i \in 1 .. k + 1 : got'[g][r0][i] = i
        BY <4>2, <4>3, <2>6, <2>7, <2>10, Zenon
      <4> QED BY <3>2, <4>1, <4>4, <2>10, Zenon
    <3> QED BY <3>1, <3>2, Zenon
  <2> QED BY <1>4, <1>5, <1>11, <2>11, <2>14, <2>15 DEF TreeInv
<1> QED BY <1>14, <1>15

-----------------------------------------------------------------------------
(***************************************************************************)
(* The application and the buffers.                                        *)
(***************************************************************************)
\* A host in jia_reduce has the call before it.
Reducing == \A h \in Host : red[h].j # -1 => prog[h] # <<>> /\ Head(prog[h]).op = "reduce"

\* A host in jia_recv has a call before it, too.
InCall == \A h \in Host : recv[h].at # "none" => prog[h] # <<>>

\* The arguments of a call.
LEMMA CallFields ==
    ASSUME NEW c \in Call
    PROVE  /\ c.op = "send" => c.to \in Host /\ c.tag \in Tags /\ c.len \in Nat \ {0}
           /\ c.op = "recv" => c.from \in Host \cup {All} /\ c.tag \in Tags \cup {All} /\ c.len \in Nat
           /\ c.op = "bcast" => c.root \in Host /\ c.len \in Nat \ {0}
           /\ c.op = "reduce" => c.root \in Host
BY DEF Call

\* The call a host makes.
LEMMA MadeCall ==
    ASSUME TypeApp, NEW h \in Host, prog[h] # <<>>
    PROVE  Head(prog[h]) \in Call /\ [prog EXCEPT ![h] = Tail(@)] \in [Host -> Seq(Call)]
<1>1. prog[h] \in Seq(Call) BY DEF TypeApp
<1>2. Head(prog[h]) \in Call /\ Tail(prog[h]) \in Seq(Call) BY <1>1, TailQueue
<1>3. PICK t \in Seq(Call) : t = Tail(prog[h]) BY <1>2
<1>4. [prog EXCEPT ![h] = t] \in [Host -> Seq(Call)] BY DEF TypeApp
<1> QED BY <1>2, <1>3, <1>4, Zenon

\* The tags of messages are not those of broadcasts.
LEMMA OtherTags ==
    /\ BCAST_TAG \in AnyTag /\ REDUCE_TAG \in AnyTag /\ REDUCE_TAG # BCAST_TAG
    /\ \A t \in Tags : t \in AnyTag /\ t # BCAST_TAG
BY MsgPassAssumption DEF AnyTag, BCAST_TAG, REDUCE_TAG

\* A value with nothing in it.
LEMMA NoValueTyped == NoValue \in Value
BY DEF NoValue, Value

\* The positions of jia_reduce are those of hosts.
LEMMA ReducePosition ==
    ASSUME TypeApp, Reducing, NEW h \in Host, red[h].j >= 0
    PROVE  /\ AtPosition(h, Position(h) - 2^red[h].j) \in Host
           /\ AtPosition(h, Position(h) + 2^red[h].j) \in Host
<1>1. red[h].j \in Nat /\ red[h].j # -1 BY DEF TypeApp, RedState
<1>2. PICK d \in Nat : d = 2^red[h].j BY <1>1, Doubling
<1>3. PICK r \in Host : r = Head(prog[h]).root
  <2>1. prog[h] # <<>> /\ Head(prog[h]).op = "reduce" BY <1>1 DEF Reducing
  <2> QED BY <2>1, MadeCall, CallFields
<1>4. HostC \in Nat /\ HostC >= 1 BY BcastAssumption
<1>5. \A x \in Int : x % HostC \in Host BY <1>4 DEF Host
<1>6. h \in Int /\ r \in Int BY DEF Host
<1>7. Position(h) \in Int
  <2>1. (h - r) + HostC \in Int BY <1>4, <1>6
  <2>2. ((h - r) + HostC) % HostC \in Host BY <2>1, <1>5
  <2> QED BY <2>2, <1>3 DEF Position, Host
<1>8. \A n \in Int : (n + r) % HostC \in Host
  <2>1. \A n \in Int : n + r \in Int BY <1>6
  <2> QED BY <2>1, <1>5
<1>9. \A n \in Int : AtPosition(h, n) \in Host BY <1>8, <1>3, Zenon DEF AtPosition
<1>10. Position(h) - d \in Int /\ Position(h) + d \in Int
  <2> HIDE DEF Position
  <2> QED BY <1>7
<1> QED BY <1>2, <1>9, <1>10, Zenon

-----------------------------------------------------------------------------
(***************************************************************************)
(* Numbers and scans.  The buffer b of one host, with its msgrecvserver s, *)
(* its msgseqno q, its arrivals a and its jia_recv r.                      *)
(***************************************************************************)
UnreadIn(b, s, i) == b[i].op # "ERRMSG" /\ ~ (s.at = "fill" /\ s.place = i)

\* An unread packet that got its number after msgseqno was last written over.
Recent(b, s, a, i) == UnreadIn(b, s, i) /\ b[i].arrival > a.renumbered

\* A packet that r asks for and that was stored before it began to look.
Asked(b, s, r, i) ==
    /\ UnreadIn(b, s, i) /\ b[i].arrival <= r.start
    /\ Matches(b[i].packet, b[i].packet, r.from, r.tag)

Counted(b, s, a, r) ==
    /\ a.renumbered <= a.count /\ r.start <= a.count
    /\ \A i \in Place : UnreadIn(b, s, i) => b[i].arrival <= a.count

\* The numbers of recent packets follow their arrival.
Numbered(b, s, q, a) ==
    /\ \A i \in Place : Recent(b, s, a, i) =>
          b[i].seqno <= q /\ (s.at # "idle" => b[i].seqno < q)
    /\ \A i, j \in Place :
          Recent(b, s, a, i) /\ Recent(b, s, a, j) /\ b[i].arrival < b[j].arrival
             => b[i].seqno < b[j].seqno

\* The places behind r: none has a smaller number than the one it has chosen.
Scanned(b, s, r) ==
    r.at = "scan" /\ ~ r.torn =>
       /\ r.index \in Place => UnreadIn(b, s, r.index) /\ b[r.index].seqno = r.next
       /\ r.index \notin Place => r.next = Maxmsgno
       /\ \A i \in Place : i < r.place /\ Asked(b, s, r, i) => r.next <= b[i].seqno

Mail(b, s, q, a, r) == Counted(b, s, a, r) /\ Numbered(b, s, q, a) /\ Scanned(b, s, r)

MailTyped(b, q, a, r) ==
    /\ \A i \in Place : b[i].seqno \in Nat /\ b[i].arrival \in Nat
    /\ q \in Nat /\ a.count \in Nat /\ a.renumbered \in Nat
    /\ r.place \in Nat /\ r.next \in Nat /\ r.start \in Nat

\* A scan that begins, or a jia_recv that does not scan.
Fresh(a, r) ==
    \/ r.at # "scan" /\ r.start <= a.count
    \/ r.place = 0 /\ r.index = Maxmsgbufs /\ r.next = Maxmsgno /\ r.start = a.count

\* jia_recv begins a scan, or does not scan.
LEMMA FreshMail ==
    ASSUME NEW b, NEW s, NEW q, NEW a, NEW r, NEW r2, MailTyped(b, q, a, r),
           Mail(b, s, q, a, r), Fresh(a, r2)
    PROVE  Mail(b, s, q, a, r2)
<1>1. Maxmsgbufs \notin Place /\ \A i \in Place : ~ (i < 0)
  BY MailboxAssumption DEF Place
<1>2. Counted(b, s, a, r2) BY DEF Mail, Counted, Fresh, MailTyped
<1>3. Scanned(b, s, r2)
  <2> SUFFICES ASSUME r2.at = "scan"
               PROVE  /\ r2.index \notin Place /\ r2.next = Maxmsgno
                      /\ \A i \in Place : ~ (i < r2.place)
    BY DEF Scanned
  <2> QED BY <1>1 DEF Fresh
<1> QED BY <1>2, <1>3 DEF Mail

\* msgrecvserver begins or looks at a place, k, which it may mark.
LEMMA SearchMail ==
    ASSUME NEW b, NEW b2, NEW s, NEW s2, NEW q, NEW q2 \in Nat, NEW a, NEW r, NEW k,
           MailTyped(b, q, a, r), Mail(b, s, q, a, r), s.at # "fill",
           q2 = q + 1 \/ (q2 = q /\ s.at # "idle"),
           \/ b2 = b /\ s2.at # "fill"
           \/ /\ b[k].op = "ERRMSG" /\ \A i \in Place : i # k => b2[i] = b[i]
              /\ s2.at = "fill" /\ s2.place = k
    PROVE  Mail(b2, s2, q2, a, r)
<1>1. \A i \in Place : UnreadIn(b2, s2, i) => UnreadIn(b, s, i) /\ b2[i] = b[i]
  BY DEF UnreadIn
<1>2. \A i \in Place : UnreadIn(b, s, i) => UnreadIn(b2, s2, i)
  BY DEF UnreadIn
<1>3. Counted(b2, s2, a, r) BY <1>1 DEF Mail, Counted
<1>4. \A i \in Place : Recent(b2, s2, a, i) => Recent(b, s, a, i) /\ b2[i] = b[i]
  BY <1>1 DEF Recent
<1>5. \A i \in Place : Recent(b, s, a, i) => b[i].seqno < q2
  BY DEF Mail, Numbered, MailTyped
<1>6. Numbered(b2, s2, q2, a)
  <2>1. \A i \in Place : Recent(b2, s2, a, i) => b2[i].seqno <= q2 /\ b2[i].seqno < q2
    BY <1>4, <1>5 DEF MailTyped
  <2>2. \A i, j \in Place :
          Recent(b2, s2, a, i) /\ Recent(b2, s2, a, j) /\ b2[i].arrival < b2[j].arrival
             => b2[i].seqno < b2[j].seqno
    BY <1>4 DEF Mail, Numbered
  <2> QED BY <2>1, <2>2 DEF Numbered
<1>7. \A i \in Place : Asked(b2, s2, r, i) => Asked(b, s, r, i) /\ b2[i] = b[i]
  BY <1>1 DEF Asked
<1>8. Scanned(b2, s2, r)
  <2> SUFFICES ASSUME r.at = "scan", ~ r.torn
               PROVE  /\ r.index \in Place => UnreadIn(b2, s2, r.index) /\ b2[r.index].seqno = r.next
                      /\ r.index \notin Place => r.next = Maxmsgno
                      /\ \A i \in Place : i < r.place /\ Asked(b2, s2, r, i) => r.next <= b2[i].seqno
    BY DEF Scanned
  <2>1. Scanned(b, s, r) BY DEF Mail
  <2>2. ASSUME r.index \in Place PROVE UnreadIn(b2, s2, r.index) /\ b2[r.index].seqno = r.next
    <3>1. UnreadIn(b, s, r.index) /\ b[r.index].seqno = r.next BY <2>1, <2>2 DEF Scanned
    <3> QED BY <1>1, <1>2, <2>2, <3>1
  <2>3. ASSUME NEW i \in Place, i < r.place, Asked(b2, s2, r, i) PROVE r.next <= b2[i].seqno
    BY <1>7, <2>1, <2>3 DEF Scanned
  <2> QED BY <2>1, <2>2, <2>3 DEF Scanned
<1> QED BY <1>3, <1>6, <1>8 DEF Mail

\* msgrecvserver fills place k.
LEMMA FillMail ==
    ASSUME NEW b, NEW b2, NEW s, NEW s2, NEW q, NEW a, NEW a2, NEW r, NEW k \in Place,
           MailTyped(b, q, a, r), Mail(b, s, q, a, r), s.at = "fill", s.place = k,
           s2.at = "idle", a2.count = a.count + 1, a2.renumbered = a.renumbered,
           b2[k].seqno = q, b2[k].arrival = a.count + 1,
           \A i \in Place : i # k => b2[i] = b[i]
    PROVE  Mail(b2, s2, q, a2, r)
<1>1. /\ a.count \in Nat /\ a.renumbered \in Nat /\ q \in Nat /\ r.start \in Nat
      /\ a.renumbered <= a.count /\ r.start <= a.count
      /\ \A i \in Place : b[i].seqno \in Nat /\ b[i].arrival \in Nat
  BY DEF MailTyped, Mail, Counted
<1>2. \A i \in Place : i # k => (UnreadIn(b2, s2, i) <=> UnreadIn(b, s, i)) /\ b2[i] = b[i]
  BY DEF UnreadIn
<1>3. ~ UnreadIn(b, s, k) BY DEF UnreadIn
<1>4. \A i \in Place : UnreadIn(b2, s2, i) => b2[i].arrival <= a2.count
  BY <1>1, <1>2 DEF Mail, Counted
<1>5. Counted(b2, s2, a2, r) BY <1>1, <1>4 DEF Counted
<1>6. \A i \in Place : i # k /\ Recent(b2, s2, a2, i) =>
          /\ Recent(b, s, a, i) /\ b2[i] = b[i]
          /\ b[i].seqno < q /\ b[i].arrival <= a.count
  <2>1. \A i \in Place : i # k /\ Recent(b2, s2, a2, i) => Recent(b, s, a, i) /\ b2[i] = b[i]
    BY <1>2 DEF Recent
  <2>2. \A i \in Place : Recent(b, s, a, i) => b[i].seqno < q /\ b[i].arrival <= a.count
    BY DEF Mail, Numbered, Counted, Recent
  <2> QED BY <2>1, <2>2
<1>7. Numbered(b2, s2, q, a2)
  <2>1. \A i \in Place : Recent(b2, s2, a2, i) => b2[i].seqno <= q BY <1>1, <1>6
  <2>2. ASSUME NEW i \in Place, NEW j \in Place, Recent(b2, s2, a2, i), Recent(b2, s2, a2, j),
               b2[i].arrival < b2[j].arrival
        PROVE  b2[i].seqno < b2[j].seqno
    <3>1. CASE j = k
      <4>1. i # k BY <1>1, <2>2, <3>1
      <4> QED BY <1>6, <2>2, <3>1, <4>1
    <3>2. CASE j # k
      <4>1. b2[j].arrival <= a.count /\ b2[j].arrival \in Nat BY <1>1, <1>6, <2>2, <3>2
      <4>2. i # k BY <1>1, <2>2, <4>1
      <4> QED BY <1>6, <2>2, <3>2, <4>2 DEF Mail, Numbered
    <3> QED BY <3>1, <3>2
  <2> QED BY <2>1, <2>2 DEF Numbered
<1>8. \A i \in Place : Asked(b2, s2, r, i) => Asked(b, s, r, i) /\ b2[i] = b[i]
  <2>1. \A i \in Place : Asked(b2, s2, r, i) => i # k BY <1>1 DEF Asked
  <2> QED BY <1>2, <2>1 DEF Asked
<1>9. Scanned(b2, s2, r)
  <2> SUFFICES ASSUME r.at = "scan", ~ r.torn
               PROVE  /\ r.index \in Place => UnreadIn(b2, s2, r.index) /\ b2[r.index].seqno = r.next
                      /\ r.index \notin Place => r.next = Maxmsgno
                      /\ \A i \in Place : i < r.place /\ Asked(b2, s2, r, i) => r.next <= b2[i].seqno
    BY DEF Scanned
  <2>1. Scanned(b, s, r) BY DEF Mail
  <2>2. ASSUME r.index \in Place PROVE UnreadIn(b2, s2, r.index) /\ b2[r.index].seqno = r.next
    <3>1. UnreadIn(b, s, r.index) /\ b[r.index].seqno = r.next BY <2>1, <2>2 DEF Scanned
    <3> QED BY <1>2, <1>3, <2>2, <3>1
  <2>3. ASSUME NEW i \in Place, i < r.place, Asked(b2, s2, r, i) PROVE r.next <= b2[i].seqno
    BY <1>8, <2>1, <2>3 DEF Scanned
  <2> QED BY <2>1, <2>2, <2>3 DEF Scanned
<1> QED BY <1>5, <1>7, <1>9 DEF Mail

\* nextpacket looks at place k and chooses it, or does not.
LEMMA ScanMail ==
    ASSUME NEW b, NEW s, NEW q, NEW a, NEW r, NEW r2, NEW k \in Place,
           MailTyped(b, q, a, r), Mail(b, s, q, a, r), r.at = "scan", r.place = k,
           r2.place = k + 1, r2.from = r.from, r2.tag = r.tag, r2.start = r.start,
           ~ r2.torn => ~ r.torn,
           \/ /\ r2.index = r.index /\ r2.next = r.next
              /\ Asked(b, s, r, k) => r.next <= b[k].seqno
           \/ /\ r2.index = k
              /\ ~ r2.torn => /\ UnreadIn(b, s, k)
                              /\ r2.next = b[k].seqno /\ b[k].seqno < r.next
    PROVE  Mail(b, s, q, a, r2)
<1>1. Counted(b, s, a, r2) /\ Numbered(b, s, q, a) BY DEF Mail, Counted
<1>2. Scanned(b, s, r2)
  <2> SUFFICES ASSUME ~ r2.torn
               PROVE  /\ r2.index \in Place => UnreadIn(b, s, r2.index) /\ b[r2.index].seqno = r2.next
                      /\ r2.index \notin Place => r2.next = Maxmsgno
                      /\ \A i \in Place : i < r2.place /\ Asked(b, s, r2, i) => r2.next <= b[i].seqno
    BY DEF Scanned
  <2>1. /\ r.index \in Place => UnreadIn(b, s, r.index) /\ b[r.index].seqno = r.next
        /\ r.index \notin Place => r.next = Maxmsgno
        /\ \A i \in Place : i < k /\ Asked(b, s, r, i) => r.next <= b[i].seqno
    BY DEF Mail, Scanned
  <2>2. /\ r2.index \in Place => UnreadIn(b, s, r2.index) /\ b[r2.index].seqno = r2.next
        /\ r2.index \notin Place => r2.next = Maxmsgno
    BY <2>1
  <2>3. r2.next <= r.next /\ r.next \in Nat /\ r2.next \in Nat
        /\ \A i \in Place : b[i].seqno \in Nat
    BY DEF MailTyped
  <2>4. ASSUME NEW i \in Place, i < r2.place, Asked(b, s, r2, i) PROVE r2.next <= b[i].seqno
    <3>1. Asked(b, s, r, i) BY <2>4 DEF Asked
    <3>2. i = k \/ i < k BY <2>4 DEF Place
    <3>3. CASE i < k BY <2>1, <2>3, <3>1, <3>3
    <3>4. CASE i = k BY <2>3, <3>1, <3>4
    <3> QED BY <3>2, <3>3, <3>4
  <2> QED BY <2>2, <2>4
<1> QED BY <1>1, <1>2 DEF Mail

\* nextmsg frees place k.
LEMMA TakeMail ==
    ASSUME NEW b, NEW b2, NEW s, NEW q, NEW a, NEW r, NEW r2, NEW k,
           Mail(b, s, q, a, r), r2.at # "scan", r2.start = r.start,
           b2[k].op = "ERRMSG", \A i \in Place : i # k => b2[i] = b[i]
    PROVE  Mail(b2, s, q, a, r2)
<1>1. \A i \in Place : UnreadIn(b2, s, i) => UnreadIn(b, s, i) /\ b2[i] = b[i]
  BY DEF UnreadIn
<1>2. Counted(b2, s, a, r2) BY <1>1 DEF Mail, Counted
<1>3. \A i \in Place : Recent(b2, s, a, i) => Recent(b, s, a, i) /\ b2[i] = b[i]
  BY <1>1 DEF Recent
<1>4. Numbered(b2, s, q, a) BY <1>3 DEF Mail, Numbered
<1> QED BY <1>2, <1>4 DEF Mail, Scanned

\* nextmsg finds no packet, and may write over msgseqno.
LEMMA NothingMail ==
    ASSUME NEW b, NEW s, NEW q, NEW q2, NEW a, NEW a2, NEW r, NEW r2,
           MailTyped(b, q, a, r), Mail(b, s, q, a, r), r2.at # "scan", r2.start = r.start,
           \/ q2 = q /\ a2 = a
           \/ a2.count = a.count /\ a2.renumbered = a.count
    PROVE  Mail(b, s, q2, a2, r2)
<1>1. Counted(b, s, a2, r2) BY DEF Mail, Counted, MailTyped
<1>2. CASE q2 = q /\ a2 = a BY <1>1, <1>2 DEF Mail, Scanned
<1>3. CASE a2.count = a.count /\ a2.renumbered = a.count
  <2>1. \A i \in Place : ~ Recent(b, s, a2, i) BY <1>3 DEF Mail, Counted, Recent, MailTyped
  <2> QED BY <1>1, <2>1 DEF Mail, Numbered, Scanned
<1> QED BY <1>2, <1>3

\* The place with the packet that is taken, if one that r asks for waits.
LEMMA OldestOfScan ==
    ASSUME NEW b, NEW s, NEW q, NEW a, NEW r, NEW i \in Place, MailTyped(b, q, a, r),
           Mail(b, s, q, a, r), r.at = "scan", ~ r.torn, r.place = Maxmsgbufs,
           Asked(b, s, r, i), Recent(b, s, a, i), b[i].seqno < Maxmsgno
    PROVE  r.index \in Place /\ b[r.index].arrival <= b[i].arrival
<1>1. i < Maxmsgbufs BY MailboxAssumption DEF Place
<1>2. r.next <= b[i].seqno BY <1>1 DEF Mail, Scanned
<1>3. b[i].seqno \in Nat /\ r.next \in Nat /\ Maxmsgno \in Nat BY DEF MailTyped, Maxmsgno
<1>4. r.index \in Place
  <2>1. r.next # Maxmsgno BY <1>2, <1>3
  <2> QED BY <2>1 DEF Mail, Scanned
<1>5. UnreadIn(b, s, r.index) /\ b[r.index].seqno = r.next BY <1>4 DEF Mail, Scanned
<1>6. SUFFICES ASSUME b[i].arrival < b[r.index].arrival PROVE FALSE
  BY <1>4 DEF MailTyped
<1>7. Recent(b, s, a, r.index) BY <1>4, <1>5, <1>6 DEF Recent, MailTyped
<1>8. b[i].seqno < b[r.index].seqno BY <1>4, <1>6, <1>7 DEF Mail, Numbered
<1> QED BY <1>2, <1>3, <1>5, <1>8

-----------------------------------------------------------------------------
(***************************************************************************)
(* The steps of msgrecvserver and jia_recv.                                *)
(***************************************************************************)
\* A change of the record of one host.
LEMMA OneRecv ==
    ASSUME TypeBuf, NEW h \in Host, NEW x \in RecvState, recv' = [recv EXCEPT ![h] = x]
    PROVE  /\ recv' \in [Host -> RecvState] /\ recv'[h] = x
           /\ \A g \in Host : g # h => recv'[g] = recv[g]
BY DEF TypeBuf

\* The same for the buffer, at one place.
LEMMA OnePlace ==
    ASSUME TypeBuf, NEW h \in Host, NEW i \in Place, NEW x \in Slot,
           msgbuf' = [msgbuf EXCEPT ![h][i] = x]
    PROVE  /\ msgbuf' \in [Host -> [Place -> Slot]] /\ msgbuf'[h][i] = x
           /\ \A k \in Place : k # i => msgbuf'[h][k] = msgbuf[h][k]
           /\ \A g \in Host : g # h => msgbuf'[g] = msgbuf[g]
BY DEF TypeBuf

\* ... where only op is assigned.
LEMMA OneOp ==
    ASSUME TypeBuf, NEW h \in Host, NEW i \in Place, NEW x \in {"MSG", "ERRMSG"},
           msgbuf' = [msgbuf EXCEPT ![h][i].op = x]
    PROVE  /\ msgbuf' \in [Host -> [Place -> Slot]] /\ msgbuf'[h][i].op = x
           /\ \A k \in Place : k # i => msgbuf'[h][k] = msgbuf[h][k]
           /\ \A g \in Host : g # h => msgbuf'[g] = msgbuf[g]
<1>1. msgbuf \in [Host -> [Place -> Slot]] /\ msgbuf[h][i] \in Slot BY DEF TypeBuf
<1>2. PICK t \in Slot : t = [msgbuf[h][i] EXCEPT !.op = x] /\ t.op = x
  <2>1. [msgbuf[h][i] EXCEPT !.op = x] \in Slot /\ [msgbuf[h][i] EXCEPT !.op = x].op = x
    BY <1>1 DEF Slot
  <2> QED BY <2>1
<1>3. msgbuf' = [msgbuf EXCEPT ![h][i] = t] BY <1>1, <1>2
<1>4. /\ msgbuf' \in [Host -> [Place -> Slot]] /\ msgbuf'[h][i] = t
      /\ \A k \in Place : k # i => msgbuf'[h][k] = msgbuf[h][k]
      /\ \A g \in Host : g # h => msgbuf'[g] = msgbuf[g]
  BY <1>3, OnePlace
<1> QED BY <1>2, <1>4

\* A call that is not made, and one that begins to look.
LEMMA NoRecvTyped ==
    NoRecv \in RecvState /\ NoRecv.at = "none" /\ NoRecv.start = 0
<1>1. PICK e \in Seq(Packets \cup {Junk}) : e = <<>>
  <2>1. <<>> \in Seq(Packets \cup {Junk}) OBVIOUS
  <2> QED BY <2>1, Zenon
<1>2. PICK m \in 0 .. Maxmsgbufs, z \in 0 .. Maxmsgbufs, n \in Nat :
          m = Maxmsgbufs /\ z = 0 /\ n = Maxmsgno
  BY MailboxAssumption DEF Maxmsgno
<1>3. /\ [at |-> "none", from |-> All, tag |-> All, len |-> 0, buf |-> e,
          place |-> z, index |-> m, next |-> n,
          start |-> 0, torn |-> FALSE, taken |-> Junk, spoilt |-> FALSE] \in RecvState
  BY DEF RecvState
<1> QED BY <1>1, <1>2, <1>3, Zenon DEF NoRecv

\* A scan that begins is well-typed and fresh.
LEMMA ScanTyped ==
    ASSUME TypeBuf, NEW h \in Host, NEW from \in Host \cup {All}, NEW tag \in AnyTag \cup {All},
           NEW len \in Nat, NEW buf \in Seq(Packets \cup {Junk}), NEW spoilt \in BOOLEAN
    PROVE  /\ NewScan(h, from, tag, len, buf, spoilt) \in RecvState
           /\ Fresh(arrivals[h], NewScan(h, from, tag, len, buf, spoilt))
<1> DEFINE m == Maxmsgbufs
           z == 0
           n == Maxmsgno
           c == arrivals[h].count
<1>1. m \in 0 .. Maxmsgbufs /\ z \in 0 .. Maxmsgbufs /\ n \in Nat /\ c \in Nat
  BY MailboxAssumption DEF Maxmsgno, TypeBuf
<1>2. m = Maxmsgbufs /\ z = 0 /\ n = Maxmsgno /\ c = arrivals[h].count OBVIOUS
<1> HIDE DEF m, z, n, c
<1>3. [at |-> "scan", from |-> from, tag |-> tag, len |-> len, buf |-> buf,
       place |-> z, index |-> m, next |-> n,
       start |-> c, torn |-> FALSE, taken |-> Junk, spoilt |-> spoilt] \in RecvState
  BY <1>1 DEF RecvState
<1>4. NewScan(h, from, tag, len, buf, spoilt) =
        [at |-> "scan", from |-> from, tag |-> tag, len |-> len, buf |-> buf,
         place |-> z, index |-> m, next |-> n,
         start |-> c, torn |-> FALSE, taken |-> Junk, spoilt |-> spoilt]
  BY <1>2, Zenon DEF NewScan
<1>5. Fresh(arrivals[h], NewScan(h, from, tag, len, buf, spoilt)) BY <1>2, <1>4 DEF Fresh
<1> QED BY <1>3, <1>4, <1>5

\* jia_recv begins.
LEMMA StartTyped ==
    ASSUME TypeBuf, NEW h \in Host, NEW from \in Host \cup {All}, NEW tag \in AnyTag \cup {All},
           NEW len \in Nat, StartRecv(h, from, tag, len),
           UNCHANGED <<msgbuf, msgseqno, arrivals, server, status>>
    PROVE  /\ TypeBuf' /\ Fresh(arrivals[h], recv'[h])
           /\ \A g \in Host : g # h => recv'[g] = recv[g]
<1>1. PICK e \in Seq(Packets \cup {Junk}) : e = <<>>
  <2>1. <<>> \in Seq(Packets \cup {Junk}) OBVIOUS
  <2> QED BY <2>1, Zenon
<1>2. PICK x \in RecvState : x = NewScan(h, from, tag, len, e, FALSE) /\ Fresh(arrivals[h], x)
  <2>1. FALSE \in BOOLEAN OBVIOUS
  <2> QED BY <2>1, ScanTyped, Zenon
<1>3. recv' = [recv EXCEPT ![h] = x] BY <1>1, <1>2, Zenon DEF StartRecv
<1>4. recv' \in [Host -> RecvState] /\ recv'[h] = x /\ \A g \in Host : g # h => recv'[g] = recv[g]
  BY <1>3, OneRecv
<1> QED BY <1>2, <1>4 DEF TypeBuf

\* What a look at place k does, and what it leaves alone.
Looked(h, k) ==
    /\ \A g \in Host : g # h => msgbuf'[g] = msgbuf[g] /\ server'[g] = server[g]
    /\ \/ msgbuf'[h] = msgbuf[h] /\ server'[h].at # "fill"
       \/ /\ msgbuf[h][k].op = "ERRMSG"
          /\ \A i \in Place : i # k => msgbuf'[h][i] = msgbuf[h][i]
          /\ server'[h].at = "fill" /\ server'[h].place = k

\* LookAt is such a look.
LEMMA LookTyped ==
    ASSUME TypeBuf, NEW h \in Host, NEW k \in 0 .. Maxmsgbufs, NEW m \in Packets, LookAt(h, k, m)
    PROVE  /\ msgbuf' \in [Host -> [Place -> Slot]] /\ server' \in [Host -> ServerState]
           /\ status' \in [Host -> {"run", "overflow", "asserted"}]
           /\ Looked(h, k)
<1>1. /\ msgbuf \in [Host -> [Place -> Slot]] /\ server \in [Host -> ServerState]
      /\ status \in [Host -> {"run", "overflow", "asserted"}]
  BY DEF TypeBuf
<1>2. CASE k = Maxmsgbufs
  <2>1. k \notin Place BY <1>2, MailboxAssumption DEF Place
  <2>2. /\ status' = [status EXCEPT ![h] = "overflow"] /\ msgbuf' = msgbuf
        /\ server' = [server EXCEPT ![h] = Idle]
    BY <2>1 DEF LookAt
  <2>3. Idle \in ServerState /\ Idle.at = "idle" BY DEF Idle, ServerState
  <2> QED BY <1>1, <2>2, <2>3 DEF Looked
<1>3. CASE k \in Place /\ msgbuf[h][k].op # "ERRMSG"
  <2>1. k # Maxmsgbufs /\ k + 1 \in 0 .. Maxmsgbufs BY <1>3, MailboxAssumption DEF Place
  <2>2. /\ msgbuf' = msgbuf /\ status' = status
        /\ server' = [server EXCEPT ![h] = [at |-> "search", place |-> k + 1, packet |-> m]]
    BY <1>3, <2>1 DEF LookAt, Free
  <2>3. PICK x \in ServerState : x = [at |-> "search", place |-> k + 1, packet |-> m] /\ x.at = "search"
    <3>1. [at |-> "search", place |-> k + 1, packet |-> m] \in ServerState
      BY <2>1 DEF ServerState
    <3> QED BY <3>1
  <2>4. server' = [server EXCEPT ![h] = x] BY <2>2, <2>3, Zenon
  <2> QED BY <1>1, <2>2, <2>3, <2>4 DEF Looked
<1>4. CASE k \in Place /\ msgbuf[h][k].op = "ERRMSG"
  <2>1. k # Maxmsgbufs BY <1>4, MailboxAssumption DEF Place
  <2>2. /\ msgbuf' = [msgbuf EXCEPT ![h][k].op = "MSG"] /\ status' = status
        /\ server' = [server EXCEPT ![h] = [at |-> "fill", place |-> k, packet |-> m]]
    BY <1>4, <2>1 DEF LookAt, Free
  <2>3. PICK x \in ServerState : /\ x = [at |-> "fill", place |-> k, packet |-> m]
                                 /\ x.at = "fill" /\ x.place = k
    <3>1. [at |-> "fill", place |-> k, packet |-> m] \in ServerState BY <1>4 DEF ServerState
    <3> QED BY <3>1
  <2>4. server' = [server EXCEPT ![h] = x] BY <2>2, <2>3, Zenon
  <2>5. /\ msgbuf' \in [Host -> [Place -> Slot]]
        /\ \A i \in Place : i # k => msgbuf'[h][i] = msgbuf[h][i]
        /\ \A g \in Host : g # h => msgbuf'[g] = msgbuf[g]
    BY <1>4, <2>2, OneOp
  <2>6. /\ server' \in [Host -> ServerState] /\ server'[h] = x
        /\ \A g \in Host : g # h => server'[g] = server[g]
    BY <1>1, <2>4
  <2> QED BY <1>1, <1>4, <2>2, <2>3, <2>5, <2>6 DEF Looked
<1>5. k = Maxmsgbufs \/ k \in Place BY MailboxAssumption DEF Place
<1> QED BY <1>2, <1>3, <1>4, <1>5

\* msgrecvserver begins ...
LEMMA StoreTyped ==
    ASSUME TypeNet, TypeBuf, NEW h \in Host, StartStore(h)
    PROVE  TypeBuf' /\ Looked(h, 0)
<1>1. PICK m \in Packets : m = Head(inq[h])
  <2>1. inq[h] \in Seq(Packets) /\ inq[h] # <<>> BY DEF TypeNet, StartStore
  <2> QED BY <2>1, TailQueue
<1>2. PICK k \in 0 .. Maxmsgbufs : k = 0 BY MailboxAssumption
<1>3. LookAt(h, k, m) BY <1>1, <1>2, Zenon DEF StartStore
<1>4. msgseqno' \in [Host -> Nat] /\ recv' = recv /\ arrivals' = arrivals
  BY DEF StartStore, TypeBuf
<1> QED BY <1>2, <1>3, <1>4, LookTyped DEF TypeBuf

\* ... and goes on.
LEMMA SearchTyped ==
    ASSUME TypeBuf, NEW h \in Host, SearchPlace(h)
    PROVE  TypeBuf' /\ Looked(h, server[h].place)
<1>1. PICK k \in 0 .. Maxmsgbufs, m \in Packets : k = server[h].place /\ m = server[h].packet
  <2>1. server[h] \in ServerState /\ server[h].at = "search" BY DEF TypeBuf, SearchPlace, Storing
  <2>2. server[h].place \in 0 .. Maxmsgbufs /\ server[h].packet \in Packets
    BY <2>1 DEF ServerState, Idle
  <2> QED BY <2>2
<1>2. LookAt(h, k, m) BY <1>1, Zenon DEF SearchPlace
<1>3. msgseqno' = msgseqno /\ recv' = recv /\ arrivals' = arrivals BY DEF SearchPlace
<1> QED BY <1>1, <1>2, <1>3, LookTyped DEF TypeBuf

\* The place that is being filled, with its fields.
LEMMA FilledTyped ==
    ASSUME TypeBuf, NEW h \in Host, server[h].at = "fill"
    PROVE  /\ server[h].place \in Place /\ Filled(h) \in Slot
           /\ Filled(h).seqno = msgseqno[h] /\ Filled(h).arrival = arrivals[h].count + 1
<1>1. server[h].place \in Place /\ server[h].packet \in Packets
  <2>1. server[h] \in ServerState BY DEF TypeBuf
  <2> QED BY <2>1 DEF ServerState, Idle
<1>2. /\ msgbuf[h][server[h].place].op \in {"MSG", "ERRMSG"}
      /\ msgseqno[h] \in Nat /\ arrivals[h].count + 1 \in Nat
  BY <1>1 DEF TypeBuf, Slot
<1> QED BY <1>1, <1>2 DEF Filled, Slot

\* msgrecvserver fills the place.
LEMMA FillTyped ==
    ASSUME TypeBuf, NEW h \in Host, FillPlace(h)
    PROVE  /\ TypeBuf'
           /\ server[h].at = "fill" /\ server[h].place \in Place /\ server'[h] = Idle
           /\ msgbuf'[h][server[h].place] = Filled(h)
           /\ \A i \in Place : i # server[h].place => msgbuf'[h][i] = msgbuf[h][i]
           /\ arrivals'[h].count = arrivals[h].count + 1
           /\ arrivals'[h].renumbered = arrivals[h].renumbered
           /\ \A g \in Host : g # h => /\ msgbuf'[g] = msgbuf[g] /\ server'[g] = server[g]
                                       /\ arrivals'[g] = arrivals[g]
<1>1. server[h].at = "fill" BY DEF FillPlace, Storing
<1>2. PICK i \in Place, x \in Slot : i = server[h].place /\ x = Filled(h)
  BY <1>1, FilledTyped
<1>3. msgbuf' = [msgbuf EXCEPT ![h][i] = x] BY <1>2, Zenon DEF FillPlace
<1>4. /\ msgbuf' \in [Host -> [Place -> Slot]] /\ msgbuf'[h][i] = x
      /\ \A k \in Place : k # i => msgbuf'[h][k] = msgbuf[h][k]
      /\ \A g \in Host : g # h => msgbuf'[g] = msgbuf[g]
  BY <1>3, OnePlace
<1>5. Idle \in ServerState BY DEF ServerState
<1>6. /\ server' \in [Host -> ServerState] /\ server'[h] = Idle
      /\ \A g \in Host : g # h => server'[g] = server[g]
  BY <1>5 DEF FillPlace, TypeBuf
<1>7. /\ arrivals' \in [Host -> [count : Nat, renumbered : Nat]]
      /\ arrivals'[h].count = arrivals[h].count + 1
      /\ arrivals'[h].renumbered = arrivals[h].renumbered
      /\ \A g \in Host : g # h => arrivals'[g] = arrivals[g]
  BY DEF FillPlace, TypeBuf
<1>8. UNCHANGED <<msgseqno, status, recv>> BY DEF FillPlace
<1> QED BY <1>1, <1>2, <1>4, <1>6, <1>7, <1>8 DEF TypeBuf

\* What is read of a place that is not being filled is what is in it.
LEMMA VersionsTyped ==
    ASSUME TypeBuf, NEW h \in Host, NEW i \in Place, NEW v \in Versions(h, i)
    PROVE  v.seqno \in Nat /\ (~ Filling(h, i) => v = msgbuf[h][i])
<1>1. msgbuf[h][i].seqno \in Nat BY DEF TypeBuf, Slot
<1>2. CASE ~ Filling(h, i) BY <1>1, <1>2 DEF Versions
<1>3. CASE Filling(h, i)
  <2>1. Filled(h).seqno \in Nat BY <1>3, FilledTyped DEF Filling, TypeBuf
  <2> QED BY <1>1, <1>3, <2>1 DEF Versions
<1> QED BY <1>2, <1>3

\* What nextpacket has found out when it has looked at place i.
Looks(h, i, r2) ==
    /\ r2 \in RecvState /\ r2.at = "scan" /\ r2.place = i + 1
    /\ r2.from = recv[h].from /\ r2.tag = recv[h].tag /\ r2.start = recv[h].start
    /\ ~ r2.torn => ~ recv[h].torn
    /\ \/ /\ r2.index = recv[h].index /\ r2.next = recv[h].next
          /\ Asked(msgbuf[h], server[h], recv[h], i) => recv[h].next <= msgbuf[h][i].seqno
       \/ /\ r2.index = i
          /\ ~ r2.torn => /\ UnreadIn(msgbuf[h], server[h], i)
                          /\ r2.next = msgbuf[h][i].seqno /\ msgbuf[h][i].seqno < recv[h].next

\* nextpacket looks at a place.
LEMMA ScanStep ==
    ASSUME TypeBuf, NEW h \in Host, ScanPlace(h)
    PROVE  \E r2 \in RecvState : recv' = [recv EXCEPT ![h] = r2] /\ Looks(h, recv[h].place, r2)
<1> DEFINE r == recv[h]
           i == r.place
<1>1. r \in RecvState /\ r = recv[h] /\ r.at = "scan" BY DEF TypeBuf, ScanPlace, Receiving
<1>2. i \in Place /\ i = r.place BY DEF ScanPlace
<1> DEFINE Chooses(packet, tagged, compared) ==
              /\ msgbuf[h][i].op # "ERRMSG"
              /\ Matches(packet.packet, tagged.packet, r.from, r.tag)
              /\ Older(compared.seqno, r.next)
<1>3. PICK packet \in Versions(h, i), tagged \in Versions(h, i), compared \in Versions(h, i),
           kept \in Versions(h, i) :
          recv' = [recv EXCEPT ![h] =
                     IF Chooses(packet, tagged, compared)
                     THEN Chosen(r, i, kept.seqno, Filling(h, i)) ELSE [r EXCEPT !.place = i + 1]]
  BY Zenon DEF ScanPlace
<1> HIDE DEF r, i
<1>4. i + 1 \in 0 .. Maxmsgbufs /\ i \in 0 .. Maxmsgbufs BY <1>2, MailboxAssumption DEF Place
<1>5. kept.seqno \in Nat /\ compared.seqno \in Nat /\ r.next \in Nat
  BY <1>1, <1>2, VersionsTyped DEF RecvState
<1>6. /\ Filling(h, i) \in BOOLEAN
      /\ ~ Filling(h, i) => packet = msgbuf[h][i] /\ tagged = msgbuf[h][i]
                            /\ compared = msgbuf[h][i] /\ kept = msgbuf[h][i]
  BY <1>2, VersionsTyped DEF Filling
<1>7. UnreadIn(msgbuf[h], server[h], i) <=> msgbuf[h][i].op # "ERRMSG" /\ ~ Filling(h, i)
  BY DEF UnreadIn, Filling
<1>8. CASE Chooses(packet, tagged, compared)
  <2>1. PICK x : x = Chosen(r, i, kept.seqno, Filling(h, i)) BY Zenon
  <2>2. PICK t \in BOOLEAN : t = (r.torn \/ Filling(h, i)) BY Zenon
  <2>3. x = [r EXCEPT !.place = i + 1, !.index = i, !.next = kept.seqno, !.torn = t]
    BY <2>1, <2>2, Zenon DEF Chosen
  <2>4. /\ x \in RecvState /\ x.at = "scan" /\ x.place = i + 1 /\ x.index = i
        /\ x.next = kept.seqno /\ x.torn = t
        /\ x.from = r.from /\ x.tag = r.tag /\ x.start = r.start
    BY <1>1, <1>4, <1>5, <2>3 DEF RecvState
  <2>5. recv' = [recv EXCEPT ![h] = x] BY <1>3, <1>8, <2>1, Zenon
  <2>6. ASSUME ~ t PROVE /\ UnreadIn(msgbuf[h], server[h], i)
                         /\ x.next = msgbuf[h][i].seqno /\ msgbuf[h][i].seqno < r.next
    <3>1. ~ Filling(h, i) BY <2>2, <2>6
    <3>2. msgbuf[h][i].op # "ERRMSG" /\ compared.seqno < r.next BY <1>8 DEF Older
    <3> QED BY <1>6, <1>7, <2>4, <3>1, <3>2
  <2>7. ~ t => ~ r.torn BY <2>2
  <2>8. Looks(h, recv[h].place, x) BY <1>1, <1>2, <2>4, <2>6, <2>7 DEF Looks
  <2> QED BY <2>4, <2>5, <2>8
<1>9. CASE ~ Chooses(packet, tagged, compared)
  <2>1. PICK x : x = [r EXCEPT !.place = i + 1] BY Zenon
  <2>2. /\ x \in RecvState /\ x.at = "scan" /\ x.place = i + 1 /\ x.index = r.index
        /\ x.next = r.next /\ x.torn = r.torn
        /\ x.from = r.from /\ x.tag = r.tag /\ x.start = r.start
    BY <1>1, <1>4, <2>1 DEF RecvState
  <2>3. recv' = [recv EXCEPT ![h] = x] BY <1>3, <1>9, <2>1, Zenon
  <2>4. ASSUME Asked(msgbuf[h], server[h], r, i) PROVE r.next <= msgbuf[h][i].seqno
    <3>1. msgbuf[h][i].op # "ERRMSG" /\ ~ Filling(h, i) BY <1>7, <2>4 DEF Asked
    <3>2. Matches(packet.packet, tagged.packet, r.from, r.tag) BY <1>6, <2>4, <3>1 DEF Asked
    <3>3. ~ (compared.seqno < r.next) BY <1>9, <3>1, <3>2 DEF Older
    <3> QED BY <1>5, <1>6, <3>1, <3>3
  <2>5. Looks(h, recv[h].place, x) BY <1>1, <1>2, <2>2, <2>4 DEF Looks
  <2> QED BY <2>2, <2>3, <2>5
<1> QED BY <1>8, <1>9

\* jia_recv frees a place.
LEMMA TakeTyped ==
    ASSUME TypeBuf, NEW h \in Host, TakePlace(h)
    PROVE  /\ TypeBuf'
           /\ recv[h].at = "scan" /\ recv[h].place = Maxmsgbufs /\ recv[h].index \in Place
           /\ recv'[h].at = "copy" /\ recv'[h].start = recv[h].start
           /\ msgbuf'[h][recv[h].index].op = "ERRMSG"
           /\ \A i \in Place : i # recv[h].index => msgbuf'[h][i] = msgbuf[h][i]
           /\ \A g \in Host : g # h => msgbuf'[g] = msgbuf[g] /\ recv'[g] = recv[g]
<1>1. PICK r \in RecvState : r = recv[h] BY DEF TypeBuf
<1>2. PICK i \in Place : i = r.index BY <1>1 DEF TakePlace
<1>3. PICK t \in Packets \cup {Junk} : t = msgbuf[h][i].packet BY DEF TypeBuf, Slot
<1>4. PICK b \in BOOLEAN : b = (r.spoilt \/ r.torn) BY Zenon
<1>5. PICK x : x = [r EXCEPT !.at = "copy", !.taken = t, !.spoilt = b] BY Zenon
<1>6. x \in RecvState /\ x.at = "copy" /\ x.start = r.start BY <1>5 DEF RecvState
<1>7. recv' = [recv EXCEPT ![h] = x] BY <1>1, <1>2, <1>3, <1>4, <1>5, Zenon DEF TakePlace
<1>8. msgbuf' = [msgbuf EXCEPT ![h][i].op = "ERRMSG"] BY <1>1, <1>2, Zenon DEF TakePlace
<1>9. recv[h].at = "scan" /\ recv[h].place = Maxmsgbufs BY DEF TakePlace, Receiving
<1>10. /\ recv' \in [Host -> RecvState] /\ recv'[h] = x
       /\ \A g \in Host : g # h => recv'[g] = recv[g]
  BY <1>6, <1>7, OneRecv
<1>11. /\ msgbuf' \in [Host -> [Place -> Slot]] /\ msgbuf'[h][i].op = "ERRMSG"
       /\ \A k \in Place : k # i => msgbuf'[h][k] = msgbuf[h][k]
       /\ \A g \in Host : g # h => msgbuf'[g] = msgbuf[g]
  BY <1>8, OneOp
<1>12. UNCHANGED <<msgseqno, arrivals, server, status>> BY DEF TakePlace
<1> QED BY <1>1, <1>2, <1>6, <1>9, <1>10, <1>11, <1>12 DEF TypeBuf

\* It finds no packet.
LEMMA NothingTyped ==
    ASSUME TypeBuf, NEW h \in Host, TakeNothing(h)
    PROVE  /\ TypeBuf'
           /\ recv[h].at = "scan" /\ recv[h].place = Maxmsgbufs
           /\ recv'[h].at = "done" /\ recv'[h].start = recv[h].start
           /\ \/ msgseqno' = msgseqno /\ arrivals' = arrivals
              \/ /\ arrivals'[h].count = arrivals[h].count
                 /\ arrivals'[h].renumbered = arrivals[h].count
           /\ \A g \in Host : g # h => /\ msgseqno'[g] = msgseqno[g] /\ arrivals'[g] = arrivals[g]
                                       /\ recv'[g] = recv[g]
<1>1. PICK r \in RecvState : r = recv[h] BY DEF TypeBuf
<1>2. PICK n \in 0 .. r.len - Len(r.buf) :
          recv' = [recv EXCEPT ![h] =
                     [r EXCEPT !.at = "done", !.buf = r.buf \o [k \in 1 .. n |-> Junk]]]
  BY <1>1, Zenon DEF TakeNothing
<1>3. r.buf \in Seq(Packets \cup {Junk}) /\ r.len \in Nat BY DEF RecvState
<1>4. n \in Nat
  <2>1. Len(r.buf) \in Nat BY <1>3, LenProperties
  <2> QED BY <1>3, <2>1
<1>5. [k \in 1 .. n |-> Junk] \in Seq(Packets \cup {Junk}) BY <1>4
<1>6. PICK s \in Seq(Packets \cup {Junk}) : s = r.buf \o [k \in 1 .. n |-> Junk]
  BY <1>3, <1>5, ConcatProperties
<1>7. PICK x : x = [r EXCEPT !.at = "done", !.buf = s] BY Zenon
<1>8. x \in RecvState /\ x.at = "done" /\ x.start = r.start BY <1>7 DEF RecvState
<1>9. recv' = [recv EXCEPT ![h] = x] BY <1>2, <1>6, <1>7, Zenon
<1>10. /\ recv' \in [Host -> RecvState] /\ recv'[h] = x
       /\ \A g \in Host : g # h => recv'[g] = recv[g]
  BY <1>8, <1>9, OneRecv
<1>11. recv[h].at = "scan" /\ recv[h].place = Maxmsgbufs BY DEF TakeNothing, Receiving
<1>12. UNCHANGED <<msgbuf, server, status>> BY DEF TakeNothing
<1>13. \/ msgseqno' = msgseqno /\ arrivals' = arrivals
       \/ /\ msgseqno' = [msgseqno EXCEPT ![h] = ErrmsgCode]
          /\ arrivals' = [arrivals EXCEPT ![h].renumbered = arrivals[h].count]
  BY DEF TakeNothing
<1>14. /\ msgseqno \in [Host -> Nat] /\ arrivals \in [Host -> [count : Nat, renumbered : Nat]]
       /\ ErrmsgCode \in Nat
  BY MailboxAssumption DEF TypeBuf
<1>15. /\ msgseqno' \in [Host -> Nat] /\ arrivals' \in [Host -> [count : Nat, renumbered : Nat]]
       /\ \A g \in Host : g # h => msgseqno'[g] = msgseqno[g] /\ arrivals'[g] = arrivals[g]
       /\ \/ msgseqno' = msgseqno /\ arrivals' = arrivals
          \/ /\ arrivals'[h].count = arrivals[h].count
             /\ arrivals'[h].renumbered = arrivals[h].count
  BY <1>13, <1>14
<1>16. TypeBuf' BY <1>10, <1>12, <1>15 DEF TypeBuf
<1> QED BY <1>1, <1>8, <1>10, <1>11, <1>15, <1>16

\* It copies the packet.
LEMMA CopyTyped ==
    ASSUME TypeBuf, NEW h \in Host, CopyPlace(h)
    PROVE  /\ TypeBuf' /\ Fresh(arrivals[h], recv'[h]) /\ recv[h].at = "copy"
           /\ \A g \in Host : g # h => recv'[g] = recv[g]
<1>1. PICK r \in RecvState : r = recv[h] BY DEF TypeBuf
<1>2. r.index \in Place /\ r.buf \in Seq(Packets \cup {Junk}) BY <1>1 DEF CopyPlace, RecvState
<1>3. PICK m \in Packets \cup {Junk} : m = msgbuf[h][r.index].packet BY <1>2 DEF TypeBuf, Slot
<1>4. Append(r.buf, m) \in Seq(Packets \cup {Junk}) BY <1>2, AppendProperties
<1>5. PICK s \in Seq(Packets \cup {Junk}) : s = IF Len(r.buf) < r.len THEN Append(r.buf, m) ELSE r.buf
  BY <1>2, <1>4
<1>6. PICK b \in BOOLEAN : b = (\/ r.spoilt \/ Len(r.buf) = r.len
                               \/ m # r.taken \/ Filling(h, r.index))
  BY Zenon
<1>7. r.from \in Host \cup {All} /\ r.tag \in AnyTag \cup {All} /\ r.len \in Nat BY DEF RecvState
<1>8. recv' = [recv EXCEPT ![h] = NewScan(h, r.from, r.tag, r.len, s, b)]
  BY <1>1, <1>3, <1>5, <1>6, Zenon DEF CopyPlace
<1>9. PICK x \in RecvState : x = NewScan(h, r.from, r.tag, r.len, s, b) /\ Fresh(arrivals[h], x)
  BY <1>7, ScanTyped, Zenon
<1>10. recv' = [recv EXCEPT ![h] = x] BY <1>8, <1>9, Zenon
<1>11. /\ recv' \in [Host -> RecvState] /\ recv'[h] = x
       /\ \A g \in Host : g # h => recv'[g] = recv[g]
  BY <1>10, OneRecv
<1>12. UNCHANGED <<msgbuf, msgseqno, arrivals, server, status>> /\ recv[h].at = "copy"
  BY DEF CopyPlace, Receiving
<1> QED BY <1>9, <1>11, <1>12 DEF TypeBuf

\* The invariant of the calls, the buffers and the network.
Inv == TypeOK /\ Reducing /\ InCall /\ TreeInv

\* Steps that leave the buffers or the calls alone.
LEMMA SameBuf ==
    ASSUME TypeBuf, UNCHANGED <<msgbuf, msgseqno, arrivals, server, status, recv>>
    PROVE  TypeBuf'
BY DEF TypeBuf

\* Likewise for the calls.
LEMMA SameApp ==
    ASSUME TypeApp, Reducing, UNCHANGED <<prog, left, red, round, junk>>
    PROVE  TypeApp' /\ Reducing'
BY DEF TypeApp, Reducing

\* A call is made or goes on: nothing changes for the hosts in jia_reduce.
LEMMA CallStep ==
    ASSUME TypeApp, Reducing, NEW h \in Host, red[h].j = -1,
           prog' = prog \/ prog' = [prog EXCEPT ![h] = Tail(@)], prog[h] # <<>>,
           NEW n \in Nat, left' = [left EXCEPT ![h] = n] \/ left' = left,
           UNCHANGED <<red, round, junk>>
    PROVE  TypeApp' /\ Reducing'
<1>1. [prog EXCEPT ![h] = Tail(@)] \in [Host -> Seq(Call)] BY MadeCall
<1>2. prog' \in [Host -> Seq(Call)]
  <2>1. CASE prog' = prog BY <2>1 DEF TypeApp
  <2>2. CASE prog' = [prog EXCEPT ![h] = Tail(@)] BY <1>1, <2>2, Zenon
  <2> QED BY <2>1, <2>2
<1>3. left' \in [Host -> Nat] BY DEF TypeApp
<1>4. \A f \in Host : f # h => prog'[f] = prog[f]
  <2>1. CASE prog' = prog BY <2>1
  <2>2. CASE prog' = [prog EXCEPT ![h] = Tail(@)] BY <2>2 DEF TypeApp
  <2> QED BY <2>1, <2>2
<1>5. Reducing'
  <2> SUFFICES ASSUME NEW f \in Host, red[f].j # -1
               PROVE  prog'[f] # <<>> /\ Head(prog'[f]).op = "reduce"
    BY DEF Reducing
  <2>1. f # h OBVIOUS
  <2>2. prog[f] # <<>> /\ Head(prog[f]).op = "reduce" BY DEF Reducing
  <2> QED BY <1>4, <2>1, <2>2, Zenon
<1> QED BY <1>2, <1>3, <1>5 DEF TypeApp

\* A host in jia_recv keeps its call.
LEMMA InCallStep ==
    ASSUME InCall, NEW h \in Host,
           \A f \in Host : f # h => prog'[f] = prog[f] /\ recv'[f].at = recv[f].at,
           recv'[h].at # "none" => prog'[h] # <<>>
    PROVE  InCall'
BY DEF InCall

\* A host goes on in jia_reduce: its call stays, or is over.
LEMMA ReduceStep ==
    ASSUME TypeApp, Reducing, NEW h \in Host, NEW s \in RedState, red' = [red EXCEPT ![h] = s],
           prog[h] # <<>>, Head(prog[h]).op = "reduce",
           prog' = prog \/ (s.j = -1 /\ prog' = [prog EXCEPT ![h] = Tail(@)]),
           round' \in [Host -> Nat], junk' \subseteq Host, UNCHANGED left
    PROVE  TypeApp' /\ Reducing'
<1>1. [prog EXCEPT ![h] = Tail(@)] \in [Host -> Seq(Call)] BY MadeCall
<1>2. prog' \in [Host -> Seq(Call)]
  <2>1. CASE prog' = prog BY <2>1 DEF TypeApp
  <2>2. CASE prog' = [prog EXCEPT ![h] = Tail(@)] BY <1>1, <2>2, Zenon
  <2> QED BY <2>1, <2>2
<1>3. red' \in [Host -> RedState] /\ red'[h] = s /\ \A f \in Host : f # h => red'[f] = red[f]
  BY DEF TypeApp
<1>4. \A f \in Host : f # h \/ s.j # -1 => prog'[f] = prog[f]
  <2>1. CASE prog' = prog BY <2>1
  <2>2. CASE s.j = -1 /\ prog' = [prog EXCEPT ![h] = Tail(@)] BY <2>2 DEF TypeApp
  <2> QED BY <2>1, <2>2
<1>5. Reducing'
  <2> SUFFICES ASSUME NEW f \in Host, red'[f].j # -1
               PROVE  prog'[f] # <<>> /\ Head(prog'[f]).op = "reduce"
    BY DEF Reducing
  <2>1. CASE f = h
    <3>1. prog'[f] = prog[h] BY <1>3, <1>4, <2>1
    <3> QED BY <3>1, Zenon
  <2>2. CASE f # h
    <3>1. prog[f] # <<>> /\ Head(prog[f]).op = "reduce" BY <1>3, <2>2 DEF Reducing
    <3>2. prog'[f] = prog[f] BY <1>4, <2>2
    <3> QED BY <3>1, <3>2, Zenon
  <2> QED BY <2>1, <2>2
<1> QED BY <1>2, <1>3, <1>5 DEF TypeApp

\* jia_send.
LEMMA SendStep ==
    ASSUME Inv, NEW h \in Host, jia_send(h)
    PROVE  Inv'
<1>1. TypeNet /\ TypeBuf /\ TypeApp /\ Reducing /\ InCall /\ TreeInv
  BY DEF Inv, TypeOK
<1>2. red[h].j = -1 /\ prog[h] # <<>> /\ Head(prog[h]).op = "send" BY DEF jia_send, Calls
<1>3. PICK c \in Call : c = Head(prog[h]) BY <1>1, <1>2, MadeCall
<1>4. c.to \in Host /\ c.tag \in Tags BY <1>2, <1>3, CallFields
<1>5. PICK n \in Nat, b \in BOOLEAN : n = left[h] + 1 /\ b = (left[h] + 1 = c.len)
  <2>1. left[h] + 1 \in Nat BY <1>1 DEF TypeApp
  <2>2. (left[h] + 1 = c.len) \in BOOLEAN OBVIOUS
  <2> QED BY <2>1, <2>2, Zenon
<1>6. PICK m \in Packets : m = Packet(h, c.to, c.tag, n, b, NoValue) /\ m.tag = c.tag /\ ~ m.bcast
  <2>1. c.tag \in AnyTag BY <1>4, OtherTags
  <2>2. LET m == Packet(h, c.to, c.tag, n, b, NoValue)
        IN  m \in Packets /\ m.tag = c.tag /\ ~ m.bcast
    BY <1>4, <2>1, NoValueTyped DEF Packet, Packets
  <2> QED BY <2>2, Zenon
<1>7. Send(h, <<m>>)
  <2>1. Send(h, <<Packet(h, c.to, c.tag, left[h] + 1, left[h] + 1 = c.len, NoValue)>>)
    BY <1>3, Zenon DEF jia_send
  <2> QED BY <2>1, <1>5, <1>6, Zenon
<1>8. UNCHANGED <<inq, mailbox, sent, red, round, junk>> BY DEF jia_send
<1>9. TypeNet' /\ TreeInv'
  <2>1. m.tag # BCAST_TAG BY <1>4, <1>6, OtherTags
  <2>2. UNCHANGED <<inq, sent, got>> BY <1>8 DEF mailbox
  <2> QED BY <1>1, <1>6, <1>7, <2>1, <2>2, PlainStep
<1>10. TypeBuf' BY <1>1, <1>8, SameBuf DEF mailbox
<1>11. TypeApp' /\ Reducing'
  <2>1. CASE b
    <3>1. prog' = [prog EXCEPT ![h] = Tail(@)] /\ left' = [left EXCEPT ![h] = 0]
      BY <2>1, <1>3, <1>5 DEF jia_send, NextCall
    <3> QED BY <3>1, <1>1, <1>2, <1>8, CallStep
  <2>2. CASE ~ b
    <3>1. prog' = prog /\ left' = [left EXCEPT ![h] = n]
      BY <2>2, <1>3, <1>5 DEF jia_send
    <3> QED BY <3>1, <1>1, <1>2, <1>8, CallStep
  <2> QED BY <2>1, <2>2
<1>12. InCall'
  <2>1. recv[h].at = "none" /\ recv' = recv BY <1>8 DEF jia_send, Calls, mailbox
  <2>2. \A f \in Host : f # h => prog'[f] = prog[f]
    BY <1>1, <1>3 DEF jia_send, NextCall, TypeApp
  <2> QED BY <1>1, <2>1, <2>2, InCallStep
<1> QED BY <1>9, <1>10, <1>11, <1>12 DEF Inv, TypeOK

\* jia_recv is called.
LEMMA RecvStep ==
    ASSUME Inv, NEW h \in Host, jia_recv(h)
    PROVE  Inv'
<1>1. TypeNet /\ TypeBuf /\ TypeApp /\ Reducing /\ InCall /\ TreeInv
  BY DEF Inv, TypeOK
<1>2. prog[h] # <<>> /\ Head(prog[h]).op = "recv" BY DEF jia_recv, Calls
<1>3. PICK c \in Call : c = Head(prog[h]) BY <1>1, <1>2, MadeCall
<1>4. c.from \in Host \cup {All} /\ c.tag \in AnyTag \cup {All} /\ c.len \in Nat
  BY <1>2, <1>3, CallFields, OtherTags
<1>5. StartRecv(h, c.from, c.tag, c.len) BY <1>3, Zenon DEF jia_recv
<1>6. UNCHANGED <<outq, inq, msgbuf, msgseqno, arrivals, server, status, got, app>> BY DEF jia_recv
<1>7. TypeBuf' BY <1>1, <1>4, <1>5, <1>6, StartTyped
<1>8. TypeNet' /\ TreeInv' BY <1>1, <1>6, QuietStep DEF app
<1>9. TypeApp' /\ Reducing' BY <1>1, <1>6, SameApp DEF app
<1>10. InCall'
  <2>1. \A f \in Host : f # h => recv'[f] = recv[f] BY <1>1, <1>4, <1>5, <1>6, StartTyped
  <2>2. prog' = prog BY <1>6 DEF app
  <2> QED BY <1>1, <1>2, <2>1, <2>2, InCallStep
<1> QED BY <1>7, <1>8, <1>9, <1>10 DEF Inv, TypeOK

\* jia_bcast, at the root.
LEMMA BcastPacketStep ==
    ASSUME Inv, NEW h \in Host, BcastPacket(h)
    PROVE  Inv'
<1>1. TypeNet /\ TypeBuf /\ TypeApp /\ Reducing /\ InCall /\ TreeInv
  BY DEF Inv, TypeOK
<1>2. red[h].j = -1 /\ prog[h] # <<>> BY DEF BcastPacket, Calls
<1>3. PICK n \in Nat, k \in Nat, b \in BOOLEAN :
         n = sent[h] + 1 /\ k = left[h] + 1 /\ b = (left[h] + 1 = Head(prog[h]).len)
  <2>1. sent[h] + 1 \in Nat /\ left[h] + 1 \in Nat BY <1>1 DEF TypeNet, TypeApp
  <2> QED BY <2>1
<1>4. PICK m \in Packets :
         /\ m = [Packet(h, h, BCAST_TAG, n, b, NoValue)
                 EXCEPT !.bcast = TRUE, !.root = h, !.level = RootLevel]
         /\ m.tag = BCAST_TAG /\ m.level = RootLevel /\ m.root = h /\ m.topid = h /\ m.no = n
  <2> DEFINE q == [Packet(h, h, BCAST_TAG, n, b, NoValue)
                   EXCEPT !.bcast = TRUE, !.root = h, !.level = RootLevel]
  <2>1. /\ q \in Packets /\ q.tag = BCAST_TAG /\ q.level = RootLevel /\ q.root = h
        /\ q.topid = h /\ q.no = n
    BY RootLevels, OtherTags, NoValueTyped DEF Packet, Packets
  <2> QED BY <2>1, Zenon
<1>5. Send(h, Forwards(h, m))
  BY <1>3, <1>4, Zenon DEF BcastPacket, bsendmsg
<1>6. /\ UNCHANGED <<inq, mailbox, prog, red, round, junk>>
      /\ sent' = [sent EXCEPT ![h] = @ + 1]
      /\ left' = [left EXCEPT ![h] = @ + 1]
  BY DEF BcastPacket
<1>7. TypeNet' /\ TreeInv'
  <2>1. UNCHANGED <<inq, got>> BY <1>6 DEF mailbox
  <2> QED BY <1>1, <1>3, <1>4, <1>5, <1>6, <2>1, BcastStep
<1>8. TypeBuf' BY <1>1, <1>6, SameBuf DEF mailbox
<1>9. TypeApp' /\ Reducing'
  <2>1. left' = [left EXCEPT ![h] = k] /\ prog' = prog BY <1>3, <1>6
  <2> QED BY <1>1, <1>2, <1>6, <2>1, CallStep
<1>10. InCall' BY <1>1, <1>6 DEF InCall, mailbox
<1> QED BY <1>7, <1>8, <1>9, <1>10 DEF Inv, TypeOK

\* jia_bcast receives.
LEMMA BcastRecvStep ==
    ASSUME Inv, NEW h \in Host, BcastRecv(h)
    PROVE  Inv'
<1>1. TypeNet /\ TypeBuf /\ TypeApp /\ Reducing /\ InCall /\ TreeInv
  BY DEF Inv, TypeOK
<1>2. red[h].j = -1 /\ prog[h] # <<>> /\ Head(prog[h]).op = "bcast" BY DEF BcastRecv, Calls
<1>3. PICK n \in Nat : n = Head(prog[h]).len BY <1>1, <1>2, MadeCall, CallFields
<1>4. StartRecv(h, All, BCAST_TAG, n) BY <1>3, Zenon DEF BcastRecv
<1>5. /\ UNCHANGED <<outq, inq, msgbuf, msgseqno, arrivals, server, status, got, prog, sent, red, round, junk>>
      /\ left' = [left EXCEPT ![h] = 0]
  BY DEF BcastRecv
<1>6. TypeBuf' BY <1>1, <1>4, <1>5, OtherTags, StartTyped
<1>7. TypeNet' /\ TreeInv' BY <1>1, <1>5, QuietStep
<1>8. TypeApp' /\ Reducing' BY <1>1, <1>2, <1>5, CallStep
<1>9. InCall'
  <2>1. \A f \in Host : f # h => recv'[f] = recv[f] BY <1>1, <1>4, <1>5, OtherTags, StartTyped
  <2> QED BY <1>1, <1>2, <1>5, <2>1, InCallStep
<1> QED BY <1>6, <1>7, <1>8, <1>9 DEF Inv, TypeOK

\* jia_recv returns.
LEMMA RecvReturnsStep ==
    ASSUME Inv, NEW h \in Host, RecvReturns(h)
    PROVE  Inv'
<1>1. TypeNet /\ TypeBuf /\ TypeApp /\ Reducing /\ InCall /\ TreeInv
  BY DEF Inv, TypeOK
<1>2. red[h].j = -1 /\ prog[h] # <<>> BY <1>1 DEF RecvReturns, Receiving, InCall
<1>3. /\ UNCHANGED <<outq, inq, msgbuf, msgseqno, arrivals, server, status, got, left, sent, red, round, junk>>
      /\ recv' = [recv EXCEPT ![h] = NoRecv]
      /\ prog' = [prog EXCEPT ![h] = Tail(@)]
  BY DEF RecvReturns, NextCall
<1>4. TypeBuf'
  <2>1. recv' \in [Host -> RecvState] BY <1>1, <1>3, NoRecvTyped DEF TypeBuf
  <2> QED BY <1>1, <1>3, <2>1 DEF TypeBuf
<1>5. TypeNet' /\ TreeInv' BY <1>1, <1>3, QuietStep
<1>6. TypeApp' /\ Reducing' BY <1>1, <1>2, <1>3, CallStep
<1>7. InCall'
  <2>1. recv'[h].at = "none" BY <1>1, <1>3, NoRecvTyped DEF TypeBuf
  <2>2. \A f \in Host : f # h => recv'[f] = recv[f] /\ prog'[f] = prog[f]
    BY <1>1, <1>3 DEF TypeBuf, TypeApp
  <2> QED BY <1>1, <2>1, <2>2, InCallStep
<1> QED BY <1>4, <1>5, <1>6, <1>7 DEF Inv, TypeOK

\* jia_reduce is called.
LEMMA ReduceCallStep ==
    ASSUME Inv, NEW h \in Host, jia_reduce(h)
    PROVE  Inv'
<1>1. TypeNet /\ TypeBuf /\ TypeApp /\ Reducing /\ InCall /\ TreeInv
  BY DEF Inv, TypeOK
<1>2. prog[h] # <<>> /\ Head(prog[h]).op = "reduce" BY DEF jia_reduce, Calls
<1>3. UNCHANGED <<outq, inq, mailbox, prog, left, sent, round, junk>> BY DEF jia_reduce
<1>4. PICK b \in BOOLEAN, t \in Nat : b = (h \in junk) /\ t = round[h]
  <2>1. (h \in junk) \in BOOLEAN /\ round[h] \in Nat BY <1>1 DEF TypeApp
  <2> QED BY <2>1, Zenon
<1>5. PICK v \in Value :
         v = [count |-> [g \in Host |-> IF g = h THEN 1 ELSE 0], rounds |-> {t}, junk |-> b]
  <2>1. [count |-> [g \in Host |-> IF g = h THEN 1 ELSE 0], rounds |-> {t}, junk |-> b] \in Value
    BY DEF Value
  <2> QED BY <2>1, Zenon
<1>6. PICK s \in RedState : s = [j |-> 0, value |-> v]
  <2>1. [j |-> 0, value |-> v] \in RedState BY DEF RedState
  <2> QED BY <2>1, Zenon
<1>7. red' = [red EXCEPT ![h] = s] BY <1>4, <1>5, <1>6, Zenon DEF jia_reduce
<1>8. TypeApp' /\ Reducing'
  <2>1. round' \in [Host -> Nat] /\ junk' \subseteq Host /\ prog' = prog /\ left' = left
    BY <1>1, <1>3 DEF TypeApp
  <2> QED BY <1>1, <1>2, <1>7, <2>1, ReduceStep
<1>9. TypeBuf' BY <1>1, <1>3, SameBuf DEF mailbox
<1>10. TypeNet' /\ TreeInv'
  <2>1. UNCHANGED <<outq, inq, sent, got>> BY <1>3 DEF mailbox
  <2> QED BY <1>1, <2>1, QuietStep
<1>11. InCall' BY <1>1, <1>3 DEF InCall, mailbox
<1> QED BY <1>8, <1>9, <1>10, <1>11 DEF Inv, TypeOK

\* The next level of the loop of jia_reduce.
LEMMA LevelStep ==
    ASSUME TypeApp, Reducing, NEW h \in Host, red[h].j >= 0, NextLevel(h),
           UNCHANGED <<prog, left, round, junk>>
    PROVE  TypeApp' /\ Reducing'
<1>1. red[h].j \in Nat /\ red[h].value \in Value /\ red[h] \in RedState BY DEF TypeApp, RedState
<1>2. prog[h] # <<>> /\ Head(prog[h]).op = "reduce" BY <1>1 DEF Reducing
<1>3. PICK n \in Nat : n = red[h].j + 1 BY <1>1
<1>4. PICK s \in RedState : s = [red[h] EXCEPT !.j = n]
  <2>1. [red[h] EXCEPT !.j = n] \in RedState BY <1>1 DEF RedState
  <2> QED BY <2>1, Zenon
<1>5. red' = [red EXCEPT ![h] = s]
  <2>1. red' = [red EXCEPT ![h].j = n] BY <1>3, Zenon DEF NextLevel
  <2> QED BY <1>4, <2>1, Zenon
<1>6. round' \in [Host -> Nat] /\ junk' \subseteq Host /\ prog' = prog /\ left' = left
  BY DEF TypeApp
<1> QED BY <1>2, <1>5, <1>6, ReduceStep

\* A host of an upper half sends its value.
LEMMA ReduceSendStep ==
    ASSUME Inv, NEW h \in Host, ReduceSend(h)
    PROVE  Inv'
<1>1. TypeNet /\ TypeBuf /\ TypeApp /\ Reducing /\ InCall /\ TreeInv
  BY DEF Inv, TypeOK
<1>2. red[h].j >= 0 BY DEF ReduceSend, InLoop
<1>3. UNCHANGED <<inq, mailbox, prog, left, sent, round, junk>> BY DEF ReduceSend
<1>4. PICK to \in Host : to = AtPosition(h, Position(h) - 2^red[h].j)
  <2>1. AtPosition(h, Position(h) - 2^red[h].j) \in Host BY <1>1, <1>2, ReducePosition
  <2> QED BY <2>1, Zenon
<1>5. PICK v \in Value : v = red[h].value
  <2>1. red[h].value \in Value BY <1>1 DEF TypeApp, RedState
  <2> QED BY <2>1, Zenon
<1>6. PICK m \in Packets :
         m = Packet(h, to, REDUCE_TAG, 1, TRUE, v) /\ m.tag = REDUCE_TAG /\ ~ m.bcast
  <2> DEFINE q == Packet(h, to, REDUCE_TAG, 1, TRUE, v)
  <2>1. q \in Packets /\ q.tag = REDUCE_TAG /\ ~ q.bcast
    BY OtherTags DEF Packet, Packets
  <2> QED BY <2>1, Zenon
<1>7. Send(h, <<m>>) BY <1>4, <1>5, <1>6, Zenon DEF ReduceSend
<1>8. TypeNet' /\ TreeInv'
  <2>1. m.tag # BCAST_TAG BY <1>6, OtherTags
  <2>2. UNCHANGED <<inq, sent, got>> BY <1>3 DEF mailbox
  <2> QED BY <1>1, <1>6, <1>7, <2>1, <2>2, PlainStep
<1>9. TypeApp' /\ Reducing'
  <2>1. NextLevel(h) BY DEF ReduceSend
  <2> QED BY <1>1, <1>2, <1>3, <2>1, LevelStep
<1>10. TypeBuf' BY <1>1, <1>3, SameBuf DEF mailbox
<1>11. InCall' BY <1>1, <1>3 DEF InCall, mailbox
<1> QED BY <1>8, <1>9, <1>10, <1>11 DEF Inv, TypeOK

\* A host of a lower half receives one.
LEMMA ReduceRecvStep ==
    ASSUME Inv, NEW h \in Host, ReduceRecv(h)
    PROVE  Inv'
<1>1. TypeNet /\ TypeBuf /\ TypeApp /\ Reducing /\ InCall /\ TreeInv
  BY DEF Inv, TypeOK
<1>2. red[h].j >= 0 /\ prog[h] # <<>>
  <2>1. red[h].j >= 0 BY DEF ReduceRecv, InLoop
  <2> QED BY <1>1, <2>1 DEF Reducing
<1>3. UNCHANGED <<outq, inq, msgbuf, msgseqno, arrivals, server, status, got, app>> BY DEF ReduceRecv
<1>4. PICK from \in Host \cup {All} : from = AtPosition(h, Position(h) + 2^red[h].j)
  <2>1. AtPosition(h, Position(h) + 2^red[h].j) \in Host BY <1>1, <1>2, ReducePosition
  <2> QED BY <2>1, Zenon
<1>5. StartRecv(h, from, REDUCE_TAG, 1) BY <1>4, Zenon DEF ReduceRecv
<1>6. TypeBuf' BY <1>1, <1>3, <1>5, OtherTags, StartTyped
<1>7. TypeNet' /\ TreeInv' BY <1>1, <1>3, QuietStep DEF app
<1>8. TypeApp' /\ Reducing' BY <1>1, <1>3, SameApp DEF app
<1>9. InCall'
  <2>1. \A f \in Host : f # h => recv'[f] = recv[f] BY <1>1, <1>3, <1>5, OtherTags, StartTyped
  <2>2. prog' = prog BY <1>3 DEF app
  <2> QED BY <1>1, <1>2, <2>1, <2>2, InCallStep
<1> QED BY <1>6, <1>7, <1>8, <1>9 DEF Inv, TypeOK

\* A host that is done goes through the remaining levels.
LEMMA ReduceSkipStep ==
    ASSUME Inv, NEW h \in Host, ReduceSkip(h)
    PROVE  Inv'
<1>1. TypeNet /\ TypeBuf /\ TypeApp /\ Reducing /\ InCall /\ TreeInv
  BY DEF Inv, TypeOK
<1>2. /\ red[h].j >= 0 /\ NextLevel(h)
      /\ UNCHANGED <<outq, inq, mailbox, prog, left, sent, round, junk>>
  BY DEF ReduceSkip, InLoop
<1>3. TypeApp' /\ Reducing' BY <1>1, <1>2, LevelStep
<1>4. TypeBuf' BY <1>1, <1>2, SameBuf DEF mailbox
<1>5. TypeNet' /\ TreeInv'
  <2>1. UNCHANGED <<outq, inq, sent, got>> BY <1>2 DEF mailbox
  <2> QED BY <1>1, <2>1, QuietStep
<1>6. InCall' BY <1>1, <1>2 DEF InCall, mailbox
<1> QED BY <1>3, <1>4, <1>5, <1>6 DEF Inv, TypeOK

\* What the operation makes of two values.
LEMMA ReducedValue ==
    ASSUME NEW v \in Value, NEW w \in Value
    PROVE  reduce(v, w) \in Value /\ [v EXCEPT !.junk = TRUE] \in Value
<1>1. [g \in Host |-> v.count[g] + w.count[g]] \in [Host -> Nat]
  BY DEF Value
<1>2. PICK c \in [Host -> Nat] : c = [g \in Host |-> v.count[g] + w.count[g]] BY <1>1
<1>3. PICK t \in SUBSET Nat, b \in BOOLEAN : t = v.rounds \cup w.rounds /\ b = (v.junk \/ w.junk)
  <2>1. v.rounds \cup w.rounds \in SUBSET Nat BY DEF Value
  <2>2. (v.junk \/ w.junk) \in BOOLEAN BY Zenon
  <2> QED BY <2>1, <2>2, Zenon
<1>4. [v EXCEPT !.count = c, !.rounds = t, !.junk = b] \in Value BY DEF Value
<1>5. reduce(v, w) = [v EXCEPT !.count = c, !.rounds = t, !.junk = b]
  BY <1>2, <1>3, Zenon DEF reduce
<1>6. [v EXCEPT !.junk = TRUE] \in Value BY DEF Value
<1> QED BY <1>4, <1>5, <1>6, Zenon

\* The received value goes in.
LEMMA ReduceTakeStep ==
    ASSUME Inv, NEW h \in Host, ReduceTake(h)
    PROVE  Inv'
<1>1. TypeNet /\ TypeBuf /\ TypeApp /\ Reducing /\ InCall /\ TreeInv
  BY DEF Inv, TypeOK
<1>2. /\ red[h].j \in Nat /\ red[h].value \in Value
      /\ prog[h] # <<>> /\ Head(prog[h]).op = "reduce"
  <2>1. red[h].j \in Nat /\ red[h].value \in Value BY <1>1 DEF ReduceTake, TypeApp, RedState
  <2> QED BY <1>1, <2>1 DEF Reducing
<1>3. /\ recv' = [recv EXCEPT ![h] = NoRecv]
      /\ UNCHANGED <<outq, inq, msgbuf, msgseqno, arrivals, server, got, prog, left, sent, round>>
  BY DEF ReduceTake
<1>4. recv' \in [Host -> RecvState] /\ \A f \in Host : f # h => recv'[f] = recv[f]
  BY <1>1, <1>3, NoRecvTyped DEF TypeBuf
<1>5. recv'[h].at = "none" BY <1>1, <1>3, NoRecvTyped DEF TypeBuf
<1>6. InCall' BY <1>1, <1>3, <1>4, <1>5, InCallStep
<1>7. TypeNet' /\ TreeInv' BY <1>1, <1>3, QuietStep
<1>8. CASE Len(recv[h].buf) # 1
  <2>1. status' = [g \in Host |-> "asserted"] /\ red' = red /\ junk' = junk
    BY <1>8 DEF ReduceTake
  <2>2. TypeBuf' BY <1>1, <1>3, <1>4, <2>1 DEF TypeBuf
  <2>3. TypeApp' /\ Reducing' BY <1>1, <1>3, <2>1, SameApp
  <2> QED BY <1>6, <1>7, <2>2, <2>3 DEF Inv, TypeOK
<1>9. CASE Len(recv[h].buf) = 1
  <2>1. status' = status BY <1>9 DEF ReduceTake
  <2>2. TypeBuf' BY <1>1, <1>3, <1>4, <2>1 DEF TypeBuf
  <2>3. PICK n \in Nat : n = red[h].j + 1 BY <1>2
  <2>4. PICK v \in Value : v = IF Tainted(h) THEN [red[h].value EXCEPT !.junk = TRUE]
                               ELSE reduce(red[h].value, recv[h].buf[1].value)
    <3>1. CASE Tainted(h)
      <4>1. [red[h].value EXCEPT !.junk = TRUE] \in Value BY <1>2, ReducedValue
      <4> QED BY <3>1, <4>1, Zenon
    <3>2. CASE ~ Tainted(h)
      <4>1. recv[h].buf \in Seq(Packets \cup {Junk}) BY <1>1 DEF TypeBuf, RecvState
      <4>2. 1 \in DOMAIN recv[h].buf /\ recv[h].buf[1] \in Packets \cup {Junk}
        BY <1>9, <4>1, ElementOfSeq
      <4>3. recv[h].buf[1] # Junk BY <3>2, <4>2, Zenon DEF Tainted
      <4>4. recv[h].buf[1].value \in Value BY <4>2, <4>3 DEF Packets
      <4>5. reduce(red[h].value, recv[h].buf[1].value) \in Value BY <1>2, <4>4, ReducedValue
      <4> QED BY <3>2, <4>5, Zenon
    <3> QED BY <3>1, <3>2
  <2>5. red' = [red EXCEPT ![h].j = n, ![h].value = v]
    BY <1>9, <2>3, <2>4, Zenon DEF ReduceTake
  <2>6. PICK s \in RedState : s = [red[h] EXCEPT !.j = n, !.value = v]
    <3>1. red[h] \in RedState BY <1>1 DEF TypeApp
    <3>2. [red[h] EXCEPT !.j = n, !.value = v] \in RedState BY <3>1 DEF RedState
    <3> QED BY <3>2, Zenon
  <2>7. red' = [red EXCEPT ![h] = s]
    <3>1. red \in [Host -> RedState] BY <1>1 DEF TypeApp
    <3>2. red' = [red EXCEPT ![h] = [red[h] EXCEPT !.j = n, !.value = v]] BY <2>5, <3>1
    <3> QED BY <2>6, <3>2, Zenon
  <2>8. junk' \subseteq Host
    <3>1. junk' = junk \/ junk' = junk \cup {h} BY <1>9 DEF ReduceTake
    <3> QED BY <1>1, <3>1 DEF TypeApp
  <2>9. round' \in [Host -> Nat] /\ prog' = prog /\ left' = left BY <1>1, <1>3 DEF TypeApp
  <2>10. TypeApp' /\ Reducing' BY <1>1, <1>2, <2>7, <2>8, <2>9, ReduceStep
  <2> QED BY <1>6, <1>7, <2>2, <2>10 DEF Inv, TypeOK
<1> QED BY <1>8, <1>9

\* jia_reduce returns.
LEMMA ReduceReturnsStep ==
    ASSUME Inv, NEW h \in Host, ReduceReturns(h)
    PROVE  Inv'
<1>1. TypeNet /\ TypeBuf /\ TypeApp /\ Reducing /\ InCall /\ TreeInv
  BY DEF Inv, TypeOK
<1>2. prog[h] # <<>> /\ Head(prog[h]).op = "reduce" /\ recv[h].at = "none"
  BY <1>1 DEF ReduceReturns, Reducing
<1>3. /\ UNCHANGED <<outq, inq, mailbox, left, sent, junk>>
      /\ prog' = [prog EXCEPT ![h] = Tail(@)]
      /\ red' = [red EXCEPT ![h] = NoRed]
      /\ round' = [round EXCEPT ![h] = @ + 1]
  BY DEF ReduceReturns, NextCall
<1>4. NoRed \in RedState /\ NoRed.j = -1 BY NoValueTyped DEF NoRed, RedState
<1>5. TypeApp' /\ Reducing'
  <2>1. round' \in [Host -> Nat] /\ junk' \subseteq Host /\ left' = left
    BY <1>1, <1>3 DEF TypeApp
  <2> QED BY <1>1, <1>2, <1>3, <1>4, <2>1, ReduceStep
<1>6. TypeBuf' BY <1>1, <1>3, SameBuf DEF mailbox
<1>7. TypeNet' /\ TreeInv'
  <2>1. UNCHANGED <<outq, inq, sent, got>> BY <1>3 DEF mailbox
  <2> QED BY <1>1, <2>1, QuietStep
<1>8. InCall'
  <2>1. recv' = recv BY <1>3 DEF mailbox
  <2>2. \A f \in Host : f # h => prog'[f] = prog[f] BY <1>1, <1>3 DEF TypeApp
  <2> QED BY <1>1, <1>2, <2>1, <2>2, InCallStep
<1> QED BY <1>5, <1>6, <1>7, <1>8 DEF Inv, TypeOK

\* The steps inside jia_recv.
LEMMA ReadingStep ==
    ASSUME Inv, NEW h \in Host, UNCHANGED app,
           ScanPlace(h) \/ TakePlace(h) \/ TakeNothing(h) \/ CopyPlace(h)
    PROVE  Inv'
<1>1. TypeNet /\ TypeBuf /\ TypeApp /\ Reducing /\ InCall /\ TreeInv
  BY DEF Inv, TypeOK
<1>2. UNCHANGED <<outq, inq, got>> BY DEF ScanPlace, TakePlace, TakeNothing, CopyPlace
<1>3. TypeNet' /\ TreeInv' BY <1>1, <1>2, QuietStep DEF app
<1>4. TypeApp' /\ Reducing' BY <1>1, SameApp DEF app
<1>5. recv[h].at # "none" BY DEF ScanPlace, TakePlace, TakeNothing, CopyPlace, Receiving
<1>6. TypeBuf' /\ \A f \in Host : f # h => recv'[f] = recv[f]
  <2>1. CASE ScanPlace(h)
    <3>1. PICK x \in RecvState : recv' = [recv EXCEPT ![h] = x] BY <1>1, <2>1, ScanStep
    <3>2. recv' \in [Host -> RecvState] /\ \A f \in Host : f # h => recv'[f] = recv[f]
      BY <1>1, <3>1, OneRecv
    <3>3. UNCHANGED <<msgbuf, msgseqno, arrivals, server, status>> BY <2>1 DEF ScanPlace
    <3> QED BY <1>1, <3>2, <3>3 DEF TypeBuf
  <2>2. CASE TakePlace(h) BY <1>1, <2>2, TakeTyped
  <2>3. CASE TakeNothing(h) BY <1>1, <2>3, NothingTyped
  <2>4. CASE CopyPlace(h) BY <1>1, <2>4, CopyTyped
  <2> QED BY <2>1, <2>2, <2>3, <2>4
<1>7. prog' = prog BY DEF app
<1>8. InCall' BY <1>1, <1>5, <1>6, <1>7, InCallStep DEF InCall
<1> QED BY <1>3, <1>4, <1>6, <1>8 DEF Inv, TypeOK

\* The server and the client thread.
LEMMA ServerStep ==
    ASSUME Inv, NEW h \in Host, Server(h)
    PROVE  Inv'
<1>1. TypeNet /\ TypeBuf /\ TypeApp /\ Reducing /\ InCall /\ TreeInv
  BY DEF Inv, TypeOK
<1>2. CASE StartStore(h) /\ UNCHANGED app
  <2>1. Handling(h) BY <1>2 DEF StartStore, Handling, app
  <2>2. TypeNet' /\ TreeInv' BY <1>1, <2>1, HandleStep
  <2>3. TypeBuf' BY <1>1, <1>2, StoreTyped
  <2>4. TypeApp' /\ Reducing' BY <1>1, <1>2, SameApp DEF app
  <2>5. InCall' BY <1>1, <1>2 DEF InCall, StartStore, app
  <2> QED BY <2>2, <2>3, <2>4, <2>5 DEF Inv, TypeOK
<1>3. CASE FillPlace(h) /\ UNCHANGED app
  <2>1. UNCHANGED <<outq, inq, sent, got>> BY <1>3 DEF FillPlace, app
  <2>2. TypeNet' /\ TreeInv' BY <1>1, <2>1, QuietStep
  <2>3. TypeBuf' BY <1>1, <1>3, FillTyped
  <2>4. TypeApp' /\ Reducing' BY <1>1, <1>3, SameApp DEF app
  <2>5. InCall' BY <1>1, <1>3 DEF InCall, FillPlace, app
  <2> QED BY <2>2, <2>3, <2>4, <2>5 DEF Inv, TypeOK
<1>4. CASE bcastserver(h) /\ UNCHANGED <<mailbox, app>>
  <2>1. UNCHANGED <<sent, got>> BY <1>4 DEF mailbox, app
  <2>2. TypeNet' /\ TreeInv' BY <1>1, <1>4, <2>1, ForwardStep
  <2>3. TypeBuf' BY <1>1, <1>4, SameBuf DEF mailbox
  <2>4. TypeApp' /\ Reducing' BY <1>1, <1>4, SameApp DEF app
  <2>5. InCall' BY <1>1, <1>4 DEF InCall, mailbox, app
  <2> QED BY <2>2, <2>3, <2>4, <2>5 DEF Inv, TypeOK
<1>5. CASE SearchPlace(h) /\ UNCHANGED app
  <2>1. UNCHANGED <<outq, inq, sent, got>> BY <1>5 DEF SearchPlace, app
  <2>2. TypeNet' /\ TreeInv' BY <1>1, <2>1, QuietStep
  <2>3. TypeBuf' BY <1>1, <1>5, SearchTyped
  <2>4. TypeApp' /\ Reducing' BY <1>1, <1>5, SameApp DEF app
  <2>5. InCall' BY <1>1, <1>5 DEF InCall, SearchPlace, app
  <2> QED BY <2>2, <2>3, <2>4, <2>5 DEF Inv, TypeOK
<1> QED BY <1>2, <1>3, <1>4, <1>5 DEF Server

\* The client thread's.
LEMMA ClientStep ==
    ASSUME Inv, NEW h \in Host, Client(h)
    PROVE  Inv'
<1>1. TypeNet /\ TypeBuf /\ TypeApp /\ Reducing /\ InCall /\ TreeInv
  BY DEF Inv, TypeOK
<1>2. Transfer(h) /\ UNCHANGED <<mailbox, app>> BY DEF Client
<1>3. UNCHANGED <<sent, got>> BY <1>2 DEF mailbox, app
<1>4. TypeNet' /\ TreeInv' BY <1>1, <1>2, <1>3, TransferTree
<1>5. TypeBuf' BY <1>1, <1>2, SameBuf DEF mailbox
<1>6. TypeApp' /\ Reducing' BY <1>1, <1>2, SameApp DEF app
<1>7. InCall' BY <1>1, <1>2 DEF InCall, mailbox, app
<1> QED BY <1>4, <1>5, <1>6, <1>7 DEF Inv, TypeOK

-----------------------------------------------------------------------------
(***************************************************************************)
(* The theorems.                                                           *)
(***************************************************************************)
\* At the start nothing is under way and no call is made.
LEMMA InitInv ==
    ASSUME Init
    PROVE  Inv
<1>1. TypeNet
  <2>1. <<>> \in Seq(Packets) /\ <<>> \in Seq(Nat) OBVIOUS
  <2> QED BY <2>1 DEF Init, MailboxInit, TypeNet
<1>2. TypeBuf
  <2>1. [i \in Place |-> [op |-> "ERRMSG", seqno |-> 0, packet |-> Junk, arrival |-> 0]]
          \in [Place -> Slot]
    BY DEF Slot
  <2>2. Idle \in ServerState BY DEF ServerState
  <2> QED BY <2>1, <2>2, NoRecvTyped DEF Init, MailboxInit, TypeBuf
<1>3. TypeApp
  <2>1. prog \in [Host -> Seq(Call)] BY MsgPassAssumption DEF Init
  <2>2. NoRed \in RedState BY NoValueTyped DEF NoRed, RedState
  <2> QED BY <2>1, <2>2 DEF Init, TypeApp
<1>4. Reducing BY DEF Init, Reducing, NoRed
<1>5. InCall BY NoRecvTyped DEF Init, MailboxInit, InCall
<1>6. \A g \in Host : 1 .. Len(inq[g]) = {} /\ 1 .. Len(outq[g]) = {}
  <2>1. 1 .. Len(<<>>) = {} OBVIOUS
  <2> QED BY <2>1 DEF Init
<1>7. \A m : ~ OnWay(m) BY <1>6, Zenon DEF OnWay, OnWayIn, OnWayOut
<1>8. PlacedIn /\ PlacedOut BY <1>6, Zenon DEF PlacedIn, PlacedOut
<1>9. QueuedIn /\ QueuedOut BY <1>6, Zenon DEF QueuedIn, QueuedOut, InOrder
<1>10. Ranked BY <1>7, Zenon DEF Ranked
<1>11. \A r, h \in Host : sent[r] = 0 /\ got[h][r] = <<>> BY DEF Init, MailboxInit
<1>12. Pending
  <2> SUFFICES ASSUME NEW r \in Host, NEW h \in Host, NEW n \in Len(got[h][r]) + 1 .. sent[r]
               PROVE  FALSE
    BY <1>7, Zenon DEF Pending
  <2>1. Len(got[h][r]) = 0 /\ sent[r] = 0 BY <1>11
  <2> QED BY <2>1
<1>13. BcastInOrder BY <1>11 DEF BcastInOrder
<1> QED BY <1>1, <1>2, <1>3, <1>4, <1>5, <1>8, <1>9, <1>10, <1>12, <1>13
    DEF Inv, TypeOK, TreeInv

\* Every step keeps the invariant.
LEMMA NextInv ==
    ASSUME Inv, [Next]_vars
    PROVE  Inv'
<1>1. CASE UNCHANGED vars
  <2>1. TypeNet /\ TypeBuf /\ TypeApp /\ Reducing /\ InCall /\ TreeInv BY DEF Inv, TypeOK
  <2>2. /\ UNCHANGED <<outq, inq, sent, got>>
        /\ UNCHANGED <<msgbuf, msgseqno, arrivals, server, status, recv>>
        /\ UNCHANGED <<prog, left, red, round, junk>>
    BY <1>1 DEF vars, mailbox
  <2>3. TypeNet' /\ TreeInv' BY <2>1, <2>2, QuietStep
  <2>4. TypeBuf' BY <2>1, <2>2, SameBuf
  <2>5. TypeApp' /\ Reducing' BY <2>1, <2>2, SameApp
  <2>6. InCall' BY <2>1, <2>2 DEF InCall
  <2> QED BY <2>3, <2>4, <2>5, <2>6 DEF Inv, TypeOK
<1>2. ASSUME NEW h \in Host, Main(h) PROVE Inv'
  <2>1. CASE jia_send(h) BY <2>1, SendStep
  <2>2. CASE jia_recv(h) BY <2>2, RecvStep
  <2>3. CASE BcastPacket(h) BY <2>3, BcastPacketStep
  <2>4. CASE BcastRecv(h) BY <2>4, BcastRecvStep
  <2>5. CASE RecvReturns(h) BY <2>5, RecvReturnsStep
  <2>6. CASE jia_reduce(h) BY <2>6, ReduceCallStep
  <2>7. CASE ReduceSend(h) BY <2>7, ReduceSendStep
  <2>8. CASE ReduceRecv(h) BY <2>8, ReduceRecvStep
  <2>9. CASE ReduceSkip(h) BY <2>9, ReduceSkipStep
  <2>10. CASE ReduceTake(h) BY <2>10, ReduceTakeStep
  <2>11. CASE ReduceReturns(h) BY <2>11, ReduceReturnsStep
  <2>12. CASE (ScanPlace(h) \/ TakePlace(h) \/ TakeNothing(h) \/ CopyPlace(h)) /\ UNCHANGED app
    BY <2>12, ReadingStep
  <2> QED BY <1>2, <2>1, <2>2, <2>3, <2>4, <2>5, <2>6, <2>7, <2>8, <2>9, <2>10, <2>11, <2>12
      DEF Main
<1>3. ASSUME NEW h \in Host, Server(h) PROVE Inv' BY <1>3, ServerStep
<1>4. ASSUME NEW h \in Host, Client(h) PROVE Inv' BY <1>4, ClientStep
<1> QED BY <1>1, <1>2, <1>3, <1>4 DEF Next, Finished

\* The invariant, for any number of hosts and of places and any programs.
THEOREM Invariance == Spec => []Inv
<1>1. Init => Inv BY InitInv
<1>2. Inv /\ [Next]_vars => Inv' BY NextInv
<1> QED BY <1>1, <1>2, PTL DEF Spec

\* Packets, buffers and the state of the calls are what msg/msguser.c makes of them.
THEOREM TypeCorrectness == Spec => []TypeOK
<1>1. Inv => TypeOK BY DEF Inv
<1> QED BY <1>1, Invariance, PTL

\* What jia_bcast sends is handled at every host once, in the order it was sent,
\* though bcastserver passes each packet on along its own way through the queues.
THEOREM BroadcastsInOrder == Spec => []BcastInOrder
<1>1. Inv => BcastInOrder BY DEF Inv, TreeInv
<1> QED BY <1>1, Invariance, PTL

-----------------------------------------------------------------------------
(***************************************************************************)
(* What the two threads of a host do to its buffer.                        *)
(***************************************************************************)
MailOf(h) == Mail(msgbuf[h], server[h], msgseqno[h], arrivals[h], recv[h])

\* Numbers follow arrivals, and the scans under way have looked properly, on every host.
MailInv == \A h \in Host : MailOf(h)

\* What of the types the lemmas on Mail need.
LEMMA TypedMail ==
    ASSUME TypeBuf, NEW h \in Host
    PROVE  MailTyped(msgbuf[h], msgseqno[h], arrivals[h], recv[h])
<1>1. \A i \in Place : msgbuf[h][i].seqno \in Nat /\ msgbuf[h][i].arrival \in Nat
  BY DEF TypeBuf, Slot
<1>2. msgseqno[h] \in Nat /\ arrivals[h].count \in Nat /\ arrivals[h].renumbered \in Nat
  BY DEF TypeBuf
<1>3. recv[h].place \in Nat /\ recv[h].next \in Nat /\ recv[h].start \in Nat
  <2>1. recv[h] \in RecvState BY DEF TypeBuf
  <2>2. \A k \in 0 .. Maxmsgbufs : k \in Nat BY MailboxAssumption
  <2> QED BY <2>1, <2>2 DEF RecvState
<1> QED BY <1>1, <1>2, <1>3 DEF MailTyped

\* No thread stores a packet, looks at a place or frees one; a jia_recv may begin or end.
Quietly ==
    /\ UNCHANGED <<msgbuf, msgseqno, arrivals, server>>
    /\ \A g \in Host : \/ recv'[g] = recv[g]
                       \/ recv'[g].at \in {"none", "scan"} /\ Fresh(arrivals[g], recv'[g])

\* jia_recv begins, or looks for the next packet.
LEMMA QuietScan ==
    ASSUME TypeBuf, NEW h \in Host, NEW from, NEW tag, NEW len, NEW buf, NEW spoilt,
           recv' = [recv EXCEPT ![h] = NewScan(h, from, tag, len, buf, spoilt)],
           UNCHANGED <<msgbuf, msgseqno, arrivals, server>>
    PROVE  Quietly
<1>1. PICK x : x = NewScan(h, from, tag, len, buf, spoilt) BY Zenon
<1>2. x.at = "scan" /\ Fresh(arrivals[h], x) BY <1>1 DEF NewScan, Fresh
<1>3. recv' = [recv EXCEPT ![h] = x] BY <1>1, Zenon
<1>4. recv'[h] = x /\ \A g \in Host : g # h => recv'[g] = recv[g] BY <1>3 DEF TypeBuf
<1> QED BY <1>2, <1>4 DEF Quietly

\* jia_recv returns.
LEMMA QuietReturn ==
    ASSUME TypeBuf, NEW h \in Host, recv' = [recv EXCEPT ![h] = NoRecv],
           UNCHANGED <<msgbuf, msgseqno, arrivals, server>>
    PROVE  Quietly
<1>1. recv'[h] = NoRecv /\ \A g \in Host : g # h => recv'[g] = recv[g] BY DEF TypeBuf
<1>2. 0 <= arrivals[h].count BY DEF TypeBuf
<1>3. NoRecv.at = "none" /\ Fresh(arrivals[h], NoRecv) BY <1>2, NoRecvTyped DEF Fresh
<1> QED BY <1>1, <1>3 DEF Quietly

\* The steps that are not quiet.
Storer(h) == StartStore(h) \/ SearchPlace(h) \/ FillPlace(h)
Reader(h) == ScanPlace(h) \/ TakePlace(h) \/ TakeNothing(h)

\* Every step is quiet or one of these, of one host.
LEMMA MailSteps ==
    ASSUME TypeBuf, [Next]_vars
    PROVE  Quietly \/ \E h \in Host : Storer(h) \/ Reader(h)
<1>1. CASE UNCHANGED mailbox BY <1>1 DEF mailbox, Quietly
<1>2. CASE UNCHANGED vars BY <1>1, <1>2 DEF vars
<1>3. ASSUME NEW h \in Host, Main(h) PROVE Quietly \/ Reader(h)
  <2>1. CASE jia_send(h) BY <2>1 DEF jia_send, mailbox, Quietly
  <2>2. CASE jia_recv(h) BY <2>2, QuietScan DEF jia_recv, StartRecv
  <2>3. CASE BcastPacket(h) BY <2>3 DEF BcastPacket, mailbox, Quietly
  <2>4. CASE BcastRecv(h) BY <2>4, QuietScan DEF BcastRecv, StartRecv
  <2>5. CASE RecvReturns(h) BY <2>5, QuietReturn DEF RecvReturns
  <2>6. CASE jia_reduce(h) BY <2>6 DEF jia_reduce, mailbox, Quietly
  <2>7. CASE ReduceSend(h) BY <2>7 DEF ReduceSend, mailbox, Quietly
  <2>8. CASE ReduceRecv(h) BY <2>8, QuietScan DEF ReduceRecv, StartRecv
  <2>9. CASE ReduceSkip(h) BY <2>9 DEF ReduceSkip, mailbox, Quietly
  <2>10. CASE ReduceTake(h) BY <2>10, QuietReturn DEF ReduceTake
  <2>11. CASE ReduceReturns(h) BY <2>11 DEF ReduceReturns, mailbox, Quietly
  <2>12. CASE ScanPlace(h) \/ TakePlace(h) \/ TakeNothing(h) BY <2>12 DEF Reader
  <2>13. CASE CopyPlace(h) BY <2>13, QuietScan DEF CopyPlace
  <2> QED BY <1>3, <2>1, <2>2, <2>3, <2>4, <2>5, <2>6, <2>7, <2>8, <2>9, <2>10, <2>11, <2>12,
             <2>13 DEF Main
<1>4. ASSUME NEW h \in Host, Server(h) PROVE UNCHANGED mailbox \/ Storer(h)
  BY <1>4 DEF Server, Storer
<1>5. ASSUME NEW h \in Host, Client(h) PROVE UNCHANGED mailbox BY <1>5 DEF Client
<1>6. CASE Finished BY <1>2, <1>6 DEF Finished
<1> QED BY <1>1, <1>2, <1>3, <1>4, <1>5, <1>6 DEF Next

\* Quiet steps keep the invariant ...
LEMMA QuietMail ==
    ASSUME TypeBuf, MailInv, Quietly
    PROVE  MailInv'
<1> SUFFICES ASSUME NEW h \in Host PROVE MailOf(h)'
  BY DEF MailInv
<1>1. Mail(msgbuf[h], server[h], msgseqno[h], arrivals[h], recv[h]) BY DEF MailInv, MailOf
<1>2. MailTyped(msgbuf[h], msgseqno[h], arrivals[h], recv[h]) BY TypedMail
<1>3. CASE recv'[h] = recv[h] BY <1>1, <1>3 DEF MailOf, Quietly
<1>4. CASE Fresh(arrivals[h], recv'[h])
  <2>1. Mail(msgbuf[h], server[h], msgseqno[h], arrivals[h], recv'[h])
    BY <1>1, <1>2, <1>4, FreshMail
  <2> QED BY <2>1 DEF MailOf, Quietly
<1> QED BY <1>3, <1>4 DEF Quietly

\* A step of one host.
LEMMA OneMail ==
    ASSUME MailInv, NEW h \in Host, MailOf(h)',
           \A g \in Host : g # h =>
              /\ msgbuf'[g] = msgbuf[g] /\ server'[g] = server[g] /\ msgseqno'[g] = msgseqno[g]
              /\ arrivals'[g] = arrivals[g] /\ recv'[g] = recv[g]
    PROVE  MailInv'
<1>1. ASSUME NEW g \in Host, g # h PROVE MailOf(g)' BY <1>1 DEF MailInv, MailOf
<1> QED BY <1>1 DEF MailInv

\* ... and so do the steps of the server ...
LEMMA StorerMail ==
    ASSUME TypeNet, TypeBuf, MailInv, NEW h \in Host, Storer(h)
    PROVE  MailInv'
<1>1. Mail(msgbuf[h], server[h], msgseqno[h], arrivals[h], recv[h]) BY DEF MailInv, MailOf
<1>2. MailTyped(msgbuf[h], msgseqno[h], arrivals[h], recv[h]) BY TypedMail
<1>3. ASSUME NEW k, Looked(h, k), server[h].at # "fill", NEW q2 \in Nat,
             q2 = msgseqno[h] + 1 \/ (q2 = msgseqno[h] /\ server[h].at # "idle")
      PROVE  Mail(msgbuf'[h], server'[h], q2, arrivals[h], recv[h])
  <2>1. \/ msgbuf'[h] = msgbuf[h] /\ server'[h].at # "fill"
        \/ /\ msgbuf[h][k].op = "ERRMSG"
           /\ \A i \in Place : i # k => msgbuf'[h][i] = msgbuf[h][i]
           /\ server'[h].at = "fill" /\ server'[h].place = k
    BY <1>3 DEF Looked
  <2> QED BY <1>1, <1>2, <1>3, <2>1, SearchMail
<1>4. CASE StartStore(h)
  <2>1. Looked(h, 0) /\ server[h].at = "idle" BY <1>4, StoreTyped DEF StartStore, Storing
  <2>2. /\ msgseqno'[h] = msgseqno[h] + 1 /\ msgseqno'[h] \in Nat
        /\ \A g \in Host : g # h => msgseqno'[g] = msgseqno[g]
        /\ arrivals' = arrivals /\ recv' = recv
    BY <1>4 DEF StartStore, TypeBuf
  <2>3. MailOf(h)' BY <1>3, <2>1, <2>2 DEF MailOf
  <2>4. \A g \in Host : g # h => msgbuf'[g] = msgbuf[g] /\ server'[g] = server[g]
    BY <2>1 DEF Looked
  <2> QED BY <2>2, <2>3, <2>4, OneMail
<1>5. CASE SearchPlace(h)
  <2>1. Looked(h, server[h].place) /\ server[h].at = "search"
    BY <1>5, SearchTyped DEF SearchPlace, Storing
  <2>2. msgseqno' = msgseqno /\ arrivals' = arrivals /\ recv' = recv /\ msgseqno[h] \in Nat
    BY <1>5 DEF SearchPlace, TypeBuf
  <2>3. MailOf(h)' BY <1>3, <2>1, <2>2 DEF MailOf
  <2>4. \A g \in Host : g # h => msgbuf'[g] = msgbuf[g] /\ server'[g] = server[g]
    BY <2>1 DEF Looked
  <2> QED BY <2>2, <2>3, <2>4, OneMail
<1>6. CASE FillPlace(h)
  <2>1. /\ server[h].at = "fill" /\ server[h].place \in Place /\ server'[h] = Idle
        /\ msgbuf'[h][server[h].place] = Filled(h)
        /\ \A i \in Place : i # server[h].place => msgbuf'[h][i] = msgbuf[h][i]
        /\ arrivals'[h].count = arrivals[h].count + 1
        /\ arrivals'[h].renumbered = arrivals[h].renumbered
        /\ \A g \in Host : g # h => /\ msgbuf'[g] = msgbuf[g] /\ server'[g] = server[g]
                                    /\ arrivals'[g] = arrivals[g]
    BY <1>6, FillTyped
  <2>2. Filled(h).seqno = msgseqno[h] /\ Filled(h).arrival = arrivals[h].count + 1
    BY <2>1, FilledTyped
  <2>3. msgseqno' = msgseqno /\ recv' = recv BY <1>6 DEF FillPlace
  <2>4. server'[h].at = "idle" BY <2>1 DEF Idle
  <2>5. Mail(msgbuf'[h], server'[h], msgseqno[h], arrivals'[h], recv[h])
    BY <1>1, <1>2, <2>1, <2>2, <2>4, FillMail
  <2>6. MailOf(h)' BY <2>3, <2>5 DEF MailOf
  <2> QED BY <2>1, <2>3, <2>6, OneMail
<1> QED BY <1>4, <1>5, <1>6 DEF Storer

\* ... and the ones of jia_recv.
LEMMA ReaderMail ==
    ASSUME TypeBuf, MailInv, NEW h \in Host, Reader(h)
    PROVE  MailInv'
<1>1. Mail(msgbuf[h], server[h], msgseqno[h], arrivals[h], recv[h]) BY DEF MailInv, MailOf
<1>2. MailTyped(msgbuf[h], msgseqno[h], arrivals[h], recv[h]) BY TypedMail
<1>3. CASE ScanPlace(h)
  <2>1. PICK x \in RecvState : recv' = [recv EXCEPT ![h] = x] /\ Looks(h, recv[h].place, x)
    BY <1>3, ScanStep
  <2>2. recv'[h] = x /\ \A g \in Host : g # h => recv'[g] = recv[g] BY <2>1, OneRecv
  <2>3. UNCHANGED <<msgbuf, msgseqno, arrivals, server>> BY <1>3 DEF ScanPlace
  <2>4. recv[h].place \in Place /\ recv[h].at = "scan" BY <1>3 DEF ScanPlace, Receiving
  <2>5. MailTyped(msgbuf[h], msgseqno[h], arrivals[h], x)
    <3>1. x.place \in Nat /\ x.next \in Nat /\ x.start \in Nat
      <4>1. \A k \in 0 .. Maxmsgbufs : k \in Nat BY MailboxAssumption
      <4> QED BY <4>1 DEF RecvState
    <3> QED BY <1>2, <3>1 DEF MailTyped
  <2>6. Mail(msgbuf[h], server[h], msgseqno[h], arrivals[h], x)
    BY <1>1, <1>2, <2>1, <2>4, <2>5, ScanMail DEF Looks
  <2>7. MailOf(h)' BY <2>2, <2>3, <2>6 DEF MailOf
  <2> QED BY <2>2, <2>3, <2>7, OneMail
<1>4. CASE TakePlace(h)
  <2>1. /\ recv[h].index \in Place
        /\ recv'[h].at = "copy" /\ recv'[h].start = recv[h].start
        /\ msgbuf'[h][recv[h].index].op = "ERRMSG"
        /\ \A i \in Place : i # recv[h].index => msgbuf'[h][i] = msgbuf[h][i]
        /\ \A g \in Host : g # h => msgbuf'[g] = msgbuf[g] /\ recv'[g] = recv[g]
    BY <1>4, TakeTyped
  <2>2. UNCHANGED <<msgseqno, arrivals, server>> BY <1>4 DEF TakePlace
  <2>3. Mail(msgbuf'[h], server[h], msgseqno[h], arrivals[h], recv'[h])
    <3>1. PICK b, r, k : b = msgbuf'[h] /\ r = recv'[h] /\ k = recv[h].index BY Zenon
    <3>2. /\ r.at # "scan" /\ r.start = recv[h].start /\ b[k].op = "ERRMSG"
          /\ \A i \in Place : i # k => b[i] = msgbuf[h][i]
      BY <2>1, <3>1
    <3>3. Mail(b, server[h], msgseqno[h], arrivals[h], r) BY <1>1, <3>2, TakeMail
    <3> QED BY <3>1, <3>3
  <2>4. MailOf(h)' BY <2>2, <2>3 DEF MailOf
  <2> QED BY <2>1, <2>2, <2>4, OneMail
<1>5. CASE TakeNothing(h)
  <2>1. /\ recv'[h].at = "done" /\ recv'[h].start = recv[h].start
        /\ \/ msgseqno'[h] = msgseqno[h] /\ arrivals'[h] = arrivals[h]
           \/ /\ arrivals'[h].count = arrivals[h].count
              /\ arrivals'[h].renumbered = arrivals[h].count
        /\ \A g \in Host : g # h => /\ msgseqno'[g] = msgseqno[g] /\ arrivals'[g] = arrivals[g]
                                    /\ recv'[g] = recv[g]
    BY <1>5, NothingTyped
  <2>2. UNCHANGED <<msgbuf, server>> BY <1>5 DEF TakeNothing
  <2>3. Mail(msgbuf[h], server[h], msgseqno'[h], arrivals'[h], recv'[h])
    BY <1>1, <1>2, <2>1, NothingMail
  <2>4. MailOf(h)' BY <2>2, <2>3 DEF MailOf
  <2> QED BY <2>1, <2>2, <2>4, OneMail
<1> QED BY <1>3, <1>4, <1>5 DEF Reader

\* The buffers are empty at first.
LEMMA MailInitially ==
    ASSUME Init
    PROVE  MailInv
<1> SUFFICES ASSUME NEW h \in Host PROVE MailOf(h)
  BY DEF MailInv
<1>1. /\ \A i \in Place : msgbuf[h][i].op = "ERRMSG"
      /\ arrivals[h].count = 0 /\ arrivals[h].renumbered = 0 /\ recv[h] = NoRecv
  BY DEF Init, MailboxInit
<1>2. recv[h].at = "none" /\ recv[h].start = 0 BY <1>1, NoRecvTyped
<1>3. \A i \in Place : ~ UnreadIn(msgbuf[h], server[h], i) BY <1>1 DEF UnreadIn
<1>4. Counted(msgbuf[h], server[h], arrivals[h], recv[h]) BY <1>1, <1>2, <1>3 DEF Counted
<1>5. Numbered(msgbuf[h], server[h], msgseqno[h], arrivals[h]) BY <1>3 DEF Numbered, Recent
<1>6. Scanned(msgbuf[h], server[h], recv[h]) BY <1>2 DEF Scanned
<1> QED BY <1>4, <1>5, <1>6 DEF MailOf, Mail

\* The invariant of the buffers, with the one of the calls for its types.
LEMMA MailInvariance == Spec => [](Inv /\ MailInv)
<1>1. Init => MailInv BY MailInitially
<1>2. Inv /\ MailInv /\ [Next]_vars => MailInv'
  <2> SUFFICES ASSUME Inv, MailInv, [Next]_vars PROVE MailInv'
    OBVIOUS
  <2>1. TypeNet /\ TypeBuf BY DEF Inv, TypeOK
  <2> QED BY <2>1, MailSteps, QuietMail, StorerMail, ReaderMail
<1> QED BY <1>1, <1>2, Invariance, PTL DEF Spec

\* What the steps do to one place.
LEMMA PlaceStep ==
    ASSUME TypeNet, TypeBuf, [Next]_vars, NEW h \in Host, NEW i \in Place, Unread(h, i)
    PROVE  \/ Unread(h, i)' /\ msgbuf'[h][i] = msgbuf[h][i]
           \/ EndsScan(h) /\ recv[h].index = i
<1>1. msgbuf[h][i].op # "ERRMSG" /\ ~ (server[h].at = "fill" /\ server[h].place = i)
  BY DEF Unread, Filling
<1>2. CASE msgbuf'[h][i] = msgbuf[h][i] /\ ~ (server'[h].at = "fill" /\ server'[h].place = i)
  BY <1>1, <1>2 DEF Unread, Filling
<1>3. CASE Quietly BY <1>1, <1>2, <1>3 DEF Quietly
<1>4. ASSUME NEW g \in Host, NEW k, Looked(g, k)
      PROVE  msgbuf'[h][i] = msgbuf[h][i] /\ ~ (server'[h].at = "fill" /\ server'[h].place = i)
  <2>1. CASE g = h BY <1>1, <1>4, <2>1 DEF Looked
  <2>2. CASE g # h BY <1>1, <1>4, <2>2 DEF Looked
  <2> QED BY <2>1, <2>2
<1>5. ASSUME NEW g \in Host, Storer(g)
      PROVE  msgbuf'[h][i] = msgbuf[h][i] /\ ~ (server'[h].at = "fill" /\ server'[h].place = i)
  <2>1. CASE StartStore(g) BY <1>4, <2>1, StoreTyped
  <2>2. CASE SearchPlace(g) BY <1>4, <2>2, SearchTyped
  <2>3. CASE FillPlace(g)
    <3>1. /\ server[g].at = "fill" /\ server'[g].at = "idle"
          /\ \A j \in Place : j # server[g].place => msgbuf'[g][j] = msgbuf[g][j]
          /\ \A f \in Host : f # g => msgbuf'[f] = msgbuf[f] /\ server'[f] = server[f]
      BY <2>3, FillTyped DEF Idle
    <3>2. CASE g = h BY <1>1, <3>1, <3>2
    <3>3. CASE g # h BY <1>1, <3>1, <3>3
    <3> QED BY <3>2, <3>3
  <2> QED BY <1>5, <2>1, <2>2, <2>3 DEF Storer
<1>6. ASSUME NEW g \in Host, Reader(g)
      PROVE  \/ msgbuf'[h][i] = msgbuf[h][i] /\ ~ (server'[h].at = "fill" /\ server'[h].place = i)
             \/ EndsScan(h) /\ recv[h].index = i
  <2>1. CASE ScanPlace(g) BY <1>1, <2>1 DEF ScanPlace
  <2>2. CASE TakeNothing(g) BY <1>1, <2>2 DEF TakeNothing
  <2>3. CASE TakePlace(g)
    <3>1. /\ recv[g].at = "scan" /\ recv'[g].at = "copy"
          /\ \A j \in Place : j # recv[g].index => msgbuf'[g][j] = msgbuf[g][j]
          /\ \A f \in Host : f # g => msgbuf'[f] = msgbuf[f]
      BY <2>3, TakeTyped
    <3>2. server' = server BY <2>3 DEF TakePlace
    <3>3. CASE g = h /\ recv[h].index = i BY <3>1, <3>3 DEF EndsScan
    <3>4. CASE ~ (g = h /\ recv[h].index = i) BY <1>1, <3>1, <3>2, <3>4
    <3> QED BY <3>3, <3>4
  <2> QED BY <1>6, <2>1, <2>2, <2>3 DEF Reader
<1> QED BY <1>2, <1>3, <1>5, <1>6, MailSteps

\* No step of the server or of the application loses a packet that has not been read:
\* msgrecvserver stores at free places only, and jia_recv frees the place it has chosen.
THEOREM UnreadIsKept == Spec => UnreadKept
<1>1. Inv /\ [Next]_vars =>
         [\A h \in Host : \A i \in Place : Unread(h, i) =>
             \/ Unread(h, i)' /\ msgbuf'[h][i] = msgbuf[h][i]
             \/ EndsScan(h) /\ recv[h].index = i]_mailbox
  <2> SUFFICES ASSUME Inv, [Next]_vars, NEW h \in Host, NEW i \in Place, Unread(h, i)
               PROVE  \/ Unread(h, i)' /\ msgbuf'[h][i] = msgbuf[h][i]
                      \/ EndsScan(h) /\ recv[h].index = i
    OBVIOUS
  <2>1. TypeNet /\ TypeBuf BY DEF Inv, TypeOK
  <2> QED BY <2>1, PlaceStep
<1> QED BY <1>1, Invariance, PTL DEF Spec, UnreadKept

\* jia_recv ends a scan when it has looked at all places.
LEMMA ScanEnds ==
    ASSUME TypeBuf, [Next]_vars, NEW h \in Host, EndsScan(h)
    PROVE  recv[h].at = "scan" /\ recv[h].place = Maxmsgbufs
<1>1. recv[h].at = "scan" /\ recv'[h].at \in {"copy", "done"} BY DEF EndsScan
<1>2. recv'[h] # recv[h] /\ recv'[h].at \notin {"none", "scan"} BY <1>1
<1>3. ~ Quietly BY <1>2 DEF Quietly
<1>4. ASSUME NEW g \in Host, Storer(g) PROVE FALSE
  BY <1>2, <1>4 DEF Storer, StartStore, SearchPlace, FillPlace
<1>5. ASSUME NEW g \in Host, Reader(g) PROVE recv[h].place = Maxmsgbufs
  <2>1. CASE ScanPlace(g)
    <3>1. PICK x \in RecvState : recv' = [recv EXCEPT ![g] = x] /\ x.at = "scan"
      BY <2>1, ScanStep DEF Looks
    <3> QED BY <1>2, <3>1, OneRecv
  <2>2. CASE TakePlace(g) BY <1>2, <2>2, TakeTyped
  <2>3. CASE TakeNothing(g) BY <1>2, <2>3, NothingTyped
  <2> QED BY <1>5, <2>1, <2>2, <2>3 DEF Reader
<1> QED BY <1>1, <1>3, <1>4, <1>5, MailSteps

\* Whatever msgrecvserver stores and numbers while nextpacket looks at one place after
\* the other, jia_recv takes no packet that came after one that was waiting for it,
\* for any number of places, any programs and any number written over msgseqno.
THEOREM WaitingPacketsFirst == Spec => WaitingNotOvertaken
<1>1. Inv /\ MailInv /\ [Next]_vars =>
         [\A h \in Host : \A i \in Place :
             EndsScan(h) /\ ~ recv[h].torn /\ Waits(h, i) =>
                /\ recv[h].index \in Place
                /\ msgbuf[h][recv[h].index].arrival <= msgbuf[h][i].arrival]_mailbox
  <2> SUFFICES ASSUME Inv, MailInv, [Next]_vars, NEW h \in Host, NEW i \in Place,
                      EndsScan(h), ~ recv[h].torn, Waits(h, i)
               PROVE  /\ recv[h].index \in Place
                      /\ msgbuf[h][recv[h].index].arrival <= msgbuf[h][i].arrival
    OBVIOUS
  <2>1. TypeBuf BY DEF Inv, TypeOK
  <2>2. Mail(msgbuf[h], server[h], msgseqno[h], arrivals[h], recv[h]) BY DEF MailInv, MailOf
  <2>3. MailTyped(msgbuf[h], msgseqno[h], arrivals[h], recv[h]) BY <2>1, TypedMail
  <2>4. recv[h].at = "scan" /\ recv[h].place = Maxmsgbufs BY <2>1, ScanEnds
  <2>5. UnreadIn(msgbuf[h], server[h], i) BY DEF Waits, Unread, Filling, UnreadIn
  <2>6. /\ Asked(msgbuf[h], server[h], recv[h], i)
        /\ Recent(msgbuf[h], server[h], arrivals[h], i)
        /\ msgbuf[h][i].seqno < Maxmsgno
    BY <2>3, <2>5 DEF Waits, Asked, Recent
  <2> QED BY <2>2, <2>3, <2>4, <2>6, OldestOfScan
<1> QED BY <1>1, MailInvariance, PTL DEF Spec, WaitingNotOvertaken
=============================================================================
