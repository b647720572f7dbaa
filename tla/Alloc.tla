------------------------------- MODULE Alloc -------------------------------
(***************************************************************************)
(* Allocation of shared memory (mem/memuser.c).  Every host makes the same *)
(* calls and keeps its own page table; no message is exchanged, so the     *)
(* hosts agree on the home of a page only because they compute the same.   *)
(* A call maps blocks on one host after the other until the total is       *)
(* reached; one step below is one block.                                   *)
(***************************************************************************)
EXTENDS Integers, Sequences, FiniteSets

CONSTANTS HostC, Pagesize, Homepages, Maxmempages,
          Programs,   \* sequences of calls the hosts may all make
          Rand,       \* what rand() returns after srand(0), one after the other
          MaxDraws    \* bound on the random numbers drawn between the calls

Host == 0 .. HostC - 1
PageNo == 0 .. Maxmempages - 1
NoHost == HostC    \* Maxhosts
NoAddr == Maxmempages

ASSUME AllocAssumption ==
    /\ HostC \in Nat \ {0} /\ Pagesize \in Nat \ {0} /\ Homepages \in Nat \ {0}
    /\ Maxmempages \in Nat /\ Maxmempages >= HostC * Homepages
    /\ Rand \in Seq(Nat) /\ MaxDraws \in Nat

VARIABLES
    prog,        \* calls still to be made
    pc,          \* "run", "loop" in a call, "asserted" after a failed jia_assert
    loop,        \* locals of the call: allocsize, homepid, blocki, blocks, origin, start, op
    globaladdr,  \* bytes allocated
    homesize,    \* hosts[].homesize, bytes per host
    page,        \* homepid and homei of each page
    home,        \* page of each home index
    starthost,   \* static variable of jia_alloc
    draws,       \* numbers drawn since srand(0), -1 before it
    done         \* history: the finished calls

\* One tuple component per host in each variable.
vars == <<prog, pc, loop, globaladdr, homesize, page, home, starthost, draws, done>>

\* initmem
Init ==
    /\ \E p \in Programs : prog = [h \in Host |-> p]
    /\ pc = [h \in Host |-> "run"]
    /\ loop = [h \in Host |-> <<>>]
    /\ globaladdr = [h \in Host |-> 0]
    /\ homesize = [h \in Host |-> [g \in Host |-> 0]]
    /\ page = [h \in Host |-> [p \in PageNo |-> [homepid |-> NoHost, homei |-> Homepages]]]
    /\ home = [h \in Host |-> [k \in 0 .. Homepages - 1 |-> NoAddr]]
    /\ starthost = [h \in Host |-> -1]
    /\ draws = [h \in Host |-> -1]
    /\ done = [h \in Host |-> <<>>]

\* ALIGN2PAGE
Align(size) == IF size % Pagesize = 0 THEN size ELSE (size \div Pagesize + 1) * Pagesize

-----------------------------------------------------------------------------
\* The calls: sizes are positive (with a block of size 0 the loop may never end), the
\* first host is one of the program, and jia_alloc_array gets at most one size per
\* host, which it asserts.
Bytes == Nat \ {0}
Blocks == Seq(Bytes) \ {<<>>}
AllocCall ==
    [op : {"alloc3"}, total : Bytes, block : Bytes, start : Host]
    \cup [op : {"alloc4"}, total : Bytes, blocks : Blocks, start : Host]
    \cup [op : {"alloc", "random"}, total : Bytes]
    \cup [op : {"array"}, total : Bytes, array : {a \in Blocks : Len(a) <= HostC}]

Call(h) == Head(prog[h])
Calls(h, op) == pc[h] = "run" /\ prog[h] # <<>> /\ Call(h).op = op

\* A call up to its loop.
Begin(h, op, total, blocks, start) ==
    /\ IF globaladdr[h] + total > Maxmempages * Pagesize
       THEN pc' = [pc EXCEPT ![h] = "asserted"] /\ UNCHANGED loop
       ELSE /\ pc' = [pc EXCEPT ![h] = "loop"]
            /\ loop' = [loop EXCEPT ![h] =
                  [allocsize |-> Align(total), homepid |-> start, blocki |-> 0, op |-> op,
                   blocks |-> blocks, origin |-> globaladdr[h], start |-> start,
                   total |-> total]]
    /\ UNCHANGED <<prog, globaladdr, homesize, page, home, done>>

\* jia_alloc3 is jia_alloc4 with one block size.
jia_alloc3(h) ==
    /\ Calls(h, "alloc3")
    /\ Begin(h, "alloc4", Call(h).total, <<Call(h).block>>, Call(h).start)
    /\ UNCHANGED <<starthost, draws>>

jia_alloc4(h) ==
    /\ Calls(h, "alloc4")
    /\ Begin(h, "alloc4", Call(h).total, Call(h).blocks, Call(h).start)
    /\ UNCHANGED <<starthost, draws>>

NextStart(h) == (starthost[h] + 1) % HostC

jia_alloc(h) ==
    /\ Calls(h, "alloc")
    /\ starthost' = [starthost EXCEPT ![h] = NextStart(h)]
    /\ Begin(h, "alloc4", Call(h).total, <<Call(h).total>>, NextStart(h))
    /\ UNCHANGED draws

\* srand(0) at the first call.
jia_alloc_random(h) ==
    /\ Calls(h, "random")
    /\ LET n == IF draws[h] = -1 THEN 0 ELSE draws[h]
       IN  /\ n < Len(Rand)
           /\ draws' = [draws EXCEPT ![h] = n + 1]
           /\ Begin(h, "alloc4", Call(h).total, <<Call(h).total>>, Rand[n + 1] % HostC)
    /\ UNCHANGED starthost

jia_alloc_array(h) ==
    /\ Calls(h, "array")
    /\ Begin(h, "array", Call(h).total, Call(h).array, 0)
    /\ UNCHANGED <<starthost, draws>>

jia_alloc2(size, block) == [op |-> "alloc3", total |-> size, block |-> block, start |-> 0]
jia_alloc2p(size, start) == [op |-> "alloc3", total |-> size, block |-> size, start |-> start]

\* The home index of page p of the block being mapped.
HomeIndex(h, p) == homesize[h][h] \div Pagesize + p - globaladdr[h] \div Pagesize

\* Faulty variant: the next block size is taken at every block.
NextBlockiEach(l, next, size) == (l.blocki + 1) % Len(l.blocks)

\* jia_alloc4 takes the next block size when it is back at host 0.
\* jia_alloc_array uses i for the bytes of the block as well: it is the size of
\* the block when it is incremented.
NextBlocki(l, next, size) ==
    IF l.op = "array" THEN (size + 1) % Len(l.blocks)
    ELSE IF next = 0 THEN (l.blocki + 1) % Len(l.blocks) ELSE l.blocki

\* One iteration of the loop.  Only the home checks that it has room, and only
\* the home sets home[].addr and homei - jia_alloc_array never does.
MapBlock(h) ==
    /\ pc[h] = "loop" /\ loop[h].allocsize > 0
    /\ LET l == loop[h]
           size == Align(l.blocks[l.blocki + 1])
           block == globaladdr[h] \div Pagesize .. (globaladdr[h] + size) \div Pagesize - 1
           next == (l.homepid + 1) % HostC
           indexes == l.homepid = h /\ l.op # "array"
       IN  IF l.homepid = h /\ homesize[h][h] + size >= Homepages * Pagesize
           THEN pc' = [pc EXCEPT ![h] = "asserted"]
                /\ UNCHANGED <<page, home, homesize, globaladdr, loop>>
           ELSE /\ page' = [page EXCEPT ![h] = [p \in PageNo |->
                      IF p \notin block THEN @[p]
                      ELSE [homepid |-> l.homepid,
                            homei |-> IF indexes THEN HomeIndex(h, p) ELSE @[p].homei]]]
                /\ home' = [home EXCEPT ![h] = [k \in DOMAIN @ |->
                      IF indexes /\ \E p \in block : HomeIndex(h, p) = k
                      THEN CHOOSE p \in block : HomeIndex(h, p) = k ELSE @[k]]]
                /\ homesize' = [homesize EXCEPT ![h][l.homepid] = @ + size]
                /\ globaladdr' = [globaladdr EXCEPT ![h] = @ + size]
                /\ loop' = [loop EXCEPT ![h] =
                      [l EXCEPT !.allocsize = @ - size, !.homepid = next,
                                !.blocki = NextBlocki(l, next, size)]]
                /\ UNCHANGED pc
    /\ UNCHANGED <<prog, starthost, draws, done>>

Return(h) ==
    /\ pc[h] = "loop" /\ loop[h].allocsize <= 0
    /\ pc' = [pc EXCEPT ![h] = "run"]
    /\ prog' = [prog EXCEPT ![h] = Tail(@)]
    /\ done' = [done EXCEPT ![h] = Append(@,
          [op |-> loop[h].op, total |-> loop[h].total, blocks |-> loop[h].blocks,
           start |-> loop[h].start, origin |-> loop[h].origin, end |-> globaladdr[h]])]
    /\ UNCHANGED <<loop, globaladdr, homesize, page, home, starthost, draws>>

\* replacei draws with random(), whose state is the one of rand(), when the
\* application faults on a page that is not cached.
replacei(h) ==
    /\ pc[h] = "run" /\ prog[h] # <<>> /\ draws[h] \in 0 .. MaxDraws - 1
    /\ draws' = [draws EXCEPT ![h] = @ + 1]
    /\ UNCHANGED <<prog, pc, loop, globaladdr, homesize, page, home, starthost, done>>

\* What the allocation calls do; Migration has the rest of the program.
Next ==
    \E h \in Host :
        \/ jia_alloc3(h) \/ jia_alloc4(h) \/ jia_alloc(h) \/ jia_alloc_random(h)
        \/ jia_alloc_array(h) \/ MapBlock(h) \/ Return(h) \/ replacei(h)

-----------------------------------------------------------------------------
Mapped(h) == 0 .. globaladdr[h] \div Pagesize - 1

NoArrays(h) ==
    /\ loop[h] # <<>> => loop[h].op # "array"
    /\ \A i \in 1 .. Len(done[h]) : done[h][i].op # "array"

\* Reference placement: block k of a call is on host (start + k) % hostc and has
\* the block size of the loop over the hosts it belongs to.
SizeOf(d, k) == Align(d.blocks[(((d.start + k) \div HostC) % Len(d.blocks)) + 1])
Offset(d) ==
    LET o[k \in Nat] == IF k = 0 THEN 0 ELSE o[k - 1] + SizeOf(d, k - 1)
    IN  o

\* A finished jia_alloc3 or jia_alloc4 has placed every block by the reference
\* placement and stopped with the first block that reaches the total.
CyclicPlacement ==
    \A h \in Host : \A i \in 1 .. Len(done[h]) :
        LET d == done[h][i]
            Block(k) == {p \in PageNo : p * Pagesize - d.origin
                                          \in Offset(d)[k] .. Offset(d)[k + 1] - 1}
        IN  d.op = "alloc4" =>
              \E n \in 1 .. Maxmempages :
                 /\ d.end = d.origin + Offset(d)[n] /\ Offset(d)[n - 1] < d.total
                 /\ d.total <= Offset(d)[n]
                 /\ \A k \in 0 .. n - 1 : \A p \in Block(k) :
                       page[h][p].homepid = (d.start + k) % HostC
=============================================================================
