-------------------------------- MODULE Dsm --------------------------------
(***************************************************************************)
(* The home-based, lock-based coherence protocol of M-JIAJIA: the          *)
(* synchronisation calls (jia_lock, jia_unlock, jia_barrier), the page     *)
(* faults of the application, and every message handler they rely on, with *)
(* the default optimisations (home migration, adaptive write detection,    *)
(* write vectors, tree broadcast and prefetching all OFF, as inittools     *)
(* leaves them).                                                           *)
(*                                                                         *)
(* A host runs four threads.  The application thread executes prog[h] and  *)
(* spins in the calls that wait; the server thread executes the handler of *)
(* the head of inq[h]; the client and listen threads move the head of      *)
(* outq[h] to the destination's inq (stop-and-wait, see UdpLink).  Page    *)
(* contents are version numbers of the words of a page.                    *)
(***************************************************************************)
EXTENDS Integers, Sequences, FiniteSets

CONSTANTS HostC,       \* system_setting.hostc
          Maxhosts,    \* "from" of a page that several hosts modified
          Maxlocks,    \* the id of the hidden lock of barriers (hidelock)
          Locks,       \* lock ids the programs use
          Pages,       \* shared pages
          Words,       \* shared words
          PageOf,      \* the page of a word
          HomeOf,      \* homehost(page)
          Guard,       \* the lock that guards a word, hidelock for none
          MaxNotices,  \* write notices that fit in one message
          Programs     \* the programs the hosts may run

Host == 0 .. HostC - 1
hidelock == Maxlocks
LockIds == Locks \cup {hidelock}
SyncOps == {"lock", "unlock", "barrier"}
Call == [op : {"lock", "unlock"}, lock : Locks] \cup [op : {"barrier"}, lock : {hidelock}]
        \cup [op : {"read", "write"}, word : Words]

ASSUME HostAssumption ==
    HostC \in Nat /\ HostC > 1 /\ Maxhosts \in Nat /\ HostC <= Maxhosts
ASSUME LockAssumption ==
    Maxlocks \in Nat /\ Locks \subseteq 0 .. Maxlocks - 1
ASSUME MemoryAssumption ==
    /\ Pages \subseteq Nat
    /\ IsFiniteSet(Pages)
    /\ PageOf \in [Words -> Pages]
    /\ HomeOf \in [Pages -> Host]
    /\ Guard \in [Words -> LockIds]
    /\ MaxNotices \in Nat \ {0}
ASSUME ProgramAssumption ==
    Programs \subseteq [Host -> Seq(Call)]

VARIABLES
    prog,          \* calls the application thread still has to make
    pc,            \* what the application thread is doing in the first of them
    wait,          \* acqwait, barrwait, getpwait and diffwait
    stack,         \* lockstack: lock ids and the notices of their intervals
    cache,         \* cache[].state of a remote page (wtnt == 1 iff RW)
    store,         \* the words in the host's frame of each page
    twin,          \* the words of the twins
    home,          \* home[]: wtnt bit 0, rdnt, and the page protection
    locks,         \* locks[] at the manager: acqs, acqscope, scope, wtntp
    acqc,          \* locks[hidelock].acqc
    myscope,       \* locks[].myscope at each host
    noclearlocks,
    patching,      \* page a diffserver is patching, between its two mprotects
    outq, inq,
    latest,        \* history: the last version written of each word
    atbarr         \* history: latest when the last barrier completed

mainVars == <<prog, pc, stack>>
memVars == <<cache, store, twin, home>>
synVars == <<locks, acqc, myscope, noclearlocks>>
netVars == <<outq, inq>>
ghostVars == <<latest, atbarr>>
vars == <<mainVars, wait, memVars, synVars, patching, netVars, ghostVars>>

CacheState == {"UNMAP", "INV", "RO", "RW"}
NoPage == -1

(***************************************************************************)
(* Write notices and messages.                                             *)
(***************************************************************************)
Notice == [page : Pages, from : Nat, scope : Int]

SyncMsg == [op : {"ACQ"}, frompid : Host, topid : Host, lock : Locks, scope : Int]
WtntMsg == [op : {"REL", "BARR", "WTNT"}, frompid : Host, topid : Host,
            lock : LockIds, scope : Int, wtnts : SUBSET Pages]
GrantMsg == [op : {"ACQGRANT", "BARRGRANT", "INVLD"}, frompid : Host, topid : Host,
             lock : LockIds, scope : Int, wtnts : SUBSET [page : Pages, from : Nat]]
GetpMsg == [op : {"GETP"}, frompid : Host, topid : Host, page : Pages]
GetpGrantMsg == [op : {"GETPGRANT"}, frompid : Host, topid : Host, page : Pages,
                 data : [Words -> Nat]]
DiffMsg == [op : {"DIFF"}, frompid : Host, topid : Host, pages : SUBSET Pages,
            words : SUBSET Words, data : [Words -> Nat]]
DiffGrantMsg == [op : {"DIFFGRANT"}, frompid : Host, topid : Host]
Message == SyncMsg \cup WtntMsg \cup GrantMsg \cup GetpMsg \cup GetpGrantMsg
           \cup DiffMsg \cup DiffGrantMsg

\* lock % hostc: the host that manages a lock.
Manager(l) == l % HostC

WordsOf(p) == {w \in Words : PageOf[w] = p}
HomePages(h) == {p \in Pages : HomeOf[p] = h}

\* Faulty variant: the last writer instead of Maxhosts.
SaveWtntsLastWriter(list, pages, from, scope) ==
    {n \in list : n.page \notin pages} \cup
    {[page |-> p, scope |-> scope, from |-> from] : p \in pages}

\* savewtnt for each page of a message: a page already in the list is marked
\* as modified by several hosts, whoever modified it before.
SaveWtnts(list, pages, from, scope) ==
    {n \in list : n.page \notin pages} \cup
    {[page |-> p, scope |-> scope,
      from |-> IF \E n \in list : n.page = p THEN Maxhosts ELSE from] : p \in pages}

\* A list that does not fit in one message is cut into several, in list order.
NumChunks(n) == IF n = 0 THEN 1 ELSE (n + MaxNotices - 1) \div MaxNotices
\* Faulty variant: each message is one notice short.
PageChunkShort(pages, i) ==
    {p \in pages : LET rank == Cardinality({q \in pages : q <= p})
                   IN  (i - 1) * MaxNotices < rank /\ rank < i * MaxNotices}
PageChunk(pages, i) ==
    {p \in pages : LET rank == Cardinality({q \in pages : q <= p})
                   IN  (i - 1) * MaxNotices < rank /\ rank <= i * MaxNotices}
NoticeChunk(list, i) == {n \in list : n.page \in PageChunk({m.page : m \in list}, i)}

Send(h, msgs) == outq' = [outq EXCEPT ![h] = @ \o msgs]
Receive(h) == inq' = [inq EXCEPT ![h] = Tail(@)]
Top(h) == stack[h][Len(stack[h])]
CallOf(h) == Head(prog[h])
Return(h) == prog' = [prog EXCEPT ![h] = Tail(@)]
Goto(h, label) == pc' = [pc EXCEPT ![h] = label]
InCall(h, label, op) == pc[h] = label /\ prog[h] # <<>> /\ CallOf(h).op = op
Holds(h, l) == \E i \in 1 .. Len(stack[h]) : stack[h][i].lockid = l

Init ==
    /\ prog \in Programs
    /\ pc = [h \in Host |-> "run"]
    /\ wait = [h \in Host |-> [acq |-> FALSE, barr |-> FALSE, getp |-> FALSE, diff |-> 0]]
    /\ stack = [h \in Host |-> <<[lockid |-> hidelock, wtnts |-> {}]>>]
    /\ cache = [h \in Host |-> [p \in Pages |-> "UNMAP"]]
    /\ store = [h \in Host |-> [w \in Words |-> 0]]
    /\ twin = [h \in Host |-> [w \in Words |-> 0]]
    /\ home = [p \in Pages |-> [wtnt |-> FALSE, rdnt |-> FALSE, rw |-> FALSE]]
    /\ locks = [l \in LockIds |-> [acqs |-> <<>>, scope |-> 0, wtnts |-> {}]]
    /\ acqc = 0
    /\ myscope = [h \in Host |-> [l \in LockIds |-> -1]]
    /\ noclearlocks = [h \in Host |-> FALSE]
    /\ patching = [h \in Host |-> NoPage]
    /\ outq = [h \in Host |-> <<>>]
    /\ inq = [h \in Host |-> <<>>]
    /\ latest = [w \in Words |-> 0]
    /\ atbarr = [w \in Words |-> 0]

-----------------------------------------------------------------------------
(***************************************************************************)
(* The application thread: memory accesses and page faults.                *)
(***************************************************************************)
Accesses(h) == pc[h] = "run" /\ prog[h] # <<>> /\ CallOf(h).op \in {"read", "write"}
AccessPage(h) == PageOf[CallOf(h).word]
Writes(h) == CallOf(h).op = "write"
AtHome(h) == HomeOf[AccessPage(h)] = h

\* The page is mapped with the permission the access needs.
Permitted(h) ==
    IF AtHome(h) THEN Writes(h) => home[AccessPage(h)].rw
    ELSE cache[h][AccessPage(h)] \in (IF Writes(h) THEN {"RW"} ELSE {"RO", "RW"})

ReadWord(h) ==
    /\ Accesses(h) /\ ~Writes(h) /\ Permitted(h)
    /\ Return(h)
    /\ UNCHANGED <<pc, stack, wait, memVars, synVars, patching, netVars, ghostVars>>

WriteWord(h) ==
    /\ Accesses(h) /\ Writes(h) /\ Permitted(h)
    /\ LET w == CallOf(h).word IN
       /\ latest' = [latest EXCEPT ![w] = @ + 1]
       /\ store' = [store EXCEPT ![h][w] = latest[w] + 1]
    /\ Return(h)
    /\ UNCHANGED <<pc, stack, wait, cache, twin, home, synVars, patching, netVars, atbarr>>

\* sigsegv_handler, page homed here: writable from now on, and noted.
SegvHome(h) ==
    /\ Accesses(h) /\ ~Permitted(h) /\ AtHome(h)
    /\ home' = [home EXCEPT ![AccessPage(h)].rw = TRUE, ![AccessPage(h)].wtnt = TRUE]
    /\ UNCHANGED <<mainVars, wait, cache, store, twin, synVars, patching, netVars, ghostVars>>

\* Faulty variant: a page fetched again stays invalid.
FetchedStateInvalid(h) == IF cache[h][AccessPage(h)] = "UNMAP" THEN "RO" ELSE "INV"

\* sigsegv_handler, remote page.  Only an unmapped page faults with
\* writefault == 0; any access to an invalidated page counts as a write.
FetchedState(h) == IF cache[h][AccessPage(h)] = "UNMAP" THEN "RO" ELSE "RW"

SegvFetch(h) ==
    /\ Accesses(h) /\ ~AtHome(h) /\ cache[h][AccessPage(h)] \in {"UNMAP", "INV"}
    /\ cache' = [cache EXCEPT ![h][AccessPage(h)] = FetchedState(h)]
    /\ wait' = [wait EXCEPT ![h].getp = TRUE]
    /\ Goto(h, "getpwait")
    /\ Send(h, <<[op |-> "GETP", frompid |-> h, topid |-> HomeOf[AccessPage(h)],
                  page |-> AccessPage(h)]>>)
    /\ UNCHANGED <<prog, stack, store, twin, home, synVars, patching, inq, ghostVars>>

\* The end of the handler, after the spin on getpwait: a writable page gets
\* its twin.
TakeTwin(h, p) ==
    [twin EXCEPT ![h] = [w \in Words |-> IF w \in WordsOf(p) THEN store[h][w] ELSE @[w]]]

SegvFetched(h) ==
    /\ pc[h] = "getpwait" /\ ~wait[h].getp
    /\ twin' = IF cache[h][AccessPage(h)] = "RW" THEN TakeTwin(h, AccessPage(h)) ELSE twin
    /\ Goto(h, "run")
    /\ UNCHANGED <<prog, stack, wait, cache, store, home, synVars, patching, netVars, ghostVars>>

\* sigsegv_handler, write to a read-only cached page: no message is needed.
SegvUpgrade(h) ==
    /\ Accesses(h) /\ ~AtHome(h) /\ Writes(h) /\ cache[h][AccessPage(h)] = "RO"
    /\ cache' = [cache EXCEPT ![h][AccessPage(h)] = "RW"]
    /\ twin' = TakeTwin(h, AccessPage(h))
    /\ UNCHANGED <<mainVars, wait, store, home, synVars, patching, netVars, ghostVars>>

-----------------------------------------------------------------------------
(***************************************************************************)
(* The application thread: intervals.                                      *)
(***************************************************************************)
Dirty(h) == {p \in Pages : cache[h][p] = "RW"}

\* savediff/encodediff: the words of the dirty pages homed at g that differ
\* from their twin, one DIFF message per home (senddiffs).
DiffTo(h, g) ==
    LET pages == {p \in Dirty(h) : HomeOf[p] = g}
        words == {w \in Words : PageOf[w] \in pages /\ store[h][w] # twin[h][w]}
    IN  [op |-> "DIFF", frompid |-> h, topid |-> g, pages |-> pages, words |-> words,
         data |-> [w \in Words |-> IF w \in words THEN store[h][w] ELSE 0]]

\* Faulty variant: the home's own writes are forgotten.
SharedWritesForgotten(h) == {}

\* Home pages this host wrote in the interval and some host may have a copy of.
SharedWrites(h) == {p \in HomePages(h) : home[p].wtnt /\ home[p].rdnt}

\* The assertions at the start of the calls: no lock twice, unlock in pairs, no
\* barrier in a critical section.  A program that breaks one exits.
Legal(h) ==
    \/ CallOf(h).op = "lock" /\ ~Holds(h, CallOf(h).lock)
    \/ CallOf(h).op = "unlock" /\ Top(h).lockid = CallOf(h).lock
    \/ CallOf(h).op = "barrier" /\ Len(stack[h]) = 1

\* endinterval forgets the readers of a home page at a barrier only: its
\* notice invalidates every copy.
ResetsRdnt(h) == CallOf(h).op = "barrier"

\* endinterval up to its spin on diffwait.
EndInterval(h) ==
    /\ pc[h] = "run" /\ prog[h] # <<>> /\ CallOf(h).op \in SyncOps /\ Legal(h)
    /\ \E dests \in [1 .. Cardinality({HomeOf[p] : p \in Dirty(h)}) -> {HomeOf[p] : p \in Dirty(h)}] :
          /\ \A i, j \in DOMAIN dests : i < j => dests[i] < dests[j]
          /\ Send(h, [i \in DOMAIN dests |-> DiffTo(h, dests[i])])
          /\ wait' = [wait EXCEPT ![h].diff = Cardinality(DOMAIN dests)]
    /\ stack' = [stack EXCEPT ![h][Len(stack[h])].wtnts = @ \cup Dirty(h) \cup SharedWrites(h)]
    /\ home' = [p \in Pages |-> IF ResetsRdnt(h) /\ p \in SharedWrites(h)
                                THEN [home[p] EXCEPT !.rdnt = FALSE] ELSE home[p]]
    /\ Goto(h, "diffwait")
    /\ UNCHANGED <<prog, cache, store, twin, synVars, patching, inq, ghostVars>>

\* startinterval: what was written becomes read-only again, twins are freed.
StartInterval(h) ==
    /\ cache' = [cache EXCEPT ![h] = [p \in Pages |-> IF @[p] = "RW" THEN "RO" ELSE @[p]]]
    /\ twin' = [twin EXCEPT ![h] = [w \in Words |-> 0]]
    /\ home' = [p \in Pages |-> IF HomeOf[p] = h /\ home[p].wtnt
                                THEN [home[p] EXCEPT !.wtnt = FALSE, !.rw = FALSE]
                                ELSE home[p]]

\* sendwtnts: the notices of the top of the stack, in WTNT messages and a
\* last message op.
SendWtnts(h, op) ==
    LET l == Top(h).lockid
        n == NumChunks(Cardinality(Top(h).wtnts))
    IN  Send(h, [i \in 1 .. n |->
                   [op |-> IF i < n THEN "WTNT" ELSE op, frompid |-> h, topid |-> Manager(l),
                    lock |-> l, scope |-> myscope[h][l], wtnts |-> PageChunk(Top(h).wtnts, i)]])

-----------------------------------------------------------------------------
(***************************************************************************)
(* The application thread: jia_lock, jia_unlock and jia_barrier.  Each     *)
(* starts with EndInterval.                                                *)
(***************************************************************************)
DiffsDone(h, op) == InCall(h, "diffwait", op) /\ wait[h].diff = 0

Acquire(h) ==
    /\ DiffsDone(h, "lock")
    /\ wait' = [wait EXCEPT ![h].acq = TRUE]
    /\ LET l == CallOf(h).lock
       IN  Send(h, <<[op |-> "ACQ", frompid |-> h, topid |-> Manager(l), lock |-> l,
                      scope |-> myscope[h][l]]>>)
    /\ Goto(h, "acqwait")
    /\ UNCHANGED <<prog, stack, memVars, synVars, patching, inq, ghostVars>>

\* Faulty variant: jia_lock does not wait for the grant.
AcqDoneAtOnce(h) == TRUE

\* The spin on acqwait ends.
AcqDone(h) == ~wait[h].acq

\* jia_lock after the spin.
Acquired(h) ==
    /\ InCall(h, "acqwait", "lock") /\ AcqDone(h)
    /\ StartInterval(h)
    /\ stack' = [stack EXCEPT ![h] = Append(@, [lockid |-> CallOf(h).lock, wtnts |-> {}])]
    /\ Return(h)
    /\ Goto(h, "run")
    /\ UNCHANGED <<wait, store, synVars, patching, netVars, ghostVars>>

\* popstack: the notices of the popped interval join those of the new top.
PopStack(h) ==
    LET below == SubSeq(stack[h], 1, Len(stack[h]) - 1)
    IN  stack' = [stack EXCEPT ![h] =
                    [below EXCEPT ![Len(below)].wtnts = @ \cup Top(h).wtnts]]

Release(h) ==
    /\ DiffsDone(h, "unlock")
    /\ SendWtnts(h, "REL")
    /\ StartInterval(h)
    /\ PopStack(h)
    /\ Return(h)
    /\ Goto(h, "run")
    /\ UNCHANGED <<wait, store, synVars, patching, inq, ghostVars>>

BarrierArrive(h) ==
    /\ DiffsDone(h, "barrier")
    /\ wait' = [wait EXCEPT ![h].barr = TRUE]
    /\ SendWtnts(h, "BARR")
    /\ stack' = [stack EXCEPT ![h][Len(stack[h])].wtnts = {}]
    /\ Goto(h, "barrwait")
    /\ UNCHANGED <<prog, memVars, synVars, patching, inq, ghostVars>>

\* jia_barrier after the spin on barrwait.
BarrierLeave(h) ==
    /\ InCall(h, "barrwait", "barrier") /\ ~wait[h].barr
    /\ StartInterval(h)
    /\ Return(h)
    /\ Goto(h, "run")
    /\ UNCHANGED <<stack, wait, store, synVars, patching, netVars, ghostVars>>

-----------------------------------------------------------------------------
(***************************************************************************)
(* The client and listen threads: the head of the out queue reaches the    *)
(* in queue of its destination before the next message leaves.             *)
(***************************************************************************)
Transfer(h) ==
    /\ outq[h] # <<>>
    /\ outq' = [outq EXCEPT ![h] = Tail(@)]
    /\ inq' = [inq EXCEPT ![Head(outq[h]).topid] = Append(@, Head(outq[h]))]
    /\ UNCHANGED <<mainVars, wait, memVars, synVars, patching, ghostVars>>

-----------------------------------------------------------------------------
(***************************************************************************)
(* The server thread: the handler of the head of the in queue.             *)
(***************************************************************************)
Req(h) == Head(inq[h])
Handles(h, op) == inq[h] # <<>> /\ Req(h).op = op

\* Faulty variants: a notice too few, and the acquirer's own notices.
GrantNoticesLate(lk, a) ==
    {[page |-> n.page, from |-> n.from] :
        n \in {m \in lk.wtnts : m.scope > a.scope + 1 /\ HomeOf[m.page] # a.pid}}

\* grantlock: what changed under the lock since the acquirer last held it,
\* except the pages it is home of.
GrantNotices(lk, a) ==
    {[page |-> n.page, from |-> n.from] :
        n \in {m \in lk.wtnts : m.scope > a.scope /\ HomeOf[m.page] # a.pid}}

GrantMsgs(h, l, lk, a) ==
    LET list == GrantNotices(lk, a)
        n == NumChunks(Cardinality(list))
    IN  [i \in 1 .. n |->
           [op |-> IF i < n THEN "INVLD" ELSE "ACQGRANT", frompid |-> h, topid |-> a.pid,
            lock |-> l, scope |-> lk.scope, wtnts |-> NoticeChunk(list, i)]]

AcqServer(h) ==
    /\ Handles(h, "ACQ")
    /\ LET l == Req(h).lock
           lk == [locks[l] EXCEPT !.acqs = Append(@, [pid |-> Req(h).frompid,
                                                      scope |-> Req(h).scope])]
       IN  /\ locks' = [locks EXCEPT ![l] = lk]
           /\ IF Len(lk.acqs) = 1 THEN Send(h, GrantMsgs(h, l, lk, Head(lk.acqs)))
                                  ELSE UNCHANGED outq
    /\ Receive(h)
    /\ UNCHANGED <<mainVars, wait, memVars, acqc, myscope, noclearlocks, patching, ghostVars>>

\* a > b on the values converted to unsigned int; both are at least -1.
UnsignedGreater(a, b) == b >= 0 /\ (a < 0 \/ a > b)

\* recordwtnts
RecordWtnts(lk, m) == [lk EXCEPT !.wtnts = SaveWtnts(@, m.wtnts, m.frompid, lk.scope)]

\* Faulty variants: the scope counts down, the last acquirer leaves.
NextScopeDown(s) == s - 1
DequeuedLast(acqs) == SubSeq(acqs, 1, Len(acqs) - 1)

\* relserver and barrserver count the scopes of a lock; relserver removes the
\* head of its acquirers.
NextScope(s) == s + 1
Dequeued(acqs) == Tail(acqs)

RelServer(h) ==
    /\ Handles(h, "REL")
    /\ LET l == Req(h).lock
           lk == [RecordWtnts(locks[l], Req(h)) EXCEPT !.scope = NextScope(@), !.acqs = Dequeued(@)]
       IN  /\ noclearlocks' = [noclearlocks EXCEPT ![h] =
                 @ \/ UnsignedGreater(Req(h).scope, myscope[h][hidelock])]
           /\ locks' = [locks EXCEPT ![l] = lk]
           /\ IF lk.acqs # <<>> THEN Send(h, GrantMsgs(h, l, lk, Head(lk.acqs)))
                               ELSE UNCHANGED outq
    /\ Receive(h)
    /\ UNCHANGED <<mainVars, wait, memVars, acqc, myscope, patching, ghostVars>>

WtntServer(h) ==
    /\ Handles(h, "WTNT")
    /\ locks' = [locks EXCEPT ![Req(h).lock] = RecordWtnts(@, Req(h))]
    /\ Receive(h)
    /\ UNCHANGED <<mainVars, wait, memVars, acqc, myscope, noclearlocks, patching,
                   outq, ghostVars>>

\* invalidate: cached copies of the pages another host modified, unless this
\* host is their home.
Invalidate(h, list) ==
    cache' = [cache EXCEPT ![h] = [p \in Pages |->
                IF @[p] # "UNMAP" /\ HomeOf[p] # h /\ \E n \in list : n.page = p /\ n.from # h
                THEN "INV" ELSE @[p]]]

InvServer(h) ==
    /\ Handles(h, "INVLD")
    /\ Invalidate(h, Req(h).wtnts)
    /\ Receive(h)
    /\ UNCHANGED <<mainVars, wait, store, twin, home, synVars, patching, outq, ghostVars>>

AcqGrantServer(h) ==
    /\ Handles(h, "ACQGRANT")
    /\ Invalidate(h, Req(h).wtnts)
    /\ myscope' = [myscope EXCEPT ![h][Req(h).lock] = Req(h).scope]
    /\ wait' = [wait EXCEPT ![h].acq = FALSE]
    /\ Receive(h)
    /\ UNCHANGED <<mainVars, store, twin, home, locks, acqc, noclearlocks, patching,
                   outq, ghostVars>>

\* grantbarr and broadcast: every part of the notice list to hosts 0, 1, ...
BarrGrantMsgs(h, lk) ==
    LET list == {[page |-> n.page, from |-> n.from] : n \in lk.wtnts}
        n == NumChunks(Cardinality(list))
    IN  [i \in 1 .. n * HostC |->
           LET part == (i - 1) \div HostC + 1
           IN  [op |-> IF part < n THEN "INVLD" ELSE "BARRGRANT", frompid |-> h,
                topid |-> (i - 1) % HostC, lock |-> hidelock, scope |-> lk.scope,
                wtnts |-> NoticeChunk(list, part)]]

\* Faulty variant: one arrival is not waited for.
LastArrivalEarly == acqc + 1 >= HostC - 1

\* All hosts have arrived with this one.
LastArrival == acqc + 1 = HostC

BarrServer(h) ==
    /\ Handles(h, "BARR")
    /\ LET lk == RecordWtnts(locks[hidelock], Req(h))
           full == [lk EXCEPT !.scope = NextScope(@)]
       IN  IF LastArrival
           THEN /\ Send(h, BarrGrantMsgs(h, full))
                /\ locks' = [locks EXCEPT ![hidelock] = [full EXCEPT !.wtnts = {}]]
                /\ acqc' = 0
                /\ atbarr' = latest
           ELSE /\ locks' = [locks EXCEPT ![hidelock] = lk]
                /\ acqc' = acqc + 1
                /\ UNCHANGED <<outq, atbarr>>
    /\ Receive(h)
    /\ UNCHANGED <<mainVars, wait, memVars, myscope, noclearlocks, patching, latest>>

\* clearlocks: the notices of the locks managed here.
ClearLocks(h) ==
    locks' = [l \in LockIds |-> IF l # hidelock /\ Manager(l) = h
                                THEN [locks[l] EXCEPT !.wtnts = {}] ELSE locks[l]]

BarrGrantServer(h) ==
    /\ Handles(h, "BARRGRANT")
    /\ IF noclearlocks[h] THEN UNCHANGED locks ELSE ClearLocks(h)
    /\ Invalidate(h, Req(h).wtnts)
    /\ myscope' = [myscope EXCEPT ![h][hidelock] = Req(h).scope]
    /\ wait' = [wait EXCEPT ![h].barr = FALSE]
    /\ noclearlocks' = [noclearlocks EXCEPT ![h] = FALSE]
    /\ Receive(h)
    /\ UNCHANGED <<mainVars, store, twin, home, acqc, patching, outq, ghostVars>>

GetpServer(h) ==
    /\ Handles(h, "GETP")
    /\ LET p == Req(h).page IN
       /\ home' = [home EXCEPT ![p].rdnt = TRUE]
       /\ Send(h, <<[op |-> "GETPGRANT", frompid |-> h, topid |-> Req(h).frompid, page |-> p,
                     data |-> [w \in Words |-> IF w \in WordsOf(p) THEN store[h][w] ELSE 0]]>>)
    /\ Receive(h)
    /\ UNCHANGED <<mainVars, wait, cache, store, twin, synVars, patching, ghostVars>>

GetpGrantServer(h) ==
    /\ Handles(h, "GETPGRANT")
    /\ store' = [store EXCEPT ![h] = [w \in Words |->
                    IF w \in WordsOf(Req(h).page) THEN Req(h).data[w] ELSE @[w]]]
    /\ wait' = [wait EXCEPT ![h].getp = FALSE]
    /\ Receive(h)
    /\ UNCHANGED <<mainVars, cache, twin, home, synVars, patching, outq, ghostVars>>

\* diffserver, first half for one page of the message: make the page writable
\* unless the application thread already has.
DiffServerOpen(h) ==
    /\ Handles(h, "DIFF") /\ patching[h] = NoPage
    /\ \E p \in Req(h).pages :
          /\ patching' = [patching EXCEPT ![h] = p]
          /\ home' = [home EXCEPT ![p].rw = @ \/ ~home[p].wtnt]
    /\ UNCHANGED <<mainVars, wait, cache, store, twin, synVars, netVars, ghostVars>>

\* diffserver, second half: copy the words; if the application thread has made
\* the page read-only meanwhile the copy faults and sigsegv_handler notes a
\* write of this host; then revoke the permission unless the page is noted.
DiffServerPatch(h) ==
    /\ patching[h] # NoPage
    /\ LET p == patching[h]
           noted == home[p].wtnt \/ ~home[p].rw
           rest == Req(h).pages \ {p}
       IN  /\ store' = [store EXCEPT ![h] = [w \in Words |->
                 IF w \in Req(h).words \cap WordsOf(p) THEN Req(h).data[w] ELSE @[w]]]
           /\ home' = [home EXCEPT ![p].wtnt = noted, ![p].rw = noted]
           /\ patching' = [patching EXCEPT ![h] = NoPage]
           /\ IF rest = {}
              THEN /\ Receive(h)
                   /\ Send(h, <<[op |-> "DIFFGRANT", frompid |-> h,
                                 topid |-> Req(h).frompid]>>)
              ELSE /\ inq' = [inq EXCEPT ![h][1].pages = rest]
                   /\ UNCHANGED outq
    /\ UNCHANGED <<mainVars, wait, cache, twin, synVars, ghostVars>>

DiffGrantServer(h) ==
    /\ Handles(h, "DIFFGRANT")
    /\ wait' = [wait EXCEPT ![h].diff = @ - 1]
    /\ Receive(h)
    /\ UNCHANGED <<mainVars, memVars, synVars, patching, outq, ghostVars>>

-----------------------------------------------------------------------------
MainThread(h) ==
    \/ ReadWord(h) \/ WriteWord(h)
    \/ SegvHome(h) \/ SegvFetch(h) \/ SegvFetched(h) \/ SegvUpgrade(h)
    \/ EndInterval(h) \/ Acquire(h) \/ Acquired(h) \/ Release(h)
    \/ BarrierArrive(h) \/ BarrierLeave(h)

ServerThread(h) ==
    \/ AcqServer(h) \/ RelServer(h) \/ WtntServer(h) \/ InvServer(h) \/ AcqGrantServer(h)
    \/ BarrServer(h) \/ BarrGrantServer(h) \/ GetpServer(h) \/ GetpGrantServer(h)
    \/ DiffServerOpen(h) \/ DiffServerPatch(h) \/ DiffGrantServer(h)

\* Every program has returned and nothing is under way.
Finished ==
    /\ \A h \in Host : prog[h] = <<>> /\ outq[h] = <<>> /\ inq[h] = <<>>
    /\ UNCHANGED vars

Next == (\E h \in Host : MainThread(h) \/ ServerThread(h) \/ Transfer(h)) \/ Finished

Spec == Init /\ [][Next]_vars

(***************************************************************************)
(* Each thread of a host keeps running, and the network delivers.          *)
(***************************************************************************)
Fairness == \A h \in Host : /\ WF_vars(MainThread(h))
                            /\ WF_vars(ServerThread(h))
                            /\ WF_vars(Transfer(h))
FairSpec == Spec /\ Fairness

-----------------------------------------------------------------------------
(***************************************************************************)
(* Properties.                                                             *)
(***************************************************************************)
Labels == {"run", "diffwait", "acqwait", "barrwait", "getpwait"}

MainType ==
    /\ prog \in [Host -> Seq(Call)]
    /\ pc \in [Host -> Labels]
    /\ stack \in [Host -> Seq([lockid : LockIds, wtnts : SUBSET Pages])]
WaitType ==
    wait \in [Host -> [acq : BOOLEAN, barr : BOOLEAN, getp : BOOLEAN, diff : Int]]
CacheType == cache \in [Host -> [Pages -> CacheState]]
StoreType ==
    /\ store \in [Host -> [Words -> Nat]]
    /\ twin \in [Host -> [Words -> Nat]]
HomeType == home \in [Pages -> [wtnt : BOOLEAN, rdnt : BOOLEAN, rw : BOOLEAN]]
LocksType ==
    /\ locks \in [LockIds -> [acqs : Seq([pid : Host, scope : Int]), scope : Nat,
                              wtnts : SUBSET Notice]]
    /\ \A l \in LockIds : IsFiniteSet(locks[l].wtnts)
ScopeType ==
    /\ acqc \in Nat
    /\ myscope \in [Host -> [LockIds -> Int]]
    /\ noclearlocks \in [Host -> BOOLEAN]
NetType ==
    /\ patching \in [Host -> Pages \cup {NoPage}]
    /\ outq \in [Host -> Seq(Message)]
    /\ inq \in [Host -> Seq(Message)]
GhostType == latest \in [Words -> Nat] /\ atbarr \in [Words -> Nat]

\* The type invariant: every variable holds what the C declarations allow,
\* and the queues hold only well-formed messages.
TypeOK ==
    /\ MainType /\ WaitType /\ CacheType /\ StoreType /\ HomeType
    /\ LocksType /\ ScopeType /\ NetType /\ GhostType

\* jia_lock excludes: two hosts are never inside critical sections of the same
\* lock, whatever ACQ, REL and ACQGRANT messages are under way.
MutualExclusion ==
    \A l \in Locks : \A g, h \in Host : Holds(g, l) /\ Holds(h, l) => g = h

\* relserver's assertion "This should not have happened!": a release comes
\* from the host at the head of the acquirers; and no host is queued twice,
\* so acqs[Maxhosts] never overflows.
ManagerQueues ==
    /\ \A h \in Host : Handles(h, "REL") =>
          LET q == locks[Req(h).lock].acqs IN q # <<>> /\ Head(q).pid = Req(h).frompid
    /\ \A l \in Locks : \A i, j \in 1 .. Len(locks[l].acqs) :
          locks[l].acqs[i].pid = locks[l].acqs[j].pid => i = j

\* The host has a frame of the page it may read without a fault.
Valid(h, p) ==
    \/ HomeOf[p] = h
    \/ /\ cache[h][p] \in {"RO", "RW"}
       /\ ~(pc[h] = "getpwait" /\ wait[h].getp /\ AccessPage(h) = p)

\* Scope consistency of locks: inside a critical section every frame the host
\* can read without a fault holds the last version of each word the lock
\* guards, wherever it was written (diffs, write notices and invalidations).
ScopeConsistency ==
    \A h \in Host, w \in Words :
        Guard[w] # hidelock /\ Holds(h, Guard[w]) /\ Valid(h, PageOf[w])
            => store[h][w] = latest[w]

\* Consistency of barriers: a host that has left the last barrier reads from
\* its valid frames nothing older than what had been written when the barrier
\* completed.
BarrierConsistency ==
    \A h \in Host, w \in Words :
        Valid(h, PageOf[w]) /\ ~(pc[h] = "barrwait" /\ wait[h].barr)
            => store[h][w] >= atbarr[w]

BarriersLeft(h) == Cardinality({i \in 1 .. Len(prog[h]) : prog[h][i].op = "barrier"})

\* jia_barrier separates: a host is past a barrier only when every other host
\* has arrived at it and has sent its diffs and notices.
BarrierSeparation ==
    \A g, h \in Host : BarriersLeft(g) < BarriersLeft(h) =>
        /\ BarriersLeft(h) = BarriersLeft(g) + 1
        /\ InCall(h, "barrwait", "barrier")

\* Every program terminates: no call waits for ever.
Termination == <>(\A h \in Host : prog[h] = <<>>)
=============================================================================
