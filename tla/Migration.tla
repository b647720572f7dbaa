------------------------------ MODULE Migration ------------------------------
(***************************************************************************)
(* Home migration (syn/mig.c, with H_MIG on) on top of the allocation of   *)
(* shared memory.  A phase of the program is a number of accesses at every *)
(* host, then a barrier.  The manager's grant names the pages modified in  *)
(* the phase; a page modified by one host only becomes that host's home    *)
(* page, its old home keeps a cached copy.  Every host carries this out    *)
(* for itself when it handles the grant, and keeps its home pages without  *)
(* gaps.  A page's contents are the writes it has: <<host, phase>>.        *)
(* The release of a lock is one access ("s"); invalidations under locks    *)
(* are those of Dsm.  Diffs and fetches are one step: their sender waits.  *)
(***************************************************************************)
EXTENDS Alloc, SequencesExt

CONSTANTS Cachepages, WVec   \* W_VEC: the barrier ends with jia_wait

\* A phase: what each host reads, writes and, with "s", releases.
Phase == [op : {"phase"}, acc : [Host -> Seq(({"r", "w"} \X PageNo) \cup {<<"s">>})]]

ASSUME MigrationAssumption ==
    /\ Cachepages \in Nat \ {0} /\ WVec \in BOOLEAN
    /\ Programs \subseteq Seq(AllocCall \cup Phase)

Place == 0 .. Cachepages - 1
HomeIdx == 0 .. Homepages - 1

VARIABLES
    at,        \* next access of the phase
    phase,     \* barriers left
    handled,   \* BARRGRANTs handled
    cache,     \* state, addr and wtnt of each place
    cachei,    \* place of each page
    wtnt,      \* home[].wtnt: bits 0 and 1
    rdnt,      \* home[].rdnt
    mem,       \* writes in the host's copy of each page
    top,       \* pages of the write notices of the hidden lock
    recorded,  \* notices at the barrier's manager
    arrived,   \* hosts at the barrier
    grant,     \* the BARRGRANT under way to each host: at most one list of notices
    writes     \* history: all writes

mvars == <<at, phase, handled, cache, cachei, wtnt, rdnt, mem, top, recorded, arrived,
           grant, writes>>

Empty == [state |-> "UNMAP", addr |-> NoAddr, wtnt |-> 0]

MInit ==
    /\ Init
    /\ at = [h \in Host |-> 1] /\ phase = [h \in Host |-> 0] /\ handled = [h \in Host |-> 0]
    /\ cache = [h \in Host |-> [c \in Place |-> Empty]]
    /\ cachei = [h \in Host |-> [p \in PageNo |-> Cachepages]]
    /\ wtnt = [h \in Host |-> [k \in HomeIdx |-> 0]]
    /\ rdnt = [h \in Host |-> [k \in HomeIdx |-> 0]]
    /\ mem = [h \in Host |-> [p \in PageNo |-> {}]]
    /\ top = [h \in Host |-> <<>>]
    /\ recorded = <<>> /\ arrived = {} /\ grant = [h \in Host |-> <<>>]
    /\ writes = [p \in PageNo |-> {}]

-----------------------------------------------------------------------------
IsHome(h, p) == page[h][p].homepid = h
Cached(h, p) == cachei[h][p] < Cachepages
State(h, p) == cache[h][cachei[h][p]].state
Valid(h, p) == IsHome(h, p) \/ (Cached(h, p) /\ State(h, p) \in {"RO", "RW"})
Dirty(h) == {p \in PageNo : Cached(h, p) /\ cache[h][cachei[h][p]].wtnt = 1}
Hpages(h) == homesize[h][h] \div Pagesize

InPhase(h) == Calls(h, "phase")
Accesses(h) == Call(h).acc[h]
Access(h) == Accesses(h)[at[h]]
Accessing(h, kinds) == InPhase(h) /\ at[h] <= Len(Accesses(h)) /\ Access(h)[1] \in kinds

\* An access that does not fault.
Hit(h) ==
    /\ Accessing(h, {"r", "w"})
    /\ LET p == Access(h)[2]
       IN  /\ IF Access(h)[1] = "r" THEN Valid(h, p) /\ UNCHANGED <<mem, writes>>
              ELSE /\ \/ IsHome(h, p) /\ wtnt[h][page[h][p].homei] % 2 = 1
                      \/ ~IsHome(h, p) /\ Cached(h, p) /\ State(h, p) = "RW"
                   /\ mem' = [mem EXCEPT ![h][p] = @ \cup {<<h, phase[h]>>}]
                   /\ writes' = [writes EXCEPT ![p] = @ \cup {<<h, phase[h]>>}]
    /\ at' = [at EXCEPT ![h] = @ + 1]
    /\ UNCHANGED <<vars, phase, handled, cache, cachei, wtnt, rdnt, top, recorded, arrived,
                   grant>>

\* sigsegv_handler up to getpage: the home notes its own write, a read-only copy
\* becomes writable.
FaultLocal(h) ==
    /\ Accessing(h, {"w"})
    /\ LET p == Access(h)[2]
       IN  \/ /\ IsHome(h, p) /\ wtnt[h][page[h][p].homei] % 2 = 0
              /\ wtnt' = [wtnt EXCEPT ![h][page[h][p].homei] = 3]
              /\ UNCHANGED cache
           \/ /\ ~IsHome(h, p) /\ Cached(h, p) /\ State(h, p) = "RO"
              /\ cache' = [cache EXCEPT ![h][cachei[h][p]].state = "RW",
                                        ![h][cachei[h][p]].wtnt = 1]
              /\ UNCHANGED wtnt
    /\ UNCHANGED <<vars, at, phase, handled, cachei, rdnt, mem, top, recorded, arrived, grant,
                   writes>>

\* findposition: an empty place, else an invalid one, else any that is not dirty
\* (PageCache has the case that it finds a dirty one).
Victims(h) ==
    LET in(s) == {c \in Place : cache[h][c].state = s}
    IN  IF in("UNMAP") # {} THEN in("UNMAP")
        ELSE IF in("INV") # {} THEN in("INV") ELSE in("RO")

\* A fault that fetches the page.  A page without a place comes read-only; an
\* invalid one comes writable, for a read as well.
FaultRemote(h) ==
    /\ Accessing(h, {"r", "w"})
    /\ LET p == Access(h)[2]
       IN  /\ ~Valid(h, p)
           /\ IF Cached(h, p)
              THEN /\ cache' = [cache EXCEPT ![h][cachei[h][p]].state = "RW",
                                             ![h][cachei[h][p]].wtnt = 1]
                   /\ UNCHANGED <<cachei, mem>>
              ELSE \E c \in Victims(h) :
                   /\ cachei' = [cachei EXCEPT ![h] = [q \in PageNo |->
                         IF q = p THEN c ELSE IF q = cache[h][c].addr THEN Cachepages ELSE @[q]]]
                   /\ cache' = [cache EXCEPT ![h][c] =
                         [state |-> "RO", addr |-> p, wtnt |-> 0]]
                   /\ mem' = [mem EXCEPT ![h] = [q \in PageNo |->
                         IF q = cache[h][c].addr THEN {} ELSE @[q]]]
    /\ pc' = [pc EXCEPT ![h] = "getp"]
    /\ UNCHANGED <<prog, loop, globaladdr, homesize, page, home, starthost, draws, done>>
    /\ UNCHANGED <<at, phase, handled, wtnt, rdnt, top, recorded, arrived, grant, writes>>

\* getpserver at the host g that h takes for the home, then getpgrantserver at h.
\* With H_MIG on, g answers even when it is not the home in its own table: the
\* copy then starts from addr[0], which only the other branch has set.
getpserver(h) ==
    /\ pc[h] = "getp"
    /\ LET p == Access(h)[2]
           g == page[h][p].homepid
       IN  IF IsHome(g, p)
           THEN /\ rdnt' = [rdnt EXCEPT ![g][page[g][p].homei] = 1]
                /\ mem' = [mem EXCEPT ![h][p] = mem[g][p]]
                /\ pc' = [pc EXCEPT ![h] = "run"]
           ELSE pc' = [pc EXCEPT ![g] = "crashed"] /\ UNCHANGED <<rdnt, mem>>
    /\ UNCHANGED <<prog, loop, globaladdr, homesize, page, home, starthost, draws, done>>
    /\ UNCHANGED <<at, phase, handled, cache, cachei, wtnt, top, recorded, arrived, grant,
                   writes>>

-----------------------------------------------------------------------------
\* Home pages endinterval notes: written by the host, with a copy elsewhere.
NotedHomes(h) == {home[h][k] : k \in {i \in HomeIdx :
                     i < Hpages(h) /\ wtnt[h][i] % 2 = 1 /\ rdnt[h][i] # 0}}

\* endinterval: the diffs of the dirty pages reach their homes, each modified page
\* is noted once, first the cached ones.
SendDiffs(h) ==
    mem' = [g \in Host |-> [p \in PageNo |->
              IF p \in Dirty(h) /\ page[h][p].homepid = g
              THEN mem[g][p] \cup {<<h, phase[h]>>} ELSE mem[g][p]]]

Noted(h) ==
    LET Listed(S, index) == SetToSortSeq(S \ Range(top[h]), LAMBDA p, q : index[p] < index[q])
        homei == [p \in PageNo |-> page[h][p].homei]
    IN  top[h] \o Listed(Dirty(h), cachei[h]) \o Listed(NotedHomes(h), homei)

\* startinterval: written pages are read-only again.
CleanCache(h) ==
    [c \in Place |-> IF cache[h][c].wtnt = 1
                     THEN [cache[h][c] EXCEPT !.wtnt = 0, !.state = "RO"] ELSE cache[h][c]]
CleanHome(h) ==
    [k \in HomeIdx |-> IF k < Hpages(h) THEN wtnt[h][k] - (wtnt[h][k] % 2) ELSE wtnt[h][k]]

\* jia_lock and jia_unlock around the accesses up to here: the notices pass to
\* the list of the barrier.
EndSection(h) ==
    /\ Accessing(h, {"s"})
    /\ SendDiffs(h)
    /\ top' = [top EXCEPT ![h] = Noted(h)]
    /\ cache' = [cache EXCEPT ![h] = CleanCache(h)]
    /\ wtnt' = [wtnt EXCEPT ![h] = CleanHome(h)]
    /\ at' = [at EXCEPT ![h] = @ + 1]
    /\ UNCHANGED <<vars, phase, handled, cachei, rdnt, recorded, arrived, grant, writes>>

\* migcheckcache: only a host with a valid copy should become the home.
migcheckcache(h, p) == IF Cached(h, p) /\ State(h, p) \in {"RO", "RW"} THEN 1 ELSE 0

\* recordwtnts reads the tag where the address is: the low half of the address,
\* zero for page 0 of the default start address only.
RecordedMig(p, tag) == IF p = 0 THEN 0 ELSE 1

\* Faulty variant: the last of several writers counts as the only one.
SavewtntLast(list, n) ==
    IF \E i \in DOMAIN list : list[i].p = n.p
    THEN [i \in DOMAIN list |-> IF list[i].p = n.p THEN n ELSE list[i]] ELSE Append(list, n)

\* savewtnt at the manager: a second host's notice leaves no single modifier.
savewtnt(list, n) ==
    IF \E i \in DOMAIN list : list[i].p = n.p
    THEN [i \in DOMAIN list |-> IF list[i].p = n.p THEN [n EXCEPT !.from = NoHost] ELSE list[i]]
    ELSE Append(list, n)

recordwtnts(h, pages) ==
    LET notice(p) == [p |-> p, from |-> h, mig |-> RecordedMig(p, migcheckcache(h, p))]
    IN  FoldLeft(LAMBDA list, p : savewtnt(list, notice(p)), recorded, pages)

\* jia_barrier up to its wait, and barrserver at the manager: the last host's
\* notices go to all.
jia_barrier(h) ==
    /\ InPhase(h) /\ at[h] > Len(Accesses(h))
    /\ SendDiffs(h)
    /\ rdnt' = [rdnt EXCEPT ![h] = [k \in HomeIdx |->
                   IF home[h][k] \in NotedHomes(h) THEN 0 ELSE @[k]]]
    /\ top' = [top EXCEPT ![h] = <<>>]
    /\ LET list == recordwtnts(h, Noted(h))
       IN  IF arrived \cup {h} = Host
           THEN /\ grant' = [g \in Host |-> <<list>>]
                /\ recorded' = <<>> /\ arrived' = {}
           ELSE /\ recorded' = list /\ arrived' = arrived \cup {h}
                /\ UNCHANGED grant
    /\ pc' = [pc EXCEPT ![h] = "barrier"]
    /\ UNCHANGED <<prog, loop, globaladdr, homesize, page, home, starthost, draws, done>>
    /\ UNCHANGED <<at, phase, handled, cache, cachei, wtnt, writes>>

-----------------------------------------------------------------------------
\* What handling a grant changes at a host; ok is FALSE after a failed jia_assert.
View(h) == [cache |-> cache[h], cachei |-> cachei[h], page |-> page[h], home |-> home[h],
            wtnt |-> wtnt[h], rdnt |-> rdnt[h], ok |-> TRUE]

Least(S) == IF S = {} THEN NoAddr ELSE Min(S)

\* Faulty variant: a copy modified elsewhere stays valid.
InvalidateNothing(v, h, n) == v

\* The first half of the loop of invalidate.
Invalidate(v, h, n) ==
    LET c == v.cachei[n.p]
    IN  IF n.from # h /\ v.page[n.p].homepid # h /\ c < Cachepages /\ v.cache[c].state # "INV"
        THEN [v EXCEPT !.cache[c].state = "INV", !.cache[c].wtnt = 0] ELSE v

\* migpage at the new home: the copy becomes a home page.
BecomeHome(v, h, p) ==
    LET c == v.cachei[p]
        k == Least({i \in HomeIdx : v.home[i] = NoAddr})
    IN  IF c >= Cachepages \/ v.cache[c].addr # p \/ k = NoAddr THEN [v EXCEPT !.ok = FALSE]
        ELSE [v EXCEPT !.home[k] = p, !.wtnt[k] = IF v.cache[c].wtnt = 0 THEN 2 ELSE 3,
                       !.rdnt[k] = 1, !.page[p] = [homepid |-> h, homei |-> k],
                       !.cachei[p] = Cachepages, !.cache[c] = Empty]

\* migpage at the old home: the page becomes a read-only copy if there is a place.
LeaveHome(v, h, p, new) ==
    LET k == v.page[p].homei
        c == Least({i \in Place : v.cache[i].state \in {"UNMAP", "INV"}})
        u == [v EXCEPT !.home[k] = NoAddr, !.wtnt[k] = 0, !.rdnt[k] = 0,
                       !.page[p] = [homepid |-> new, homei |-> Homepages]]
    IN  IF k >= Homepages \/ v.home[k] # p THEN [v EXCEPT !.ok = FALSE]
        ELSE IF c \notin Place THEN u
        ELSE [u EXCEPT !.cachei = [q \in PageNo |-> IF q = p THEN c
                             ELSE IF v.cache[c].state = "INV" /\ q = v.cache[c].addr
                             THEN Cachepages ELSE @[q]],
                       !.cache[c] = [state |-> "RO", addr |-> p, wtnt |-> v.wtnt[k] % 2]]

\* Faulty variant: a third host does not learn of the new home.
MigpageInvolved(v, h, p, modifier) ==
    LET old == v.page[p].homepid
    IN  IF modifier = h /\ old # h THEN BecomeHome(v, h, p)
        ELSE IF modifier # h /\ old = h THEN LeaveHome(v, h, p, modifier) ELSE v

migpage(v, h, p, modifier) ==
    LET old == v.page[p].homepid
    IN  IF modifier = h /\ old # h THEN BecomeHome(v, h, p)
        ELSE IF modifier # h /\ old = h THEN LeaveHome(v, h, p, modifier)
        ELSE [v EXCEPT !.page[p].homepid = modifier]

\* invalidate: one notice; nothing more happens after a failed assertion.
HandleNotice(v, h, n) ==
    IF ~v.ok THEN v
    ELSE LET u == Invalidate(v, h, n)
         IN  IF n.from # NoHost /\ n.mig # 0 THEN migpage(u, h, n.p, n.from) ELSE u

\* Faulty variant: the entries of pages that left stay empty.
ArrangeNothing(v) == v

\* migarrangehome: the home pages move to the front, the entries behind them keep
\* their bits.
migarrangehome(v) ==
    LET used == SetToSortSeq({k \in HomeIdx : v.home[k] # NoAddr}, <)
        n == Len(used)
        Moved(f) == [k \in HomeIdx |-> IF k < n THEN f[used[k + 1]] ELSE f[k]]
    IN  [v EXCEPT !.home = [k \in HomeIdx |-> IF k < n THEN v.home[used[k + 1]] ELSE NoAddr],
                  !.wtnt = Moved(@), !.rdnt = Moved(@),
                  !.page = [p \in PageNo |->
                      [@[p] EXCEPT !.homei = IF \E i \in 1 .. n : v.home[used[i]] = p
                          THEN (CHOOSE i \in 1 .. n : v.home[used[i]] = p) - 1 ELSE @]]]

\* The new hosts[].homesize: one page short when every entry is in use.
NewHomesize(v) ==
    LET n == Cardinality({k \in HomeIdx : v.home[k] # NoAddr})
    IN  Pagesize * (IF n = Homepages THEN n - 1 ELSE n)

\* barrgrantserver at h.
barrgrantserver(h) ==
    /\ grant[h] # <<>> /\ pc[h] = "barrier"
    /\ LET u == FoldLeft(LAMBDA x, n : HandleNotice(x, h, n), View(h), Head(grant[h]))
           v == IF u.ok THEN migarrangehome(u) ELSE u
       IN  /\ cache' = [cache EXCEPT ![h] = v.cache]
           /\ cachei' = [cachei EXCEPT ![h] = v.cachei]
           /\ page' = [page EXCEPT ![h] = v.page]
           /\ home' = [home EXCEPT ![h] = v.home]
           /\ wtnt' = [wtnt EXCEPT ![h] = v.wtnt]
           /\ rdnt' = [rdnt EXCEPT ![h] = v.rdnt]
           /\ homesize' = IF v.ok THEN [homesize EXCEPT ![h][h] = NewHomesize(v)] ELSE homesize
           /\ pc' = [pc EXCEPT ![h] = IF v.ok THEN "wait" ELSE "asserted"]
    /\ grant' = [grant EXCEPT ![h] = <<>>]
    /\ handled' = [handled EXCEPT ![h] = @ + 1]
    /\ UNCHANGED <<prog, loop, globaladdr, starthost, draws, done>>
    /\ UNCHANGED <<at, phase, mem, top, recorded, arrived, writes>>

\* Faulty variant: no jia_wait with the write vectors either.
LeaveAtOnce(h) == TRUE

\* jia_wait before the end of jia_barrier.
MayLeave(h) == WVec => \A g \in Host : handled[g] >= handled[h]

\* The end of jia_barrier.
Leave(h) ==
    /\ pc[h] = "wait" /\ MayLeave(h)
    /\ cache' = [cache EXCEPT ![h] = CleanCache(h)]
    /\ wtnt' = [wtnt EXCEPT ![h] = CleanHome(h)]
    /\ pc' = [pc EXCEPT ![h] = "run"]
    /\ prog' = [prog EXCEPT ![h] = Tail(@)]
    /\ phase' = [phase EXCEPT ![h] = @ + 1]
    /\ at' = [at EXCEPT ![h] = 1]
    /\ UNCHANGED <<loop, globaladdr, homesize, page, home, starthost, draws, done>>
    /\ UNCHANGED <<handled, cachei, rdnt, mem, top, recorded, arrived, grant, writes>>

\* A failed assertion ends the program on every host.
Stopped == \E h \in Host : pc[h] \in {"asserted", "crashed"}

Ended ==
    /\ (\A h \in Host : prog[h] = <<>>) \/ Stopped
    /\ UNCHANGED <<vars, mvars>>

Allocate == Next /\ UNCHANGED mvars

MNext ==
    \/ Allocate
    \/ \E h \in Host :
          \/ Hit(h) \/ FaultLocal(h) \/ FaultRemote(h) \/ getpserver(h) \/ EndSection(h)
          \/ jia_barrier(h) \/ barrgrantserver(h) \/ Leave(h)
    \/ Ended

MSpec == MInit /\ [][MNext]_<<vars, mvars>>

-----------------------------------------------------------------------------
Full(h) == NoAddr \notin Range(home[h])

\* Too few pages for a home[] to become full.  The interval code does not scan the
\* last entry of a full one, so that writes to that page stay unnoticed.
Roomy == \A h \in Host : globaladdr[h] \div Pagesize < Homepages

\* Before the first barrier all blocks are where jia_alloc put them
\* (Alloc!CyclicPlacement), whatever the hosts access meanwhile.
PlacementUntilBarrier == (\A h \in Host : handled[h] = 0) => CyclicPlacement

\* home[] stays the list of exactly the host's home pages, without gaps and at
\* the index the page table gives, through allocations and migrations in both
\* directions (migarrangehome) - except at a host that uses every entry, whose
\* homesize is then one page short.
HomesArranged ==
    \A h \in Host : ~Full(h) /\ NoArrays(h) /\ ~Stopped =>
        LET own == {p \in Mapped(h) : page[h][p].homepid = h}
        IN  /\ Cardinality(own) = Hpages(h)
            /\ \A p \in own : page[h][p].homei < Hpages(h) /\ home[h][page[h][p].homei] = p

\* Hosts that have handled the same number of grants agree on the home of every
\* page both have allocated, though each migrates pages on its own.
HomesAgreePerBarrier ==
    \A g, h \in Host : handled[g] = handled[h] /\ ~Stopped => 
        \A p \in Mapped(g) \cap Mapped(h) : page[g][p].homepid = page[h][p].homepid

\* What a host can read without a fault has every write of the phases before,
\* whichever way the page moved meanwhile.
ReadsLatest ==
    \A h \in Host : pc[h] = "run" /\ Roomy =>
        \A p \in PageNo : Valid(h, p) =>
            {w \in writes[p] : w[2] < phase[h]} \subseteq mem[h][p]

\* A page moves to a host only if that host holds all writes of the phase that
\* ends, what the tag of migcheckcache should have seen to.
MovesToLatestCopy ==
    [][Roomy => \A h \in Host : \A p \in PageNo :
          ~IsHome(h, p) /\ pc[h] = "barrier" /\ IsHome(h, p)' /\ pc'[h] = "wait" =>
              {w \in writes[p] : w[2] <= phase[h]} \subseteq mem[h][p] /\ Valid(h, p)]_mvars

\* getpserver answers for a page it does not list itself ("the home[] data
\* structure may not be updated, but the page has already been here"): such a
\* request must not be fatal.
GetpAtHome == \A h \in Host : pc[h] # "crashed"
=============================================================================
