----------------------------- MODULE PageCache -----------------------------
(***************************************************************************)
(* The cache of remote pages of one host: the part of the fault handler    *)
(* that finds a place for a page (findposition, replacei, flushpage), what *)
(* a synchronisation call does to the cached pages, and the index from a   *)
(* page to its place (cachepage).  One set (Setnum 1), random replacement  *)
(* (REPSCHEME 0).  Only the application thread changes the cache, or the   *)
(* server thread while the application thread waits in a call.             *)
(***************************************************************************)
EXTENDS Naturals, FiniteSets

CONSTANTS Cachepages,  \* places in the cache
          Pages,       \* remote pages the program uses
          NoPage       \* addr of an empty place

Place == 0 .. Cachepages - 1

ASSUME CacheAssumption ==
    Cachepages \in Nat \ {0} /\ NoPage \notin Pages /\ IsFiniteSet(Pages)

VARIABLES cache,      \* state and addr of each place
          cachepage,  \* the place of each page, Cachepages for none
          status,     \* "run", or "failed" after findposition returned -1
          written     \* history: pages written since their diffs were saved

cacheVars == <<cache, cachepage, status, written>>

Empty == [state |-> "UNMAP", addr |-> NoPage]

\* initmem
CacheInit ==
    /\ cache = [i \in Place |-> Empty]
    /\ cachepage = [p \in Pages |-> Cachepages]
    /\ status = "run"
    /\ written = {}

Cached(p) == cachepage[p] < Cachepages
State(p) == cache[cachepage[p]].state
InState(s) == {i \in Place : cache[i].state = s}

\* findposition up to the choice of the place.  The scan starts at a random
\* place, wraps, and takes the first empty place, else the first invalid one,
\* else the place it started with: so any place of the best kind there is.
Victims ==
    IF InState("UNMAP") # {} THEN InState("UNMAP")
    ELSE IF InState("INV") # {} THEN InState("INV")
    ELSE Place

\* Faulty variant: the replaced page keeps its index.
FlushedIndexStale(i) == cachepage

\* flushpage: the index without the page at place i.
FlushedIndex(i) ==
    [p \in Pages |-> IF p = cache[i].addr THEN Cachepages ELSE cachepage[p]]

\* Faulty variant: a dirty page is replaced like a clean one.
FailsNever(i) == FALSE

\* findposition gives up on a dirty page.
Fails(i) == cache[i].state = "RW"

\* A fault on a page that is not cached: the page comes in read-only.
FaultUnmapped(p) ==
    /\ status = "run" /\ ~Cached(p)
    /\ \E i \in Victims :
          IF Fails(i)
          THEN status' = "failed" /\ UNCHANGED <<cache, cachepage>>
          ELSE /\ cachepage' = [FlushedIndex(i) EXCEPT ![p] = i]
               /\ cache' = [cache EXCEPT ![i] = [state |-> "RO", addr |-> p]]
               /\ UNCHANGED status
    /\ UNCHANGED written

\* A fault on a cached page: a write to a read-only page, or any access to an
\* invalid one.
FaultCached(p) ==
    /\ status = "run" /\ Cached(p) /\ State(p) \in {"INV", "RO"}
    /\ cache' = [cache EXCEPT ![cachepage[p]] = [state |-> "RW", addr |-> p]]
    /\ UNCHANGED <<cachepage, status, written>>

WritePage(p) ==
    /\ status = "run" /\ Cached(p) /\ State(p) = "RW"
    /\ written' = written \cup {p}
    /\ UNCHANGED <<cache, cachepage, status>>

\* A synchronisation call: endinterval saves the diffs of the dirty pages, the
\* notices of the grant invalidate pages, startinterval makes the others
\* read-only.
SyncCall(notices) ==
    /\ status = "run"
    /\ written' = {}
    /\ cache' = [i \in Place |->
          IF cache[i].addr \in notices /\ cache[i].state # "UNMAP"
          THEN [cache[i] EXCEPT !.state = "INV"]
          ELSE IF cache[i].state = "RW" THEN [cache[i] EXCEPT !.state = "RO"] ELSE cache[i]]
    /\ UNCHANGED <<cachepage, status>>

Failed == status = "failed" /\ UNCHANGED cacheVars

CacheNext ==
    \/ \E p \in Pages : FaultUnmapped(p) \/ FaultCached(p) \/ WritePage(p)
    \/ \E notices \in SUBSET Pages : SyncCall(notices)
    \/ Failed

CacheSpec == CacheInit /\ [][CacheNext]_cacheVars

-----------------------------------------------------------------------------
\* The type invariant of the cache.
CacheTypeOK ==
    /\ cache \in [Place -> [state : {"UNMAP", "INV", "RO", "RW"}, addr : Pages \cup {NoPage}]]
    /\ cachepage \in [Pages -> 0 .. Cachepages]
    /\ status \in {"run", "failed"}
    /\ written \subseteq Pages

\* The index and the cache agree: no page has two places, no place two pages,
\* and a replaced page is found again only by a fault.
CacheIndexed ==
    /\ \A i \in Place : cache[i].state # "UNMAP" =>
          cache[i].addr \in Pages /\ cachepage[cache[i].addr] = i
    /\ \A p \in Pages : Cached(p) => State(p) # "UNMAP" /\ cache[cachepage[p]].addr = p

\* A page written in the interval stays cached and writable, with its twin,
\* until its diff is saved: replacement loses no write.
DirtyKept == \A p \in written : Cached(p) /\ State(p) = "RW"
=============================================================================
