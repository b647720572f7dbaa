----------------------------- MODULE PoolProofs -----------------------------
(***************************************************************************)
(* What a host has a fixed number of: the places of the page cache, the    *)
(* slots of the message buffer and those of a message queue, for any       *)
(* number of each.                                                         *)
(*                                                                         *)
(* The index of the cache and the cache agree, and no written page is      *)
(* replaced.  The parts are inductive only together: a page's place is     *)
(* read through the index, and the page that leaves the index is the one   *)
(* the place remembers.                                                    *)
(*                                                                         *)
(* freemsg_lock never returns NULL and a slot never has two owners, for    *)
(* any finite set of threads: at every position of the scan there are at   *)
(* least as many free slots ahead as there are threads scanning.           *)
(*                                                                         *)
(* No slot of a message queue is written while it holds a message, and the *)
(* queue is a bounded FIFO, for any finite set of producers.               *)
(***************************************************************************)
EXTENDS MsgBuffer, MsgQueue, PageCache, FiniteSetTheorems, TLAPS

-----------------------------------------------------------------------------
(* The page cache *)

\* An empty place remembers no page.
EmptyPlaces == \A i \in Place : cache[i].state = "UNMAP" => cache[i].addr = NoPage

CacheInv == EmptyPlaces /\ CacheTypeOK /\ CacheIndexed /\ DirtyKept

\* The place findposition chooses is a place of the cache, and holds no page
\* that may still be valid unless every place does.
LEMMA VictimPlace == Victims \subseteq Place
BY DEF Victims, InState

\* The empty cache is indexed.
LEMMA InitCache == CacheInit => CacheInv
<1> SUFFICES ASSUME CacheInit PROVE CacheInv
  OBVIOUS
<1> USE CacheAssumption
<1>1. CacheTypeOK
  BY DEF CacheInit, CacheTypeOK, Empty, Place
<1>2. CacheIndexed
  BY DEF CacheInit, CacheIndexed, Empty, Cached
<1>3. DirtyKept
  BY DEF CacheInit, DirtyKept
<1>4. EmptyPlaces
  BY DEF CacheInit, EmptyPlaces, Empty
<1> QED BY <1>1, <1>2, <1>3, <1>4 DEF CacheInv

\* A fault on a page that is not cached preserves the invariant.
LEMMA FaultUnmappedInv == ASSUME CacheInv, NEW p \in Pages, FaultUnmapped(p) PROVE CacheInv'
<1> USE CacheAssumption DEF Place
<1>1. PICK i \in Place : \/ Fails(i) /\ UNCHANGED <<cache, cachepage>> /\ status' = "failed"
                         \/ /\ ~Fails(i) /\ UNCHANGED status
                            /\ cachepage' = [FlushedIndex(i) EXCEPT ![p] = i]
                            /\ cache' = [cache EXCEPT ![i] = [state |-> "RO", addr |-> p]]
  BY VictimPlace DEF FaultUnmapped
<1>2. UNCHANGED written /\ ~Cached(p)
  BY DEF FaultUnmapped
<1>3. CASE UNCHANGED <<cache, cachepage>> /\ status' = "failed"
  BY <1>2, <1>3 DEF CacheInv, EmptyPlaces, CacheTypeOK, CacheIndexed, DirtyKept, Cached, State
<1>4. CASE /\ ~Fails(i) /\ UNCHANGED status
           /\ cachepage' = [FlushedIndex(i) EXCEPT ![p] = i]
           /\ cache' = [cache EXCEPT ![i] = [state |-> "RO", addr |-> p]]
  <2>1. CacheTypeOK'
    BY <1>2, <1>4 DEF CacheInv, CacheTypeOK, FlushedIndex
  <2>2. \A q \in Pages : cachepage'[q] = IF q = p THEN i
                                         ELSE IF q = cache[i].addr THEN Cachepages
                                         ELSE cachepage[q]
    BY <1>4 DEF FlushedIndex
  <2>3. \A j \in Place : cache'[j] = IF j = i THEN [state |-> "RO", addr |-> p] ELSE cache[j]
    BY <1>4 DEF CacheInv, CacheTypeOK
  <2>4. ASSUME NEW j \in Place, cache'[j].state # "UNMAP"
        PROVE  cache'[j].addr \in Pages /\ cachepage'[cache'[j].addr] = j
    <3>1. CASE j = i
      BY <2>2, <2>3, <3>1
    <3>2. CASE j # i
      <4>1. cache'[j] = cache[j] BY <2>3, <3>2
      <4>2. cache[j].addr \in Pages /\ cachepage[cache[j].addr] = j
        BY <2>4, <4>1 DEF CacheInv, CacheIndexed
      <4>3. cache[j].addr # p
        BY <1>2, <4>2 DEF Cached
      <4>4. cache[j].addr # cache[i].addr
        <5>1. CASE cache[i].state = "UNMAP"
          BY <4>2, <5>1 DEF CacheInv, EmptyPlaces
        <5>2. CASE cache[i].state # "UNMAP"
          BY <3>2, <4>2, <5>2 DEF CacheInv, CacheIndexed
        <5> QED BY <5>1, <5>2
      <4> QED BY <2>2, <4>1, <4>2, <4>3, <4>4
    <3> QED BY <3>1, <3>2
  <2>5. ASSUME NEW q \in Pages, cachepage'[q] < Cachepages
        PROVE  cache'[cachepage'[q]].state # "UNMAP" /\ cache'[cachepage'[q]].addr = q
    <3>1. CASE q = p
      BY <2>2, <2>3, <3>1
    <3>2. CASE q # p
      <4>1. cachepage'[q] = cachepage[q] /\ q # cache[i].addr
        BY <2>2, <2>5, <3>2
      <4>2. cachepage[q] \in Place
        BY <2>5, <4>1 DEF CacheInv, CacheTypeOK
      <4>3. cache[cachepage[q]].state # "UNMAP" /\ cache[cachepage[q]].addr = q
        BY <2>5, <4>1 DEF CacheInv, CacheIndexed, Cached, State
      <4>4. cachepage[q] # i
        BY <4>1, <4>3
      <4> QED BY <2>3, <4>1, <4>2, <4>3, <4>4
    <3> QED BY <3>1, <3>2
  <2>6. CacheIndexed'
    BY <2>4, <2>5 DEF CacheIndexed, Cached, State
  <2>7. DirtyKept'
    <3>1. SUFFICES ASSUME NEW q \in written PROVE Cached(q)' /\ State(q)' = "RW"
      BY <1>2 DEF DirtyKept
    <3>2. q \in Pages /\ Cached(q) /\ State(q) = "RW"
      BY DEF CacheInv, CacheTypeOK, DirtyKept
    <3>3. q # p
      BY <1>2, <3>2
    <3>4. cachepage[q] \in Place /\ cachepage[q] # i
      BY <1>4, <3>2 DEF CacheInv, CacheTypeOK, Cached, State, Fails
    <3>5. q # cache[i].addr
      BY <3>2, <3>4 DEF CacheInv, CacheIndexed, EmptyPlaces, CacheTypeOK
    <3>6. cachepage'[q] = cachepage[q] /\ cache'[cachepage[q]] = cache[cachepage[q]]
      BY <2>2, <2>3, <3>2, <3>3, <3>4, <3>5
    <3> QED BY <3>2, <3>6 DEF Cached, State
  <2>8. EmptyPlaces'
    BY <2>3 DEF CacheInv, EmptyPlaces
  <2> QED BY <2>1, <2>6, <2>7, <2>8 DEF CacheInv
<1> QED BY <1>1, <1>3, <1>4

\* A fault on a cached page preserves the invariant.
LEMMA FaultCachedInv == ASSUME CacheInv, NEW p \in Pages, FaultCached(p) PROVE CacheInv'
<1> USE CacheAssumption DEF Place
<1>1. cachepage[p] \in Place /\ UNCHANGED <<cachepage, status, written>>
  BY DEF FaultCached, Cached, CacheInv, CacheTypeOK
<1>2. \A j \in Place : cache'[j] = IF j = cachepage[p] THEN [state |-> "RW", addr |-> p]
                                                     ELSE cache[j]
  BY <1>1 DEF FaultCached, CacheInv, CacheTypeOK
<1>3. CacheTypeOK'
  BY <1>1 DEF FaultCached, CacheInv, CacheTypeOK
<1>4. cache[cachepage[p]].addr = p
  BY DEF FaultCached, CacheInv, CacheIndexed
<1>5. CacheIndexed'
  BY <1>1, <1>2, <1>3, <1>4 DEF CacheInv, CacheTypeOK, CacheIndexed, Cached, State
<1>6. DirtyKept'
  BY <1>1, <1>2 DEF CacheInv, CacheTypeOK, DirtyKept, Cached, State
<1>7. EmptyPlaces'
  BY <1>2 DEF CacheInv, EmptyPlaces
<1> QED BY <1>3, <1>5, <1>6, <1>7 DEF CacheInv

\* A write to a writable page preserves the invariant.
LEMMA WritePageInv == ASSUME CacheInv, NEW p \in Pages, WritePage(p) PROVE CacheInv'
BY DEF CacheInv, EmptyPlaces, CacheTypeOK, CacheIndexed, DirtyKept, WritePage, Cached, State

\* A synchronisation call preserves the invariant.
LEMMA SyncCallInv == ASSUME CacheInv, NEW notices \in SUBSET Pages, SyncCall(notices) PROVE CacheInv'
<1> USE CacheAssumption DEF Place
<1>1. UNCHANGED <<cachepage, status>> /\ written' = {}
  BY DEF SyncCall
<1>2. \A j \in Place : cache'[j] \in [state : {"UNMAP", "INV", "RO", "RW"},
                                      addr : Pages \cup {NoPage}]
  BY DEF SyncCall, CacheInv, CacheTypeOK
<1>3. CacheTypeOK'
  BY <1>1, <1>2 DEF SyncCall, CacheInv, CacheTypeOK
<1>4. \A j \in Place : cache'[j].addr = cache[j].addr
  BY DEF SyncCall, CacheInv, CacheTypeOK
<1>5. \A j \in Place : (cache'[j].state = "UNMAP") <=> (cache[j].state = "UNMAP")
  BY DEF SyncCall, CacheInv, CacheTypeOK
<1>6. cachepage' = cachepage /\ \A p \in Pages : Cached(p) => cachepage[p] \in Place
  BY <1>1 DEF CacheInv, CacheTypeOK, Cached
<1>7. CacheIndexed'
  BY <1>4, <1>5, <1>6 DEF CacheInv, CacheIndexed, Cached, State
<1>8. DirtyKept'
  BY <1>1 DEF DirtyKept
<1>9. EmptyPlaces'
  BY <1>4, <1>5 DEF CacheInv, EmptyPlaces
<1> QED BY <1>3, <1>7, <1>8, <1>9 DEF CacheInv

\* The invariant of the cache, whatever its size and whatever is invalidated.
THEOREM CacheInvariance == CacheSpec => []CacheInv
<1>1. CacheInv /\ [CacheNext]_cacheVars => CacheInv'
  <2> SUFFICES ASSUME CacheInv, [CacheNext]_cacheVars PROVE CacheInv'
    OBVIOUS
  <2>1. CASE UNCHANGED cacheVars
    BY <2>1 DEF CacheInv, EmptyPlaces, CacheTypeOK, CacheIndexed, DirtyKept, Cached, State, cacheVars
  <2>2. CASE CacheNext
    BY <2>1, <2>2, FaultUnmappedInv, FaultCachedInv, WritePageInv, SyncCallInv DEF CacheNext, Failed
  <2> QED BY <2>1, <2>2
<1> QED BY <1>1, InitCache, PTL DEF CacheSpec

\* cachepage and the cache agree in every state.
THEOREM IndexAgrees == CacheSpec => []CacheIndexed
<1>1. CacheInv => CacheIndexed BY DEF CacheInv
<1> QED BY <1>1, CacheInvariance, PTL

\* findposition never gives the place of a page written in the interval to
\* another page.
THEOREM ReplacementKeepsWrites == CacheSpec => []DirtyKept
<1>1. CacheInv => DirtyKept BY DEF CacheInv
<1> QED BY <1>1, CacheInvariance, PTL

-----------------------------------------------------------------------------
(* The message slots *)

USE SizeAssumption, ThreadsAssumption

\* The sets the invariant counts are finite, so their cardinalities are
\* numbers.
LEMMA FiniteCounts ==
    ASSUME PoolTypeOK
    PROVE  /\ \A p \in Int : /\ IsFiniteSet(Scanners(p))
                             /\ Cardinality(Scanners(p)) \in Nat
                             /\ IsFiniteSet(FreeFrom(p))
                             /\ Cardinality(FreeFrom(p)) \in Nat
           /\ IsFiniteSet(Posters)
           /\ Cardinality(Posters) \in Nat
           /\ IsFiniteSet(free)
           /\ Cardinality(free) \in Nat
<1>1. IsFiniteSet(BufSlot)
  BY FS_Interval DEF BufSlot
<1>2. IsFiniteSet(free) /\ Cardinality(free) \in Nat
  BY <1>1, FS_Subset, FS_CardinalityType DEF PoolTypeOK
<1>3. IsFiniteSet(Posters) /\ Cardinality(Posters) \in Nat
  <2>1. Posters \in SUBSET Threads
    BY DEF Posters
  <2> QED BY <2>1, FS_Subset, FS_CardinalityType
<1>4. ASSUME NEW p \in Int
      PROVE  /\ IsFiniteSet(Scanners(p)) /\ Cardinality(Scanners(p)) \in Nat
             /\ IsFiniteSet(FreeFrom(p)) /\ Cardinality(FreeFrom(p)) \in Nat
  <2>1. Scanners(p) \in SUBSET Threads /\ FreeFrom(p) \in SUBSET free
    BY DEF Scanners, FreeFrom
  <2> QED BY <1>2, <2>1, FS_Subset, FS_CardinalityType
<1> QED BY <1>2, <1>3, <1>4

\* From position 0 on, all free slots lie ahead.
LEMMA FreeFromZero ==
    ASSUME PoolTypeOK
    PROVE  FreeFrom(0) = free
<1>1. \A s \in free : s >= 0
  BY DEF PoolTypeOK, BufSlot
<1> QED BY <1>1 DEF FreeFrom

\* The initial states satisfy the invariant.
LEMMA InitPool == PoolInit => PoolInv
<1> SUFFICES ASSUME PoolInit PROVE PoolInv
  OBVIOUS
<1>1. PoolTypeOK /\ Exclusive
  BY DEF PoolInit, PoolTypeOK, Exclusive, BufSlot
<1>2. Posters = {} /\ \A p \in 0 .. Bufsize : Scanners(p) = {}
  BY DEF PoolInit, Posters, Scanners
<1>3. Cardinality(free) = Bufsize
  BY FS_Interval DEF PoolInit, BufSlot
<1>4. EnoughAhead
  BY <1>1, <1>2, FiniteCounts, FS_EmptySet DEF EnoughAhead
<1>5. Permits
  BY <1>2, <1>3, FS_EmptySet DEF Permits, PoolInit
<1> QED BY <1>1, <1>4, <1>5 DEF PoolInv

\* PoolTypeOK and Exclusive are preserved by every step.
LEMMA NextPoolType == PoolInv /\ [PoolNext]_poolVars => PoolTypeOK' /\ Exclusive'
<1> SUFFICES ASSUME PoolInv, [PoolNext]_poolVars PROVE PoolTypeOK' /\ Exclusive'
  OBVIOUS
<1> USE DEF PoolInv, PoolTypeOK, Exclusive
<1>1. ASSUME NEW t \in Threads, SemWait(t) PROVE PoolTypeOK' /\ Exclusive'
  BY <1>1 DEF SemWait
<1>2. ASSUME NEW t \in Threads, Claim(t) PROVE PoolTypeOK' /\ Exclusive'
  BY <1>2 DEF Claim
<1>3. ASSUME NEW t \in Threads, Skip(t) PROVE PoolTypeOK' /\ Exclusive'
  BY <1>3 DEF Skip
<1>4. ASSUME NEW t \in Threads, Free(t) PROVE PoolTypeOK' /\ Exclusive'
  BY <1>4 DEF Free
<1>5. ASSUME NEW t \in Threads, SemPost(t) PROVE PoolTypeOK' /\ Exclusive'
  BY <1>5 DEF SemPost
<1>6. CASE UNCHANGED poolVars
  BY <1>6 DEF poolVars
<1> QED BY <1>1, <1>2, <1>3, <1>4, <1>5, <1>6 DEF PoolNext

\* Passing the semaphore: one more thread scans, from position 0, paid for by
\* the permit it took.
LEMMA SemWaitInv ==
    ASSUME PoolInv, PoolTypeOK', NEW t \in Threads, SemWait(t)
    PROVE  EnoughAhead' /\ Permits'
<1> USE DEF PoolInv
<1>1. Posters' = Posters /\ free' = free /\ count' = count - 1 /\ count \in Nat
  BY DEF SemWait, Posters, PoolTypeOK
<1>2. Scanners(0)' = Scanners(0) \cup {t} /\ t \notin Scanners(0)
  BY DEF SemWait, Scanners, PoolTypeOK
<1>3. \A p \in 1 .. Bufsize : Scanners(p)' = Scanners(p)
  BY DEF SemWait, Scanners, PoolTypeOK
<1>4. \A p \in 0 .. Bufsize : FreeFrom(p)' = FreeFrom(p)
  BY <1>1 DEF FreeFrom
<1>5. Cardinality(Scanners(0)') = Cardinality(Scanners(0)) + 1
  <2>1. IsFiniteSet(Scanners(0))
    BY FiniteCounts
  <2> QED BY <1>2, <2>1, FS_AddElement
<1>6. Permits'
  BY <1>1, <1>5, FiniteCounts DEF Permits
<1>7. Cardinality(Scanners(0)') <= Cardinality(FreeFrom(0)')
  BY <1>1, <1>4, <1>5, FiniteCounts, FreeFromZero DEF Permits, SemWait
<1>8. EnoughAhead'
  BY <1>3, <1>4, <1>7 DEF EnoughAhead
<1> QED BY <1>6, <1>8

\* Claiming a slot takes one scanner and one free slot from every position up
\* to that slot.
LEMMA ClaimInv ==
    ASSUME PoolInv, PoolTypeOK', NEW t \in Threads, Claim(t)
    PROVE  EnoughAhead' /\ Permits'
<1> USE DEF PoolInv
<1> DEFINE q == pos[t]
<1>1. q \in free /\ q \in 0 .. Bufsize /\ free' = free \ {q} /\ count' = count /\ count \in Nat
  BY DEF Claim, PoolTypeOK, BufSlot
<1>2. Posters' = Posters
  BY DEF Claim, Posters, PoolTypeOK
<1>3. ASSUME NEW p \in 0 .. Bufsize, p <= q
      PROVE  /\ Cardinality(Scanners(p)') = Cardinality(Scanners(p)) - 1
             /\ Cardinality(FreeFrom(p)') = Cardinality(FreeFrom(p)) - 1
  <2>1. Scanners(p)' = Scanners(p) \ {t} /\ t \in Scanners(p)
    BY <1>1, <1>3 DEF Claim, Scanners, PoolTypeOK
  <2>2. FreeFrom(p)' = FreeFrom(p) \ {q} /\ q \in FreeFrom(p)
    BY <1>1, <1>3 DEF FreeFrom
  <2>3. IsFiniteSet(Scanners(p)) /\ IsFiniteSet(FreeFrom(p))
    BY FiniteCounts
  <2>4. Cardinality(Scanners(p) \ {t}) = Cardinality(Scanners(p)) - 1
    BY <2>1, <2>3, FS_RemoveElement
  <2>5. Cardinality(FreeFrom(p) \ {q}) = Cardinality(FreeFrom(p)) - 1
    BY <2>2, <2>3, FS_RemoveElement
  <2> QED BY <2>1, <2>2, <2>4, <2>5
<1>4. ASSUME NEW p \in 0 .. Bufsize, ~(p <= q)
      PROVE  Scanners(p)' = Scanners(p) /\ FreeFrom(p)' = FreeFrom(p)
  BY <1>1, <1>4 DEF Claim, Scanners, FreeFrom, PoolTypeOK
<1>5. EnoughAhead'
  <2> SUFFICES ASSUME NEW p \in 0 .. Bufsize
               PROVE  Cardinality(Scanners(p)') <= Cardinality(FreeFrom(p)')
    BY DEF EnoughAhead
  <2>1. /\ Cardinality(Scanners(p)) <= Cardinality(FreeFrom(p))
        /\ Cardinality(Scanners(p)) \in Nat /\ Cardinality(FreeFrom(p)) \in Nat
    BY FiniteCounts DEF EnoughAhead
  <2> QED BY <1>3, <1>4, <2>1
<1>6. Permits'
  <2>1. Cardinality(free') = Cardinality(free) - 1
    BY <1>1, FiniteCounts, FS_RemoveElement
  <2>2. Cardinality(Scanners(0)') = Cardinality(Scanners(0)) - 1
    BY <1>1, <1>3
  <2> QED BY <1>1, <1>2, <2>1, <2>2, FiniteCounts DEF Permits
<1> QED BY <1>5, <1>6

\* Skipping a busy slot q: the free slots from q + 1 on are those from q on,
\* and they already covered the scanner at q.
LEMMA SkipInv ==
    ASSUME PoolInv, PoolTypeOK', NEW t \in Threads, Skip(t)
    PROVE  EnoughAhead' /\ Permits'
<1> USE DEF PoolInv
<1>0. PICK q \in 0 .. Bufsize - 1 : q = pos[t]
  BY DEF Skip, PoolTypeOK
<1>1. q \notin free /\ free' = free /\ count' = count
  BY <1>0 DEF Skip
<1>2. Posters' = Posters
  BY DEF Skip, Posters, PoolTypeOK
<1>3. \A p \in 0 .. Bufsize : FreeFrom(p)' = FreeFrom(p)
  BY <1>1 DEF FreeFrom
<1>4. \A p \in 0 .. Bufsize : p # q + 1 => Scanners(p)' = Scanners(p)
  BY <1>0 DEF Skip, Scanners, PoolTypeOK
<1>5. Cardinality(Scanners(q + 1)') <= Cardinality(FreeFrom(q + 1)')
  <2>1. Scanners(q + 1)' \in SUBSET Scanners(q)
    BY <1>0 DEF Skip, Scanners, PoolTypeOK
  <2>2. Cardinality(Scanners(q + 1)') <= Cardinality(Scanners(q))
    BY <1>1, <2>1, FiniteCounts, FS_Subset
  <2>3. FreeFrom(q + 1)' = FreeFrom(q)
    <3>1. \A s \in free : s \in Int /\ s # q
      BY <1>1 DEF PoolTypeOK, BufSlot
    <3>2. \A s \in free : s >= q + 1 <=> s >= q
      BY <1>1, <3>1
    <3> QED BY <1>1, <3>2 DEF FreeFrom
  <2>4. Cardinality(Scanners(q)) <= Cardinality(FreeFrom(q))
    BY <1>1 DEF EnoughAhead
  <2>5. Cardinality(Scanners(q + 1)') \in Nat
    <3>1. IsFiniteSet(Scanners(q + 1)')
      BY <1>1, <2>1, FiniteCounts, FS_Subset
    <3> QED BY <3>1, FS_CardinalityType
  <2> QED BY <1>1, <2>2, <2>3, <2>4, <2>5, FiniteCounts
<1>6. EnoughAhead'
  <2> SUFFICES ASSUME NEW p \in 0 .. Bufsize
               PROVE  Cardinality(Scanners(p)') <= Cardinality(FreeFrom(p)')
    BY DEF EnoughAhead
  <2>1. CASE p = q + 1
    BY <2>1, <1>5
  <2>2. CASE p # q + 1
    BY <2>2, <1>3, <1>4 DEF EnoughAhead
  <2> QED BY <2>1, <2>2
<1>7. Scanners(0)' = Scanners(0)
  BY <1>1, <1>4
<1>8. Permits'
  BY <1>1, <1>2, <1>7 DEF Permits
<1> QED BY <1>6, <1>8

\* Freeing a slot adds a free slot, paid for by the thread about to post.
LEMMA FreeInv ==
    ASSUME PoolInv, PoolTypeOK', NEW t \in Threads, Free(t)
    PROVE  EnoughAhead' /\ Permits'
<1> USE DEF PoolInv
<1>1. PICK s \in held[t] : free' = free \cup {s}
  BY DEF Free
<1>2. s \notin free /\ s \in BufSlot /\ count' = count /\ count \in Nat
  BY DEF Exclusive, Free, PoolTypeOK
<1>3. \A p \in 0 .. Bufsize : Scanners(p)' = Scanners(p)
  BY DEF Free, Scanners, PoolTypeOK
<1>4. Cardinality(free') = Cardinality(free) + 1
  BY <1>1, <1>2, FiniteCounts, FS_AddElement
<1>5. Cardinality(Posters') = Cardinality(Posters) + 1
  <2>1. Posters' = Posters \cup {t} /\ t \notin Posters
    BY DEF Free, Posters, PoolTypeOK
  <2> QED BY <2>1, FiniteCounts, FS_AddElement
<1>6. Permits'
  BY <1>2, <1>3, <1>4, <1>5, FiniteCounts DEF Permits
<1>7. EnoughAhead'
  <2> SUFFICES ASSUME NEW p \in 0 .. Bufsize
               PROVE  Cardinality(Scanners(p)') <= Cardinality(FreeFrom(p)')
    BY DEF EnoughAhead
  <2>1. FreeFrom(p) \in SUBSET FreeFrom(p)'
    BY <1>1 DEF FreeFrom
  <2>2. IsFiniteSet(FreeFrom(p)')
    <3>1. FreeFrom(p)' \in SUBSET (FreeFrom(p) \cup {s})
      BY <1>1 DEF FreeFrom
    <3>2. IsFiniteSet(FreeFrom(p) \cup {s})
      <4>1. IsFiniteSet(FreeFrom(p))
        BY FiniteCounts
      <4> QED BY <4>1, FS_AddElement
    <3> QED BY <3>1, <3>2, FS_Subset
  <2>3. Cardinality(FreeFrom(p)) <= Cardinality(FreeFrom(p)')
    BY <2>1, <2>2, FS_Subset
  <2>4. Cardinality(FreeFrom(p)') \in Nat
    BY <2>2, FS_CardinalityType
  <2> QED BY <1>3, <2>3, <2>4, FiniteCounts DEF EnoughAhead
<1> QED BY <1>6, <1>7

\* Posting turns the poster's share into a permit.
LEMMA SemPostInv ==
    ASSUME PoolInv, PoolTypeOK', NEW t \in Threads, SemPost(t)
    PROVE  EnoughAhead' /\ Permits'
<1> USE DEF PoolInv
<1>1. free' = free /\ count' = count + 1 /\ count \in Nat
  BY DEF SemPost, PoolTypeOK
<1>2. \A p \in 0 .. Bufsize : Scanners(p)' = Scanners(p) /\ FreeFrom(p)' = FreeFrom(p)
  BY DEF SemPost, Scanners, FreeFrom, PoolTypeOK
<1>3. Cardinality(Posters') = Cardinality(Posters) - 1
  <2>1. Posters' = Posters \ {t} /\ t \in Posters
    BY DEF SemPost, Posters, PoolTypeOK
  <2> QED BY <2>1, FiniteCounts, FS_RemoveElement
<1>4. Permits'
  BY <1>1, <1>2, <1>3, FiniteCounts DEF Permits
<1>5. EnoughAhead'
  BY <1>2 DEF EnoughAhead
<1> QED BY <1>4, <1>5

\* Every step preserves the invariant.
LEMMA NextPoolInv == PoolInv /\ [PoolNext]_poolVars => PoolInv'
<1> SUFFICES ASSUME PoolInv, [PoolNext]_poolVars PROVE PoolInv'
  OBVIOUS
<1>1. PoolTypeOK' /\ Exclusive'
  BY NextPoolType
<1>2. CASE PoolNext
  <2>1. EnoughAhead' /\ Permits'
    BY <1>1, <1>2, SemWaitInv, ClaimInv, SkipInv, FreeInv, SemPostInv DEF PoolNext
  <2> QED BY <1>1, <2>1 DEF PoolInv
<1>3. CASE UNCHANGED poolVars
  BY <1>3 DEF poolVars, PoolInv, PoolTypeOK, Exclusive, EnoughAhead, Permits, Scanners, FreeFrom, Posters
<1> QED BY <1>2, <1>3

\* The inductive invariant of the slot pool holds in every reachable state.
THEOREM PoolInvariance == PoolSpec => []PoolInv
<1>1. PoolInit => PoolInv
  BY InitPool
<1>2. PoolInv /\ [PoolNext]_poolVars => PoolInv'
  BY NextPoolInv
<1> QED BY <1>1, <1>2, PTL DEF PoolSpec

\* freemsg_lock never returns NULL: past the semaphore, a free slot is found
\* before the scan runs off the buffer.
THEOREM LockNeverNull == PoolSpec => []NeverNull
<1>1. PoolInv => NeverNull
  <2> SUFFICES ASSUME PoolInv, NEW t \in Threads, pc[t] = "scan" PROVE pos[t] < Bufsize
    BY DEF NeverNull
  <2>1. CASE pos[t] = Bufsize
    <3>1. FreeFrom(Bufsize) = {}
      <4>1. \A s \in free : ~(s >= Bufsize)
        BY DEF PoolInv, PoolTypeOK, BufSlot
      <4> QED BY <4>1 DEF FreeFrom
    <3>2. t \in Scanners(Bufsize)
      BY <2>1 DEF Scanners
    <3>3. Cardinality(Scanners(Bufsize)) = 0
      BY <3>1, FiniteCounts, FS_EmptySet DEF PoolInv, EnoughAhead
    <3>4. Scanners(Bufsize) = {}
      BY <3>3, FiniteCounts, FS_EmptySet DEF PoolInv
    <3> QED BY <3>2, <3>4
  <2> QED BY <2>1 DEF PoolInv, PoolTypeOK
<1> QED BY <1>1, PoolInvariance, PTL

\* No slot of the pool is in use by two threads, or free while in use.
THEOREM SlotExclusion == PoolSpec => []Exclusive
<1>1. PoolInv => Exclusive
  BY DEF PoolInv
<1> QED BY <1>1, PoolInvariance, PTL

-----------------------------------------------------------------------------
(* The message queues.  Indices are at most two rounds of the ring, so that  *)
(* % is one subtraction.                                                     *)

USE QueueAssumption

\* What (i + 1) & (size - 1) and its multiples compute within two rounds.
LEMMA Wrap ==
    ASSUME NEW a \in Nat
    PROVE  /\ a < Size => a % Size = a
           /\ (a >= Size /\ a < Size + Size) => a % Size = a - Size
           /\ a % Size \in Slot
<1>1. a < Size => a % Size = a
  OBVIOUS
<1>2. (a >= Size /\ a < Size + Size) => a % Size = a - Size
  OBVIOUS
<1>3. a % Size \in Slot
  BY DEF Slot
<1> QED BY <1>1, <1>2, <1>3

\* Size consecutive positions are Size different slots.
LEMMA AtInjective ==
    ASSUME TypeOK, NEW i \in 0 .. Size - 1, NEW j \in 0 .. Size - 1, At(i) = At(j)
    PROVE  i = j
<1>1. head \in Nat /\ head < Size
  BY DEF TypeOK, Slot
<1>2. PICK a \in Nat, b \in Nat : a = head + i /\ b = head + j
  BY <1>1
<1>3. a % Size = b % Size /\ a < Size + Size /\ b < Size + Size
  BY <1>1, <1>2 DEF At
<1>4. /\ a % Size = IF a < Size THEN a ELSE a - Size
      /\ b % Size = IF b < Size THEN b ELSE b - Size
  BY <1>3, Wrap, SMTT(30)
<1> QED BY <1>1, <1>2, <1>3, <1>4

\* Positions are slots, and a whole round leads back to the head.
LEMMA AtType ==
    ASSUME TypeOK
    PROVE  /\ \A i \in Nat : At(i) \in Slot
           /\ At(0) = head /\ At(Size) = head
<1>1. head \in Nat /\ head < Size
  BY DEF TypeOK, Slot
<1>2. ASSUME NEW i \in Nat PROVE At(i) \in Slot
  <2>1. head + i \in Nat
    BY <1>1
  <2> QED BY <2>1, Wrap DEF At
<1>3. At(0) = head /\ At(Size) = head
  BY <1>1, Wrap DEF At
<1> QED BY <1>2, <1>3

\* Advancing a position by one.
LEMMA AtAdvance ==
    ASSUME TypeOK, NEW i \in 0 .. Size
    PROVE  Advance(At(i)) = At(i + 1)
<1>1. head \in Nat /\ head < Size
  BY DEF TypeOK, Slot
<1>2. PICK a \in Nat : a = head + i
  BY <1>1
<1>3. a < Size + Size /\ At(i) = a % Size /\ At(i + 1) = (a + 1) % Size
  BY <1>1, <1>2 DEF At
<1>4. CASE a < Size
  BY <1>3, <1>4, Wrap DEF Advance
<1>5. CASE a >= Size
  <2>1. a % Size = a - Size /\ a - Size \in Nat /\ a - Size + 1 \in Nat
    BY <1>3, <1>5, Wrap
  <2>2. CASE a + 1 < Size + Size
    BY <1>3, <1>5, <2>1, <2>2, Wrap, SMTT(30) DEF Advance
  <2>3. CASE a + 1 = Size + Size
    <3>1. (a - Size + 1) % Size = 0
      BY <1>5, <2>1, <2>3, Wrap
    <3>2. (a + 1) % Size = 0
      BY <2>3
    <3> QED BY <1>3, <2>1, <3>1, <3>2 DEF Advance
  <2> QED BY <1>3, <1>5, <2>2, <2>3
<1> QED BY <1>2, <1>4, <1>5

\* Positions counted from the next head.
LEMMA AtShift ==
    ASSUME TypeOK, TypeOK', head' = Advance(head), NEW i \in 0 .. Size
    PROVE  At(i)' = At(i + 1)
<1>1. head \in Nat /\ head < Size /\ head' \in Nat /\ head' < Size
  BY DEF TypeOK, Slot
<1>2. head' = IF head + 1 < Size THEN head + 1 ELSE 0
  BY <1>1, Wrap DEF Advance
<1>3. PICK a \in Nat : a = head + i
  BY <1>1
<1>4. At(i + 1) = (a + 1) % Size /\ a < Size + Size
  BY <1>1, <1>3 DEF At
<1>5. CASE head + 1 < Size
  BY <1>1, <1>2, <1>3, <1>4, <1>5 DEF At
<1>6. CASE head + 1 = Size
  <2>1. At(i)' = i % Size /\ a + 1 = i + Size
    BY <1>1, <1>2, <1>3, <1>6 DEF At
  <2>2. (i + Size) % Size = i % Size
    <3>1. CASE i < Size
      BY <3>1, Wrap
    <3>2. CASE i = Size
      BY <3>2
    <3> QED BY <3>1, <3>2
  <2> QED BY <1>4, <2>1, <2>2
<1> QED BY <1>1, <1>5, <1>6

-----------------------------------------------------------------------------
(* Counting producers.                                                       *)

\* The counts are numbers.
LEMMA Counts ==
    ASSUME TypeOK
    PROVE  /\ Count("lock") \in Nat /\ Count("post") \in Nat
           /\ Ready \in Nat /\ Copying \in {0, 1} /\ Using \in {0, 1}
<1>1. ASSUME NEW label PROVE Count(label) \in Nat
  <2>1. {t \in Producers : ppc[t] = label} \in SUBSET Producers
    OBVIOUS
  <2> QED BY <2>1, FS_Subset, FS_CardinalityType DEF Count
<1>2. Count("lock") \in Nat /\ Count("post") \in Nat
  BY <1>1
<1>3. Ready \in Nat
  BY <1>2 DEF Ready, TypeOK
<1> QED BY <1>2, <1>3 DEF Copying, Using

\* One producer more, or one fewer, in a set of producers.
LEMMA OneMore ==
    ASSUME NEW S \in SUBSET Producers, NEW T, NEW t \in Producers
    PROVE  /\ t \notin S /\ T = S \cup {t} => Cardinality(T) = Cardinality(S) + 1
           /\ t \in S /\ T = S \ {t} => Cardinality(T) = Cardinality(S) - 1 /\ Cardinality(S) >= 1
<1>1. IsFiniteSet(S)
  BY FS_Subset
<1>2. t \notin S /\ T = S \cup {t} => Cardinality(T) = Cardinality(S) + 1
  BY <1>1, FS_AddElement
<1>3. t \in S /\ T = S \ {t} => Cardinality(T) = Cardinality(S) - 1 /\ Cardinality(S) >= 1
  <2>1. t \in S => Cardinality(S \ {t}) = Cardinality(S) - 1
    BY <1>1, FS_RemoveElement
  <2>2. Cardinality(S) \in Nat BY <1>1, FS_CardinalityType
  <2>3. t \in S => Cardinality(S) # 0 BY <1>1, FS_EmptySet
  <2> QED BY <2>1, <2>2, <2>3
<1> QED BY <1>2, <1>3

\* Without a producer's step the counts stay.
LEMMA CountStay ==
    ASSUME ppc' = ppc
    PROVE  \A c : Count(c)' = Count(c)
BY DEF Count

-----------------------------------------------------------------------------
(* The invariant.                                                            *)

\* init_msg_queue establishes the invariant.
LEMMA InitInv == Init => Inv
<1> SUFFICES ASSUME Init PROVE Inv
  OBVIOUS
<1>1. TypeOK
  BY DEF Init, TypeOK, Slot
<1>2. \A c : c # "idle" => Count(c) = 0
  <2>1. \A c : c # "idle" => {t \in Producers : ppc[t] = c} = {}
    BY DEF Init
  <2> QED BY <2>1, FS_EmptySet DEF Count
<1>3. Count("lock") = 0 /\ Count("post") = 0
  BY <1>2
<1>4. Ready = 0 /\ Copying = 0 /\ Using = 0
  BY <1>3 DEF Init, Ready, Copying, Using
<1>5. SlotsConserved
  BY <1>3, <1>4 DEF SlotsConserved, Init
<1>6. RingLayout
  BY <1>1, <1>4, AtType DEF RingLayout, Init
<1>7. CopierHoldsLock /\ WholeMessages
  BY <1>4 DEF CopierHoldsLock, WholeMessages, Init
<1> QED BY <1>1, <1>5, <1>6, <1>7 DEF Inv

\* Every step keeps the types.
LEMMA NextType == TypeOK /\ [Next]_vars => TypeOK'
<1> SUFFICES ASSUME TypeOK, [Next]_vars PROVE TypeOK'
  OBVIOUS
<1> USE DEF TypeOK
<1>0. ASSUME NEW s \in Slot PROVE Advance(s) \in Slot
  <2>1. s + 1 \in Nat
    BY DEF Slot
  <2> QED BY <2>1, Wrap DEF Advance
<1>1. ASSUME NEW t \in Producers, EnqueueWait(t) PROVE TypeOK'
  BY <1>1 DEF EnqueueWait, consumerVars
<1>2. ASSUME NEW t \in Producers, EnqueueTake(t) PROVE TypeOK'
  BY <1>0, <1>2 DEF EnqueueTake, semVars, consumerVars
<1>3. ASSUME NEW t \in Producers, EnqueueCopied(t) PROVE TypeOK'
  BY <1>3 DEF EnqueueCopied, semVars, consumerVars
<1>4. ASSUME NEW t \in Producers, EnqueuePost(t) PROVE TypeOK'
  BY <1>4 DEF EnqueuePost, consumerVars
<1>5. CASE ConsumerWait
  BY <1>5 DEF ConsumerWait, producerVars
<1>6. CASE Dequeue
  BY <1>0, <1>6 DEF Dequeue, semVars, producerVars
<1>7. CASE ConsumerPost
  BY <1>7 DEF ConsumerPost, producerVars
<1>8. CASE UNCHANGED vars
  BY <1>8 DEF vars, semVars, producerVars, consumerVars
<1> QED BY <1>1, <1>2, <1>3, <1>4, <1>5, <1>6, <1>7, <1>8 DEF Next

\* A step that leaves the ring and the counts of the parties in it alone.
LEMMA RingStays ==
    ASSUME Inv, UNCHANGED <<head, tail, tail_lock, queue, pslot>>,
           Ready' = Ready, Using' = Using, cpc' = "use" => cpc = "use" /\ cslot' = cslot,
           \A t \in Producers : ppc'[t] = "copy" <=> ppc[t] = "copy"
    PROVE  CopierHoldsLock' /\ RingLayout' /\ WholeMessages' /\ Copying' = Copying
<1> USE DEF Inv
<1>1. Copying' = Copying
  BY DEF Copying
<1>2. \A i : At(i)' = At(i)
  BY DEF At
<1>3. CopierHoldsLock'
  BY DEF CopierHoldsLock
<1>4. RingLayout'
  BY <1>1, <1>2 DEF RingLayout
<1>5. WholeMessages'
  BY <1>2 DEF WholeMessages
<1> QED BY <1>1, <1>3, <1>4, <1>5

\* sem_wait on the free slots: a free slot is promised to the producer.
LEMMA EnqueueWaitInv ==
    ASSUME Inv, TypeOK', NEW t \in Producers, EnqueueWait(t)
    PROVE  Inv' /\ Ready' = Ready
<1> USE DEF Inv
<1>1. /\ Count("lock")' = Count("lock") + 1
      /\ Count("post")' = Count("post")
  <2>1. /\ {u \in Producers : ppc'[u] = "lock"} = {u \in Producers : ppc[u] = "lock"} \cup {t}
        /\ {u \in Producers : ppc'[u] = "post"} = {u \in Producers : ppc[u] = "post"}
        /\ t \notin {u \in Producers : ppc[u] = "lock"}
    BY DEF EnqueueWait, TypeOK
  <2> QED BY <2>1, OneMore DEF Count
<1>2. Ready' = Ready /\ Using' = Using
  BY <1>1 DEF EnqueueWait, consumerVars, Ready, Using
<1>3. \A u \in Producers : ppc'[u] = "copy" <=> ppc[u] = "copy"
  BY DEF EnqueueWait, TypeOK
<1>4. CopierHoldsLock' /\ RingLayout' /\ WholeMessages' /\ Copying' = Copying
  BY <1>2, <1>3, RingStays DEF EnqueueWait, consumerVars
<1>5. SlotsConserved'
  <2>1. free_count' = free_count - 1 /\ free_count \in Nat
    BY DEF EnqueueWait, TypeOK
  <2> QED BY <1>1, <1>2, <1>4, <2>1, Counts DEF SlotsConserved
<1> QED BY <1>2, <1>4, <1>5

\* Taking tail_lock and the slot at the tail: the promised slot is the first one
\* behind the ready ones, and neither ready nor the consumer's.
LEMMA EnqueueTakeInv ==
    ASSUME Inv, TypeOK', NEW t \in Producers, EnqueueTake(t)
    PROVE  /\ Inv' /\ Ready' = Ready
           /\ \A i \in 0 .. Ready - 1 : queue'[At(i)'] = queue[At(i)]
           /\ cpc = "use" => queue'[cslot] = queue[cslot]
<1> USE DEF Inv
<1>1. /\ Count("lock")' = Count("lock") - 1 /\ Count("lock") >= 1
      /\ Count("post")' = Count("post")
  <2>1. /\ {u \in Producers : ppc'[u] = "lock"} = {u \in Producers : ppc[u] = "lock"} \ {t}
        /\ {u \in Producers : ppc'[u] = "post"} = {u \in Producers : ppc[u] = "post"}
        /\ t \in {u \in Producers : ppc[u] = "lock"}
    BY DEF EnqueueTake, TypeOK
  <2> QED BY <2>1, OneMore DEF Count
<1>2. Ready' = Ready /\ Using' = Using /\ Copying = 0 /\ Copying' = 1
  BY <1>1 DEF EnqueueTake, semVars, consumerVars, Ready, Using, Copying
<1>3. Ready + Using <= Size - 1 /\ Ready \in 0 .. Size - 1
  BY <1>1, <1>2, Counts DEF SlotsConserved, TypeOK
<1>4. \A i : At(i)' = At(i)
  BY DEF At, EnqueueTake
<1>5. tail = At(Ready) /\ tail' = At(Ready + 1)
  <2>1. tail = At(Ready)
    BY <1>2, <1>3 DEF RingLayout
  <2> QED BY <1>3, <2>1, AtAdvance DEF EnqueueTake
<1>6. ASSUME NEW i \in 0 .. Ready - 1 PROVE At(i) # At(Ready) /\ queue'[At(i)] = queue[At(i)]
  <2>1. At(i) # At(Ready)
    BY <1>3, AtInjective
  <2>2. At(i) \in Slot
    BY <1>3, AtType
  <2> QED BY <1>5, <2>1, <2>2 DEF EnqueueTake, TypeOK
<1>7. CopierHoldsLock'
  BY DEF CopierHoldsLock, EnqueueTake, TypeOK
<1>8. SlotsConserved'
  BY <1>1, <1>2, Counts DEF SlotsConserved, EnqueueTake, semVars, TypeOK
<1>9. RingLayout'
  <2>1. tail' = At(Ready + Copying)'
    BY <1>2, <1>3, <1>4, <1>5
  <2>2. ASSUME NEW u \in Producers, ppc'[u] = "copy" PROVE pslot'[u] = At(Ready)'
    <3>1. u = t
      BY <2>2 DEF EnqueueTake, CopierHoldsLock, TypeOK
    <3> QED BY <1>2, <1>4, <1>5, <3>1 DEF EnqueueTake, TypeOK
  <2>3. cpc' = "use" => cslot' = At(Size - 1)'
    BY <1>4 DEF RingLayout, EnqueueTake, consumerVars
  <2> QED BY <2>1, <2>2, <2>3 DEF RingLayout
<1>10. cpc = "use" => queue'[cslot] = queue[cslot]
  <2> SUFFICES ASSUME cpc = "use" PROVE queue'[cslot] = queue[cslot]
    OBVIOUS
  <2>1. cslot = At(Size - 1) /\ Ready # Size - 1
    BY <1>3, Counts DEF RingLayout, Using
  <2>2. cslot # tail
    BY <1>3, <1>5, <2>1, AtInjective
  <2> QED BY <2>2 DEF EnqueueTake, TypeOK
<1>11. WholeMessages'
  <2>1. ASSUME NEW i \in 0 .. Ready' - 1 PROVE queue'[At(i)'] \in Messages
    BY <1>2, <1>4, <1>6 DEF WholeMessages
  <2>2. cpc' = "use" => queue'[cslot'] \in Messages
    BY <1>10 DEF WholeMessages, EnqueueTake, consumerVars
  <2> QED BY <2>1, <2>2 DEF WholeMessages
<1> QED BY <1>2, <1>4, <1>6, <1>7, <1>8, <1>9, <1>10, <1>11

\* The end of memcpy: the copied slot becomes the last ready one.
LEMMA EnqueueCopiedInv ==
    ASSUME Inv, TypeOK', NEW t \in Producers, EnqueueCopied(t)
    PROVE  /\ Inv' /\ Ready' = Ready + 1 /\ Ready + Using <= Size - 1
           /\ head' = head /\ queue'[At(Ready)] = pmsg[t]
           /\ \A i \in 0 .. Ready - 1 : queue'[At(i)] = queue[At(i)]
           /\ cpc = "use" => queue'[cslot] = queue[cslot]
<1> USE DEF Inv
<1>1. /\ Count("post")' = Count("post") + 1
      /\ Count("lock")' = Count("lock")
  <2>1. /\ {u \in Producers : ppc'[u] = "post"} = {u \in Producers : ppc[u] = "post"} \cup {t}
        /\ {u \in Producers : ppc'[u] = "lock"} = {u \in Producers : ppc[u] = "lock"}
        /\ t \notin {u \in Producers : ppc[u] = "post"}
    BY DEF EnqueueCopied, TypeOK
  <2> QED BY <2>1, OneMore DEF Count
<1>2. tail_lock = t /\ pslot[t] = At(Ready)
  BY DEF EnqueueCopied, CopierHoldsLock, RingLayout
<1>3. Ready' = Ready + 1 /\ Using' = Using /\ Copying = 1 /\ Copying' = 0
  <2>1. busy_count' = busy_count /\ cpc' = cpc /\ tail_lock' = NoThread /\ busy_count \in Nat
    BY DEF EnqueueCopied, semVars, consumerVars, TypeOK
  <2> QED BY <1>1, <1>2, <2>1, Counts DEF Ready, Using, Copying
<1>4. Ready + Using <= Size - 1 /\ Ready \in 0 .. Size - 1
  BY <1>3, Counts DEF SlotsConserved, TypeOK
<1>5. \A i : At(i)' = At(i)
  BY DEF At, EnqueueCopied
<1>6. ASSUME NEW i \in 0 .. Ready - 1 PROVE queue'[At(i)] = queue[At(i)]
  <2>1. At(i) # At(Ready) /\ At(i) \in Slot
    BY <1>4, AtInjective, AtType
  <2> QED BY <1>2, <2>1 DEF EnqueueCopied, TypeOK
<1>7. queue'[At(Ready)] = pmsg[t]
  BY <1>2 DEF EnqueueCopied, TypeOK
<1>8. cpc = "use" => queue'[cslot] = queue[cslot]
  <2> SUFFICES ASSUME cpc = "use" PROVE queue'[cslot] = queue[cslot]
    OBVIOUS
  <2>1. cslot = At(Size - 1) /\ Ready # Size - 1
    BY <1>4, Counts DEF RingLayout, Using
  <2>2. cslot # pslot[t]
    BY <1>2, <1>4, <2>1, AtInjective
  <2> QED BY <2>2 DEF EnqueueCopied, TypeOK
<1>9. CopierHoldsLock'
  BY <1>2 DEF CopierHoldsLock, EnqueueCopied, TypeOK
<1>10. SlotsConserved'
  BY <1>1, <1>3, Counts DEF SlotsConserved, EnqueueCopied, semVars, TypeOK
<1>11. RingLayout'
  <2>1. tail' = At(Ready + Copying)'
    BY <1>3, <1>4, <1>5 DEF RingLayout, EnqueueCopied
  <2>2. \A u \in Producers : ppc'[u] # "copy"
    BY <1>2 DEF CopierHoldsLock, EnqueueCopied, TypeOK
  <2>3. cpc' = "use" => cslot' = At(Size - 1)'
    BY <1>5 DEF RingLayout, EnqueueCopied, consumerVars
  <2> QED BY <2>1, <2>2, <2>3 DEF RingLayout
<1>12. WholeMessages'
  <2>1. ASSUME NEW i \in 0 .. Ready' - 1 PROVE queue'[At(i)'] \in Messages
    <3>1. CASE i = Ready
      BY <1>5, <1>7, <3>1 DEF TypeOK
    <3>2. CASE i \in 0 .. Ready - 1
      BY <1>5, <1>6, <3>2 DEF WholeMessages
    <3> QED BY <1>3, <1>4, <3>1, <3>2
  <2>2. cpc' = "use" => queue'[cslot'] \in Messages
    BY <1>8 DEF WholeMessages, EnqueueCopied, consumerVars
  <2> QED BY <2>1, <2>2 DEF WholeMessages
<1> QED BY <1>3, <1>4, <1>6, <1>7, <1>8, <1>9, <1>10, <1>11, <1>12 DEF EnqueueCopied

\* sem_post on the busy slots: the message stays ready.
LEMMA EnqueuePostInv ==
    ASSUME Inv, TypeOK', NEW t \in Producers, EnqueuePost(t)
    PROVE  Inv' /\ Ready' = Ready
<1> USE DEF Inv
<1>1. /\ Count("post")' = Count("post") - 1
      /\ Count("lock")' = Count("lock")
  <2>1. /\ {u \in Producers : ppc'[u] = "post"} = {u \in Producers : ppc[u] = "post"} \ {t}
        /\ {u \in Producers : ppc'[u] = "lock"} = {u \in Producers : ppc[u] = "lock"}
        /\ t \in {u \in Producers : ppc[u] = "post"}
    BY DEF EnqueuePost, TypeOK
  <2> QED BY <2>1, OneMore DEF Count
<1>2. Ready' = Ready /\ Using' = Using
  <2>1. busy_count' = busy_count + 1 /\ cpc' = cpc /\ busy_count \in Nat
    BY DEF EnqueuePost, consumerVars, TypeOK
  <2> QED BY <1>1, <2>1, Counts DEF Ready, Using
<1>3. \A u \in Producers : ppc'[u] = "copy" <=> ppc[u] = "copy"
  BY DEF EnqueuePost, TypeOK
<1>4. CopierHoldsLock' /\ RingLayout' /\ WholeMessages' /\ Copying' = Copying
  BY <1>2, <1>3, RingStays DEF EnqueuePost, consumerVars
<1>5. SlotsConserved'
  BY <1>1, <1>2, <1>4 DEF SlotsConserved, EnqueuePost
<1> QED BY <1>2, <1>4, <1>5

\* sem_wait on the busy slots: the message is the consumer's to take.
LEMMA ConsumerWaitInv ==
    ASSUME Inv, TypeOK', ConsumerWait
    PROVE  Inv' /\ Ready' = Ready
<1> USE DEF Inv
<1>1. Count("post")' = Count("post") /\ Count("lock")' = Count("lock")
  BY CountStay DEF ConsumerWait, producerVars
<1>2. Ready' = Ready /\ Using' = Using
  <2>1. busy_count' = busy_count - 1 /\ cpc = "idle" /\ cpc' = "take" /\ busy_count \in Nat
    BY DEF ConsumerWait, TypeOK
  <2> QED BY <1>1, <2>1, Counts DEF Ready, Using
<1>3. CopierHoldsLock' /\ RingLayout' /\ WholeMessages' /\ Copying' = Copying
  BY <1>2, RingStays DEF ConsumerWait, producerVars
<1>4. SlotsConserved'
  BY <1>1, <1>2, <1>3 DEF SlotsConserved, ConsumerWait
<1> QED BY <1>2, <1>3, <1>4

\* dequeue: the first ready slot becomes the consumer's, and the head moves on.
LEMMA DequeueInv ==
    ASSUME Inv, TypeOK', Dequeue
    PROVE  /\ Inv' /\ Ready' = Ready - 1 /\ Ready >= 1 /\ Ready <= Size
           /\ cslot' = At(0) /\ queue' = queue
           /\ \A i \in 0 .. Size : At(i)' = At(i + 1)
<1> USE DEF Inv
<1>1. Count("post")' = Count("post") /\ Count("lock")' = Count("lock")
  BY CountStay DEF Dequeue, producerVars
<1>2. Ready' = Ready - 1 /\ Using = 0 /\ Using' = 1 /\ Copying' = Copying /\ Ready >= 1
  <2>1. /\ busy_count' = busy_count /\ cpc = "take" /\ cpc' = "use" /\ busy_count \in Nat
        /\ tail_lock' = tail_lock
    BY DEF Dequeue, semVars, TypeOK
  <2> QED BY <1>1, <2>1, Counts DEF Ready, Using, Copying
<1>3. Ready + Copying <= Size /\ Ready \in 1 .. Size
  BY <1>2, Counts DEF SlotsConserved, TypeOK
<1>4. ASSUME NEW i \in 0 .. Size PROVE At(i)' = At(i + 1)
  BY AtShift DEF Dequeue
<1>5. cslot' = At(0) /\ queue' = queue
  BY AtType DEF Dequeue
<1>6. CopierHoldsLock'
  BY DEF CopierHoldsLock, Dequeue, producerVars
<1>7. SlotsConserved'
  BY <1>1, <1>2, Counts DEF SlotsConserved, Dequeue, semVars, TypeOK
<1>8. RingLayout'
  <2>1. PICK r \in Nat, c \in Nat : r = Ready' /\ c = Copying'
    BY <1>2, <1>3, Counts
  <2>a. r + 1 = Ready /\ r + c + 1 = Ready + Copying /\ r \in 0 .. Size /\ r + c \in 0 .. Size
    BY <1>2, <1>3, <2>1, Counts
  <2>2. tail' = At(Ready + Copying)'
    <3>2. At(r + c)' = At(r + c + 1)
      BY <1>4, <2>a
    <3>3. At(Ready + Copying)' = At(r + c)'
      BY <2>1 DEF At
    <3> QED BY <2>a, <3>2, <3>3 DEF RingLayout, Dequeue
  <2>3. ASSUME NEW u \in Producers, ppc'[u] = "copy" PROVE pslot'[u] = At(Ready)'
    <3>1. pslot'[u] = At(r + 1)
      BY <2>a, <2>3 DEF RingLayout, Dequeue, producerVars
    <3>2. At(r)' = At(r + 1)
      BY <1>4, <2>a
    <3>3. At(Ready)' = At(r)'
      BY <2>1 DEF At
    <3> QED BY <3>1, <3>2, <3>3
  <2>4. cslot' = At(Size - 1)'
    <3>1. At(Size - 1)' = At(Size - 1 + 1)
      BY <1>4
    <3> QED BY <1>5, <3>1, AtType
  <2> QED BY <2>2, <2>3, <2>4 DEF RingLayout
<1>9. WholeMessages'
  <2>1. ASSUME NEW i \in 0 .. Ready' - 1 PROVE queue'[At(i)'] \in Messages
    <3>1. i + 1 \in 0 .. Ready - 1 /\ i \in 0 .. Size
      BY <1>2, <1>3
    <3>2. At(i)' = At(i + 1)
      BY <1>4, <3>1
    <3> QED BY <1>5, <3>1, <3>2 DEF WholeMessages
  <2>2. queue'[cslot'] \in Messages
    BY <1>3, <1>5 DEF WholeMessages
  <2> QED BY <2>1, <2>2 DEF WholeMessages
<1> QED BY <1>2, <1>3, <1>4, <1>5, <1>6, <1>7, <1>8, <1>9

\* sem_post on the free slots: the consumer's slot is free again.
LEMMA ConsumerPostInv ==
    ASSUME Inv, TypeOK', ConsumerPost
    PROVE  Inv' /\ Ready' = Ready
<1> USE DEF Inv
<1>1. Count("post")' = Count("post") /\ Count("lock")' = Count("lock")
  BY CountStay DEF ConsumerPost, producerVars
<1>2. Ready' = Ready /\ Using = 1 /\ Using' = 0 /\ Copying' = Copying
  <2>1. /\ busy_count' = busy_count /\ cpc = "use" /\ cpc' = "idle" /\ busy_count \in Nat
        /\ tail_lock' = tail_lock
    BY DEF ConsumerPost, TypeOK
  <2> QED BY <1>1, <2>1, Counts DEF Ready, Using, Copying
<1>3. \A i : At(i)' = At(i)
  BY DEF At, ConsumerPost
<1>4. CopierHoldsLock'
  BY DEF CopierHoldsLock, ConsumerPost, producerVars
<1>5. SlotsConserved'
  BY <1>1, <1>2, Counts DEF SlotsConserved, ConsumerPost, TypeOK
<1>6. RingLayout'
  BY <1>2, <1>3 DEF RingLayout, ConsumerPost, producerVars
<1>7. WholeMessages'
  BY <1>2, <1>3 DEF WholeMessages, ConsumerPost
<1> QED BY <1>2, <1>4, <1>5, <1>6, <1>7

\* Every step keeps the invariant.
LEMMA NextInv == Inv /\ [Next]_vars => Inv'
<1> SUFFICES ASSUME Inv, [Next]_vars PROVE Inv'
  OBVIOUS
<1>0. TypeOK'
  BY NextType DEF Inv
<1>1. ASSUME NEW t \in Producers, EnqueueWait(t) PROVE Inv'
  BY <1>0, <1>1, EnqueueWaitInv
<1>2. ASSUME NEW t \in Producers, EnqueueTake(t) PROVE Inv'
  BY <1>0, <1>2, EnqueueTakeInv
<1>3. ASSUME NEW t \in Producers, EnqueueCopied(t) PROVE Inv'
  BY <1>0, <1>3, EnqueueCopiedInv
<1>4. ASSUME NEW t \in Producers, EnqueuePost(t) PROVE Inv'
  BY <1>0, <1>4, EnqueuePostInv
<1>5. CASE ConsumerWait
  BY <1>0, <1>5, ConsumerWaitInv
<1>6. CASE Dequeue
  BY <1>0, <1>6, DequeueInv
<1>7. CASE ConsumerPost
  BY <1>0, <1>7, ConsumerPostInv
<1>8. CASE UNCHANGED vars
  <2>1. /\ \A c : Count(c)' = Count(c) 
        /\ \A i : At(i)' = At(i)
        /\ Ready' = Ready /\ Copying' = Copying /\ Using' = Using
    BY <1>8, CountStay DEF vars, semVars, producerVars, consumerVars, At, Ready, Copying, Using
  <2> QED BY <1>0, <1>8, <2>1 DEF Inv, vars, semVars, producerVars, consumerVars, CopierHoldsLock,
                                  SlotsConserved, RingLayout, WholeMessages
<1> QED BY <1>1, <1>2, <1>3, <1>4, <1>5, <1>6, <1>7, <1>8 DEF Next

\* The parties' slots are different positions of the ring.
LEMMA InvNoOverwrite == Inv => NoOverwrite
<1> SUFFICES ASSUME Inv, NEW t \in Producers, ppc[t] = "copy"
             PROVE  /\ cpc = "use" => cslot # pslot[t]
                    /\ \A i \in 0 .. Ready - 1 : (head + i) % Size # pslot[t]
  BY DEF NoOverwrite
<1> USE DEF Inv
<1>1. Copying = 1 /\ pslot[t] = At(Ready)
  BY DEF CopierHoldsLock, RingLayout, Copying
<1>2. Ready \in 0 .. Size - 1 /\ (cpc = "use" => Ready # Size - 1)
  BY <1>1, Counts DEF SlotsConserved, TypeOK, Using
<1>3. cpc = "use" => cslot # pslot[t]
  BY <1>1, <1>2, AtInjective DEF RingLayout
<1>4. \A i \in 0 .. Ready - 1 : At(i) # pslot[t]
  BY <1>1, <1>2, AtInjective
<1> QED BY <1>3, <1>4 DEF At

\* The invariant holds in every reachable state.
THEOREM QueueInvariant == Spec => []Inv
<1>1. Init => Inv
  BY InitInv
<1>2. Inv /\ [Next]_vars => Inv'
  BY NextInv
<1> QED BY <1>1, <1>2, PTL DEF Spec

\* enqueue never copies into the slot the consumer works on, nor into one whose
\* message has not been dequeued, for every queue size and every finite set of
\* enqueueing threads.
THEOREM SlotsNeverOverwritten == Spec => []NoOverwrite
<1>1. Inv => NoOverwrite
  BY InvNoOverwrite
<1> QED BY <1>1, QueueInvariant, PTL

-----------------------------------------------------------------------------
(* The ring implements the bounded FIFO.                                     *)

\* The messages the ring stands for, oldest first, and the consumer's message.
Contents == [i \in 1 .. Ready |-> queue[(head + i - 1) % Size]]
Current == IF cpc = "use" THEN queue[cslot] ELSE NoMessage

\* Contents is a sequence of Ready messages, and there is a current message
\* exactly while the consumer works on one.
LEMMA ContentsType ==
    Inv => /\ Contents \in Seq(Messages) /\ Len(Contents) = Ready
           /\ \A i \in 1 .. Ready : Contents[i] = queue[At(i - 1)]
           /\ Current # NoMessage <=> cpc = "use"
<1> SUFFICES ASSUME Inv
             PROVE  /\ Contents \in Seq(Messages) /\ Len(Contents) = Ready
                    /\ \A i \in 1 .. Ready : Contents[i] = queue[At(i - 1)]
                    /\ Current # NoMessage <=> cpc = "use"
  OBVIOUS
<1> USE DEF Inv
<1>1. Ready \in Nat
  BY Counts
<1>2. head \in Nat
  BY DEF TypeOK, Slot
<1>3. ASSUME NEW i \in 1 .. Ready PROVE Contents[i] = queue[At(i - 1)] /\ Contents[i] \in Messages
  <2>1. i - 1 \in 0 .. Ready - 1 /\ head + i - 1 = head + (i - 1)
    BY <1>1, <1>2
  <2> QED BY <2>1 DEF Contents, At, WholeMessages
<1>4. Contents \in Seq(Messages) /\ Len(Contents) = Ready
  <2>1. Contents \in [1 .. Ready -> Messages]
    BY <1>3 DEF Contents
  <2> QED BY <1>1, <2>1
<1>5. Current # NoMessage <=> cpc = "use"
  BY DEF Current, WholeMessages
<1> QED BY <1>3, <1>4, <1>5

\* The same in the next state.
LEMMA NextContentsType ==
    Inv' => /\ Contents' \in Seq(Messages) /\ Len(Contents') = Ready'
            /\ \A i \in 1 .. Ready' : Contents'[i] = queue'[At(i - 1)']
            /\ Current' # NoMessage <=> cpc' = "use"
<1>1. (Inv => /\ Contents \in Seq(Messages) /\ Len(Contents) = Ready
              /\ \A i \in 1 .. Ready : Contents[i] = queue[At(i - 1)]
              /\ Current # NoMessage <=> cpc = "use")'
  BY ContentsType, PTL
<1> QED BY <1>1

\* A step that keeps the ready slots and their messages keeps the contents.
LEMMA SameContents ==
    ASSUME Inv, Inv', Ready' = Ready, \A i \in 0 .. Ready - 1 : queue'[At(i)'] = queue[At(i)]
    PROVE  Contents' = Contents
<1>1. \A i \in 1 .. Ready : Contents'[i] = queue'[At(i - 1)'] /\ Contents[i] = queue[At(i - 1)]
  BY ContentsType, NextContentsType
<1>2. Ready \in Nat
  BY Counts DEF Inv
<1>3. \A i \in 1 .. Ready : Contents'[i] = Contents[i]
  <2> SUFFICES ASSUME NEW i \in 1 .. Ready PROVE Contents'[i] = Contents[i]
    OBVIOUS
  <2>1. i - 1 \in 0 .. Ready - 1
    BY <1>2
  <2> QED BY <1>1, <2>1
<1> QED BY <1>3 DEF Contents

\* Every step of the ring is a step of the FIFO or leaves it alone: the end of
\* memcpy puts a message, dequeue gets one, the sem_post on the free slots ends
\* the work on it.
LEMMA NextFifo == Inv /\ Inv' /\ [Next]_vars => [Fifo!Next]_<<Contents, Current>>
<1> SUFFICES ASSUME Inv, Inv', [Next]_vars PROVE [Fifo!Next]_<<Contents, Current>>
  OBVIOUS
<1>a. /\ Contents \in Seq(Messages) /\ Len(Contents) = Ready
      /\ \A i \in 1 .. Ready : Contents[i] = queue[At(i - 1)]
      /\ Current # NoMessage <=> cpc = "use"
  BY ContentsType
<1>b. /\ Contents' \in Seq(Messages) /\ Len(Contents') = Ready'
      /\ \A i \in 1 .. Ready' : Contents'[i] = queue'[At(i - 1)']
      /\ Current' # NoMessage <=> cpc' = "use"
  BY NextContentsType
<1>c. TypeOK' /\ Ready \in Nat
  BY Counts DEF Inv
<1>1. ASSUME NEW t \in Producers, EnqueueWait(t) PROVE UNCHANGED <<Contents, Current>>
  <2>1. Ready' = Ready
    BY <1>1, <1>c, EnqueueWaitInv
  <2>2. \A i : queue'[At(i)'] = queue[At(i)]
    BY <1>1 DEF EnqueueWait, At
  <2>3. Contents' = Contents
    BY <2>1, <2>2, SameContents
  <2> QED BY <1>1, <2>3 DEF EnqueueWait, consumerVars, Current
<1>2. ASSUME NEW t \in Producers, EnqueueTake(t) PROVE UNCHANGED <<Contents, Current>>
  <2>1. /\ Ready' = Ready /\ \A i \in 0 .. Ready - 1 : queue'[At(i)'] = queue[At(i)]
        /\ cpc = "use" => queue'[cslot] = queue[cslot]
    BY <1>2, <1>c, EnqueueTakeInv
  <2>2. Contents' = Contents
    BY <2>1, SameContents
  <2> QED BY <1>2, <2>1, <2>2 DEF EnqueueTake, consumerVars, Current
<1>3. ASSUME NEW t \in Producers, EnqueueCopied(t) PROVE Fifo!Put
  <2>1. /\ Ready' = Ready + 1 /\ Ready + Using <= Size - 1 /\ head' = head
        /\ queue'[At(Ready)] = pmsg[t]
        /\ \A i \in 0 .. Ready - 1 : queue'[At(i)] = queue[At(i)]
        /\ cpc = "use" => queue'[cslot] = queue[cslot]
    BY <1>3, <1>c, EnqueueCopiedInv
  <2>2. \A i : At(i)' = At(i)
    BY <2>1 DEF At
  <2>3. pmsg[t] \in Messages
    BY DEF Inv, TypeOK
  <2>4. ASSUME NEW i \in 1 .. Ready + 1 PROVE Contents'[i] = Append(Contents, pmsg[t])[i]
    <3>1. CASE i = Ready + 1
      <4>1. Contents'[i] = pmsg[t]
        BY <1>b, <1>c, <2>1, <2>2, <3>1
      <4>2. Append(Contents, pmsg[t])[i] = pmsg[t]
        BY <1>a, <2>3, <3>1
      <4> QED BY <4>1, <4>2
    <3>2. CASE i \in 1 .. Ready
      <4>1. i - 1 \in 0 .. Ready - 1
        BY <1>c, <3>2
      <4>2. Contents'[i] = Contents[i]
        BY <1>a, <1>b, <2>1, <2>2, <3>2, <4>1
      <4>3. Append(Contents, pmsg[t])[i] = Contents[i]
        BY <1>a, <2>3, <3>2
      <4> QED BY <4>2, <4>3
    <3>3. i = Ready + 1 \/ i \in 1 .. Ready
      BY <1>c
    <3> QED BY <3>1, <3>2, <3>3
  <2>5. Contents' = Append(Contents, pmsg[t])
    <3>1. Append(Contents, pmsg[t]) \in Seq(Messages) /\ Len(Append(Contents, pmsg[t])) = Ready + 1
      BY <1>a, <2>3
    <3> QED BY <1>b, <2>1, <2>4, <3>1
  <2>6. Fifo!Room
    <3>1. Using = IF Current = NoMessage THEN 0 ELSE 1
      BY <1>a DEF Using
    <3> QED BY <1>a, <1>c, <2>1, <3>1 DEF Fifo!Room, Contents, Current
  <2>7. Current' = Current
    BY <1>3, <2>1 DEF Current, EnqueueCopied, consumerVars
  <2> QED BY <2>3, <2>5, <2>6, <2>7 DEF Fifo!Put, Contents, Current
<1>4. ASSUME NEW t \in Producers, EnqueuePost(t) PROVE UNCHANGED <<Contents, Current>>
  <2>1. Ready' = Ready
    BY <1>4, <1>c, EnqueuePostInv
  <2>2. \A i : queue'[At(i)'] = queue[At(i)]
    BY <1>4 DEF EnqueuePost, At
  <2>3. Contents' = Contents
    BY <2>1, <2>2, SameContents
  <2> QED BY <1>4, <2>3 DEF EnqueuePost, consumerVars, Current
<1>5. ASSUME ConsumerWait PROVE UNCHANGED <<Contents, Current>>
  <2>1. Ready' = Ready
    BY <1>5, <1>c, ConsumerWaitInv
  <2>2. \A i : queue'[At(i)'] = queue[At(i)]
    BY <1>5 DEF ConsumerWait, At
  <2>3. Contents' = Contents
    BY <2>1, <2>2, SameContents
  <2> QED BY <1>5, <2>3 DEF ConsumerWait, Current
<1>6. ASSUME Dequeue PROVE Fifo!Get
  <2>1. /\ Ready' = Ready - 1 /\ Ready >= 1 /\ Ready <= Size
        /\ cslot' = At(0) /\ queue' = queue
        /\ \A i \in 0 .. Size : At(i)' = At(i + 1)
    BY <1>6, <1>c, DequeueInv
  <2>2. Contents # <<>> /\ Head(Contents) = Contents[1] /\ Contents[1] = queue[At(0)]
    BY <1>a, <1>c, <2>1
  <2>3. Current = NoMessage /\ Current' = Head(Contents)
    BY <1>6, <2>1, <2>2 DEF Dequeue, Current
  <2>4. ASSUME NEW i \in 1 .. Ready - 1 PROVE Contents'[i] = Contents[i + 1]
    <3>1. i - 1 \in 0 .. Size /\ i \in 1 .. Ready' /\ i + 1 \in 1 .. Ready /\ (i + 1) - 1 = (i - 1) + 1
      BY <1>c, <2>1
    <3>2. At(i - 1)' = At((i + 1) - 1)
      BY <2>1, <3>1
    <3> QED BY <1>a, <1>b, <2>1, <3>1, <3>2
  <2>5. Contents' = Tail(Contents)
    <3>1. /\ Tail(Contents) \in Seq(Messages) /\ Len(Tail(Contents)) = Ready - 1
          /\ \A i \in 1 .. Ready - 1 : Tail(Contents)[i] = Contents[i + 1]
      BY <1>a, <1>c, <2>1, <2>2
    <3> QED BY <1>b, <2>1, <2>4, <3>1
  <2> QED BY <2>2, <2>3, <2>5 DEF Fifo!Get, Contents, Current
<1>7. ASSUME ConsumerPost PROVE Fifo!Done
  <2>1. Ready' = Ready
    BY <1>7, <1>c, ConsumerPostInv
  <2>2. \A i : queue'[At(i)'] = queue[At(i)]
    BY <1>7 DEF ConsumerPost, At
  <2>3. Contents' = Contents
    BY <2>1, <2>2, SameContents
  <2>4. Current # NoMessage /\ Current' = NoMessage
    BY <1>7, <1>a DEF ConsumerPost, Current
  <2> QED BY <2>3, <2>4 DEF Fifo!Done, Contents, Current
<1>8. ASSUME UNCHANGED vars PROVE UNCHANGED <<Contents, Current>>
  <2>1. Ready' = Ready
    BY <1>8, CountStay DEF vars, semVars, producerVars, consumerVars, Ready
  <2>2. \A i : queue'[At(i)'] = queue[At(i)]
    BY <1>8 DEF vars, At
  <2>3. Contents' = Contents
    BY <2>1, <2>2, SameContents
  <2> QED BY <1>8, <2>3 DEF vars, consumerVars, Current
<1>9. \/ UNCHANGED <<Contents, Current>>
      \/ Fifo!Put \/ Fifo!Get \/ Fifo!Done
  BY <1>1, <1>2, <1>3, <1>4, <1>5, <1>6, <1>7, <1>8 DEF Next
<1> QED BY <1>9 DEF Fifo!Next

\* The ring with its two semaphores is the bounded FIFO of capacity Size: every
\* message that enqueue copied in is dequeued exactly once and in order, and it
\* does not change while the server or client thread works on it inside the ring.
THEOREM QueueIsFifo == Spec => FifoSpec
<1>1. Init => Fifo!Init
  <2> SUFFICES ASSUME Init PROVE Fifo!Init
    OBVIOUS
  <2>1. Inv /\ Ready = 0
    <3>1. {t \in Producers : ppc[t] = "post"} = {}
      BY DEF Init
    <3>2. Count("post") = 0
      BY <3>1, FS_EmptySet DEF Count
    <3> QED BY <3>2, InitInv DEF Init, Ready
  <2>2. Contents = <<>>
    BY <2>1, ContentsType
  <2>3. Current = NoMessage
    BY DEF Init, Current
  <2> QED BY <2>2, <2>3 DEF Fifo!Init, Contents, Current
<1>2. Inv /\ Inv' /\ [Next]_vars => [Fifo!Next]_<<Contents, Current>>
  BY NextFifo
<1> QED BY <1>1, <1>2, QueueInvariant, PTL DEF Spec, FifoSpec, Fifo!Spec, Contents, Current
=============================================================================
