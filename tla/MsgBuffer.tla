----------------------------- MODULE MsgBuffer -----------------------------
(***************************************************************************)
(* The pool of message slots every thread of a host builds its messages in *)
(* (msg_buffer): a counting semaphore in front of a scan that claims the   *)
(* first free slot with compare-and-swap.  The application thread may keep *)
(* several slots at once (one DIFF message per home in diffmsg[]).         *)
(***************************************************************************)
EXTENDS Integers, FiniteSets

CONSTANTS Bufsize,  \* msg_buffer.size
          Threads   \* threads that build messages

ASSUME SizeAssumption == Bufsize \in Nat \ {0}
ASSUME ThreadsAssumption == IsFiniteSet(Threads)

BufSlot == 0 .. Bufsize - 1

VARIABLES count,  \* the semaphore
          free,   \* slots in state SLOT_FREE
          held,   \* slots a thread has got and not given back
          pc,     \* where a thread is in freemsg_lock or freemsg_unlock
          pos     \* the loop variable of freemsg_lock

poolVars == <<count, free, held, pc, pos>>

\* init_msg_buffer
PoolInit ==
    /\ count = Bufsize
    /\ free = BufSlot
    /\ held = [t \in Threads |-> {}]
    /\ pc = [t \in Threads |-> "out"]
    /\ pos = [t \in Threads |-> 0]

\* Faulty variant: the semaphore is not waited for.
SemWaitSkipped(t) ==
    /\ pc[t] = "out"
    /\ pc' = [pc EXCEPT ![t] = "scan"]
    /\ pos' = [pos EXCEPT ![t] = 0]
    /\ UNCHANGED <<count, free, held>>

\* freemsg_lock: sem_wait, then the scan starts at slot 0.
SemWait(t) ==
    /\ pc[t] = "out" /\ count > 0
    /\ count' = count - 1
    /\ pc' = [pc EXCEPT ![t] = "scan"]
    /\ pos' = [pos EXCEPT ![t] = 0]
    /\ UNCHANGED <<free, held>>

\* Faulty variant: the slot is taken but not marked busy.
ClaimUnmarked(t) ==
    /\ pc[t] = "scan" /\ pos[t] \in free
    /\ held' = [held EXCEPT ![t] = @ \cup {pos[t]}]
    /\ pc' = [pc EXCEPT ![t] = "out"]
    /\ UNCHANGED <<count, free, pos>>

\* The compare-and-swap on slot pos[t] succeeds.
Claim(t) ==
    /\ pc[t] = "scan" /\ pos[t] \in free
    /\ free' = free \ {pos[t]}
    /\ held' = [held EXCEPT ![t] = @ \cup {pos[t]}]
    /\ pc' = [pc EXCEPT ![t] = "out"]
    /\ UNCHANGED <<count, pos>>

\* The compare-and-swap fails: next slot.
Skip(t) ==
    /\ pc[t] = "scan" /\ pos[t] < Bufsize /\ pos[t] \notin free
    /\ pos' = [pos EXCEPT ![t] = @ + 1]
    /\ UNCHANGED <<count, free, held, pc>>

\* freemsg_unlock: the slot is free before the semaphore is posted.
Free(t) ==
    /\ pc[t] = "out"
    /\ \E s \in held[t] :
          /\ free' = free \cup {s}
          /\ held' = [held EXCEPT ![t] = @ \ {s}]
    /\ pc' = [pc EXCEPT ![t] = "post"]
    /\ UNCHANGED <<count, pos>>

SemPost(t) ==
    /\ pc[t] = "post"
    /\ count' = count + 1
    /\ pc' = [pc EXCEPT ![t] = "out"]
    /\ UNCHANGED <<free, held, pos>>

PoolNext == \E t \in Threads : SemWait(t) \/ Claim(t) \/ Skip(t) \/ Free(t) \/ SemPost(t)

PoolSpec == PoolInit /\ [][PoolNext]_poolVars

-----------------------------------------------------------------------------
Scanners(p) == {t \in Threads : pc[t] = "scan" /\ pos[t] >= p}
FreeFrom(p) == {s \in free : s >= p}
Posters == {t \in Threads : pc[t] = "post"}

\* The type invariant of the pool.
PoolTypeOK ==
    /\ count \in Nat
    /\ free \subseteq BufSlot
    /\ held \in [Threads -> SUBSET BufSlot]
    /\ pc \in [Threads -> {"out", "scan", "post"}]
    /\ pos \in [Threads -> 0 .. Bufsize]

\* freemsg_lock never returns NULL, which no caller checks for: a thread that
\* got through the semaphore finds a free slot before the end of its scan,
\* although slots are freed behind it and claimed ahead of it meanwhile.
NeverNull == \A t \in Threads : pc[t] = "scan" => pos[t] < Bufsize

\* A slot belongs to one thread at a time: no two messages are built in it.
Exclusive ==
    /\ \A t \in Threads : held[t] \cap free = {}
    /\ \A t, u \in Threads : t # u => held[t] \cap held[u] = {}

\* Why the scan succeeds: at every position there are at least as many free
\* slots ahead as threads scanning ahead.
EnoughAhead ==
    \A p \in 0 .. Bufsize : Cardinality(Scanners(p)) <= Cardinality(FreeFrom(p))

\* Each free slot is paid for by the semaphore, by a scanner, or by a thread
\* about to post.
Permits ==
    Cardinality(free) = count + Cardinality(Scanners(0)) + Cardinality(Posters)

\* The inductive invariant.
PoolInv == PoolTypeOK /\ Exclusive /\ EnoughAhead /\ Permits
=============================================================================
