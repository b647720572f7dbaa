------------------------------ MODULE MsgQueue ------------------------------
(***************************************************************************)
(* The ring of message buffers between the threads of a host (inqueue and  *)
(* outqueue): several threads enqueue, one thread (the server or the       *)
(* client) dequeues and works on the message inside the ring.  Two         *)
(* semaphores count free and busy slots; the tail and the copy into the    *)
(* slot are under tail_lock.                                               *)
(***************************************************************************)
EXTENDS Naturals, Sequences, FiniteSets

CONSTANTS Size,       \* msg_queue.size
          Producers,  \* threads that enqueue
          Messages,   \* message contents
          NoMessage,  \* a slot that holds no message
          Torn,       \* a slot while memcpy is under way
          NoThread    \* tail_lock is free

\* The queue size must be a power of two: the index is advanced with
\* (i + 1) & (size - 1).
ASSUME QueueAssumption ==
    /\ Size \in Nat \ {0} /\ \E k \in 0 .. 16 : Size = 2 ^ k
    /\ NoMessage \notin Messages /\ Torn \notin Messages /\ Torn # NoMessage
    /\ NoThread \notin Producers /\ IsFiniteSet(Producers)

Slot == 0 .. Size - 1

VARIABLES free_count, busy_count,  \* the semaphores
          head, tail,
          tail_lock,               \* the producer that holds it
          queue,                   \* contents of the slots
          ppc, pmsg, pslot,        \* producer: step, message, slot
          cpc, cslot               \* consumer: step, slot

semVars == <<free_count, busy_count>>
producerVars == <<ppc, pmsg, pslot>>
consumerVars == <<cpc, cslot>>
vars == <<semVars, head, tail, tail_lock, queue, producerVars, consumerVars>>

\* init_msg_queue
Init ==
    /\ free_count = Size /\ busy_count = 0
    /\ head = 0 /\ tail = 0
    /\ tail_lock = NoThread
    /\ queue = [s \in Slot |-> NoMessage]
    /\ ppc = [t \in Producers |-> "idle"]
    /\ pmsg \in [Producers -> Messages]
    /\ pslot = [t \in Producers |-> 0]
    /\ cpc = "idle" /\ cslot = 0

\* Faulty variant: the index skips a slot.
AdvanceByTwo(i) == (i + 2) % Size

Advance(i) == (i + 1) % Size

\* enqueue, step 1: sem_wait on the free slots.
EnqueueWait(t) ==
    /\ ppc[t] = "idle" /\ free_count > 0
    /\ free_count' = free_count - 1
    /\ ppc' = [ppc EXCEPT ![t] = "lock"]
    /\ \E m \in Messages : pmsg' = [pmsg EXCEPT ![t] = m]
    /\ UNCHANGED <<busy_count, head, tail, tail_lock, queue, pslot, consumerVars>>

\* enqueue, step 2: take tail_lock and the slot at the tail; memcpy starts.
EnqueueTake(t) ==
    /\ ppc[t] = "lock" /\ tail_lock = NoThread
    /\ tail_lock' = t
    /\ pslot' = [pslot EXCEPT ![t] = tail]
    /\ tail' = Advance(tail)
    /\ queue' = [queue EXCEPT ![tail] = Torn]
    /\ ppc' = [ppc EXCEPT ![t] = "copy"]
    /\ UNCHANGED <<semVars, head, pmsg, consumerVars>>

\* memcpy ends; tail_lock is released.
EnqueueCopied(t) ==
    /\ ppc[t] = "copy"
    /\ queue' = [queue EXCEPT ![pslot[t]] = pmsg[t]]
    /\ tail_lock' = NoThread
    /\ ppc' = [ppc EXCEPT ![t] = "post"]
    /\ UNCHANGED <<semVars, head, tail, pmsg, pslot, consumerVars>>

\* enqueue, step 3: sem_post on the busy slots.
EnqueuePost(t) ==
    /\ ppc[t] = "post"
    /\ busy_count' = busy_count + 1
    /\ ppc' = [ppc EXCEPT ![t] = "idle"]
    /\ UNCHANGED <<free_count, head, tail, tail_lock, queue, pmsg, pslot, consumerVars>>

\* server_thread and client_thread: sem_wait on the busy slots.
ConsumerWait ==
    /\ cpc = "idle" /\ busy_count > 0
    /\ busy_count' = busy_count - 1
    /\ cpc' = "take"
    /\ UNCHANGED <<free_count, head, tail, tail_lock, queue, producerVars, cslot>>

\* Faulty variant: the head stays.
DequeueNoAdvance ==
    /\ cpc = "take"
    /\ cslot' = head
    /\ cpc' = "use"
    /\ UNCHANGED <<semVars, head, tail, tail_lock, queue, producerVars>>

Dequeue ==
    /\ cpc = "take"
    /\ cslot' = head
    /\ head' = Advance(head)
    /\ cpc' = "use"
    /\ UNCHANGED <<semVars, tail, tail_lock, queue, producerVars>>

\* The message has been handled or sent: sem_post on the free slots.
ConsumerPost ==
    /\ cpc = "use"
    /\ free_count' = free_count + 1
    /\ cpc' = "idle"
    /\ UNCHANGED <<busy_count, head, tail, tail_lock, queue, producerVars, cslot>>

Next ==
    \/ \E t \in Producers : EnqueueWait(t) \/ EnqueueTake(t) \/ EnqueueCopied(t) \/ EnqueuePost(t)
    \/ ConsumerWait \/ Dequeue \/ ConsumerPost

Spec == Init /\ [][Next]_vars

-----------------------------------------------------------------------------
Count(label) == Cardinality({t \in Producers : ppc[t] = label})

\* Messages copied and not yet dequeued.
Ready == busy_count + Count("post") + (IF cpc = "take" THEN 1 ELSE 0)

TypeOK ==
    /\ free_count \in Nat /\ busy_count \in Nat
    /\ head \in Slot /\ tail \in Slot
    /\ tail_lock \in Producers \cup {NoThread}
    /\ queue \in [Slot -> Messages \cup {NoMessage, Torn}]
    /\ ppc \in [Producers -> {"idle", "lock", "copy", "post"}]
    /\ pmsg \in [Producers -> Messages]
    /\ pslot \in [Producers -> Slot]
    /\ cpc \in {"idle", "take", "use"} /\ cslot \in Slot

\* The slot i places behind the head.
At(i) == (head + i) % Size

Copying == IF tail_lock = NoThread THEN 0 ELSE 1
Using == IF cpc = "use" THEN 1 ELSE 0

\* tail_lock protects the copy: its holder is the one producer that copies.
CopierHoldsLock == \A t \in Producers : ppc[t] = "copy" <=> tail_lock = t

\* Every slot is free, promised to a producer, being copied into, ready, or
\* worked on by the consumer.
SlotsConserved == free_count + Count("lock") + Copying + Ready + Using = Size

\* Where the parties are in the ring: behind the head the ready slots, then the
\* slot being copied into, then the tail; before the head the consumer's slot.
RingLayout ==
    /\ tail = At(Ready + Copying)
    /\ \A t \in Producers : ppc[t] = "copy" => pslot[t] = At(Ready)
    /\ cpc = "use" => cslot = At(Size - 1)

\* The ready slots and the one in use hold whole messages.
WholeMessages ==
    /\ \A i \in 0 .. Ready - 1 : queue[At(i)] \in Messages
    /\ cpc = "use" => queue[cslot] \in Messages

Inv == TypeOK /\ CopierHoldsLock /\ SlotsConserved /\ RingLayout /\ WholeMessages

\* No data race on a slot: no producer copies into the slot the consumer is
\* working on, nor into one that holds a message not yet dequeued.
NoOverwrite ==
    \A t \in Producers : ppc[t] = "copy" =>
        /\ cpc = "use" => cslot # pslot[t]
        /\ \A i \in 0 .. Ready - 1 : (head + i) % Size # pslot[t]

\* The queue is a bounded FIFO whose head message is stable while the consumer
\* works on it inside the ring.
Fifo == INSTANCE BoundedFifo WITH
    Capacity <- Size,
    q <- [i \in 1 .. Ready |-> queue[(head + i - 1) % Size]],
    out <- IF cpc = "use" THEN queue[cslot] ELSE NoMessage
FifoSpec == Fifo!Spec
=============================================================================
