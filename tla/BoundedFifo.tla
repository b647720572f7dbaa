---------------------------- MODULE BoundedFifo ----------------------------
(***************************************************************************)
(* What a message queue of a host promises: messages come out once each,   *)
(* in the order they went in, and the message the consumer is working on   *)
(* stays what it was until the consumer is done with it.                   *)
(***************************************************************************)
EXTENDS Naturals, Sequences

CONSTANTS Capacity, Messages, NoMessage

VARIABLES q,    \* messages in the queue
          out   \* message the consumer is working on

Room == Len(q) + (IF out = NoMessage THEN 0 ELSE 1) < Capacity

Init == q = <<>> /\ out = NoMessage

Put == /\ Room
       /\ \E m \in Messages : q' = Append(q, m)
       /\ UNCHANGED out

Get == /\ out = NoMessage /\ q # <<>>
       /\ out' = Head(q)
       /\ q' = Tail(q)

Done == /\ out # NoMessage
        /\ out' = NoMessage
        /\ UNCHANGED q

Next == Put \/ Get \/ Done

Spec == Init /\ [][Next]_<<q, out>>
=============================================================================
