-------------------------------- MODULE Wire --------------------------------
(***************************************************************************)
(* What the client thread of a host promises: the messages of its out      *)
(* queue leave in order, and every destination gets its messages once each *)
(* and in order.  A message the client gives up on is overdue, and so is   *)
(* every message to the same destination after it: they reach it late or   *)
(* never.  While nothing is overdue, a message reaches its destination     *)
(* before the next one leaves, whatever destination that one has.          *)
(***************************************************************************)
EXTENDS Naturals, Sequences

CONSTANTS Dests, Dest(_), Script

VARIABLES outq, inq, overdue

Init == /\ outq = Script
        /\ inq = [d \in Dests |-> <<>>]
        /\ overdue = [d \in Dests |-> <<>>]

Transfer == /\ outq # <<>>
            /\ overdue[Dest(Head(outq))] = <<>>
            /\ inq' = [inq EXCEPT ![Dest(Head(outq))] = Append(@, Head(outq))]
            /\ outq' = Tail(outq)
            /\ UNCHANGED overdue

Abandon == /\ outq # <<>>
           /\ overdue' = [overdue EXCEPT ![Dest(Head(outq))] = Append(@, Head(outq))]
           /\ outq' = Tail(outq)
           /\ UNCHANGED inq

Late(d) == /\ overdue[d] # <<>>
           /\ inq' = [inq EXCEPT ![d] = Append(@, Head(overdue[d]))]
           /\ overdue' = [overdue EXCEPT ![d] = Tail(@)]
           /\ UNCHANGED outq

Next == Transfer \/ Abandon \/ \E d \in Dests : Late(d)

Spec == Init /\ [][Next]_<<outq, inq, overdue>>
=============================================================================
