----------------------------- MODULE MCMsgPass -----------------------------
EXTENDS MsgPass, TLC

Bc(root, len) == [op |-> "bcast", root |-> root, len |-> len]
Red(root) == [op |-> "reduce", root |-> root]
Snd(to, tag, len) == [op |-> "send", to |-> to, tag |-> tag, len |-> len]
Rcv(from, tag, len) == [op |-> "recv", from |-> from, tag |-> tag, len |-> len]

\* Every host makes the calls p.
Everywhere(p) == [h \in Host |-> p]

MCPrograms ==
    { \* broadcasts from a root whose tree wraps around, with one receiver more
      (0 :> <<Bc(2, 1)>> @@ 1 :> <<>> @@ 2 :> <<Bc(2, 1)>>),
      \* ... and a longer one
      (0 :> <<>> @@ 1 :> <<>> @@ 2 :> <<Bc(2, 2)>>),
      \* a reduction of all hosts
      Everywhere(<<Red(1)>>),
      \* the last of three packets may come when the one before has been swallowed
      (0 :> <<>> @@ 1 :> <<Red(1), Red(1)>> @@ 2 :> <<Red(1), Red(1), Red(1)>>),
      \* a packet waits while jia_recv ends and msgseqno is written over
      (0 :> <<>> @@ 1 :> <<Snd(2, 1, 1), Snd(2, 2, 1), Snd(2, 2, 1)>>
       @@ 2 :> <<Rcv(1, 1, 1), Rcv(1, 2, 1)>>),
      \* messages of two senders, one longer than a packet, read by sender and tag
      (0 :> <<Snd(2, 2, 1)>> @@ 1 :> <<Snd(2, 1, 2), Snd(2, 2, 1)>>
       @@ 2 :> <<Rcv(1, 1, 2), Rcv(All, 2, 1)>>) }
=============================================================================
