------------------------------- MODULE Bcast -------------------------------
(***************************************************************************)
(* Broadcast along a binary tree (bsendmsg, bcastserver): what jia_bcast   *)
(* sends, and what broadcast() sends when B_CAST is on.  Positions in the  *)
(* tree count from the root.  A packet at level l is passed to the host    *)
(* 2^(l-1) positions further, if there is one, and to the host itself, one *)
(* level lower; at level 0 it is an ordinary message again and handled.    *)
(***************************************************************************)
EXTENDS Integers, Sequences, FiniteSets

CONSTANT HostC    \* system_setting.hostc

Host == 0 .. HostC - 1

ASSUME BcastAssumption == HostC \in Nat \ {0}

VARIABLES outq, inq    \* the out and in queues, unbounded here (see MsgQueue)

\* The level of the root: the least one whose tree holds all hosts, and 1 for
\* one host.
RootLevel ==
    IF HostC = 1 THEN 1
    ELSE CHOOSE l \in 0 .. HostC : 2^l >= HostC /\ \A k \in 0 .. l - 1 : 2^k < HostC

\* Faulty variant: the host takes the place of a missing child.
Child2Self(h, root, level) ==
    LET mypid == IF h - root >= 0 THEN h - root ELSE h - root + HostC
        child2 == mypid + 2^level
    IN  IF child2 < HostC THEN <<(child2 + root) % HostC>> ELSE <<h>>

\* The host the packet is passed on to, if the tree has that position.
Child2(h, root, level) ==
    LET mypid == IF h - root >= 0 THEN h - root ELSE h - root + HostC
        child2 == mypid + 2^level
    IN  IF child2 < HostC THEN <<(child2 + root) % HostC>> ELSE <<>>

\* op -= BCAST
LastLevel(level) == level = 0

\* Faulty variant: the host's own copy is passed on without being handled.
ForwardsChildOnly(h, m) ==
    LET level == m.level - 1
        kids == Child2(h, m.root, level)
    IN  [i \in 1 .. Len(kids) |-> [m EXCEPT !.bcast = ~LastLevel(level), !.level = level,
                                            !.frompid = h, !.topid = kids[i]]]

\* bcastserver: the packets that go to the out queue.
Forwards(h, m) ==
    LET level == m.level - 1
        kids == Append(Child2(h, m.root, level), h)
    IN  [i \in 1 .. Len(kids) |-> [m EXCEPT !.bcast = ~LastLevel(level), !.level = level,
                                            !.frompid = h, !.topid = kids[i]]]

Send(h, msgs) == outq' = [outq EXCEPT ![h] = @ \o msgs]

\* bsendmsg calls bcastserver itself.
bsendmsg(h, packet) ==
    Send(h, Forwards(h, [packet EXCEPT !.bcast = TRUE, !.root = h, !.level = RootLevel]))

\* The client thread: one message after the other, in order.
Transfer(h) ==
    /\ outq[h] # <<>>
    /\ outq' = [outq EXCEPT ![h] = Tail(@)]
    /\ inq' = [inq EXCEPT ![Head(outq[h]).topid] = Append(@, Head(outq[h]))]

\* The server thread passes a broadcast packet on.
bcastserver(h) ==
    /\ inq[h] # <<>> /\ Head(inq[h]).bcast
    /\ inq' = [inq EXCEPT ![h] = Tail(@)]
    /\ Send(h, Forwards(h, Head(inq[h])))
=============================================================================
