------------------------------ MODULE MsgPass ------------------------------
(***************************************************************************)
(* The message passing calls (msg/msguser.c) of all hosts over the queues, *)
(* the broadcast tree and the packet buffers: jia_send, jia_recv,          *)
(* jia_bcast and jia_reduce.                                               *)
(*                                                                         *)
(* A value that is reduced is the number of times each host's operand is   *)
(* in it, with the rounds of reduction they are from and whether anything  *)
(* but the packets that were taken has gone into it.                       *)
(***************************************************************************)
EXTENDS Mailbox

CONSTANTS Programs,    \* calls of each host
          Tags         \* tags given to jia_send

\* Lengths count packets; the shortest message has one.
Call ==
    [op : {"send"}, to : Host, tag : Tags, len : Nat \ {0}]
    \cup [op : {"recv"}, from : Host \cup {All}, tag : Tags \cup {All}, len : Nat]
    \cup [op : {"bcast"}, root : Host, len : Nat \ {0}]
    \cup [op : {"reduce"}, root : Host]

\* BCAST_TAG is for jia_bcast alone (nothing in jia_send keeps it from others).
ASSUME MsgPassAssumption ==
    /\ BCAST_TAG \notin Tags
    /\ \A p \in Programs : p \in [Host -> Seq(Call)]

VARIABLES prog,      \* calls still to be made
          left,      \* packets of jia_send or jia_bcast still to be sent
          sent,      \* packets each host has broadcast
          red,       \* jia_reduce: its level j, -1 outside, and the value in recvbuf
          round,     \* reductions finished
          junk       \* history: hosts whose jia_reduce has got something else than packets

vars == <<outq, inq, mailbox, prog, left, sent, red, round, junk>>
app == <<prog, left, sent, red, round, junk>>

NoValue == [count |-> [g \in Host |-> 0], rounds |-> {}, junk |-> FALSE]
NoRed == [j |-> -1, value |-> NoValue]

Init ==
    /\ outq = [h \in Host |-> <<>>] /\ inq = [h \in Host |-> <<>>]
    /\ MailboxInit
    /\ prog \in Programs
    /\ left = [h \in Host |-> 0] /\ sent = [h \in Host |-> 0]
    /\ red = [h \in Host |-> NoRed] /\ round = [h \in Host |-> 0]
    /\ junk = {}

\* A packet of a message; a message of any length has a last one.
Packet(h, to, tag, no, tail, value) ==
    [bcast |-> FALSE, root |-> h, level |-> 0, frompid |-> h, topid |-> to, tag |-> tag,
     no |-> no, tail |-> tail, value |-> value]

Calls(h, op) ==
    /\ status[h] = "run" /\ recv[h].at = "none" /\ red[h].j = -1
    /\ prog[h] # <<>> /\ Head(prog[h]).op = op

NextCall(h) == prog' = [prog EXCEPT ![h] = Tail(@)]

\* jia_send: the packets of a message, MSGBODY and a last MSGTAIL.
jia_send(h) ==
    /\ Calls(h, "send")
    /\ LET c == Head(prog[h])
           tail == left[h] + 1 = c.len
       IN  /\ Send(h, <<Packet(h, c.to, c.tag, left[h] + 1, tail, NoValue)>>)
           /\ IF tail THEN NextCall(h) /\ left' = [left EXCEPT ![h] = 0]
              ELSE left' = [left EXCEPT ![h] = @ + 1] /\ UNCHANGED prog
    /\ UNCHANGED <<inq, mailbox, sent, red, round, junk>>

jia_recv(h) ==
    /\ Calls(h, "recv")
    /\ StartRecv(h, Head(prog[h]).from, Head(prog[h]).tag, Head(prog[h]).len)
    /\ UNCHANGED <<outq, inq, msgbuf, msgseqno, arrivals, server, status, got, app>>

\* jia_bcast: the root sends packet after packet ...
BcastPacket(h) ==
    /\ Calls(h, "bcast") /\ Head(prog[h]).root = h /\ left[h] < Head(prog[h]).len
    /\ left' = [left EXCEPT ![h] = @ + 1]
    /\ sent' = [sent EXCEPT ![h] = @ + 1]
    /\ bsendmsg(h, Packet(h, h, BCAST_TAG, sent[h] + 1, left[h] + 1 = Head(prog[h]).len, NoValue))
    /\ UNCHANGED <<inq, mailbox, prog, red, round, junk>>

\* ... and every host, the root too, receives from whoever passes them on.
BcastRecv(h) ==
    /\ Calls(h, "bcast")
    /\ Head(prog[h]).root = h => left[h] = Head(prog[h]).len
    /\ left' = [left EXCEPT ![h] = 0]
    /\ StartRecv(h, All, BCAST_TAG, Head(prog[h]).len)
    /\ UNCHANGED <<outq, inq, msgbuf, msgseqno, arrivals, server, status, got, prog, sent, red, round, junk>>

-----------------------------------------------------------------------------
\* jia_recv has lost one of the races with msgrecvserver for a place, has what lies
\* behind the array in its buffer, or has swallowed packets of a later message.
Tainted(h) == recv[h].spoilt \/ \E i \in DOMAIN recv[h].buf : recv[h].buf[i] = Junk

\* jia_recv returns to the application or to jia_bcast.
RecvReturns(h) ==
    /\ Receiving(h, "done") /\ red[h].j = -1
    /\ recv' = [recv EXCEPT ![h] = NoRecv]
    /\ NextCall(h)
    /\ UNCHANGED <<outq, inq, msgbuf, msgseqno, arrivals, server, status, got, left, sent, red, round, junk>>

\* jia_reduce up to its loop: the host's own operand.
jia_reduce(h) ==
    /\ Calls(h, "reduce")
    /\ red' = [red EXCEPT ![h] =
          [j |-> 0, value |-> [count |-> [g \in Host |-> IF g = h THEN 1 ELSE 0],
                               rounds |-> {round[h]}, junk |-> h \in junk]]]
    /\ UNCHANGED <<outq, inq, mailbox, prog, left, sent, round, junk>>

\* The position in the tree counted from the root.
Position(h) == (h - Head(prog[h]).root + HostC) % HostC
AtPosition(h, n) == (n + Head(prog[h]).root) % HostC

InLoop(h) == status[h] = "run" /\ recv[h].at = "none" /\ red[h].j >= 0 /\ 2^red[h].j < HostC

\* Whether position n sends at level j of the loop, or receives.
Sends(n, j) == n % 2^j = 0 /\ n % 2^(j + 1) # 0
Receives(n, j) == n % 2^(j + 1) = 0 /\ n + 2^j < HostC

NextLevel(h) == red' = [red EXCEPT ![h].j = @ + 1]

ReduceSend(h) ==
    /\ InLoop(h) /\ Sends(Position(h), red[h].j)
    /\ Send(h, <<Packet(h, AtPosition(h, Position(h) - 2^red[h].j), REDUCE_TAG, 1, TRUE,
                        red[h].value)>>)
    /\ NextLevel(h)
    /\ UNCHANGED <<inq, mailbox, prog, left, sent, round, junk>>

ReduceRecv(h) ==
    /\ InLoop(h) /\ Receives(Position(h), red[h].j)
    /\ StartRecv(h, AtPosition(h, Position(h) + 2^red[h].j), REDUCE_TAG, 1)
    /\ UNCHANGED <<outq, inq, msgbuf, msgseqno, arrivals, server, status, got, app>>

ReduceSkip(h) ==
    /\ InLoop(h) /\ ~Sends(Position(h), red[h].j) /\ ~Receives(Position(h), red[h].j)
    /\ NextLevel(h)
    /\ UNCHANGED <<outq, inq, mailbox, prog, left, sent, round, junk>>

\* reduce, element by element.
reduce(dest, source) ==
    [dest EXCEPT !.count = [g \in Host |-> @[g] + source.count[g]],
                 !.rounds = @ \cup source.rounds, !.junk = @ \/ source.junk]

\* The length is asserted - a failed jia_assert ends the program on every host -
\* then the received value goes in.
ReduceTake(h) ==
    /\ Receiving(h, "done") /\ red[h].j >= 0
    /\ recv' = [recv EXCEPT ![h] = NoRecv]
    /\ IF Len(recv[h].buf) # 1
       THEN status' = [g \in Host |-> "asserted"] /\ UNCHANGED <<red, junk>>
       ELSE /\ red' = [red EXCEPT ![h].j = @ + 1,
                  ![h].value = IF Tainted(h) THEN [@ EXCEPT !.junk = TRUE]
                               ELSE reduce(@, recv[h].buf[1].value)]
            /\ junk' = IF Tainted(h) THEN junk \cup {h} ELSE junk
            /\ UNCHANGED status
    /\ UNCHANGED <<outq, inq, msgbuf, msgseqno, arrivals, server, got, prog, left, sent, round>>

ReduceReturns(h) ==
    /\ status[h] = "run" /\ recv[h].at = "none" /\ red[h].j >= 0 /\ 2^red[h].j >= HostC
    /\ red' = [red EXCEPT ![h] = NoRed]
    /\ round' = [round EXCEPT ![h] = @ + 1]
    /\ NextCall(h)
    /\ UNCHANGED <<outq, inq, mailbox, left, sent, junk>>

-----------------------------------------------------------------------------
\* The threads of a host; the ones of a host that failed stop.
Main(h) ==
    \/ jia_send(h) \/ jia_recv(h) \/ BcastPacket(h) \/ BcastRecv(h) \/ RecvReturns(h)
    \/ jia_reduce(h) \/ ReduceSend(h) \/ ReduceRecv(h) \/ ReduceSkip(h) \/ ReduceTake(h)
    \/ ReduceReturns(h)
    \/ (ScanPlace(h) \/ TakePlace(h) \/ TakeNothing(h) \/ CopyPlace(h)) /\ UNCHANGED app

Server(h) ==
    \/ (StartStore(h) \/ SearchPlace(h) \/ FillPlace(h)) /\ UNCHANGED app
    \/ status[h] = "run" /\ server[h] = Idle /\ bcastserver(h) /\ UNCHANGED <<mailbox, app>>

Client(h) == status[h] = "run" /\ Transfer(h) /\ UNCHANGED <<mailbox, app>>

Failed == \E h \in Host : status[h] # "run"
Quiet ==
    \A h \in Host : /\ prog[h] = <<>> /\ recv[h].at = "none" /\ outq[h] = <<>> /\ inq[h] = <<>>
                    /\ server[h] = Idle
Finished == (Quiet \/ Failed) /\ UNCHANGED vars

Next == (\E h \in Host : Main(h) \/ Server(h) \/ Client(h)) \/ Finished

\* The threads of a host keep running.
Spec == Init /\ [][Next]_vars
        /\ \A h \in Host : WF_vars(Main(h)) /\ WF_vars(Server(h)) /\ WF_vars(Client(h))

-----------------------------------------------------------------------------
\* Every host handles the packets of a root in the order they were broadcast,
\* each at most once, whatever the number of hosts: jia_recv has nothing else
\* than the order in which packets were stored to put them together.
BcastInOrder ==
    \A h, r \in Host :
        /\ Len(got[h][r]) <= sent[r]
        /\ \A i \in 1 .. Len(got[h][r]) : got[h][r][i] = i

\* Every packet that is broadcast reaches every host, unless the program fails.
BcastReachesAll ==
    <>(Failed \/ (Quiet /\ \A h, r \in Host : Len(got[h][r]) = sent[r]))

\* The value a host holds at level j of a reduction has the operand of each host
\* of its subtree of that height once, and of this reduction only, as long as
\* no jia_recv on the way was Tainted: packets of another level, another sender
\* or another reduction never get mixed up by themselves.
ReduceExact ==
    \A h \in Host : red[h].j >= 0 /\ ~red[h].value.junk /\ Position(h) % 2^red[h].j = 0 =>
        /\ red[h].value.rounds = {round[h]}
        /\ \A g \in Host : red[h].value.count[g] =
              IF Position(h) <= ((g - Head(prog[h]).root + HostC) % HostC)
                 /\ ((g - Head(prog[h]).root + HostC) % HostC) < Position(h) + 2^red[h].j
              THEN 1 ELSE 0
=============================================================================
