------------------------------ MODULE Mailbox ------------------------------
(***************************************************************************)
(* The buffer of received packets (msgbuf) of each host: the server thread *)
(* stores each packet of a message (msgrecvserver), the application thread *)
(* puts messages together from them (jia_recv, nextmsg, nextpacket).  The  *)
(* two threads share the places without a lock: each looks at one place    *)
(* after the other while the other thread goes on, the server marks a      *)
(* place before it fills it, jia_recv frees one before it copies from it.  *)
(* Lengths count packets.                                                  *)
(***************************************************************************)
EXTENDS Bcast

CONSTANTS Maxmsgbufs,
          All,        \* MSG_PROC_ALL, MSG_TAG_ALL
          Junk,       \* what lies behind the array
          ErrmsgCode  \* the number ERRMSG stands for, 16

Place == 0 .. Maxmsgbufs - 1

ASSUME MailboxAssumption ==
    Maxmsgbufs \in Nat \ {0} /\ All \notin Host /\ ErrmsgCode \in Nat

Maxmsgno == 1073741824    \* 0x40000000

VARIABLES
    msgbuf,    \* op, seqno and packet at each place; history: the number of its
               \* arrival
    msgseqno,
    arrivals,  \* history: packets stored, and how many were when msgseqno was last
               \* written over
    server,    \* msgrecvserver: its step ("idle", "search", "fill"), i and packet
    status,    \* "run", "overflow" after local_assert, "asserted" after jia_assert
    recv,      \* jia_recv: its step ("none", "scan", "copy", "done"), arguments and buf,
               \* the place it looks at, and index and next of nextpacket;
               \* history: the packets stored before the scan, whether the scan has
               \* chosen a place that was being filled, the packet taken, and whether
               \* one was taken before it was stored, or stored over before it was
               \* copied, or buf had no room for it (spoilt)
    got        \* history: for each root, the numbers of its broadcast packets in the order
               \* in which they were handed to msgrecvserver

mailbox == <<msgbuf, msgseqno, arrivals, server, status, recv, got>>

BCAST_TAG == 62564392
REDUCE_TAG == 62559641

Idle == [at |-> "idle", place |-> Maxmsgbufs, packet |-> Junk]
NoRecv == [at |-> "none", from |-> All, tag |-> All, len |-> 0, buf |-> <<>>,
           place |-> 0, index |-> Maxmsgbufs, next |-> Maxmsgno,
           start |-> 0, torn |-> FALSE, taken |-> Junk, spoilt |-> FALSE]

\* initmsg.
MailboxInit ==
    /\ msgbuf = [h \in Host |->
          [i \in Place |-> [op |-> "ERRMSG", seqno |-> 0, packet |-> Junk, arrival |-> 0]]]
    /\ msgseqno = [h \in Host |-> 0]
    /\ arrivals = [h \in Host |-> [count |-> 0, renumbered |-> 0]]
    /\ server = [h \in Host |-> Idle]
    /\ status = [h \in Host |-> "run"]
    /\ recv = [h \in Host |-> NoRecv]
    /\ got = [h \in Host |-> [r \in Host |-> <<>>]]

-----------------------------------------------------------------------------
Storing(h, step) == status[h] = "run" /\ server[h].at = step

\* Faulty variant: the places are used in turn, read or not.
FreeInTurn(h, i) == i = msgseqno[h] % Maxmsgbufs

Free(h, i) == msgbuf[h][i].op = "ERRMSG"

\* The search for a place looks at place i; the assignment of op makes the place
\* visible before anything else is in it.
LookAt(h, i, packet) ==
    \/ /\ i = Maxmsgbufs
       /\ status' = [status EXCEPT ![h] = "overflow"]
       /\ server' = [server EXCEPT ![h] = Idle]
       /\ UNCHANGED msgbuf
    \/ /\ i \in Place /\ ~Free(h, i)
       /\ server' = [server EXCEPT ![h] = [at |-> "search", place |-> i + 1, packet |-> packet]]
       /\ UNCHANGED <<msgbuf, status>>
    \/ /\ i \in Place /\ Free(h, i)
       /\ msgbuf' = [msgbuf EXCEPT ![h][i].op = "MSG"]
       /\ server' = [server EXCEPT ![h] = [at |-> "fill", place |-> i, packet |-> packet]]
       /\ UNCHANGED status

\* msgrecvserver up to its look at the first place ...
StartStore(h) ==
    /\ Storing(h, "idle")
    /\ inq[h] # <<>> /\ ~Head(inq[h]).bcast
    /\ inq' = [inq EXCEPT ![h] = Tail(@)]
    /\ got' = IF Head(inq[h]).tag = BCAST_TAG
              THEN [got EXCEPT ![h][Head(inq[h]).root] = Append(@, Head(inq[h]).no)] ELSE got
    /\ msgseqno' = [msgseqno EXCEPT ![h] = @ + 1]
    /\ LookAt(h, 0, Head(inq[h]))
    /\ UNCHANGED <<outq, arrivals, recv>>

\* ... at another place ...
SearchPlace(h) ==
    /\ Storing(h, "search")
    /\ LookAt(h, server[h].place, server[h].packet)
    /\ UNCHANGED <<outq, inq, msgseqno, arrivals, recv, got>>

\* The place with all its fields.
Filled(h) == [op |-> msgbuf[h][server[h].place].op, seqno |-> msgseqno[h],
              packet |-> server[h].packet, arrival |-> arrivals[h].count + 1]

\* ... and the rest of it.
FillPlace(h) ==
    /\ Storing(h, "fill")
    /\ msgbuf' = [msgbuf EXCEPT ![h][server[h].place] = Filled(h)]
    /\ arrivals' = [arrivals EXCEPT ![h].count = @ + 1]
    /\ server' = [server EXCEPT ![h] = Idle]
    /\ UNCHANGED <<outq, inq, msgseqno, status, recv, got>>

-----------------------------------------------------------------------------
Filling(h, i) == server[h].at = "fill" /\ server[h].place = i

\* What the fields of a place are read from: while it is being filled, each of
\* them has its old or its new value.
Versions(h, i) == {msgbuf[h][i]} \cup (IF Filling(h, i) THEN {Filled(h)} ELSE {})

\* initmsg sets frompid and scope of an unused place to 0.
frompid(packet) == IF packet = Junk THEN 0 ELSE packet.frompid
scope(packet) == IF packet = Junk THEN 0 ELSE packet.tag

\* Faulty variant: the sender asked for is not looked at.
MatchesTagOnly(packet, tagged, from, tag) == tag \in {All, scope(tagged)}

\* The sender of a packet and the tag of a packet are the ones asked for.
Matches(packet, tagged, from, tag) ==
    from \in {All, frompid(packet)} /\ tag \in {All, scope(tagged)}

Receiving(h, step) == status[h] = "run" /\ recv[h].at = step

\* nextpacket begins with the first place.
NewScan(h, from, tag, len, buf, spoilt) ==
    [at |-> "scan", from |-> from, tag |-> tag, len |-> len, buf |-> buf,
     place |-> 0, index |-> Maxmsgbufs, next |-> Maxmsgno,
     start |-> arrivals[h].count, torn |-> FALSE, taken |-> Junk, spoilt |-> spoilt]

\* The call of jia_recv.
StartRecv(h, from, tag, len) ==
    recv' = [recv EXCEPT ![h] = NewScan(h, from, tag, len, <<>>, FALSE)]

\* Faulty variant: the first matching place instead of the oldest packet.
OlderFirstFound(seqno, next) == next = Maxmsgno

Older(seqno, next) == seqno < next

Chosen(r, i, seqno, torn) ==
    [r EXCEPT !.place = i + 1, !.index = i, !.next = seqno, !.torn = r.torn \/ torn]

\* nextpacket looks at one place.  The number is read twice, for the comparison
\* and for next.
ScanPlace(h) ==
    /\ Receiving(h, "scan") /\ recv[h].place \in Place
    /\ LET r == recv[h]
           i == r.place
       IN  \E packet, tagged, compared, kept \in Versions(h, i) :
              recv' = [recv EXCEPT ![h] =
                 IF /\ msgbuf[h][i].op # "ERRMSG"
                    /\ Matches(packet.packet, tagged.packet, r.from, r.tag)
                    /\ Older(compared.seqno, r.next)
                 THEN Chosen(r, i, kept.seqno, Filling(h, i))
                 ELSE [r EXCEPT !.place = i + 1]]
    /\ UNCHANGED <<outq, inq, msgbuf, msgseqno, arrivals, server, status, got>>

\* nextmsg, one iteration: it does not wait for a packet (recvwait is commented
\* out), frees the place, and finds no MSGTAIL there because it has just
\* written ERRMSG over it: endofmsg stays 0.
TakePlace(h) ==
    /\ Receiving(h, "scan") /\ recv[h].place = Maxmsgbufs
    /\ LET r == recv[h]
       IN  /\ r.index \in Place
           /\ msgbuf' = [msgbuf EXCEPT ![h][r.index].op = "ERRMSG"]
           /\ recv' = [recv EXCEPT ![h] =
                 [r EXCEPT !.at = "copy", !.taken = msgbuf[h][r.index].packet,
                           !.spoilt = r.spoilt \/ r.torn]]
    /\ UNCHANGED <<outq, inq, msgseqno, arrivals, server, status, got>>

\* Without a packet ERRMSG is written behind the array: over msgseqno, which is
\* declared next, or over something that jia_recv and msgrecvserver do not use.
\* The size and the data are then read there: any number of bytes up to the
\* length.  jia_recv returns, with this in the buffer.
TakeNothing(h) ==
    /\ Receiving(h, "scan") /\ recv[h].place = Maxmsgbufs /\ recv[h].index \notin Place
    /\ \/ /\ msgseqno' = [msgseqno EXCEPT ![h] = ErrmsgCode]
          /\ arrivals' = [arrivals EXCEPT ![h].renumbered = arrivals[h].count]
       \/ UNCHANGED <<msgseqno, arrivals>>
    /\ LET r == recv[h]
       IN  \E n \in 0 .. r.len - Len(r.buf) :
              recv' = [recv EXCEPT ![h] =
                 [r EXCEPT !.at = "done", !.buf = r.buf \o [k \in 1 .. n |-> Junk]]]
    /\ UNCHANGED <<outq, inq, msgbuf, server, status, got>>

\* The copy, cut to the length asked for: the packets behind it, of the next
\* message already, are lost.  The place may be in use again.
CopyPlace(h) ==
    /\ Receiving(h, "copy") /\ recv[h].index \in Place
    /\ LET r == recv[h]
           packet == msgbuf[h][r.index].packet
       IN  recv' = [recv EXCEPT ![h] = NewScan(h, r.from, r.tag, r.len,
              IF Len(r.buf) < r.len THEN Append(r.buf, packet) ELSE r.buf,
              \/ r.spoilt \/ Len(r.buf) = r.len \/ packet # r.taken \/ Filling(h, r.index))]
    /\ UNCHANGED <<outq, inq, msgbuf, msgseqno, arrivals, server, status, got>>

-----------------------------------------------------------------------------
\* A place holds an unread packet once it is filled and until it is freed.
Unread(h, i) == msgbuf[h][i].op # "ERRMSG" /\ ~Filling(h, i)

\* jia_recv has ended its scan and frees the place it has chosen, if any.
EndsScan(h) == recv[h].at = "scan" /\ recv'[h].at \in {"copy", "done"}

\* The server never stores a packet over one that has not been read: an unread
\* packet stays as it is until jia_recv frees its place.
UnreadKept ==
    [][\A h \in Host : \A i \in Place : Unread(h, i) =>
          \/ Unread(h, i)' /\ msgbuf'[h][i] = msgbuf[h][i]
          \/ EndsScan(h) /\ recv[h].index = i]_mailbox

\* A matching packet at place i that was stored before jia_recv began to look,
\* and numbered after msgseqno was last written over.
Waits(h, i) ==
    /\ Unread(h, i)
    /\ Matches(msgbuf[h][i].packet, msgbuf[h][i].packet, recv[h].from, recv[h].tag)
    /\ msgbuf[h][i].arrival <= recv[h].start
    /\ msgbuf[h][i].arrival > arrivals[h].renumbered
    /\ msgbuf[h][i].seqno < Maxmsgno

\* Although packets are stored and numbered while jia_recv looks at one place
\* after the other, it does not miss a packet that was waiting before, and takes
\* none that came later - unless it has read the number of a place that was
\* being filled.
WaitingNotOvertaken ==
    [][\A h \in Host : \A i \in Place :
          EndsScan(h) /\ ~recv[h].torn /\ Waits(h, i) =>
             /\ recv[h].index \in Place
             /\ msgbuf[h][recv[h].index].arrival <= msgbuf[h][i].arrival]_mailbox
=============================================================================
