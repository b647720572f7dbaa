------------------------------ MODULE UdpLink ------------------------------
(***************************************************************************)
(* The messages one host sends over UDP: its client thread takes them one  *)
(* by one from the out queue, gives each the next sequence number of its   *)
(* destination and repeats it until the acknowledgement arrives or it has  *)
(* tried RetryNum times; the listen thread of a destination acknowledges   *)
(* every datagram and enqueues the one it expects.  The network loses and  *)
(* reorders datagrams and acknowledgements; repetition duplicates them.    *)
(* Sockets are watched edge-triggered and read once per edge.              *)
(***************************************************************************)
EXTENDS Naturals, Sequences, SequencesExt

CONSTANTS Self,       \* the sending host
          Peers,      \* the other hosts
          Script,     \* destinations of the messages put in the out queue
          RetryNum,   \* RETRYNUM
          MaxBuf      \* datagrams a socket's receive buffer has room for

Dests == Peers \cup {Self}
Ids == DOMAIN Script
Dest(i) == Script[i]
None == 0

ASSUME LinkAssumption ==
    /\ Self \notin Peers
    /\ Script \in Seq(Dests)
    /\ RetryNum \in Nat \ {0} /\ MaxBuf \in Nat \ {0}

VARIABLES
    cur,            \* the message the client thread is at
    cpc, retries,   \* the client thread: step, retries_num
    seqno,          \* seqno of each message
    snd_seq,        \* comm_manager.snd_seq
    net, acknet,    \* copies of each datagram and of its ack in the network
    abuf, aedge,    \* ack socket of the sender: buffer, edge not yet reported
    rbuf, redge,    \* rcv socket of each peer
    held,           \* the datagram in the listen thread's msg
    rcv_seq,        \* comm_manager.rcv_seq[Self] of each peer
    inq,            \* what was put in each in queue
    acked, gaveup   \* history: messages with success == true or false

clientVars == <<cur, cpc, retries, seqno, snd_seq>>
netVars == <<net, acknet>>
ackVars == <<abuf, aedge>>
listenVars == <<rbuf, redge, held, rcv_seq>>
ghostVars == <<acked, gaveup>>
vars == <<clientVars, netVars, ackVars, listenVars, inq, ghostVars>>

Init ==
    /\ cur = 1 /\ cpc = "idle" /\ retries = 0
    /\ seqno = [i \in Ids |-> 0]
    /\ snd_seq = [d \in Dests |-> 0]
    /\ net = [i \in Ids |-> 0] /\ acknet = [i \in Ids |-> 0]
    /\ abuf = <<>> /\ aedge = FALSE
    /\ rbuf = [d \in Peers |-> <<>>] /\ redge = [d \in Peers |-> FALSE]
    /\ held = [d \in Peers |-> None]
    /\ rcv_seq = [d \in Peers |-> 0]
    /\ inq = [d \in Dests |-> <<>>]
    /\ acked = {} /\ gaveup = {}

-----------------------------------------------------------------------------
(***************************************************************************)
(* client_thread and outsend.                                              *)
(***************************************************************************)
ClientTake ==
    /\ cpc = "idle" /\ cur \in Ids
    /\ seqno' = [seqno EXCEPT ![cur] = snd_seq[Dest(cur)]]
    /\ retries' = 0
    /\ cpc' = "send"
    /\ UNCHANGED <<cur, snd_seq, netVars, ackVars, listenVars, inq, ghostVars>>

\* Steps 3 to 5: the next sequence number, whether the message got through
\* or not.
ClientDone ==
    /\ snd_seq' = [snd_seq EXCEPT ![Dest(cur)] = @ + 1]
    /\ cur' = cur + 1
    /\ cpc' = "idle"

\* A message to the host itself goes straight to its in queue.
SendSelf ==
    /\ cpc = "send" /\ Dest(cur) = Self
    /\ inq' = [inq EXCEPT ![Self] = Append(@, cur)]
    /\ acked' = acked \cup {cur}
    /\ ClientDone
    /\ UNCHANGED <<retries, seqno, netVars, ackVars, listenVars, gaveup>>

SendTo ==
    /\ cpc = "send" /\ Dest(cur) # Self
    /\ net' = [net EXCEPT ![cur] = @ + 1]
    /\ cpc' = "wait"
    /\ UNCHANGED <<cur, retries, seqno, snd_seq, acknet, ackVars, listenVars, inq, ghostVars>>

\* Faulty variant: any ack of the destination.
MatchesHost(a) == Dest(a) = Dest(cur)

\* ack.sid == msg->topid && ack.seqno == msg->seqno + 1, for the ack of a.
Matches(a) == Dest(a) = Dest(cur) /\ seqno[a] = seqno[cur]

RecvAck ==
    /\ cpc = "wait" /\ aedge
    /\ aedge' = FALSE
    /\ abuf' = Tail(abuf)
    /\ IF Matches(Head(abuf)) THEN ClientDone /\ acked' = acked \cup {cur}
                              ELSE UNCHANGED <<snd_seq, cur, cpc, acked>>
    /\ UNCHANGED <<retries, seqno, netVars, listenVars, inq, gaveup>>

\* Faulty variant: a try is not counted.
TriedSame == retries

\* retries_num++
Tried == retries + 1

TryAgain == Tried < RetryNum

\* epoll_wait times out.
Timeout ==
    /\ cpc = "wait" /\ ~aedge
    /\ retries' = Tried
    /\ IF TryAgain
       THEN cpc' = "send" /\ UNCHANGED <<snd_seq, cur, gaveup>>
       ELSE ClientDone /\ gaveup' = gaveup \cup {cur}
    /\ UNCHANGED <<seqno, netVars, ackVars, listenVars, inq, acked>>

-----------------------------------------------------------------------------
(***************************************************************************)
(* The network and the sockets.                                            *)
(***************************************************************************)
Lose(i) ==
    /\ \/ net[i] > 0 /\ net' = [net EXCEPT ![i] = @ - 1] /\ UNCHANGED acknet
       \/ acknet[i] > 0 /\ acknet' = [acknet EXCEPT ![i] = @ - 1] /\ UNCHANGED net
    /\ UNCHANGED <<clientVars, ackVars, listenVars, inq, ghostVars>>

Arrive(i) ==
    /\ net[i] > 0 /\ Len(rbuf[Dest(i)]) < MaxBuf
    /\ net' = [net EXCEPT ![i] = @ - 1]
    /\ rbuf' = [rbuf EXCEPT ![Dest(i)] = Append(@, i)]
    /\ redge' = [redge EXCEPT ![Dest(i)] = TRUE]
    /\ UNCHANGED <<clientVars, acknet, ackVars, held, rcv_seq, inq, ghostVars>>

AckArrive(i) ==
    /\ acknet[i] > 0 /\ Len(abuf) < MaxBuf
    /\ acknet' = [acknet EXCEPT ![i] = @ - 1]
    /\ abuf' = Append(abuf, i)
    /\ aedge' = TRUE
    /\ UNCHANGED <<clientVars, net, listenVars, inq, ghostVars>>

-----------------------------------------------------------------------------
(***************************************************************************)
(* listen_thread of a peer.                                                *)
(***************************************************************************)
\* epoll_wait reports the edge of d once.
EdgeTaken(d) == [redge EXCEPT ![d] = FALSE]

\* Steps 1 to 3: receive one datagram for the edge and acknowledge it.
ListenAck(d) ==
    /\ redge[d] /\ held[d] = None
    /\ redge' = EdgeTaken(d)
    /\ held' = [held EXCEPT ![d] = Head(rbuf[d])]
    /\ rbuf' = [rbuf EXCEPT ![d] = Tail(@)]
    /\ acknet' = [acknet EXCEPT ![Head(rbuf[d])] = @ + 1]
    /\ UNCHANGED <<clientVars, net, ackVars, rcv_seq, inq, ghostVars>>

\* Faulty variant: resent datagrams are accepted too.
ExpectedAgain(d, i) == seqno[i] <= rcv_seq[d]

Expected(d, i) == seqno[i] = rcv_seq[d]

\* Step 4: enqueue the datagram that is expected, drop any other.
ListenEnqueue(d) ==
    /\ held[d] # None /\ Expected(d, held[d])
    /\ rcv_seq' = [rcv_seq EXCEPT ![d] = @ + 1]
    /\ inq' = [inq EXCEPT ![d] = Append(@, held[d])]
    /\ held' = [held EXCEPT ![d] = None]
    /\ UNCHANGED <<clientVars, netVars, ackVars, rbuf, redge, ghostVars>>

ListenDrop(d) ==
    /\ held[d] # None /\ ~Expected(d, held[d])
    /\ held' = [held EXCEPT ![d] = None]
    /\ UNCHANGED <<clientVars, netVars, ackVars, rbuf, redge, rcv_seq, inq, ghostVars>>

-----------------------------------------------------------------------------
Client == ClientTake \/ SendSelf \/ SendTo \/ RecvAck \/ Timeout
Listen(d) == ListenAck(d) \/ ListenEnqueue(d) \/ ListenDrop(d)
Network == \E i \in Ids : Lose(i) \/ Arrive(i) \/ AckArrive(i)

\* The out queue is empty and the client thread waits for the next message.
Idle == cpc = "idle" /\ cur \notin Ids /\ UNCHANGED vars

Next == Client \/ Network \/ (\E d \in Peers : Listen(d)) \/ Idle

Spec == Init /\ [][Next]_vars

\* The client thread keeps running: epoll_wait returns an ack or times out.
\* Nothing is assumed of the network or of the peers.
FairSpec == Spec /\ WF_vars(Client)

-----------------------------------------------------------------------------
\* What the in queue of d holds or will hold once the listen thread is done
\* with the datagram it has acknowledged.
Reached(d) ==
    IF d \in Peers /\ held[d] # None /\ Expected(d, held[d])
    THEN Append(inq[d], held[d]) ELSE inq[d]

\* "send msg success!" means delivered: a message whose ack was accepted has
\* reached its destination, if no earlier message to it was given up.
SuccessMeansDelivered ==
    \A i \in acked :
        (\A j \in gaveup : Dest(j) = Dest(i) => j > i) => i \in Range(Reached(Dest(i)))

\* The messages of S in the order in which they are sent.
Listed(S) ==
    CHOOSE s \in [1 .. Cardinality(S) -> S] : \A j, k \in DOMAIN s : j < k => s[j] < s[k]

\* The link implements Wire: in order, at most once, and one message at a
\* time, as long as the client gives up on none.
First == IF cur \in Ids /\ cur \in Range(Reached(Dest(cur))) THEN cur + 1 ELSE cur
Gone(d) == {i \in Ids : Dest(i) = d /\ i < cur /\ i \notin Range(Reached(d))}
Messages == [i \in Ids |-> i]
Queue == SubSeq(Messages, First, Len(Script))
Arrivals == [d \in Dests |-> Reached(d)]
Overdue == [d \in Dests |-> Listed(Gone(d))]
W == INSTANCE Wire WITH
        Script <- Messages, outq <- Queue, inq <- Arrivals, overdue <- Overdue
WireSpec == W!Spec

\* The client thread is never stuck on a message: every message leaves the
\* out queue, acknowledged or given up, whatever the network does.
QueueDrains == <>(cur \notin Ids)
=============================================================================
