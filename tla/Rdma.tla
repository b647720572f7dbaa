-------------------------------- MODULE Rdma --------------------------------
(***************************************************************************)
(* The RDMA link: the three communication threads of every host            *)
(* (rdma/rdma_client.c, rdma/rdma_listen.c, rdma/rdma_server.c) over the   *)
(* connections of RdmaConnect.                                             *)
(*                                                                         *)
(* External: a reliable connection delivers in order, each message into    *)
(* the receive posted longest ago, and waits while none is posted (the     *)
(* retry count 7 means without end); a completion raises an event when its *)
(* queue is armed, which disarms it.  Whether arming a queue that has      *)
(* completions already raises an event is left open: adapters differ.      *)
(***************************************************************************)
EXTENDS RdmaConnect

CONSTANTS QueueSize, BatchingSize,
          Scenarios     \* bounds: losses and failures, and the destinations of
                        \* each host's messages

ASSUME QueueAssumption ==
    /\ QueueSize \in Nat \ {0} /\ BatchingSize \in 1 .. QueueSize
    /\ QueueSize % BatchingSize = 0

ASSUME ScenarioAssumption ==
    \A s \in Scenarios :
        s.losses \in Nat /\ s.faults \in Nat /\ s.program \in [Host -> Seq(Host)]

Slot == 0 .. QueueSize - 1
NoHost == HostC

VARIABLES program,      \* of the scenario
          unsent,       \* messages still to be put in the out queue
          outqueue,
          completed,    \* the head of outqueue has been sent, post_send has to see it
          inqueue,      \* connect_array[].inqueue
          rq, cq, armed,  \* of each queue pair: posted receives, unread completions
          events,       \* the completion channel
          poll,         \* rdma_listen_thread: the queue it is going to poll
          server,       \* rdma_server_thread: init or scan
          handled       \* messages handled, of each sender

link == <<program, unsent, outqueue, completed, inqueue, rq, cq, armed, events, poll, server, handled>>
vars == <<connect, link>>

NoMsg == 0
EmptyQueue == [queue |-> [i \in Slot |-> NoMsg], head |-> 0, tail |-> 0, post |-> 0,
               busy |-> 0, free |-> QueueSize]
OfPairs(x) == [h \in Host |-> [g \in Host |-> x]]

\* The k-th message of h to a host, numbered among those to that host.
Numbered(p) ==
    [k \in DOMAIN p |-> [to |-> p[k], no |-> Cardinality({l \in 1 .. k : p[l] = p[k]})]]

Init ==
    /\ \E s \in Scenarios : ConnectInit(s.losses, s.faults) /\ program = s.program
    /\ unsent = [h \in Host |-> Numbered(program[h])]
    /\ outqueue = [h \in Host |-> <<>>]
    /\ completed = [h \in Host |-> FALSE]
    /\ inqueue = OfPairs(EmptyQueue)
    /\ rq = OfPairs(<<>>) /\ cq = OfPairs(0) /\ armed = OfPairs(TRUE)
    /\ events = [h \in Host |-> <<>>]
    /\ poll = [h \in Host |-> NoHost]
    /\ server = [h \in Host |-> "init"]
    /\ handled = OfPairs(<<>>)

Ready(h) == phase[h] = "ready"
Inc(i) == (i + 1) % QueueSize
Less(n) == IF n > 0 THEN n - 1 ELSE n    \* "value error <= 0" is logged otherwise

-----------------------------------------------------------------------------
\* enqueue, by the application or a handler; it waits while the queue is full.
Enqueue(h) ==
    /\ Ready(h) /\ unsent[h] # <<>> /\ Len(outqueue[h]) < QueueSize
    /\ outqueue' = [outqueue EXCEPT ![h] = Append(@, Head(unsent[h]))]
    /\ unsent' = [unsent EXCEPT ![h] = Tail(@)]
    /\ UNCHANGED <<connect, program, completed, inqueue, rq, cq, armed, events, poll, server, handled>>

\* rdma_client_thread, a message to the host itself: no room is waited for.
PutOwn(q, m) ==
    [q EXCEPT !.queue[q.tail] = m, !.free = Less(@), !.busy = @ + 1, !.tail = Inc(@)]

SendSelf(h) ==
    /\ Ready(h) /\ outqueue[h] # <<>> /\ Head(outqueue[h]).to = h
    /\ inqueue' = [inqueue EXCEPT ![h][h] = PutOwn(@, Head(outqueue[h]).no)]
    /\ outqueue' = [outqueue EXCEPT ![h] = Tail(@)]
    /\ UNCHANGED <<connect, program, unsent, completed, rq, cq, armed, events, poll, server, handled>>

\* ... and to another: post_send, which returns when the completion is there;
\* only then the slot is freed.
SendCompleted(h) ==
    /\ completed[h]
    /\ completed' = [completed EXCEPT ![h] = FALSE]
    /\ outqueue' = [outqueue EXCEPT ![h] = Tail(@)]
    /\ UNCHANGED <<connect, program, unsent, inqueue, rq, cq, armed, events, poll, server, handled>>

\* The adapters of h and g move the head of the queue into g's oldest receive.
Deliver(h, g) ==
    /\ Ready(h) /\ ~completed[h] /\ g # h
    /\ outqueue[h] # <<>> /\ Head(outqueue[h]).to = g
    /\ id[h][g] = id[g][h] /\ rq[g][h] # <<>>
    /\ inqueue' = [inqueue EXCEPT ![g][h].queue[Head(rq[g][h])] = Head(outqueue[h]).no]
    /\ rq' = [rq EXCEPT ![g][h] = Tail(@)]
    /\ cq' = [cq EXCEPT ![g][h] = @ + 1]
    /\ events' = IF armed[g][h] THEN [events EXCEPT ![g] = Append(@, h)] ELSE events
    /\ armed' = [armed EXCEPT ![g][h] = FALSE]
    /\ completed' = [completed EXCEPT ![h] = TRUE]
    /\ UNCHANGED <<connect, program, unsent, outqueue, poll, server, handled>>

-----------------------------------------------------------------------------
\* rdma_listen_thread takes an event and asks for the next one ...
RearmNot(h, g, raised) ==
    /\ UNCHANGED armed
    /\ events' = [events EXCEPT ![h] = Tail(@)]
Rearm(h, g, raised) ==
    /\ armed' = [armed EXCEPT ![h][g] = ~raised]
    /\ events' = [events EXCEPT ![h] = IF raised THEN Append(Tail(@), g) ELSE Tail(@)]

GetEvent(h) ==
    /\ Ready(h) /\ poll[h] = NoHost /\ events[h] # <<>>
    /\ poll' = [poll EXCEPT ![h] = Head(events[h])]
    /\ \E raised \in BOOLEAN :
          /\ raised => cq[h][Head(events[h])] > 0
          /\ Rearm(h, Head(events[h]), raised)
    /\ UNCHANGED <<connect, program, unsent, outqueue, completed, inqueue, rq, cq, server, handled>>

\* ... then polls one completion, if there is one.
Polled(q) == [q EXCEPT !.busy = @ + 1, !.tail = Inc(@)]

PollOne(h) ==
    LET g == poll[h] IN
    /\ g # NoHost
    /\ poll' = [poll EXCEPT ![h] = NoHost]
    /\ IF cq[h][g] = 0 THEN UNCHANGED <<cq, inqueue>>
       ELSE /\ cq' = [cq EXCEPT ![h][g] = @ - 1]
            /\ inqueue' = [inqueue EXCEPT ![h][g] = Polled(@)]
    /\ UNCHANGED <<connect, program, unsent, outqueue, completed, rq, armed, events, server, handled>>

-----------------------------------------------------------------------------
\* rdma_server_thread handles the head of a queue and frees it.
TakeHeadStays(q) == [q EXCEPT !.busy = Less(@), !.free = @ + 1]
TakeHead(q) == [q EXCEPT !.busy = Less(@), !.free = @ + 1, !.head = Inc(@)]

Handle(h, g) ==
    /\ server[h] = "scan" /\ inqueue[h][g].busy > 0
    /\ handled' = [handled EXCEPT ![h][g] = Append(@, inqueue[h][g].queue[inqueue[h][g].head])]
    /\ inqueue' = [inqueue EXCEPT ![h][g] = TakeHead(@)]
    /\ UNCHANGED <<connect, program, unsent, outqueue, completed, rq, cq, armed, events, poll, server>>

\* check_flags and init_post_recv_wr, which goes from host to host, post a batch
\* of receives from where the last one ended.
BatchAgain(q) == [i \in 1 .. BatchingSize |-> (q.head + i - 1) % QueueSize]
Batch(q) == [i \in 1 .. BatchingSize |-> (q.post + i - 1) % QueueSize]
Posted(q) == [q EXCEPT !.free = @ - BatchingSize, !.post = (@ + BatchingSize) % QueueSize]

PostRecv(h, g) ==
    /\ Ready(h) /\ g # h
    /\ inqueue[h][g].free >= BatchingSize
    /\ server[h] = "init" => \A f \in Host \ {h} : f < g => inqueue[h][f].free = 0
    /\ rq' = [rq EXCEPT ![h][g] = @ \o Batch(inqueue[h][g])]
    /\ inqueue' = [inqueue EXCEPT ![h][g] = Posted(@)]
    /\ UNCHANGED <<connect, program, unsent, outqueue, completed, cq, armed, events, poll, server, handled>>

\* All the receives are posted before the scan begins.
InitPosted(h) ==
    /\ Ready(h) /\ server[h] = "init"
    /\ \A g \in Host \ {h} : inqueue[h][g].free = 0
    /\ server' = [server EXCEPT ![h] = "scan"]
    /\ UNCHANGED <<connect, program, unsent, outqueue, completed, inqueue, rq, cq, armed, events, poll, handled>>

-----------------------------------------------------------------------------
Client(h) == SendSelf(h) \/ SendCompleted(h)
Nic(h) == \E g \in Host : Deliver(h, g)
Listen(h) == GetEvent(h) \/ PollOne(h)
Server(h, g) == Handle(h, g) \/ PostRecv(h, g)

Connect == ConnectNext /\ UNCHANGED link
LinkNext ==
    \E h \in Host : \/ Enqueue(h) \/ Client(h) \/ Nic(h) \/ Listen(h)
                    \/ InitPosted(h) \/ \E g \in Host : Server(h, g)

Next == Connect \/ LinkNext

\* The threads run, the scan comes round to every host, and the adapters and
\* the connection manager do their part; losses and faults need not happen.
Fairness ==
    /\ \A c \in Pair : WF_vars(PairStep(c) /\ UNCHANGED link)
    /\ \A h \in Host :
        /\ WF_vars((ServerListens(h) \/ init_rdma_resource(h)) /\ UNCHANGED link)
        /\ WF_vars(Enqueue(h)) /\ WF_vars(Client(h) \/ Nic(h)) /\ WF_vars(Listen(h))
        /\ WF_vars(InitPosted(h))
        /\ \A g \in Host : WF_vars(Server(h, g))

Spec == Init /\ [][Next]_vars /\ Fairness

-----------------------------------------------------------------------------
\* The messages that h sends to g.
SentTo(h, g) == Cardinality({k \in DOMAIN program[h] : program[h][k] = g})

\* A host handles the messages of each other host in the order they were sent,
\* each once.  It handles its own that way as long as there is room: the client
\* thread waits for none, so no more than QueueSize of them are promised.
RdmaInOrder ==
    \A h, g \in Host :
        g # h \/ SentTo(h, h) <= QueueSize =>
            /\ Len(handled[h][g]) <= SentTo(g, h)
            /\ \A i \in DOMAIN handled[h][g] : handled[h][g][i] = i

\* Slots that have been received and not yet handled.
Unhandled(h, g) ==
    {(inqueue[h][g].head + i) % QueueSize : i \in 0 .. inqueue[h][g].busy + cq[h][g] - 1}

\* The adapter may write into a slot only when it holds no message that is
\* still to be handled, and no slot gets lost: every one is posted, waiting to
\* be polled, waiting to be handled, or free to be posted again.
RecvSlotsSafe ==
    \A h \in Host : \A g \in Host \ {h} :
        /\ Range(rq[h][g]) \cap Unhandled(h, g) = {}
        /\ Cardinality(Range(rq[h][g])) = Len(rq[h][g])
        /\ Len(rq[h][g]) + cq[h][g] + inqueue[h][g].busy + inqueue[h][g].free = QueueSize

AllHandled == \A h, g \in Host : Len(handled[h][g]) = SentTo(g, h)

\* Completions that were there when their queue was armed, on an adapter that
\* raises no event for them: they wait for the next message.
MissedEvent ==
    \E h, g \in Host : cq[h][g] > 0 /\ armed[h][g] /\ events[h] = <<>> /\ poll[h] = NoHost

\* Connections come about in spite of hosts that start late and of requests or
\* answers lost in between, and every message is then handled - unless a failure
\* is not retried, or the last messages of a host wait for an event for ever.
AllDelivered ==
    <>(Broken \/ (AllHandled /\ \A h \in Host : Ready(h))) \/ <>[]MissedEvent
=============================================================================
