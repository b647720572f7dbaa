---------------------------- MODULE RdmaConnect ----------------------------
(***************************************************************************)
(* Setting up the RDMA connections (rdma/rdma_comm.c): on every host but   *)
(* the first a thread that listens, and for every higher host a thread     *)
(* that connects to it, tries again when it is rejected or gets no answer, *)
(* and stays until the listening side, having seen all its peers, closes   *)
(* its end.  A host goes on when all its threads have ended.               *)
(*                                                                         *)
(* The connection manager is external: a request reaches a listening port, *)
(* the answer of a request that is no longer waited for is dropped, and    *)
(* destroying the event channel disconnects what was accepted through it.  *)
(***************************************************************************)
EXTENDS Integers, Sequences, FiniteSets, Functions

CONSTANTS HostC,        \* system_setting.hostc
          MAX_RETRY

ASSUME ConnectAssumption ==
    HostC \in Nat \ {0, 1} /\ MAX_RETRY \in Nat \ {0}

Host == 0 .. HostC - 1

\* The connection of client c[1] to server c[2].
Pair == {c \in Host \X Host : c[1] < c[2]}

VARIABLES srv,          \* sync_server_thread: setup, listen, done or failed
          cli,          \* sync_client_thread of each pair
          retry_count,
          cm,           \* events of a pair in the server's channel, and
          reply,        \* ... in the client's
          id,           \* connect_array[].id: the attempt it belongs to, 0 when unset
          completion_num,
          phase,        \* init_rdma_comm: connecting, ready, or crashed
          left,         \* bounds: requests or answers that may still be lost, and
                        \* failures that the code does not retry
          broken        \* history: a failure that the code does not retry has happened

connect == <<srv, cli, retry_count, cm, reply, id, completion_num, phase, left, broken>>

ConnectInit(losses, faults) ==
    /\ srv = [h \in Host |-> IF h = 0 THEN "done" ELSE "setup"]
    /\ cli = [c \in Pair |-> "addr"]
    /\ retry_count = [c \in Pair |-> 0]
    /\ cm = [c \in Pair |-> <<>>] /\ reply = [c \in Pair |-> "none"]
    /\ id = [h \in Host |-> [g \in Host |-> 0]]
    /\ completion_num = [h \in Host |-> 0]
    /\ phase = [h \in Host |-> "connecting"]
    /\ left = [losses |-> losses, faults |-> faults] /\ broken = FALSE

Lose == left.losses > 0 /\ left' = [left EXCEPT !.losses = @ - 1] /\ UNCHANGED broken
Fault == left.faults > 0 /\ left' = [left EXCEPT !.faults = @ - 1] /\ broken' = TRUE
NoLoss == UNCHANGED <<left, broken>>

Attempt(c) == retry_count[c] + 1
Request(n) == [event |-> "CONNECT_REQUEST", attempt |-> n]
Established(n) == [event |-> "ESTABLISHED", attempt |-> n]

\* The client waits for the answer to attempt n of c.
Awaited(c, n) == cli[c] = "connecting" /\ reply[c] = "none" /\ Attempt(c) = n

-----------------------------------------------------------------------------
\* sync_server_thread up to rdma_listen; when a step of it fails the thread ends.
ServerListens(j) ==
    /\ srv[j] = "setup"
    /\ \/ srv' = [srv EXCEPT ![j] = "listen"] /\ NoLoss
       \/ srv' = [srv EXCEPT ![j] = "failed"] /\ Fault
    /\ UNCHANGED <<cli, retry_count, cm, reply, id, completion_num, phase>>

\* The identifier of the last request is kept.
SetIdFirst(j, i, n) == id' = [id EXCEPT ![j][i] = IF @ = 0 THEN n ELSE @]
SetId(j, i, n) == id' = [id EXCEPT ![j][i] = n]

\* CONNECT_REQUEST: the identifier is kept even when rdma_accept fails, and
\* also of an attempt that the client has given up; without a queue pair the
\* request is left unanswered.
AcceptRequest(c) ==
    /\ srv[c[2]] = "listen"
    /\ cm[c] # <<>> /\ Head(cm[c]).event = "CONNECT_REQUEST"
    /\ cm' = [cm EXCEPT ![c] = Tail(@)]
    /\ LET n == Head(cm[c]).attempt
       IN  \/ /\ SetId(c[2], c[1], n)
              /\ reply' = IF Awaited(c, n) THEN [reply EXCEPT ![c] = "ESTABLISHED"] ELSE reply
              /\ NoLoss
           \/ SetId(c[2], c[1], n) /\ Awaited(c, n) /\ Lose /\ UNCHANGED reply
           \/ Lose /\ UNCHANGED <<id, reply>>
    /\ UNCHANGED <<srv, cli, retry_count, completion_num, phase>>

\* The server has seen all the hosts below it.
AllCompletedAtOnce(j, num) == num = 1
AllCompleted(j, num) == num = j

\* ESTABLISHED; after the last one the thread destroys its event channel, which
\* disconnects the clients.
ServerEstablished(c) ==
    LET j == c[2] IN
    /\ srv[j] = "listen"
    /\ cm[c] # <<>> /\ Head(cm[c]).event = "ESTABLISHED"
    /\ completion_num' = [completion_num EXCEPT ![j] = @ + 1]
    /\ IF AllCompleted(j, completion_num[j] + 1)
       THEN /\ srv' = [srv EXCEPT ![j] = "done"]
            /\ cm' = [d \in Pair |-> IF d[2] = j THEN <<>> ELSE cm[d]]
            /\ reply' = [d \in Pair |-> IF d[2] = j /\ cli[d] = "up" THEN "DISCONNECTED"
                                        ELSE reply[d]]
       ELSE cm' = [cm EXCEPT ![c] = Tail(@)] /\ UNCHANGED <<srv, reply>>
    /\ UNCHANGED <<cli, retry_count, id, phase, left, broken>>

-----------------------------------------------------------------------------
\* ADDR_RESOLVED, after which the route is resolved.
AddrResolved(c) ==
    /\ cli[c] = "addr"
    /\ cli' = [cli EXCEPT ![c] = "route"]
    /\ UNCHANGED <<srv, retry_count, cm, reply, id, completion_num, phase, left, broken>>

\* ROUTE_RESOLVED: rdma_connect sends the request; nobody listening rejects it.
RouteResolved(c) ==
    /\ cli[c] = "route"
    /\ cli' = [cli EXCEPT ![c] = "connecting"]
    /\ IF srv[c[2]] = "listen"
       THEN cm' = [cm EXCEPT ![c] = Append(@, Request(Attempt(c)))] /\ UNCHANGED reply
       ELSE reply' = [reply EXCEPT ![c] = "REJECTED"] /\ UNCHANGED cm
    /\ UNCHANGED <<srv, retry_count, id, completion_num, phase, left, broken>>

\* next_try: another turn of the loop, or the thread ends without a connection.
NextTry(c) ==
    /\ retry_count' = [retry_count EXCEPT ![c] = @ + 1]
    /\ cli' = [cli EXCEPT ![c] = IF retry_count[c] + 1 < MAX_RETRY THEN "addr" ELSE "gaveup"]
    /\ reply' = [reply EXCEPT ![c] = "none"]
    /\ UNCHANGED <<srv, cm, id, completion_num, phase>>

Rejected(c) == reply[c] = "REJECTED" /\ NextTry(c) /\ NoLoss

\* UNREACHABLE: the request or its answer is lost, or it is late and the server
\* finds it after all.
Pending(c) == \E i \in DOMAIN cm[c] : cm[c][i] = Request(Attempt(c))
Unreachable(c) ==
    /\ Awaited(c, Attempt(c))
    /\ IF Pending(c) THEN Lose ELSE NoLoss
    /\ NextTry(c)

\* ESTABLISHED: the client stays; what tells the server may be lost for good.
ClientEstablished(c) ==
    /\ reply[c] = "ESTABLISHED"
    /\ cli' = [cli EXCEPT ![c] = "up"] /\ reply' = [reply EXCEPT ![c] = "none"]
    /\ id' = [id EXCEPT ![c[1]][c[2]] = Attempt(c)]
    /\ \/ cm' = [cm EXCEPT ![c] = Append(@, Established(Attempt(c)))] /\ NoLoss
       \/ Fault /\ UNCHANGED cm
    /\ UNCHANGED <<srv, retry_count, completion_num, phase>>

ClientDisconnected(c) ==
    /\ reply[c] = "DISCONNECTED"
    /\ cli' = [cli EXCEPT ![c] = "done"] /\ reply' = [reply EXCEPT ![c] = "none"]
    /\ UNCHANGED <<srv, retry_count, cm, id, completion_num, phase, left, broken>>

\* An event that only the default case handles: no other event follows and the
\* thread waits for ever.  A call that fails at the start of a try ends it.
ClientFails(c) ==
    /\ \/ cli[c] \in {"addr", "route"} /\ cli' = [cli EXCEPT ![c] = "stuck"]
       \/ cli[c] = "addr" /\ cli' = [cli EXCEPT ![c] = "gaveup"]
    /\ Fault
    /\ UNCHANGED <<srv, retry_count, cm, reply, id, completion_num, phase>>

-----------------------------------------------------------------------------
Joined(h) ==
    /\ srv[h] \in {"done", "failed"}
    /\ \A c \in Pair : c[1] = h => cli[c] \in {"done", "gaveup"}

\* sync_connection returns; init_rdma_resource registers memory with every
\* connection's identifier and fails on one that has not been set.
init_rdma_resource(h) ==
    /\ phase[h] = "connecting" /\ Joined(h)
    /\ phase' = [phase EXCEPT ![h] =
          IF \A g \in Host \ {h} : id[h][g] # 0 THEN "ready" ELSE "crashed"]
    /\ UNCHANGED <<srv, cli, retry_count, cm, reply, id, completion_num, left, broken>>

\* The steps of a pair's two threads that happen sooner or later ...
PairStep(c) ==
    \/ AcceptRequest(c) \/ ServerEstablished(c)
    \/ AddrResolved(c) \/ RouteResolved(c) \/ Rejected(c)
    \/ ClientEstablished(c) \/ ClientDisconnected(c)
    \/ ~Pending(c) /\ Unreachable(c)

\* ... and the ones that may.
ConnectNext ==
    \/ \E c \in Pair : PairStep(c) \/ Unreachable(c) \/ ClientFails(c)
    \/ \E h \in Host : ServerListens(h) \/ init_rdma_resource(h)

\* Something the code neither retries nor waits for.
Broken == broken \/ \E c \in Pair : cli[c] = "gaveup"

-----------------------------------------------------------------------------
\* When a host starts to communicate, its end and the peer's end of every
\* connection are of one attempt, whatever was lost, late or tried again
\* (sync_server_thread also accepts attempts that have been given up).
IdsAgree ==
    \A h \in Host : phase[h] = "ready" => \A g \in Host \ {h} : id[h][g] = id[g][h]

\* DISCONNECTED ends a client thread only when its server is connected with all
\* its clients: the host then sends to it, and the server's own later peers.
EndsConnected ==
    \A c \in Pair : cli[c] = "done" =>
        \A d \in Pair : d[2] = c[2] => cli[d] \in {"up", "done"} /\ id[d[1]][d[2]] # 0
=============================================================================
