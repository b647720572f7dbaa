----------------------------- MODULE RdmaProofs -----------------------------
(***************************************************************************)
(* The RDMA link for any number of hosts, any MAX_RETRY, any ring size and *)
(* any messages, whatever is lost or fails while connecting.               *)
(*                                                                         *)
(* The connections: requests reach the server in the order of the          *)
(* attempts, and a client that is up sends no more of them, so the id that *)
(* the server keeps is that of the attempt that succeeded; the server's    *)
(* count of ESTABLISHED events is at most the number of clients that are   *)
(* up.                                                                     *)
(*                                                                         *)
(* The rings: from head on come the messages to handle, the ones to poll,  *)
(* the posted receives and the free slots, in this order.  So a receive is *)
(* never posted for a slot whose message is unread, and with the positions *)
(* the numbers of the messages are known too.                              *)
(***************************************************************************)
EXTENDS Rdma, FiniteSetTheorems, TLAPS

(***************************************************************************)
(* The invariant of the connections.                                       *)
(***************************************************************************)
UpOrDone(c) == cli[c] \in {"up", "done"}

Event == [event : {"CONNECT_REQUEST", "ESTABLISHED"}, attempt : Nat]

ConnectType ==
    /\ srv \in [Host -> {"setup", "listen", "done", "failed"}]
    /\ cli \in [Pair -> {"addr", "route", "connecting", "up", "done", "gaveup", "stuck"}]
    /\ retry_count \in [Pair -> Nat]
    /\ cm \in [Pair -> Seq(Event)]
    /\ reply \in [Pair -> {"none", "ESTABLISHED", "REJECTED", "DISCONNECTED"}]
    /\ id \in [Host -> [Host -> Nat]]
    /\ completion_num \in [Host -> Nat]
    /\ phase \in [Host -> {"connecting", "ready", "crashed"}]

\* The requests of a pair arrive in the order of the attempts: only the last
\* one can be of the current attempt.
RequestsInOrder(c) ==
    \A k \in 1 .. Len(cm[c]) : cm[c][k].event = "CONNECT_REQUEST" =>
        /\ ~UpOrDone(c) /\ reply[c] # "ESTABLISHED"
        /\ cm[c][k].attempt <= Attempt(c)
        /\ cm[c][k].attempt = Attempt(c) => k = Len(cm[c]) /\ cli[c] \notin {"addr", "route"}

\* The two ends of a connection belong to the attempt that succeeded.
EndsMatch(c) ==
    /\ UpOrDone(c) => id[c[1]][c[2]] = Attempt(c) /\ id[c[2]][c[1]] = Attempt(c)
    /\ ~UpOrDone(c) => id[c[1]][c[2]] = 0
    /\ srv[c[2]] \in {"setup", "failed"} => id[c[2]][c[1]] = 0

\* What a reply means.
Replies(c) ==
    /\ reply[c] = "ESTABLISHED" => cli[c] = "connecting" /\ id[c[2]][c[1]] = Attempt(c)
    /\ reply[c] = "REJECTED" => cli[c] = "connecting"
    /\ reply[c] = "DISCONNECTED" => srv[c[2]] = "done"

\* The server and the hosts that communicate go by clients that are up; one that
\* is not has sent requests only, one that is may have ESTABLISHED under way.
Connected(c) ==
    /\ ~UpOrDone(c) => \A k \in 1 .. Len(cm[c]) : cm[c][k].event = "CONNECT_REQUEST"
    /\ UpOrDone(c) => Len(cm[c]) <= 1
    /\ cli[c] = "done" => srv[c[2]] = "done"
    /\ srv[c[2]] = "done" => UpOrDone(c)
    /\ phase[c[1]] = "ready" \/ phase[c[2]] = "ready" => UpOrDone(c)

PairInv(c) == RequestsInOrder(c) /\ EndsMatch(c) /\ Replies(c) /\ Connected(c)

\* The clients of j that are up and whose ESTABLISHED event is not waiting.
Counted(j) == {c \in Pair : c[2] = j /\ UpOrDone(c) /\ cm[c] = <<>>}

\* The count of sync_server_thread never runs ahead of the clients.
Completion == \A j \in Host : completion_num[j] <= Cardinality(Counted(j))

ConnectInv == ConnectType /\ srv[0] = "done" /\ Completion /\ \A c \in Pair : PairInv(c)

-----------------------------------------------------------------------------
(***************************************************************************)
(* The invariant of the rings and of the messages.                         *)
(***************************************************************************)
Ring == [queue : [Slot -> Nat], head : Slot, tail : Slot, post : Slot, busy : Nat, free : Nat]
Msg == [to : Host, no : Nat]

LinkType ==
    /\ program \in [Host -> Seq(Host)]
    /\ unsent \in [Host -> Seq(Msg)] /\ outqueue \in [Host -> Seq(Msg)]
    /\ completed \in [Host -> BOOLEAN]
    /\ \A h \in Host : completed[h] => outqueue[h] # <<>> /\ Head(outqueue[h]).to # h
    /\ inqueue \in [Host -> [Host -> Ring]]
    /\ rq \in [Host -> [Host -> Seq(Slot)]] /\ cq \in [Host -> [Host -> Nat]]
    /\ events \in [Host -> Seq(Host)] /\ poll \in [Host -> Host \cup {NoHost}]
    /\ handled \in [Host -> [Host -> Seq(Nat)]]
    /\ \A h \in Host : cq[h][h] = 0

\* From head on: what is to be handled, the c messages to be polled, the m
\* receives r that are posted, and the free slots.
RingLayout(q, r, m, c) ==
    /\ m + c + q.busy + q.free = QueueSize
    /\ \A k \in 1 .. m : r[k] = (q.head + q.busy + c + k - 1) % QueueSize
    /\ q.post = (q.head + q.busy + c + m) % QueueSize

\* The messages received and not handled are those after the n-th.
Contents(q, c, n) ==
    \A i \in 0 .. q.busy + c - 1 : q.queue[(q.head + i) % QueueSize] = n + i + 1

\* What post_send has not been told of, or has not got yet.
Out(h) == IF completed[h] THEN Tail(outqueue[h]) ELSE outqueue[h]

\* After d messages of program p come the m messages of o and the l of u.
Remaining(p, d, o, m, u, l) ==
    /\ d \in Nat
    /\ \A k \in 1 .. m : o[k] = Numbered(p)[d + k]
    /\ \A k \in 1 .. l : u[k] = Numbered(p)[d + m + k]

\* How many of the first n messages of p are to x.
CountOf(p, x, n) == Cardinality({l \in 1 .. n : p[l] = x})

\* The messages of h that have been delivered.
Gone(h) == Len(program[h]) - Len(Out(h)) - Len(unsent[h])

Rings == \A h \in Host : \A g \in Host \ {h} :
            RingLayout(inqueue[h][g], rq[h][g], Len(rq[h][g]), cq[h][g])

\* The order of the messages from g to h is promised.
Promised(h, g) == g # h \/ SentTo(h, h) <= QueueSize

\* The messages from g to h: all that g has delivered are there or handled, in
\* the order they were sent.
Order(h, g) ==
    /\ Len(handled[h][g]) + inqueue[h][g].busy + cq[h][g] = CountOf(program[g], h, Gone(g))
    /\ Promised(h, g) =>
          /\ Contents(inqueue[h][g], cq[h][g], Len(handled[h][g]))
          /\ \A i \in 1 .. Len(handled[h][g]) : handled[h][g][i] = i
    /\ h = g /\ Promised(h, h) =>
          inqueue[h][h].tail = (inqueue[h][h].head + inqueue[h][h].busy) % QueueSize

Messages ==
    /\ \A h \in Host : Remaining(program[h], Gone(h), Out(h), Len(Out(h)), unsent[h], Len(unsent[h]))
    /\ \A h, g \in Host : Order(h, g)

RdmaInv == LinkType /\ Rings /\ Messages

-----------------------------------------------------------------------------
(***************************************************************************)
(* Pairs of hosts.                                                         *)
(***************************************************************************)
\* A pair is its client and its server, the lower host first.
LEMMA PairFacts ==
    /\ 0 \in Host /\ Host \subseteq Nat
    /\ \A c \in Pair : c[1] \in Host /\ c[2] \in Host /\ c[1] < c[2] /\ c = <<c[1], c[2]>> /\ c[2] # 0
    /\ \A i, j \in Host : i < j => <<i, j>> \in Pair
    /\ \A c, d \in Pair : c[1] = d[1] /\ c[2] = d[2] => c = d
    /\ \A c, d \in Pair : ~(c[1] = d[2] /\ c[2] = d[1])
<1>1. 0 \in Host /\ Host \subseteq Nat
  BY ConnectAssumption DEF Host
<1>2. \A c \in Pair : c[1] \in Host /\ c[2] \in Host /\ c[1] < c[2] /\ c = <<c[1], c[2]>>
  BY DEF Pair
<1>3. \A c \in Pair : c[2] # 0
  BY <1>1, <1>2
<1>4. \A i, j \in Host : i < j => <<i, j>> \in Pair
  BY DEF Pair
<1>5. \A c, d \in Pair : c[1] = d[1] /\ c[2] = d[2] => c = d
  BY <1>2
<1>6. \A c, d \in Pair : ~(c[1] = d[2] /\ c[2] = d[1])
  BY <1>1, <1>2
<1> QED BY <1>1, <1>2, <1>3, <1>4, <1>5, <1>6

ClientsOf(j) == {c \in Pair : c[2] = j}

\* Host j has j clients.
LEMMA ClientsOfServer ==
    ASSUME NEW j \in Host
    PROVE  IsFiniteSet(ClientsOf(j)) /\ Cardinality(ClientsOf(j)) = j
<1>1. j \in Nat /\ j < HostC /\ HostC \in Nat
  BY ConnectAssumption DEF Host
<1>2. IsFiniteSet(0 .. j - 1) /\ Cardinality(0 .. j - 1) = j
  <2>1. 0 \in Int /\ j - 1 \in Int
    BY <1>1
  <2>2. IsFiniteSet(0 .. j - 1) /\ Cardinality(0 .. j - 1) = IF 0 > j - 1 THEN 0 ELSE j - 1 - 0 + 1
    BY <2>1, FS_Interval
  <2> QED BY <1>1, <2>2
<1>3. \A i \in 0 .. j - 1 : i \in Host /\ i < j
  BY <1>1 DEF Host
<1>4. PICK f : f = [i \in 0 .. j - 1 |-> <<i, j>>]
  OBVIOUS
<1>5. f \in [0 .. j - 1 -> ClientsOf(j)]
  BY <1>3, <1>4, PairFacts DEF ClientsOf
<1>6. \A a, b \in 0 .. j - 1 : f[a] = f[b] => a = b
  BY <1>4
<1>7. \A c \in ClientsOf(j) : c[1] \in 0 .. j - 1 /\ f[c[1]] = c
  BY <1>1, <1>4, PairFacts DEF ClientsOf
<1>8. f \in Bijection(0 .. j - 1, ClientsOf(j))
  BY <1>5, <1>6, <1>7 DEF Bijection, Injection, Surjection, IsInjective
<1> QED BY <1>2, <1>8, FS_Bijection DEF ExistsBijection

\* Those counted are clients of the server.
LEMMA CountedFinite ==
    ASSUME NEW j \in Host
    PROVE  /\ IsFiniteSet(Counted(j)) /\ Cardinality(Counted(j)) \in Nat
           /\ Counted(j) \subseteq ClientsOf(j)
<1>1. Counted(j) \subseteq ClientsOf(j)
  BY DEF Counted, ClientsOf
<1>2. IsFiniteSet(Counted(j))
  BY <1>1, ClientsOfServer, FS_Subset
<1> QED BY <1>1, <1>2, FS_CardinalityType

\* The same holds after a step.
LEMMA CountedFiniteNext ==
    ASSUME NEW j \in Host
    PROVE  IsFiniteSet(Counted(j)') /\ Cardinality(Counted(j)') \in Nat
<1>1. Counted(j)' \subseteq ClientsOf(j)
  BY DEF Counted, ClientsOf
<1>2. IsFiniteSet(Counted(j)')
  BY <1>1, ClientsOfServer, FS_Subset
<1> QED BY <1>2, FS_CardinalityType

\* A step that uncounts nobody and leaves completion_num alone.
LEMMA CompletionKept ==
    ASSUME Completion, completion_num \in [Host -> Nat], completion_num' = completion_num,
           \A j \in Host : Counted(j) \subseteq Counted(j)'
    PROVE  Completion'
<1> SUFFICES ASSUME NEW j \in Host PROVE completion_num[j] <= Cardinality(Counted(j)')
  BY DEF Completion
<1>1. Cardinality(Counted(j)) <= Cardinality(Counted(j)')
  BY CountedFiniteNext, FS_Subset
<1>2. completion_num[j] <= Cardinality(Counted(j)) /\ completion_num[j] \in Nat
  BY DEF Completion
<1> QED BY <1>1, <1>2, CountedFinite, CountedFiniteNext

\* A pair that a step does not touch.
LEMMA PairKept ==
    ASSUME NEW d \in Pair, PairInv(d), cli'[d] = cli[d], retry_count'[d] = retry_count[d],
           cm'[d] = cm[d], reply'[d] = reply[d], srv'[d[2]] = srv[d[2]],
           id'[d[1]][d[2]] = id[d[1]][d[2]], id'[d[2]][d[1]] = id[d[2]][d[1]],
           phase'[d[1]] = phase[d[1]], phase'[d[2]] = phase[d[2]]
    PROVE  PairInv(d)'
BY DEF PairInv, RequestsInOrder, EndsMatch, Replies, Connected, UpOrDone, Attempt

-----------------------------------------------------------------------------
(***************************************************************************)
(* The steps of connecting.                                                *)
(***************************************************************************)
\* Nothing has been sent when the hosts start.
LEMMA InitConnect ==
    ASSUME NEW l, NEW f, ConnectInit(l, f)
    PROVE  ConnectInv
<1>1. /\ srv = [h \in Host |-> IF h = 0 THEN "done" ELSE "setup"]
      /\ cli = [c \in Pair |-> "addr"]
      /\ retry_count = [c \in Pair |-> 0]
      /\ cm = [c \in Pair |-> <<>>] /\ reply = [c \in Pair |-> "none"]
      /\ id = [h \in Host |-> [g \in Host |-> 0]]
      /\ completion_num = [h \in Host |-> 0]
      /\ phase = [h \in Host |-> "connecting"]
  BY DEF ConnectInit
<1>2. ConnectType
  BY <1>1 DEF ConnectType
<1>3. srv[0] = "done"
  BY <1>1, PairFacts
<1>4. Completion
  <2> SUFFICES ASSUME NEW j \in Host PROVE completion_num[j] <= Cardinality(Counted(j))
    BY DEF Completion
  <2> QED BY <1>1, CountedFinite
<1>5. ASSUME NEW c \in Pair PROVE PairInv(c)
  <2>1. /\ c[1] \in Host /\ c[2] \in Host /\ c[2] # 0 /\ cm[c] = <<>> /\ Len(cm[c]) = 0
        /\ cli[c] = "addr" /\ reply[c] = "none"
    BY <1>1, PairFacts
  <2>2. /\ srv[c[2]] = "setup" /\ id[c[1]][c[2]] = 0 /\ id[c[2]][c[1]] = 0
        /\ phase[c[1]] = "connecting" /\ phase[c[2]] = "connecting"
    BY <1>1, <2>1
  <2>3. ~UpOrDone(c)
    BY <2>1 DEF UpOrDone
  <2> QED BY <2>1, <2>2, <2>3 DEF PairInv, RequestsInOrder, EndsMatch, Replies, Connected
<1> QED BY <1>2, <1>3, <1>4, <1>5 DEF ConnectInv

\* The listening thread of a host, up to rdma_listen.
LEMMA ServerListensKeeps ==
    ASSUME ConnectInv, NEW h \in Host, ServerListens(h)
    PROVE  ConnectInv'
<1>1. PICK v \in {"listen", "failed"} : srv' = [srv EXCEPT ![h] = v]
  BY DEF ServerListens
<1>2. /\ cli' = cli /\ retry_count' = retry_count /\ cm' = cm /\ reply' = reply /\ id' = id
      /\ completion_num' = completion_num /\ phase' = phase /\ srv[h] = "setup"
  BY DEF ServerListens
<1>3. ConnectType'
  BY <1>1, <1>2 DEF ConnectInv, ConnectType
<1>4. srv'[0] = "done"
  BY <1>1, <1>2, PairFacts DEF ConnectInv, ConnectType
<1>5. Completion'
  <2>1. \A j \in Host : Counted(j) \subseteq Counted(j)'
    BY <1>2 DEF Counted, UpOrDone
  <2> QED BY <1>2, <2>1, CompletionKept DEF ConnectInv, ConnectType
<1>6. ASSUME NEW d \in Pair PROVE PairInv(d)'
  <2>1. PairInv(d) /\ d[2] \in Host
    BY PairFacts DEF ConnectInv
  <2>2. CASE d[2] = h
    <3>1. srv'[d[2]] = v
      BY <1>1, <2>1, <2>2 DEF ConnectInv, ConnectType
    <3>2. UpOrDone(d)' <=> UpOrDone(d)
      BY <1>2 DEF UpOrDone
    <3>3. RequestsInOrder(d)' /\ EndsMatch(d)'
      BY <1>2, <2>1, <2>2, <3>2 DEF PairInv, RequestsInOrder, EndsMatch, Attempt
    <3>4. Replies(d)' /\ Connected(d)'
      BY <1>2, <2>1, <2>2, <3>1, <3>2 DEF PairInv, Replies, Connected, Attempt
    <3> QED BY <3>3, <3>4 DEF PairInv
  <2>3. CASE d[2] # h
    <3>1. srv'[d[2]] = srv[d[2]]
      BY <1>1, <2>1, <2>3 DEF ConnectInv, ConnectType
    <3> QED BY <1>2, <2>1, <3>1, PairKept
  <2> QED BY <2>2, <2>3
<1> QED BY <1>3, <1>4, <1>5, <1>6 DEF ConnectInv

\* A host has connected, or finds that it has not.
LEMMA ResourceKeeps ==
    ASSUME ConnectInv, NEW h \in Host, init_rdma_resource(h)
    PROVE  ConnectInv'
<1>1. /\ cli' = cli /\ retry_count' = retry_count /\ cm' = cm /\ reply' = reply /\ id' = id
      /\ completion_num' = completion_num /\ srv' = srv
  BY DEF init_rdma_resource
<1>2. PICK v \in {"ready", "crashed"} :
          /\ phase' = [phase EXCEPT ![h] = v]
          /\ v = "ready" => \A g \in Host \ {h} : id[h][g] # 0
  BY DEF init_rdma_resource
<1>3. ConnectType'
  BY <1>1, <1>2 DEF ConnectInv, ConnectType
<1>4. Completion'
  <2>1. \A j \in Host : Counted(j) \subseteq Counted(j)'
    BY <1>1 DEF Counted, UpOrDone
  <2> QED BY <1>1, <2>1, CompletionKept DEF ConnectInv, ConnectType
<1>5. ASSUME NEW d \in Pair PROVE PairInv(d)'
  <2>1. PairInv(d) /\ d[1] \in Host /\ d[2] \in Host /\ d[1] # d[2]
    BY PairFacts DEF ConnectInv
  <2>2. UpOrDone(d)' <=> UpOrDone(d)
    BY <1>1 DEF UpOrDone
  <2>3. RequestsInOrder(d)' /\ EndsMatch(d)' /\ Replies(d)'
    BY <1>1, <2>1, <2>2 DEF PairInv, RequestsInOrder, EndsMatch, Replies, Attempt
  <2>4. ASSUME v = "ready", d[1] = h PROVE UpOrDone(d)
    BY <1>2, <2>1, <2>4 DEF PairInv, EndsMatch
  <2>5. ASSUME v = "ready", d[2] = h PROVE UpOrDone(d)
    <3>1. id[h][d[1]] # 0
      BY <1>2, <2>1, <2>5
    <3>2. srv[h] \in {"done", "failed"}
      BY DEF init_rdma_resource, Joined
    <3> QED BY <2>1, <2>5, <3>1, <3>2 DEF PairInv, EndsMatch, Connected
  <2>6. phase'[d[1]] = "ready" \/ phase'[d[2]] = "ready" => UpOrDone(d)
    BY <1>2, <2>1, <2>4, <2>5 DEF PairInv, Connected, ConnectInv, ConnectType
  <2>7. Connected(d)'
    BY <1>1, <2>1, <2>2, <2>6 DEF PairInv, Connected
  <2> QED BY <2>3, <2>7 DEF PairInv
<1> QED BY <1>1, <1>3, <1>4, <1>5 DEF ConnectInv

\* The client resolves the address.
LEMMA AddrResolvedKeeps ==
    ASSUME ConnectInv, NEW c \in Pair, AddrResolved(c)
    PROVE  ConnectInv'
<1>1. /\ cli' = [cli EXCEPT ![c] = "route"] /\ cli[c] = "addr"
      /\ retry_count' = retry_count /\ cm' = cm /\ reply' = reply /\ id' = id
      /\ completion_num' = completion_num /\ srv' = srv /\ phase' = phase
  BY DEF AddrResolved
<1>2. ConnectType'
  BY <1>1 DEF ConnectInv, ConnectType
<1>3. \A d \in Pair : (UpOrDone(d)' <=> UpOrDone(d)) /\ (d # c => cli'[d] = cli[d])
  BY <1>1 DEF UpOrDone, ConnectInv, ConnectType
<1>4. Completion'
  <2>1. \A j \in Host : Counted(j) \subseteq Counted(j)'
    BY <1>1, <1>3 DEF Counted
  <2> QED BY <1>1, <2>1, CompletionKept DEF ConnectInv, ConnectType
<1>5. ASSUME NEW d \in Pair PROVE PairInv(d)'
  <2>1. CASE d = c
    <3>1. PairInv(c) /\ cli'[c] = "route"
      BY <1>1 DEF ConnectInv, ConnectType
    <3>2. RequestsInOrder(c)'
      BY <1>1, <1>3, <3>1 DEF PairInv, RequestsInOrder, Attempt
    <3>3. EndsMatch(c)' /\ Replies(c)'
      BY <1>1, <1>3, <3>1 DEF PairInv, EndsMatch, Replies, Attempt
    <3>4. Connected(c)'
      BY <1>1, <1>3, <3>1 DEF PairInv, Connected
    <3> QED BY <2>1, <3>2, <3>3, <3>4 DEF PairInv
  <2>2. CASE d # c
    BY <1>1, <1>3, <2>2, PairKept DEF ConnectInv
  <2> QED BY <2>1, <2>2
<1> QED BY <1>1, <1>2, <1>4, <1>5 DEF ConnectInv

\* A client that fails in a way nobody handles.
LEMMA ClientFailsKeeps ==
    ASSUME ConnectInv, NEW c \in Pair, ClientFails(c)
    PROVE  ConnectInv'
<1>1. /\ \E v \in {"stuck", "gaveup"} : cli' = [cli EXCEPT ![c] = v]
      /\ cli[c] \in {"addr", "route"}
      /\ retry_count' = retry_count /\ cm' = cm /\ reply' = reply /\ id' = id
      /\ completion_num' = completion_num /\ srv' = srv /\ phase' = phase
  BY DEF ClientFails
<1>2. PICK v \in {"stuck", "gaveup"} : cli' = [cli EXCEPT ![c] = v]
  BY <1>1
<1>3. ConnectType'
  BY <1>1, <1>2 DEF ConnectInv, ConnectType
<1>4. \A d \in Pair : (UpOrDone(d)' <=> UpOrDone(d)) /\ (d # c => cli'[d] = cli[d])
  BY <1>1, <1>2 DEF UpOrDone, ConnectInv, ConnectType
<1>5. Completion'
  <2>1. \A j \in Host : Counted(j) \subseteq Counted(j)'
    BY <1>1, <1>4 DEF Counted
  <2> QED BY <1>1, <2>1, CompletionKept DEF ConnectInv, ConnectType
<1>6. ASSUME NEW d \in Pair PROVE PairInv(d)'
  <2>1. CASE d = c
    <3>1. PairInv(c) /\ cli'[c] = v
      BY <1>2 DEF ConnectInv, ConnectType
    <3>2. RequestsInOrder(c)'
      BY <1>1, <1>4, <3>1 DEF PairInv, RequestsInOrder, Attempt
    <3>3. EndsMatch(c)' /\ Replies(c)'
      BY <1>1, <1>4, <3>1 DEF PairInv, EndsMatch, Replies, Attempt
    <3>4. Connected(c)'
      BY <1>1, <1>4, <3>1 DEF PairInv, Connected
    <3> QED BY <2>1, <3>2, <3>3, <3>4 DEF PairInv
  <2>2. CASE d # c
    BY <1>1, <1>4, <2>2, PairKept DEF ConnectInv
  <2> QED BY <2>1, <2>2
<1> QED BY <1>1, <1>3, <1>5, <1>6 DEF ConnectInv

\* The client sends a request, or nobody listens.
LEMMA RouteResolvedKeeps ==
    ASSUME ConnectInv, NEW c \in Pair, RouteResolved(c)
    PROVE  ConnectInv'
<1>1. /\ cli' = [cli EXCEPT ![c] = "connecting"] /\ cli[c] = "route"
      /\ retry_count' = retry_count /\ id' = id
      /\ completion_num' = completion_num /\ srv' = srv /\ phase' = phase
  BY DEF RouteResolved
<1>2. PICK n \in Nat : n = Attempt(c)
  BY DEF Attempt, ConnectInv, ConnectType
<1>3. cm[c] \in Seq(Event) /\ cli \in [Pair -> {"addr", "route", "connecting", "up", "done", "gaveup", "stuck"}]
  BY DEF ConnectInv, ConnectType
<1>4. Request(n) \in Event /\ Request(n).event = "CONNECT_REQUEST" /\ Request(n).attempt = n
  BY DEF Request, Event
<1>5. \/ cm' = [cm EXCEPT ![c] = Append(cm[c], Request(n))] /\ reply' = reply
      \/ cm' = cm /\ reply' = [reply EXCEPT ![c] = "REJECTED"]
  BY <1>2 DEF RouteResolved
<1>6. ConnectType'
  <2>1. cli' \in [Pair -> {"addr", "route", "connecting", "up", "done", "gaveup", "stuck"}]
    BY <1>1, <1>3
  <2>2. cm' \in [Pair -> Seq(Event)]
    <3>1. Append(cm[c], Request(n)) \in Seq(Event)
      BY <1>3, <1>4
    <3> QED BY <1>5, <3>1 DEF ConnectInv, ConnectType
  <2>3. reply' \in [Pair -> {"none", "ESTABLISHED", "REJECTED", "DISCONNECTED"}]
    BY <1>5 DEF ConnectInv, ConnectType
  <2> QED BY <1>1, <2>1, <2>2, <2>3 DEF ConnectInv, ConnectType
<1>7. \A d \in Pair : (UpOrDone(d)' <=> UpOrDone(d))
                      /\ (d # c => cli'[d] = cli[d] /\ cm'[d] = cm[d] /\ reply'[d] = reply[d])
  BY <1>1, <1>5 DEF UpOrDone, ConnectInv, ConnectType
<1>8. ~UpOrDone(c) /\ cli'[c] = "connecting" /\ PairInv(c)
  BY <1>1, <1>3 DEF UpOrDone, ConnectInv
<1>9. Completion'
  <2>1. \A j \in Host : Counted(j) \subseteq Counted(j)'
    BY <1>7, <1>8 DEF Counted
  <2> QED BY <1>1, <2>1, CompletionKept DEF ConnectInv, ConnectType
<1>10. PairInv(c)'
  <2>1. reply[c] # "ESTABLISHED" /\ (reply'[c] = reply[c] \/ reply'[c] = "REJECTED")
    BY <1>1, <1>5, <1>8 DEF PairInv, Replies, ConnectInv, ConnectType
  <2>2. /\ \A k \in 1 .. Len(cm[c]) : /\ cm[c][k].event = "CONNECT_REQUEST"
                                      /\ cm[c][k].attempt <= n /\ cm[c][k].attempt # n
        /\ Len(cm[c]) \in Nat
    BY <1>1, <1>2, <1>3, <1>8 DEF PairInv, Connected, RequestsInOrder
  <2>3. \A k \in 1 .. Len(cm'[c]) :
            /\ cm'[c][k].event = "CONNECT_REQUEST" /\ cm'[c][k].attempt <= n
            /\ cm'[c][k].attempt = n => k = Len(cm'[c])
    <3>1. CASE cm'[c] = Append(cm[c], Request(n))
      <4>1. PICK s \in Seq(Event) :
                  /\ s = cm'[c] /\ Len(s) = Len(cm[c]) + 1
                  /\ s[Len(cm[c]) + 1] = Request(n) /\ \A k \in 1 .. Len(cm[c]) : s[k] = cm[c][k]
        <5>1. PICK e \in Event : e = Request(n)
          BY <1>4, Zenon
        <5>2. /\ Append(cm[c], e) \in Seq(Event) /\ Len(Append(cm[c], e)) = Len(cm[c]) + 1
              /\ Append(cm[c], e)[Len(cm[c]) + 1] = e
              /\ \A k \in 1 .. Len(cm[c]) : Append(cm[c], e)[k] = cm[c][k]
          BY <1>3
        <5> QED BY <3>1, <5>1, <5>2, Zenon
      <4>2. \A k \in 1 .. Len(s) : k \in 1 .. Len(cm[c]) \/ k = Len(cm[c]) + 1
        BY <2>2, <4>1
      <4> QED BY <1>2, <1>4, <2>2, <4>1, <4>2
    <3>2. CASE cm'[c] = cm[c]
      BY <2>2, <3>2
    <3> QED BY <1>5, <3>1, <3>2 DEF ConnectInv, ConnectType
  <2>4. RequestsInOrder(c)'
    BY <1>1, <1>2, <1>7, <1>8, <2>1, <2>3 DEF RequestsInOrder, Attempt
  <2>5. EndsMatch(c)' /\ Replies(c)'
    BY <1>1, <1>7, <1>8, <2>1 DEF PairInv, EndsMatch, Replies, Attempt
  <2>6. Connected(c)'
    BY <1>1, <1>7, <1>8, <2>3 DEF PairInv, Connected
  <2> QED BY <2>4, <2>5, <2>6 DEF PairInv
<1>11. ASSUME NEW d \in Pair, d # c PROVE PairInv(d)'
  BY <1>1, <1>7, <1>11, PairKept DEF ConnectInv
<1> QED BY <1>1, <1>6, <1>9, <1>10, <1>11 DEF ConnectInv

\* The client tries again, or gives up.
LEMMA NextTryKeeps ==
    ASSUME ConnectInv, NEW c \in Pair, cli[c] = "connecting", NextTry(c)
    PROVE  ConnectInv'
<1>1. /\ retry_count' = [retry_count EXCEPT ![c] = @ + 1]
      /\ reply' = [reply EXCEPT ![c] = "none"]
      /\ cm' = cm /\ id' = id /\ completion_num' = completion_num /\ srv' = srv /\ phase' = phase
  BY DEF NextTry
<1>2. PICK v \in {"addr", "gaveup"} : cli' = [cli EXCEPT ![c] = v]
  BY DEF NextTry
<1>3. ConnectType'
  <2>1. retry_count' \in [Pair -> Nat]
    BY <1>1 DEF ConnectInv, ConnectType
  <2>2. cli' \in [Pair -> {"addr", "route", "connecting", "up", "done", "gaveup", "stuck"}]
    BY <1>2 DEF ConnectInv, ConnectType
  <2>3. reply' \in [Pair -> {"none", "ESTABLISHED", "REJECTED", "DISCONNECTED"}]
    BY <1>1 DEF ConnectInv, ConnectType
  <2> QED BY <1>1, <2>1, <2>2, <2>3 DEF ConnectInv, ConnectType
<1>4. \A d \in Pair : /\ UpOrDone(d)' <=> UpOrDone(d)
                      /\ d # c => /\ cli'[d] = cli[d] /\ reply'[d] = reply[d]
                                  /\ retry_count'[d] = retry_count[d]
  BY <1>1, <1>2 DEF UpOrDone, ConnectInv, ConnectType
<1>5. Completion'
  <2>1. \A j \in Host : Counted(j) \subseteq Counted(j)'
    BY <1>1, <1>4 DEF Counted
  <2> QED BY <1>1, <2>1, CompletionKept DEF ConnectInv, ConnectType
<1>6. ASSUME NEW d \in Pair, d # c PROVE PairInv(d)'
  BY <1>1, <1>4, <1>6, PairKept DEF ConnectInv
<1>7. PairInv(c)'
  <2>1. PairInv(c) /\ cli'[c] = v /\ reply'[c] = "none" /\ ~UpOrDone(c)
    BY <1>1, <1>2 DEF ConnectInv, ConnectType, UpOrDone
  <2>2. PICK n \in Nat : n = Attempt(c) /\ Attempt(c)' = n + 1
    BY <1>1 DEF Attempt, ConnectInv, ConnectType
  <2>3. cm[c] \in Seq(Event) /\ \A k \in 1 .. Len(cm[c]) : cm[c][k].attempt \in Nat
    <3>1. cm[c] \in Seq(Event)
      BY DEF ConnectInv, ConnectType
    <3>2. \A k \in 1 .. Len(cm[c]) : cm[c][k] \in Event
      BY <3>1
    <3> QED BY <3>1, <3>2 DEF Event
  <2>4. RequestsInOrder(c)'
    <3>1. \A k \in 1 .. Len(cm[c]) : cm[c][k].event = "CONNECT_REQUEST" =>
              cm[c][k].attempt <= n + 1 /\ cm[c][k].attempt # n + 1
      BY <2>1, <2>2, <2>3 DEF PairInv, RequestsInOrder
    <3> QED BY <1>1, <1>4, <2>1, <2>2, <3>1 DEF RequestsInOrder
  <2>5. EndsMatch(c)' /\ Replies(c)'
    BY <1>1, <1>4, <2>1 DEF PairInv, EndsMatch, Replies
  <2>6. Connected(c)'
    BY <1>1, <1>4, <2>1 DEF PairInv, Connected
  <2> QED BY <2>4, <2>5, <2>6 DEF PairInv
<1> QED BY <1>1, <1>3, <1>5, <1>6, <1>7 DEF ConnectInv

\* The client gets ESTABLISHED: no request of it is under way any more.
LEMMA ClientEstablishedKeeps ==
    ASSUME ConnectInv, NEW c \in Pair, ClientEstablished(c)
    PROVE  ConnectInv'
<1>1. /\ cli' = [cli EXCEPT ![c] = "up"] /\ reply' = [reply EXCEPT ![c] = "none"]
      /\ id' = [id EXCEPT ![c[1]][c[2]] = Attempt(c)]
      /\ retry_count' = retry_count /\ completion_num' = completion_num
      /\ srv' = srv /\ phase' = phase /\ reply[c] = "ESTABLISHED"
  BY DEF ClientEstablished
<1>2. PICK n \in Nat : n = Attempt(c) /\ n = Attempt(c)'
  BY <1>1 DEF Attempt, ConnectInv, ConnectType
<1>3. PairInv(c) /\ cli[c] = "connecting" /\ ~UpOrDone(c) /\ id[c[2]][c[1]] = n
  BY <1>1, <1>2 DEF ConnectInv, PairInv, Replies, UpOrDone
<1>4. cm[c] = <<>>
  <2>1. cm[c] \in Seq(Event)
    BY DEF ConnectInv, ConnectType
  <2>2. \A k \in 1 .. Len(cm[c]) : FALSE
    BY <1>1, <1>3 DEF PairInv, Connected, RequestsInOrder
  <2>3. Len(cm[c]) = 0
    BY <2>1, <2>2
  <2> QED BY <2>1, <2>3
<1>5. PICK e \in Event : e = Established(n) /\ e.event = "ESTABLISHED"
  <2>1. Established(n) \in Event /\ Established(n).event = "ESTABLISHED"
    BY DEF Established, Event
  <2> QED BY <2>1, Zenon
<1>6. cm' = [cm EXCEPT ![c] = Append(@, e)] \/ cm' = cm
  BY <1>2, <1>5 DEF ClientEstablished
<1>7. PICK s \in Seq(Event) : s = cm'[c] /\ (s = <<>> \/ s = <<e>>)
  <2>1. Append(<<>>, e) = <<e>> /\ <<e>> \in Seq(Event) /\ <<>> \in Seq(Event)
    OBVIOUS
  <2>2. cm'[c] = <<e>> \/ cm'[c] = <<>>
    BY <1>4, <1>6, <2>1 DEF ConnectInv, ConnectType
  <2> QED BY <2>1, <2>2, Zenon
<1>8. Len(s) <= 1 /\ \A k \in 1 .. Len(s) : s[k] = e
  <2>1. CASE s = <<>>
    BY <2>1
  <2>2. CASE s = <<e>>
    <3>1. Len(s) = 1 /\ s[1] = e
      BY <2>2
    <3> QED BY <3>1
  <2> QED BY <1>7, <2>1, <2>2
<1>9. /\ id'[c[1]][c[2]] = n /\ id' \in [Host -> [Host -> Nat]]
      /\ \A i, j \in Host : ~(i = c[1] /\ j = c[2]) => id'[i][j] = id[i][j]
  <2>1. id \in [Host -> [Host -> Nat]] /\ c[1] \in Host /\ c[2] \in Host
    BY PairFacts DEF ConnectInv, ConnectType
  <2>2. id' = [id EXCEPT ![c[1]][c[2]] = n]
    BY <1>1, <1>2
  <2> QED BY <2>1, <2>2
<1>10. ConnectType'
  <2>1. cli' \in [Pair -> {"addr", "route", "connecting", "up", "done", "gaveup", "stuck"}]
    BY <1>1 DEF ConnectInv, ConnectType
  <2>2. cm' \in [Pair -> Seq(Event)]
    <3>1. Append(cm[c], e) \in Seq(Event) /\ cm \in [Pair -> Seq(Event)]
      BY DEF ConnectInv, ConnectType
    <3> QED BY <1>6, <3>1
  <2>3. reply' \in [Pair -> {"none", "ESTABLISHED", "REJECTED", "DISCONNECTED"}]
    BY <1>1 DEF ConnectInv, ConnectType
  <2> QED BY <1>1, <1>9, <2>1, <2>2, <2>3 DEF ConnectInv, ConnectType
<1>11. \A d \in Pair : /\ d # c => /\ cli'[d] = cli[d] /\ cm'[d] = cm[d] /\ reply'[d] = reply[d]
                                   /\ (UpOrDone(d)' <=> UpOrDone(d))
  BY <1>1, <1>6 DEF UpOrDone, ConnectInv, ConnectType
<1>12. Completion'
  <2>1. \A j \in Host : Counted(j) \subseteq Counted(j)'
    BY <1>3, <1>11 DEF Counted
  <2> QED BY <1>1, <2>1, CompletionKept DEF ConnectInv, ConnectType
<1>13. ASSUME NEW d \in Pair, d # c PROVE PairInv(d)'
  <2>1. d[1] \in Host /\ d[2] \in Host /\ ~(d[1] = c[1] /\ d[2] = c[2]) /\ ~(d[2] = c[1] /\ d[1] = c[2])
    BY <1>13, PairFacts
  <2>2. id'[d[1]][d[2]] = id[d[1]][d[2]] /\ id'[d[2]][d[1]] = id[d[2]][d[1]]
    BY <1>9, <2>1
  <2> QED BY <1>1, <1>11, <1>13, <2>2, PairKept DEF ConnectInv
<1>14. PairInv(c)'
  <2>1. c[1] \in Host /\ c[2] \in Host /\ c[1] # c[2]
    BY PairFacts
  <2>2. id'[c[2]][c[1]] = n
    BY <1>3, <1>9, <2>1
  <2>3. cli'[c] = "up" /\ reply'[c] = "none" /\ UpOrDone(c)'
    BY <1>1 DEF UpOrDone, ConnectInv, ConnectType
  <2>4. RequestsInOrder(c)'
    BY <1>5, <1>7, <1>8 DEF RequestsInOrder
  <2>5. srv[c[2]] \notin {"setup", "failed"}
    BY <1>2, <1>3 DEF PairInv, EndsMatch, Attempt, ConnectInv, ConnectType
  <2>6. EndsMatch(c)' /\ Replies(c)'
    BY <1>1, <1>2, <1>9, <2>2, <2>3, <2>5 DEF EndsMatch, Replies
  <2>7. Connected(c)'
    BY <1>7, <1>8, <2>3 DEF Connected
  <2> QED BY <2>4, <2>6, <2>7 DEF PairInv
<1> QED BY <1>1, <1>10, <1>12, <1>13, <1>14 DEF ConnectInv

\* The client is disconnected by a server that has seen all its clients.
LEMMA ClientDisconnectedKeeps ==
    ASSUME ConnectInv, NEW c \in Pair, ClientDisconnected(c)
    PROVE  ConnectInv'
<1>1. /\ cli' = [cli EXCEPT ![c] = "done"] /\ reply' = [reply EXCEPT ![c] = "none"]
      /\ reply[c] = "DISCONNECTED"
      /\ retry_count' = retry_count /\ cm' = cm /\ id' = id
      /\ completion_num' = completion_num /\ srv' = srv /\ phase' = phase
  BY DEF ClientDisconnected
<1>2. PairInv(c) /\ srv[c[2]] = "done" /\ UpOrDone(c) /\ UpOrDone(c)'
  BY <1>1 DEF ConnectInv, ConnectType, PairInv, Replies, Connected, UpOrDone
<1>3. \A d \in Pair : /\ UpOrDone(d)' <=> UpOrDone(d)
                      /\ d # c => cli'[d] = cli[d] /\ reply'[d] = reply[d]
  BY <1>1, <1>2 DEF UpOrDone, ConnectInv, ConnectType
<1>4. ConnectType'
  BY <1>1 DEF ConnectInv, ConnectType
<1>5. Completion'
  <2>1. \A j \in Host : Counted(j) \subseteq Counted(j)'
    BY <1>1, <1>3 DEF Counted
  <2> QED BY <1>1, <2>1, CompletionKept DEF ConnectInv, ConnectType
<1>6. ASSUME NEW d \in Pair, d # c PROVE PairInv(d)'
  BY <1>1, <1>3, <1>6, PairKept DEF ConnectInv
<1>7. PairInv(c)'
  <2>1. cli'[c] = "done" /\ reply'[c] = "none"
    BY <1>1 DEF ConnectInv, ConnectType
  <2>2. RequestsInOrder(c)'
    BY <1>1, <1>2 DEF PairInv, RequestsInOrder
  <2>3. EndsMatch(c)' /\ Replies(c)'
    BY <1>1, <1>2, <2>1 DEF PairInv, EndsMatch, Replies, Attempt
  <2>4. Connected(c)'
    BY <1>1, <1>2, <2>1 DEF PairInv, Connected
  <2> QED BY <2>2, <2>3, <2>4 DEF PairInv
<1> QED BY <1>1, <1>4, <1>5, <1>6, <1>7 DEF ConnectInv

\* The server accepts a request, or does not get so far.
LEMMA AcceptRequestKeeps ==
    ASSUME ConnectInv, NEW c \in Pair, AcceptRequest(c)
    PROVE  ConnectInv'
<1>1. /\ cli' = cli /\ retry_count' = retry_count /\ completion_num' = completion_num
      /\ srv' = srv /\ phase' = phase /\ srv[c[2]] = "listen" /\ cm[c] # <<>>
      /\ cm' = [cm EXCEPT ![c] = Tail(@)] /\ Head(cm[c]).event = "CONNECT_REQUEST"
  BY DEF AcceptRequest
<1>2. PairInv(c) /\ c[1] \in Host /\ c[2] \in Host /\ c[1] # c[2]
  BY PairFacts DEF ConnectInv
<1>3. cm \in [Pair -> Seq(Event)] /\ id \in [Host -> [Host -> Nat]]
  BY DEF ConnectInv, ConnectType
<1>4. PICK s \in Seq(Event), m \in Nat : s = cm[c] /\ m = Len(s) /\ m > 0
  BY <1>1, <1>3
<1>5. PICK n \in Nat : n = Head(s).attempt /\ n = s[1].attempt /\ s[1].event = "CONNECT_REQUEST"
  <2>1. Head(s) = s[1] /\ s[1] \in Event
    BY <1>1, <1>4
  <2> QED BY <1>1, <1>4, <2>1 DEF Event
<1>6. PICK t \in Seq(Event) : /\ t = cm'[c] /\ Len(t) = m - 1
                              /\ \A k \in 1 .. m - 1 : t[k] = s[k + 1]
  <2>1. Tail(s) \in Seq(Event) /\ Len(Tail(s)) = m - 1 /\ \A k \in 1 .. m - 1 : Tail(s)[k] = s[k + 1]
    BY <1>1, <1>4
  <2>2. cm'[c] = Tail(s)
    BY <1>1, <1>3, <1>4
  <2> QED BY <2>1, <2>2, Zenon
<1>7. /\ ~UpOrDone(c) /\ reply[c] # "ESTABLISHED"
      /\ n = Attempt(c) => m = 1
  <2>1. 1 \in 1 .. Len(cm[c])
    BY <1>4
  <2> QED BY <1>2, <1>4, <1>5, <2>1 DEF PairInv, RequestsInOrder
<1>8. \A d \in Pair : /\ UpOrDone(d)' <=> UpOrDone(d)
                      /\ d # c => cm'[d] = cm[d]
  BY <1>1, <1>3 DEF UpOrDone
<1>9. Awaited(c, n) => cli[c] = "connecting" /\ n = Attempt(c)
  BY DEF Awaited
<1>10. /\ id' = [id EXCEPT ![c[2]][c[1]] = n] \/ id' = id
       /\ \/ reply' = reply
          \/ /\ reply' = [reply EXCEPT ![c] = "ESTABLISHED"] /\ Awaited(c, n)
             /\ id' = [id EXCEPT ![c[2]][c[1]] = n]
  <2>1. n = Head(cm[c]).attempt
    BY <1>4, <1>5
  <2> QED BY <2>1 DEF AcceptRequest, SetId
<1>11. /\ id' \in [Host -> [Host -> Nat]]
       /\ id' = [id EXCEPT ![c[2]][c[1]] = n] => id'[c[2]][c[1]] = n
       /\ \A i, j \in Host : ~(i = c[2] /\ j = c[1]) => id'[i][j] = id[i][j]
  <2>1. CASE id' = [id EXCEPT ![c[2]][c[1]] = n]
    BY <1>2, <1>3, <2>1
  <2>2. CASE id' = id /\ id' # [id EXCEPT ![c[2]][c[1]] = n]
    BY <1>3, <2>2
  <2> QED BY <1>10, <2>1, <2>2
<1>12. ConnectType'
  <2>1. cm' \in [Pair -> Seq(Event)]
    <3>1. Tail(cm[c]) \in Seq(Event)
      BY <1>1, <1>3
    <3> QED BY <1>1, <1>3, <3>1
  <2>2. reply' \in [Pair -> {"none", "ESTABLISHED", "REJECTED", "DISCONNECTED"}]
    BY <1>10 DEF ConnectInv, ConnectType
  <2> QED BY <1>1, <1>11, <2>1, <2>2 DEF ConnectInv, ConnectType
<1>13. Completion'
  <2>1. \A j \in Host : Counted(j) \subseteq Counted(j)'
    BY <1>7, <1>8 DEF Counted
  <2> QED BY <1>1, <2>1, CompletionKept DEF ConnectInv, ConnectType
<1>14. ASSUME NEW d \in Pair, d # c PROVE PairInv(d)'
  <2>1. d[1] \in Host /\ d[2] \in Host /\ ~(d[1] = c[2] /\ d[2] = c[1]) /\ ~(d[2] = c[2] /\ d[1] = c[1])
    BY <1>14, PairFacts
  <2>2. id'[d[1]][d[2]] = id[d[1]][d[2]] /\ id'[d[2]][d[1]] = id[d[2]][d[1]]
    BY <1>11, <2>1
  <2>3. reply'[d] = reply[d]
    BY <1>10, <1>14 DEF ConnectInv, ConnectType
  <2> QED BY <1>1, <1>8, <1>14, <2>2, <2>3, PairKept DEF ConnectInv
<1>15. PairInv(c)'
  <2>1. id'[c[1]][c[2]] = id[c[1]][c[2]] /\ (Attempt(c)' = Attempt(c)) /\ Attempt(c) \in Nat
    <3>1. id'[c[1]][c[2]] = id[c[1]][c[2]]
      BY <1>2, <1>11
    <3>2. (Attempt(c)' = Attempt(c)) /\ Attempt(c) \in Nat
      BY <1>1 DEF Attempt, ConnectInv, ConnectType
    <3> QED BY <3>1, <3>2
  <2>2. reply'[c] = reply[c] \/ (reply'[c] = "ESTABLISHED" /\ Awaited(c, n) /\ id'[c[2]][c[1]] = n)
    BY <1>10, <1>11 DEF ConnectInv, ConnectType
  <2>3. \A k \in 1 .. Len(t) :
            /\ t[k].event = "CONNECT_REQUEST" /\ t[k].attempt <= Attempt(c)
            /\ t[k].attempt = Attempt(c) => k = Len(t) /\ cli[c] \notin {"addr", "route"}
            /\ reply'[c] # "ESTABLISHED"
    <3> SUFFICES ASSUME NEW k \in 1 .. Len(t)
                 PROVE  /\ t[k].event = "CONNECT_REQUEST" /\ t[k].attempt <= Attempt(c)
                        /\ t[k].attempt = Attempt(c) => k = Len(t) /\ cli[c] \notin {"addr", "route"}
                        /\ reply'[c] # "ESTABLISHED"
      OBVIOUS
    <3>1. PICK b \in 1 .. m : b = k + 1 /\ t[k] = s[b]
      BY <1>4, <1>6
    <3>2. s[b].event = "CONNECT_REQUEST"
      BY <1>2, <1>4, <1>7, <3>1 DEF PairInv, Connected
    <3>3. /\ s[b].attempt <= Attempt(c)
          /\ s[b].attempt = Attempt(c) => b = m /\ cli[c] \notin {"addr", "route"}
      BY <1>2, <1>4, <3>1, <3>2 DEF PairInv, RequestsInOrder
    <3>4. reply'[c] # "ESTABLISHED"
      BY <1>4, <1>7, <1>9, <2>2, <3>1
    <3> QED BY <1>4, <1>6, <3>1, <3>2, <3>3, <3>4
  <2>4. RequestsInOrder(c)'
    BY <1>1, <1>6, <1>7, <1>8, <2>1, <2>3 DEF RequestsInOrder
  <2>5. EndsMatch(c)'
    BY <1>1, <1>2, <1>7, <1>8, <2>1 DEF PairInv, EndsMatch
  <2>6. Replies(c)'
    BY <1>1, <1>2, <1>7, <1>9, <2>1, <2>2 DEF PairInv, Replies
  <2>7. Connected(c)'
    BY <1>1, <1>2, <1>6, <1>7, <1>8, <2>3 DEF PairInv, Connected
  <2> QED BY <2>4, <2>5, <2>6, <2>7 DEF PairInv
<1> QED BY <1>1, <1>12, <1>13, <1>14, <1>15 DEF ConnectInv

\* The server counts an ESTABLISHED event: when it has counted one for each
\* host below it, all of them are up.
LEMMA ServerEstablishedKeeps ==
    ASSUME ConnectInv, NEW c \in Pair, ServerEstablished(c)
    PROVE  ConnectInv'
<1>1. PICK j \in Host : j = c[2] /\ j # 0
  BY PairFacts
<1>2. /\ cli' = cli /\ retry_count' = retry_count /\ id' = id /\ phase' = phase
      /\ srv[j] = "listen" /\ cm[c] # <<>> /\ Head(cm[c]).event = "ESTABLISHED"
      /\ completion_num' = [completion_num EXCEPT ![j] = @ + 1]
  BY <1>1 DEF ServerEstablished
<1>3. PairInv(c) /\ cm \in [Pair -> Seq(Event)]
  BY DEF ConnectInv, ConnectType
<1>4. UpOrDone(c) /\ cm[c] # <<>> /\ Tail(cm[c]) = <<>>
  <2>1. cm[c] \in Seq(Event) /\ Head(cm[c]) = cm[c][1] /\ 1 \in 1 .. Len(cm[c])
    BY <1>2, <1>3
  <2>2. UpOrDone(c)
    BY <1>2, <1>3, <2>1 DEF PairInv, Connected
  <2>3. PICK s \in Seq(Event) : s = cm[c] /\ Len(s) = 1 /\ s # <<>>
    <3>1. Len(cm[c]) <= 1
      BY <1>3, <2>2 DEF PairInv, Connected
    <3>2. Len(cm[c]) \in Nat /\ 1 <= Len(cm[c])
      BY <2>1
    <3>3. \A n \in Nat : 1 <= n /\ n <= 1 => n = 1
      OBVIOUS
    <3>4. Len(cm[c]) = 1
      BY <3>1, <3>2, <3>3, Zenon
    <3> QED BY <1>2, <2>1, <3>4, Zenon
  <2>4. PICK t \in Seq(Event) : t = Tail(s) /\ Len(t) = 0
    <3>1. Tail(s) \in Seq(Event) /\ Len(Tail(s)) = Len(s) - 1
      BY <2>3
    <3>2. Len(Tail(s)) = 0
      BY <2>3, <3>1
    <3> QED BY <3>1, <3>2, Zenon
  <2>5. t = <<>>
    BY <2>4
  <2> QED BY <1>2, <2>2, <2>3, <2>4, <2>5
<1>5. \A d \in Pair : UpOrDone(d)' <=> UpOrDone(d)
  BY <1>2 DEF UpOrDone
<1>6. \A d \in Pair : cm'[d] = cm[d] \/ cm'[d] = <<>>
  BY <1>3, <1>4 DEF ServerEstablished
<1>7. cm'[c] = <<>> /\ cm' \in [Pair -> Seq(Event)]
  <2>1. CASE AllCompleted(j, completion_num[j] + 1)
    <3>1. cm' = [d \in Pair |-> IF d[2] = j THEN <<>> ELSE cm[d]]
      BY <1>1, <2>1 DEF ServerEstablished
    <3> QED BY <1>1, <1>3, <3>1
  <2>2. CASE ~AllCompleted(j, completion_num[j] + 1)
    <3>1. cm' = [cm EXCEPT ![c] = <<>>]
      BY <1>1, <1>4, <2>2 DEF ServerEstablished
    <3> QED BY <1>3, <3>1
  <2> QED BY <2>1, <2>2
<1>8. /\ \A i \in Host : Counted(i) \subseteq Counted(i)'
      /\ Counted(j) \cup {c} \subseteq Counted(j)' /\ c \notin Counted(j)
  BY <1>1, <1>4, <1>5, <1>6, <1>7 DEF Counted
<1>9. /\ IsFiniteSet(Counted(j) \cup {c})
      /\ Cardinality(Counted(j) \cup {c}) = Cardinality(Counted(j)) + 1
  BY <1>8, CountedFinite, FS_AddElement
<1>10. completion_num \in [Host -> Nat] /\ \A i \in Host : completion_num[i] <= Cardinality(Counted(i))
  BY DEF ConnectInv, ConnectType, Completion
<1>11. Completion'
  <2> SUFFICES ASSUME NEW i \in Host PROVE completion_num'[i] <= Cardinality(Counted(i)')
    BY DEF Completion
  <2>1. Cardinality(Counted(i)) <= Cardinality(Counted(i)')
    BY <1>8, CountedFiniteNext, FS_Subset
  <2>2. CASE i = j
    <3>1. Cardinality(Counted(j)) + 1 <= Cardinality(Counted(j)')
      BY <1>8, <1>9, CountedFiniteNext, FS_Subset
    <3>2. completion_num'[i] = completion_num[j] + 1 /\ completion_num[j] <= Cardinality(Counted(j))
      BY <1>2, <1>10, <2>2
    <3> QED BY <1>10, <2>2, <3>1, <3>2, CountedFinite, CountedFiniteNext
  <2>3. CASE i # j
    <3>1. completion_num'[i] = completion_num[i] /\ completion_num[i] <= Cardinality(Counted(i))
          /\ completion_num[i] \in Nat
      BY <1>2, <1>10, <2>3
    <3> QED BY <2>1, <3>1, CountedFinite, CountedFiniteNext
  <2> QED BY <2>2, <2>3
<1>12. ASSUME AllCompleted(j, completion_num[j] + 1), NEW d \in Pair, d[2] = j
       PROVE  UpOrDone(d)
  <2>1. completion_num[j] + 1 = j /\ completion_num[j] \in Nat /\ j \in Nat
    BY <1>10, <1>12, PairFacts DEF AllCompleted
  <2>2. j <= Cardinality(Counted(j) \cup {c})
    BY <1>9, <1>10, <2>1, CountedFinite
  <2>3. PICK T : T = Counted(j) \cup {c} /\ T \in SUBSET ClientsOf(j)
    <3>1. Counted(j) \cup {c} \subseteq ClientsOf(j)
      BY <1>1, CountedFinite DEF ClientsOf
    <3> QED BY <3>1
  <2>4. Cardinality(T) <= j /\ Cardinality(T) \in Nat
    <3>1. Cardinality(T) <= Cardinality(ClientsOf(j)) /\ IsFiniteSet(T)
      BY <2>3, ClientsOfServer, FS_Subset
    <3> QED BY <3>1, ClientsOfServer, FS_CardinalityType
  <2>5. Cardinality(ClientsOf(j)) = Cardinality(T)
    BY <2>1, <2>2, <2>3, <2>4, ClientsOfServer
  <2>6. ClientsOf(j) = T
    BY <2>3, <2>5, ClientsOfServer, FS_Subset
  <2>7. d \in Counted(j) \cup {c}
    BY <1>12, <2>3, <2>6 DEF ClientsOf
  <2> QED BY <1>4, <2>7 DEF Counted
<1>13. CASE AllCompleted(j, completion_num[j] + 1)
  <2>1. /\ srv' = [srv EXCEPT ![j] = "done"]
        /\ cm' = [d \in Pair |-> IF d[2] = j THEN <<>> ELSE cm[d]]
        /\ reply' = [d \in Pair |-> IF d[2] = j /\ cli[d] = "up" THEN "DISCONNECTED" ELSE reply[d]]
    BY <1>1, <1>13 DEF ServerEstablished
  <2>2. ConnectType'
    <3>1. reply' \in [Pair -> {"none", "ESTABLISHED", "REJECTED", "DISCONNECTED"}]
      BY <2>1 DEF ConnectInv, ConnectType
    <3>2. srv' \in [Host -> {"setup", "listen", "done", "failed"}]
      BY <2>1 DEF ConnectInv, ConnectType
    <3>3. completion_num' \in [Host -> Nat]
      BY <1>2, <1>10
    <3> QED BY <1>2, <1>7, <3>1, <3>2, <3>3 DEF ConnectInv, ConnectType
  <2>3. ASSUME NEW d \in Pair PROVE PairInv(d)'
    <3>1. CASE d[2] = j
      <4>1. /\ PairInv(d) /\ UpOrDone(d) /\ cm'[d] = <<>> /\ srv'[d[2]] = "done"
            /\ reply'[d] = "DISCONNECTED" \/ reply'[d] = reply[d]
        BY <1>1, <1>12, <1>13, <2>1, <3>1 DEF ConnectInv, ConnectType
      <4>2. RequestsInOrder(d)'
        BY <4>1 DEF RequestsInOrder
      <4>3. EndsMatch(d)' /\ Replies(d)'
        BY <1>2, <1>5, <4>1 DEF PairInv, EndsMatch, Replies, Attempt
      <4>4. Connected(d)'
        BY <1>2, <1>5, <4>1 DEF PairInv, Connected
      <4> QED BY <4>2, <4>3, <4>4 DEF PairInv
    <3>2. CASE d[2] # j
      <4>1. d[2] \in Host
        BY PairFacts
      <4>2. cm'[d] = cm[d] /\ reply'[d] = reply[d] /\ srv'[d[2]] = srv[d[2]]
        BY <2>1, <3>2, <4>1 DEF ConnectInv, ConnectType
      <4> QED BY <1>2, <4>2, PairKept DEF ConnectInv
    <3> QED BY <3>1, <3>2
  <2>4. srv'[0] = "done"
    BY <1>1, <2>1, PairFacts DEF ConnectInv, ConnectType
  <2> QED BY <1>11, <2>2, <2>3, <2>4 DEF ConnectInv
<1>14. CASE ~AllCompleted(j, completion_num[j] + 1)
  <2>1. srv' = srv /\ reply' = reply /\ cm' = [cm EXCEPT ![c] = <<>>]
    BY <1>1, <1>4, <1>14 DEF ServerEstablished
  <2>2. ConnectType'
    <3>1. completion_num' \in [Host -> Nat]
      BY <1>2, <1>10
    <3> QED BY <1>2, <1>7, <2>1, <3>1 DEF ConnectInv, ConnectType
  <2>3. ASSUME NEW d \in Pair, d # c PROVE PairInv(d)'
    <3>1. cm'[d] = cm[d]
      BY <1>3, <2>1, <2>3
    <3> QED BY <1>2, <2>1, <3>1, PairKept DEF ConnectInv
  <2>4. PairInv(c)'
    <3>1. RequestsInOrder(c)'
      BY <1>7 DEF RequestsInOrder
    <3>2. EndsMatch(c)' /\ Replies(c)'
      BY <1>2, <1>3, <1>5, <2>1 DEF PairInv, EndsMatch, Replies, Attempt
    <3>3. Connected(c)'
      BY <1>2, <1>3, <1>4, <1>5, <1>7, <2>1 DEF PairInv, Connected
    <3> QED BY <3>1, <3>2, <3>3 DEF PairInv
  <2> QED BY <1>11, <2>1, <2>2, <2>3, <2>4 DEF ConnectInv
<1> QED BY <1>13, <1>14

\* The threads that connect, and the communication threads, which leave the
\* connections as they are.
LEMMA NextConnect == ConnectInv /\ [Next]_vars => ConnectInv'
<1> SUFFICES ASSUME ConnectInv, [Next]_vars PROVE ConnectInv'
  OBVIOUS
<1>1. CASE UNCHANGED connect
  <2>1. /\ srv' = srv /\ cli' = cli /\ retry_count' = retry_count /\ cm' = cm /\ reply' = reply
        /\ id' = id /\ completion_num' = completion_num /\ phase' = phase
    BY <1>1 DEF connect
  <2>2. ConnectType'
    BY <2>1 DEF ConnectInv, ConnectType
  <2>3. \A j \in Host : Counted(j) \subseteq Counted(j)'
    BY <2>1 DEF Counted, UpOrDone
  <2>4. Completion'
    BY <2>1, <2>3, CompletionKept DEF ConnectInv, ConnectType
  <2>5. ASSUME NEW d \in Pair PROVE PairInv(d)'
    BY <2>1, PairKept DEF ConnectInv
  <2> QED BY <2>1, <2>2, <2>4, <2>5 DEF ConnectInv
<1>2. ASSUME NEW c \in Pair, PairStep(c) \/ Unreachable(c) \/ ClientFails(c)
      PROVE  ConnectInv'
  <2>1. CASE Unreachable(c)
    BY <2>1, NextTryKeeps DEF Unreachable, Awaited
  <2>2. CASE Rejected(c)
    <3>1. cli[c] = "connecting"
      BY <2>2 DEF Rejected, ConnectInv, PairInv, Replies
    <3> QED BY <2>2, <3>1, NextTryKeeps DEF Rejected
  <2> QED BY <1>2, <2>1, <2>2, AcceptRequestKeeps, ServerEstablishedKeeps, AddrResolvedKeeps,
             RouteResolvedKeeps, ClientEstablishedKeeps, ClientDisconnectedKeeps, ClientFailsKeeps
          DEF PairStep
<1>3. ASSUME NEW h \in Host, ServerListens(h) \/ init_rdma_resource(h)
      PROVE  ConnectInv'
  BY <1>3, ServerListensKeeps, ResourceKeeps
<1>4. CASE Connect
  BY <1>2, <1>3, <1>4 DEF Connect, ConnectNext
<1>5. CASE LinkNext
  <2>1. UNCHANGED connect
    BY <1>5, ZenonT(40) DEF LinkNext, Enqueue, Client, SendSelf, SendCompleted, Nic, Deliver, Listen, GetEvent,
                PollOne, InitPosted, Server, Handle, PostRecv
  <2> QED BY <1>1, <2>1
<1>6. CASE UNCHANGED vars
  BY <1>1, <1>6 DEF vars
<1> QED BY <1>4, <1>5, <1>6 DEF Next

\* The invariant of the connections, and of every state of the link.
THEOREM ConnectInvariance == Spec => []ConnectInv
<1>1. Init => ConnectInv
  BY InitConnect DEF Init
<1> QED BY <1>1, NextConnect, PTL DEF Spec

\* Whatever was lost, late or tried again, the two ends of a connection that a
\* host has started to use are of one attempt (connect_array[].id).
THEOREM ConnectedEndsAgree == Spec => []IdsAgree
<1>1. ConnectInv => IdsAgree
  <2> SUFFICES ASSUME ConnectInv, NEW h \in Host, phase[h] = "ready", NEW g \in Host \ {h}
               PROVE  id[h][g] = id[g][h]
    BY DEF IdsAgree
  <2>1. h \in Nat /\ g \in Nat /\ h # g
    BY PairFacts
  <2>2. CASE h < g
    <3>1. PICK c \in Pair : c[1] = h /\ c[2] = g
      BY <2>2, PairFacts
    <3> QED BY <3>1 DEF ConnectInv, PairInv, EndsMatch, Connected
  <2>3. CASE g < h
    <3>1. PICK c \in Pair : c[1] = g /\ c[2] = h
      BY <2>3, PairFacts
    <3> QED BY <3>1 DEF ConnectInv, PairInv, EndsMatch, Connected
  <2> QED BY <2>1, <2>2, <2>3
<1> QED BY <1>1, ConnectInvariance, PTL

\* A client thread ends with DISCONNECTED only when its server has a connection
\* with each of its clients (completion_num in sync_server_thread).
THEOREM ServersWaitForAll == Spec => []EndsConnected
<1>1. ConnectInv => EndsConnected
  <2> SUFFICES ASSUME ConnectInv, NEW c \in Pair, cli[c] = "done", NEW d \in Pair, d[2] = c[2]
               PROVE  cli[d] \in {"up", "done"} /\ id[d[1]][d[2]] # 0
    BY DEF EndsConnected
  <2>1. srv[d[2]] = "done" /\ PairInv(d)
    BY DEF ConnectInv, PairInv, Connected
  <2>2. UpOrDone(d) /\ id[d[1]][d[2]] = Attempt(d)
    BY <2>1 DEF PairInv, Connected, EndsMatch
  <2>3. Attempt(d) # 0
    BY DEF Attempt, ConnectInv, ConnectType
  <2> QED BY <2>2, <2>3 DEF UpOrDone
<1> QED BY <1>1, ConnectInvariance, PTL

-----------------------------------------------------------------------------
(***************************************************************************)
(* Rings.                                                                  *)
(***************************************************************************)
\* Slots are counted round the ring.
LEMMA Around ==
    /\ QueueSize \in Nat /\ QueueSize > 0 /\ Slot \subseteq Nat
    /\ \A a \in Nat : a % QueueSize \in Slot
    /\ \A a \in Nat : a < QueueSize => a % QueueSize = a
    /\ \A a \in Nat : a >= QueueSize /\ a < QueueSize + QueueSize => a % QueueSize = a - QueueSize
<1>1. QueueSize \in Nat /\ QueueSize > 0
  BY QueueAssumption
<1>2. \A a \in Nat : a % QueueSize \in Slot
  BY <1>1 DEF Slot
<1>3. \A a \in Nat : a < QueueSize => a % QueueSize = a
  BY <1>1
<1>4. \A a \in Nat : a >= QueueSize /\ a < QueueSize + QueueSize => a % QueueSize = a - QueueSize
  BY <1>1
<1>5. Slot \subseteq Nat
  BY <1>1 DEF Slot
<1> QED BY <1>1, <1>2, <1>3, <1>4, <1>5

\* Counting in two parts.
LEMMA AroundSum ==
    ASSUME NEW a \in Nat, NEW b \in Nat, a + b < QueueSize + QueueSize
    PROVE  ((a % QueueSize) + b) % QueueSize = (a + b) % QueueSize
<1>1. CASE a < QueueSize
  BY <1>1, Around
<1>2. CASE a >= QueueSize
  <2>1. a < QueueSize + QueueSize /\ a % QueueSize = a - QueueSize
    BY <1>2, Around
  <2>2. PICK d \in Nat : d = a - QueueSize + b /\ d < QueueSize
    BY <1>2, Around
  <2>3. d % QueueSize = d /\ (a + b) % QueueSize = a + b - QueueSize
    BY <1>2, <2>2, Around
  <2> QED BY <2>1, <2>2, <2>3, Around
<1> QED BY <1>1, <1>2, Around

\* QueueSize slots in a row are different.
LEMMA SlotsDiffer ==
    ASSUME NEW h \in Slot, NEW i \in 0 .. QueueSize - 1, NEW j \in 0 .. QueueSize - 1,
           (h + i) % QueueSize = (h + j) % QueueSize
    PROVE  i = j
<1>1. h \in Nat /\ h < QueueSize /\ QueueSize \in Nat
  BY Around DEF Slot
<1>2. PICK a \in Nat, b \in Nat : a = h + i /\ b = h + j
  BY <1>1
<1>3. a < QueueSize + QueueSize /\ b < QueueSize + QueueSize /\ a % QueueSize = b % QueueSize
  BY <1>1, <1>2
<1>4. /\ a % QueueSize = IF a < QueueSize THEN a ELSE a - QueueSize
      /\ b % QueueSize = IF b < QueueSize THEN b ELSE b - QueueSize
  BY <1>1, <1>3, Around
<1> QED BY <1>1, <1>2, <1>3, <1>4

\* The fields of a ring.
LEMMA RingFields ==
    ASSUME NEW q \in Ring
    PROVE  /\ q.queue \in [Slot -> Nat] /\ q.head \in Slot /\ q.tail \in Slot /\ q.post \in Slot
           /\ q.busy \in Nat /\ q.free \in Nat
           /\ q.head \in Nat /\ q.post \in Nat /\ q.tail \in Nat
           /\ q.head < QueueSize /\ q.post < QueueSize
BY Around DEF Ring, Slot

\* Sequence t is what comes after the first of the m elements of o.
TailOf(t, o, m) == \A k \in 1 .. m - 1 : t[k] = o[k + 1]

\* A message in a slot.
Filled(q, s, v) == [q EXCEPT !.queue[s] = v]

\* The adapter fills the oldest receive.
LEMMA RingDeliver ==
    ASSUME NEW q \in Ring, NEW r, NEW m \in Nat, m > 0, NEW c \in Nat, RingLayout(q, r, m, c),
           NEW t, TailOf(t, r, m), NEW v \in Nat, NEW z, z = Filled(q, r[1], v)
    PROVE  /\ z \in Ring /\ z.head = q.head /\ z.busy = q.busy
           /\ RingLayout(z, t, m - 1, c + 1)
           /\ \A n \in Nat : Contents(q, c, n) /\ v = n + q.busy + c + 1 => Contents(z, c + 1, n)
<1>1. PICK hd \in Nat, b \in Nat, f \in Nat :
          /\ hd = q.head /\ b = q.busy /\ f = q.free /\ hd < QueueSize
          /\ m + c + b + f = QueueSize /\ hd \in Slot
  BY RingFields DEF RingLayout
<1>2. PICK s \in Slot : s = r[1] /\ s = (hd + (b + c)) % QueueSize
  <2>1. r[1] = (hd + b + c + 1 - 1) % QueueSize
    BY <1>1 DEF RingLayout
  <2>2. hd + b + c + 1 - 1 = hd + (b + c) /\ hd + (b + c) \in Nat
    BY <1>1
  <2> QED BY <2>1, <2>2, Around
<1>3. /\ z \in Ring /\ z.head = hd /\ z.busy = b /\ z.free = f /\ z.post = q.post
      /\ z.queue = [q.queue EXCEPT ![s] = v]
  BY <1>1, <1>2, RingFields DEF Ring, Filled
<1>4. RingLayout(z, t, m - 1, c + 1)
  <2>1. m - 1 + (c + 1) + b + f = QueueSize
    BY <1>1
  <2>2. ASSUME NEW k \in 1 .. m - 1 PROVE t[k] = (hd + b + (c + 1) + k - 1) % QueueSize
    <3>1. PICK i \in 1 .. m : i = k + 1 /\ t[k] = r[i]
      BY <1>1 DEF TailOf
    <3>2. r[i] = (hd + b + c + i - 1) % QueueSize
      BY <1>1 DEF RingLayout
    <3>3. hd + b + c + i - 1 = hd + b + (c + 1) + k - 1
      BY <1>1, <3>1
    <3> QED BY <3>1, <3>2, <3>3
  <2>3. q.post = (hd + b + (c + 1) + (m - 1)) % QueueSize
    <3>1. hd + b + (c + 1) + (m - 1) = hd + b + c + m
      OBVIOUS
    <3> QED BY <1>1, <3>1 DEF RingLayout
  <2> QED BY <1>3, <2>1, <2>2, <2>3 DEF RingLayout
<1>5. ASSUME NEW n \in Nat, Contents(q, c, n), v = n + q.busy + c + 1
      PROVE  Contents(z, c + 1, n)
  <2> SUFFICES ASSUME NEW i \in 0 .. b + (c + 1) - 1
               PROVE  z.queue[(hd + i) % QueueSize] = n + i + 1
    BY <1>3 DEF Contents
  <2>1. (hd + i) % QueueSize \in Slot
    <3>1. hd + i \in Nat
      BY <1>1
    <3> QED BY <3>1, Around
  <2>2. CASE i = b + c
    <3>1. (hd + i) % QueueSize = s /\ z.queue[s] = v
      BY <1>2, <1>3, <2>2, RingFields
    <3> QED BY <1>1, <1>5, <2>2, <3>1
  <2>3. CASE i # b + c
    <3>1. i \in 0 .. b + c - 1 /\ i \in 0 .. QueueSize - 1 /\ b + c \in 0 .. QueueSize - 1
      BY <1>1, <2>3
    <3>2. (hd + i) % QueueSize # s
      BY <1>1, <1>2, <2>3, <3>1, SlotsDiffer
    <3>3. q.queue[(hd + i) % QueueSize] = n + i + 1
      BY <1>1, <1>5, <3>1 DEF Contents
    <3> QED BY <1>3, <2>1, <3>2, <3>3, RingFields
  <2> QED BY <2>2, <2>3
<1> QED BY <1>1, <1>3, <1>4, <1>5

\* The listen thread polls a completion.
LEMMA RingPoll ==
    ASSUME NEW q \in Ring, NEW r, NEW m \in Nat, NEW c \in Nat, c > 0, NEW z,
           z = Polled(q)
    PROVE  /\ z \in Ring /\ z.head = q.head /\ z.busy = q.busy + 1
           /\ RingLayout(q, r, m, c) => RingLayout(z, r, m, c - 1)
           /\ \A n \in Nat : Contents(q, c, n) => Contents(z, c - 1, n)
<1>1. PICK hd \in Nat, b \in Nat, d \in Nat : hd = q.head /\ b = q.busy /\ d = c - 1
  BY RingFields
<1>2. Inc(q.tail) \in Slot
  BY Around, RingFields DEF Inc
<1>3. /\ z \in Ring /\ z.head = hd /\ z.busy = b + 1 /\ z.free = q.free /\ z.post = q.post
      /\ z.queue = q.queue
  <2>1. PICK t \in Slot : t = Inc(q.tail) /\ z = [q EXCEPT !.busy = b + 1, !.tail = t]
    BY <1>1, <1>2 DEF Polled
  <2>2. b + 1 \in Nat
    BY <1>1
  <2> QED BY <1>1, <2>1, <2>2 DEF Ring
<1>4. /\ b + 1 + d = b + c /\ hd + (b + 1) + d = hd + b + c
      /\ m + d + (b + 1) + q.free = m + c + b + q.free
  BY <1>1, RingFields
<1>5. RingLayout(q, r, m, c) => RingLayout(z, r, m, d)
  BY <1>1, <1>3, <1>4 DEF RingLayout
<1>6. \A n \in Nat : Contents(q, c, n) => Contents(z, d, n)
  BY <1>1, <1>3, <1>4 DEF Contents
<1> QED BY <1>1, <1>3, <1>5, <1>6

\* The server thread handles the head.
LEMMA RingHandle ==
    ASSUME NEW q \in Ring, NEW r, NEW m \in Nat, NEW c \in Nat, q.busy # 0, NEW z, z = TakeHead(q)
    PROVE  /\ z \in Ring /\ z.busy = q.busy - 1 /\ z.tail = q.tail
           /\ q.busy <= QueueSize /\ q.tail = (q.head + q.busy) % QueueSize =>
                z.tail = (z.head + z.busy) % QueueSize
           /\ RingLayout(q, r, m, c) => RingLayout(z, r, m, c)
           /\ q.busy + c <= QueueSize =>
                \A n \in Nat : Contents(q, c, n) =>
                    /\ q.queue[q.head] = n + 1
                    /\ Contents(z, c, n + 1)
<1>1. PICK hd \in Nat, b \in Nat, f \in Nat : /\ hd = q.head /\ b + 1 = q.busy /\ f = q.free
                                              /\ hd < QueueSize
  <2>1. q.busy - 1 \in Nat /\ q.busy = q.busy - 1 + 1
    BY RingFields
  <2> QED BY <2>1, RingFields
<1>2. Inc(hd) \in Slot /\ Inc(hd) = (hd + 1) % QueueSize /\ Less(b + 1) = b
  BY <1>1, Around DEF Inc, Less
<1>3. /\ z \in Ring /\ z.head = (hd + 1) % QueueSize /\ z.busy = b /\ z.free = f + 1
      /\ z.post = q.post /\ z.queue = q.queue /\ z.tail = q.tail
  <2>1. PICK g \in Slot : g = (hd + 1) % QueueSize
    BY <1>2
  <2>2. z = [q EXCEPT !.busy = b, !.free = f + 1, !.head = g]
    BY <1>1, <1>2, <2>1 DEF TakeHead
  <2>3. f + 1 \in Nat
    BY <1>1
  <2> QED BY <2>1, <2>2, <2>3 DEF Ring
<1>4. ASSUME NEW i \in Nat, hd + 1 + i < QueueSize + QueueSize
      PROVE  (((hd + 1) % QueueSize) + i) % QueueSize = (hd + 1 + i) % QueueSize
  BY <1>1, <1>4, AroundSum
<1>5. ASSUME RingLayout(q, r, m, c) PROVE RingLayout(z, r, m, c)
  <2>1. m + c + (b + 1) + f = QueueSize
    BY <1>1, <1>5 DEF RingLayout
  <2>2. m + c + b + (f + 1) = QueueSize
    BY <1>1, <2>1
  <2>3. PICK g \in Nat : g = (hd + 1) % QueueSize
    BY <1>1, Around
  <2>4. ASSUME NEW k \in 1 .. m PROVE r[k] = (g + b + c + k - 1) % QueueSize
    <3>1. r[k] = (hd + (b + 1) + c + k - 1) % QueueSize
      BY <1>1, <1>5, <2>1 DEF RingLayout
    <3>2. PICK i \in Nat : i = b + c + k - 1
      BY <1>1
    <3>3. /\ hd + 1 + i < QueueSize + QueueSize
          /\ hd + (b + 1) + c + k - 1 = hd + 1 + i /\ g + b + c + k - 1 = g + i
      BY <1>1, <2>1, <3>2
    <3> QED BY <1>4, <2>3, <3>1, <3>2, <3>3
  <2>5. q.post = (g + b + c + m) % QueueSize
    <3>1. q.post = (hd + (b + 1) + c + m) % QueueSize
      BY <1>1, <1>5, <2>1 DEF RingLayout
    <3>2. PICK i \in Nat : i = b + c + m
      BY <1>1
    <3>3. /\ hd + 1 + i < QueueSize + QueueSize
          /\ hd + (b + 1) + c + m = hd + 1 + i /\ g + b + c + m = g + i
      BY <1>1, <2>1, <3>2
    <3> QED BY <1>4, <2>3, <3>1, <3>2, <3>3
  <2> QED BY <1>3, <2>1, <2>2, <2>3, <2>4, <2>5 DEF RingLayout
<1>6. ASSUME q.busy + c <= QueueSize, NEW n \in Nat, Contents(q, c, n)
      PROVE  q.queue[q.head] = n + 1 /\ Contents(z, c, n + 1)
  <2>1. q.queue[(hd + 0) % QueueSize] = n + 0 + 1
    BY <1>1, <1>6 DEF Contents
  <2>2. (hd + 0) % QueueSize = hd
    BY <1>1, Around
  <2>3. ASSUME NEW i \in 0 .. b + c - 1
        PROVE  z.queue[(((hd + 1) % QueueSize) + i) % QueueSize] = n + 1 + i + 1
    <3>1. PICK k \in 0 .. b + 1 + c - 1 : k = i + 1
      BY <1>1
    <3>2. q.queue[(hd + k) % QueueSize] = n + k + 1
      BY <1>1, <1>6 DEF Contents
    <3>3. hd + k = hd + 1 + i /\ hd + 1 + i < QueueSize + QueueSize /\ i \in Nat /\ n + k + 1 = n + 1 + i + 1
      BY <1>1, <1>6, <3>1, Around
    <3> QED BY <1>3, <1>4, <3>2, <3>3
  <2> QED BY <1>1, <1>3, <2>1, <2>2, <2>3 DEF Contents
<1>7. ASSUME q.busy <= QueueSize, q.tail = (q.head + q.busy) % QueueSize
      PROVE  z.tail = (z.head + z.busy) % QueueSize
  <2>1. hd + 1 + b < QueueSize + QueueSize /\ hd + (b + 1) = hd + 1 + b
    BY <1>1, <1>7, Around
  <2> QED BY <1>1, <1>3, <1>4, <1>7, <2>1
<1> QED BY <1>1, <1>2, <1>3, <1>5, <1>6, <1>7

\* Sequence w is the m elements of r and a batch of slots from p on.
WithBatch(w, r, m, p) ==
    /\ \A k \in 1 .. m : w[k] = r[k]
    /\ \A k \in m + 1 .. m + BatchingSize : w[k] = (p + (k - m) - 1) % QueueSize

\* A batch of receives is posted behind the others.
LEMMA RingPost ==
    ASSUME NEW q \in Ring, NEW r, NEW m \in Nat, NEW c \in Nat, RingLayout(q, r, m, c),
           q.free >= BatchingSize, NEW w, WithBatch(w, r, m, q.post), NEW z, z = Posted(q)
    PROVE  /\ z \in Ring /\ z.head = q.head /\ z.busy = q.busy /\ z.queue = q.queue
           /\ RingLayout(z, w, m + BatchingSize, c)
<1>1. PICK hd \in Nat, b \in Nat, f \in Nat, p \in Nat, n \in Nat :
          /\ hd = q.head /\ b = q.busy /\ f = q.free /\ p = q.post /\ n = BatchingSize
          /\ m + c + b + f = QueueSize /\ hd < QueueSize /\ n <= f /\ n > 0
          /\ p = (hd + b + c + m) % QueueSize
  <2>1. BatchingSize \in Nat /\ BatchingSize > 0
    BY QueueAssumption
  <2>2. /\ m + c + q.busy + q.free = QueueSize /\ q.post = (q.head + q.busy + c + m) % QueueSize
        /\ BatchingSize <= q.free
    BY <2>1, RingFields DEF RingLayout
  <2> QED BY <2>1, <2>2, RingFields, Zenon
<1>2. PICK e \in Nat : e = hd + b + c + m /\ e + n < QueueSize + QueueSize /\ p = e % QueueSize
  <2>1. hd + b + c + m \in Nat /\ hd + b + c + m + n < QueueSize + QueueSize
    BY <1>1
  <2> QED BY <1>1, <2>1
<1>3. (p + n) % QueueSize = (e + n) % QueueSize /\ (p + n) % QueueSize \in Slot
  <2>1. p + n \in Nat
    BY <1>1
  <2>2. (p + n) % QueueSize = (e + n) % QueueSize
    BY <1>2, AroundSum
  <2> QED BY <2>1, <2>2, Around
<1>4. /\ z \in Ring /\ z.head = hd /\ z.busy = b /\ z.free = f - n /\ z.queue = q.queue
      /\ z.post = (e + n) % QueueSize
  <2>1. PICK t \in Slot, y \in Nat : t = (e + n) % QueueSize /\ y = f - n
    BY <1>1, <1>3
  <2>2. z = [q EXCEPT !.free = y, !.post = t]
    BY <1>1, <1>3, <2>1 DEF Posted
  <2> QED BY <1>1, <2>1, <2>2 DEF Ring
<1>5. RingLayout(z, w, m + n, c)
  <2>1. m + n + c + b + (f - n) = QueueSize
    <3>1. m + n + c + b + (f - n) = m + c + b + f
      OBVIOUS
    <3> QED BY <1>1, <3>1
  <2>2. ASSUME NEW k \in 1 .. m + n PROVE w[k] = (hd + b + c + k - 1) % QueueSize
    <3>1. CASE k \in 1 .. m
      BY <1>1, <3>1 DEF RingLayout, WithBatch
    <3>2. CASE k \in m + 1 .. m + n
      <4>1. PICK i \in 1 .. n : i = k - m
        BY <1>1, <3>2
      <4>2. w[k] = (p + i - 1) % QueueSize
        BY <1>1, <3>2, <4>1 DEF WithBatch
      <4>3. PICK d \in Nat : d = i - 1 /\ p + i - 1 = p + d /\ e + d < QueueSize + QueueSize
                             /\ hd + b + c + k - 1 = e + d
        BY <1>1, <1>2, <4>1, SMTT(40)
      <4>4. (p + d) % QueueSize = (e + d) % QueueSize
        BY <1>2, <4>3, AroundSum
      <4> QED BY <4>2, <4>3, <4>4
    <3> QED BY <1>1, <3>1, <3>2
  <2>3. (e + n) % QueueSize = (hd + b + c + (m + n)) % QueueSize
    <3>1. hd + b + c + (m + n) = e + n
      BY <1>1, <1>2
    <3> QED BY <3>1
  <2> QED BY <1>4, <2>1, <2>2, <2>3 DEF RingLayout
<1> QED BY <1>1, <1>4, <1>5

\* A message of the host to itself, as long as there is room.
LEMMA RingSelf ==
    ASSUME NEW q \in Ring, NEW v \in Nat, NEW z, z = PutOwn(q, v)
    PROVE  /\ z \in Ring /\ z.busy = q.busy + 1 /\ z.head = q.head
           /\ q.busy < QueueSize /\ q.tail = (q.head + q.busy) % QueueSize =>
                /\ z.tail = (z.head + z.busy) % QueueSize
                /\ \A n \in Nat : Contents(q, 0, n) /\ v = n + q.busy + 1 => Contents(z, 0, n)
<1>1. PICK hd \in Nat, b \in Nat, s \in Slot : hd = q.head /\ b = q.busy /\ s = q.tail /\ hd < QueueSize
                                               /\ hd \in Slot /\ s \in Nat
  BY RingFields
<1>2. Inc(s) = (s + 1) % QueueSize /\ Inc(s) \in Slot /\ Less(q.free) \in Nat
  BY <1>1, Around, RingFields DEF Inc, Less
<1>3. /\ z \in Ring /\ z.head = hd /\ z.busy = b + 1 /\ z.tail = (s + 1) % QueueSize
      /\ z.queue = [q.queue EXCEPT ![s] = v]
  <2>1. PICK t \in Slot, y \in Nat, u \in [Slot -> Nat] :
            t = (s + 1) % QueueSize /\ y = Less(q.free) /\ u = [q.queue EXCEPT ![s] = v]
    BY <1>1, <1>2, RingFields
  <2>2. z = [q EXCEPT !.queue = u, !.free = y, !.busy = b + 1, !.tail = t]
    BY <1>1, <1>2, <2>1 DEF Ring, PutOwn
  <2>3. b + 1 \in Nat
    BY <1>1
  <2> QED BY <1>1, <2>1, <2>2, <2>3 DEF Ring
<1>4. ASSUME b < QueueSize, s = (hd + b) % QueueSize
      PROVE  /\ z.tail = (hd + (b + 1)) % QueueSize
             /\ \A n \in Nat : Contents(q, 0, n) /\ v = n + b + 1 => Contents(z, 0, n)
  <2>1. (s + 1) % QueueSize = (hd + (b + 1)) % QueueSize
    <3>1. PICK a \in Nat : a = hd + b /\ a + 1 < QueueSize + QueueSize /\ hd + (b + 1) = a + 1
      BY <1>1, <1>4, Around
    <3> QED BY <1>4, <3>1, AroundSum
  <2>2. ASSUME NEW n \in Nat, Contents(q, 0, n), v = n + b + 1, NEW i \in 0 .. b + 1 + 0 - 1
        PROVE  z.queue[(hd + i) % QueueSize] = n + i + 1
    <3>1. (hd + i) % QueueSize \in Slot
      BY <1>1, Around
    <3>2. CASE i = b
      BY <1>3, <1>4, <2>2, <3>1, <3>2, RingFields
    <3>3. CASE i # b
      <4>1. i \in 0 .. b + 0 - 1 /\ i \in 0 .. QueueSize - 1 /\ b \in 0 .. QueueSize - 1
        BY <1>1, <1>4, <3>3, Around
      <4>2. (hd + i) % QueueSize # s
        BY <1>1, <1>4, <3>3, <4>1, SlotsDiffer
      <4>3. q.queue[(hd + i) % QueueSize] = n + i + 1
        BY <1>1, <2>2, <4>1 DEF Contents
      <4> QED BY <1>3, <3>1, <4>2, <4>3, RingFields
    <3> QED BY <3>2, <3>3
  <2> QED BY <1>3, <2>1, <2>2 DEF Contents
<1> QED BY <1>1, <1>3, <1>4

-----------------------------------------------------------------------------
(***************************************************************************)
(* Messages.                                                               *)
(***************************************************************************)
\* Counting the messages to a host.
LEMMA CountFacts ==
    ASSUME NEW p, NEW x, NEW n \in Nat
    PROVE  /\ CountOf(p, x, n) \in Nat
           /\ CountOf(p, x, 0) = 0
           /\ CountOf(p, x, n + 1) = IF p[n + 1] = x THEN CountOf(p, x, n) + 1 ELSE CountOf(p, x, n)
           /\ \A k \in Nat : k <= n => CountOf(p, x, k) <= CountOf(p, x, n)
<1>1. \A k \in Nat : IsFiniteSet({l \in 1 .. k : p[l] = x}) /\ CountOf(p, x, k) \in Nat
  <2> SUFFICES ASSUME NEW k \in Nat
               PROVE  IsFiniteSet({l \in 1 .. k : p[l] = x}) /\ CountOf(p, x, k) \in Nat
    OBVIOUS
  <2>1. IsFiniteSet(1 .. k)
    BY FS_Interval
  <2>2. IsFiniteSet({l \in 1 .. k : p[l] = x})
    BY <2>1, FS_Subset
  <2> QED BY <2>2, FS_CardinalityType DEF CountOf
<1>2. CountOf(p, x, 0) = 0
  <2>1. {l \in 1 .. 0 : p[l] = x} = {}
    OBVIOUS
  <2> QED BY <2>1, FS_EmptySet DEF CountOf
<1>3. CountOf(p, x, n + 1) = IF p[n + 1] = x THEN CountOf(p, x, n) + 1 ELSE CountOf(p, x, n)
  <2>1. PICK S : S = {l \in 1 .. n : p[l] = x} /\ IsFiniteSet(S) /\ n + 1 \notin S
    <3>1. n + 1 \notin {l \in 1 .. n : p[l] = x}
      OBVIOUS
    <3> QED BY <1>1, <3>1, Zenon
  <2>2. CASE p[n + 1] = x
    <3>1. {l \in 1 .. n + 1 : p[l] = x} = S \cup {n + 1}
      BY <2>1, <2>2
    <3>2. Cardinality(S \cup {n + 1}) = Cardinality(S) + 1
      BY <2>1, FS_AddElement
    <3> QED BY <2>1, <2>2, <3>1, <3>2 DEF CountOf
  <2>3. CASE p[n + 1] # x
    <3>1. {l \in 1 .. n + 1 : p[l] = x} = S
      BY <2>1, <2>3
    <3> QED BY <2>1, <2>3, <3>1 DEF CountOf
  <2> QED BY <2>2, <2>3
<1>4. ASSUME NEW k \in Nat, k <= n PROVE CountOf(p, x, k) <= CountOf(p, x, n)
  <2>1. {l \in 1 .. k : p[l] = x} \subseteq {l \in 1 .. n : p[l] = x}
    BY <1>4
  <2> QED BY <1>1, <2>1, FS_Subset DEF CountOf
<1> QED BY <1>1, <1>2, <1>3, <1>4

\* o2 is o, of m messages, with e behind.
Pushed(o2, o, m, e) == (\A k \in 1 .. m : o2[k] = o[k]) /\ o2[m + 1] = e

\* A message is enqueued: it moves from the one sequence to the other.
LEMMA RemainingMoved ==
    ASSUME NEW p, NEW d, NEW o, NEW m \in Nat, NEW u, NEW l \in Nat, l > 0,
           Remaining(p, d, o, m, u, l),
           NEW o2, Pushed(o2, o, m, u[1]), NEW u2, TailOf(u2, u, l)
    PROVE  Remaining(p, d, o2, m + 1, u2, l - 1)
<1>1. d \in Nat
  BY DEF Remaining
<1>2. ASSUME NEW k \in 1 .. m + 1 PROVE o2[k] = Numbered(p)[d + k]
  <2>1. CASE k \in 1 .. m
    BY <2>1 DEF Remaining, Pushed
  <2>2. CASE k = m + 1
    <3>1. u[1] = Numbered(p)[d + m + 1] /\ d + m + 1 = d + k
      BY <1>1, <2>2 DEF Remaining
    <3> QED BY <2>2, <3>1 DEF Pushed
  <2> QED BY <2>1, <2>2
<1>3. ASSUME NEW k \in 1 .. l - 1 PROVE u2[k] = Numbered(p)[d + (m + 1) + k]
  <2>1. PICK i \in 1 .. l : i = k + 1 /\ u2[k] = u[i]
    BY DEF TailOf
  <2>2. d + m + i = d + (m + 1) + k
    BY <1>1, <2>1
  <2>3. u[i] = Numbered(p)[d + m + i]
    BY DEF Remaining
  <2> QED BY <2>1, <2>2, <2>3
<1> QED BY <1>1, <1>2, <1>3 DEF Remaining

\* A message is delivered.
LEMMA RemainingSent ==
    ASSUME NEW p, NEW d, NEW o, NEW m \in Nat, m > 0, NEW u, NEW l \in Nat,
           Remaining(p, d, o, m, u, l), NEW o2, TailOf(o2, o, m)
    PROVE  Remaining(p, d + 1, o2, m - 1, u, l) /\ o[1] = Numbered(p)[d + 1] /\ d \in Nat
<1>1. d \in Nat /\ d + 1 \in Nat /\ o[1] = Numbered(p)[d + 1]
  BY DEF Remaining
<1>2. ASSUME NEW k \in 1 .. m - 1 PROVE o2[k] = Numbered(p)[d + 1 + k]
  <2>1. PICK i \in 1 .. m : i = k + 1 /\ o2[k] = o[i]
    BY DEF TailOf
  <2>2. d + i = d + 1 + k
    BY <1>1, <2>1
  <2>3. o[i] = Numbered(p)[d + i]
    BY DEF Remaining
  <2> QED BY <2>1, <2>2, <2>3
<1>3. ASSUME NEW k \in 1 .. l PROVE u[k] = Numbered(p)[d + 1 + (m - 1) + k]
  <2>1. d + m + k = d + 1 + (m - 1) + k
    BY <1>1
  <2>2. u[k] = Numbered(p)[d + m + k]
    BY DEF Remaining
  <2> QED BY <2>1, <2>2
<1> QED BY <1>1, <1>2, <1>3 DEF Remaining

\* The messages of a program are numbered among those to the same host.
LEMMA NumberedFacts ==
    ASSUME NEW p \in Seq(Host), NEW k \in 1 .. Len(p)
    PROVE  /\ Numbered(p)[k] = [to |-> p[k], no |-> CountOf(p, p[k], k)]
           /\ p[k] \in Host /\ CountOf(p, p[k], k) \in Nat
<1>1. DOMAIN p = 1 .. Len(p) /\ Len(p) \in Nat /\ k \in Nat /\ p[k] \in Host
  OBVIOUS
<1>2. Numbered(p)[k] = [to |-> p[k], no |-> CountOf(p, p[k], k)]
  BY <1>1 DEF Numbered, CountOf
<1> QED BY <1>1, <1>2, CountFacts

\* The element in front of a sequence and the ones behind it.
LEMMA Front ==
    ASSUME NEW S, NEW s \in Seq(S), s # <<>>
    PROVE  /\ Head(s) = s[1] /\ Head(s) \in S /\ Tail(s) \in Seq(S) /\ Len(s) > 0
           /\ Len(s) \in Nat /\ Len(Tail(s)) = Len(s) - 1
           /\ \A k \in 1 .. Len(s) - 1 : Tail(s)[k] = s[k + 1]
OBVIOUS

\* ... and one put behind them.
LEMMA Behind ==
    ASSUME NEW S, NEW s \in Seq(S), NEW e \in S
    PROVE  /\ Append(s, e) \in Seq(S) /\ Len(Append(s, e)) = Len(s) + 1 /\ Len(s) \in Nat
           /\ Append(s, e)[Len(s) + 1] = e /\ Append(s, e) # <<>>
           /\ \A k \in 1 .. Len(s) : Append(s, e)[k] = s[k]
OBVIOUS

\* One entry of a table of pairs of hosts is changed.
LEMMA Update ==
    ASSUME NEW S, NEW f \in [Host -> [Host -> S]], NEW h \in Host, NEW g \in Host, NEW v \in S,
           NEW e, e = [f EXCEPT ![h][g] = v]
    PROVE  /\ e \in [Host -> [Host -> S]] /\ e[h][g] = v
           /\ \A x, y \in Host : ~(x = h /\ y = g) => e[x][y] = f[x][y]
OBVIOUS

-----------------------------------------------------------------------------
(***************************************************************************)
(* The steps of the communication threads.                                 *)
(***************************************************************************)
\* The messages of a pair that a step does not touch.
LEMMA OrderKept ==
    ASSUME NEW x \in Host, NEW y \in Host, Order(x, y), program' = program,
           handled'[x][y] = handled[x][y], inqueue'[x][y] = inqueue[x][y], cq'[x][y] = cq[x][y],
           CountOf(program[y], x, Gone(y)') = CountOf(program[y], x, Gone(y))
    PROVE  Order(x, y)'
BY DEF Order, Promised, SentTo

\* What LinkType says of the rings of a pair.
LEMMA PairTypes ==
    ASSUME LinkType, NEW x \in Host, NEW y \in Host
    PROVE  /\ inqueue[x][y] \in Ring /\ rq[x][y] \in Seq(Slot) /\ cq[x][y] \in Nat
           /\ handled[x][y] \in Seq(Nat) /\ Len(handled[x][y]) \in Nat /\ Len(rq[x][y]) \in Nat
           /\ inqueue[x][y].busy \in Nat
<1>1. inqueue[x][y] \in Ring /\ rq[x][y] \in Seq(Slot) /\ cq[x][y] \in Nat /\ handled[x][y] \in Seq(Nat)
  BY DEF LinkType
<1> QED BY <1>1, RingFields

\* What LinkType says of the messages of a host.
LEMMA HostTypes ==
    ASSUME LinkType, NEW h \in Host
    PROVE  /\ program[h] \in Seq(Host) /\ outqueue[h] \in Seq(Msg) /\ unsent[h] \in Seq(Msg)
           /\ Out(h) \in Seq(Msg) /\ Len(program[h]) \in Nat /\ Len(outqueue[h]) \in Nat
           /\ Len(unsent[h]) \in Nat /\ Len(Out(h)) \in Nat
<1>1. program[h] \in Seq(Host) /\ outqueue[h] \in Seq(Msg) /\ unsent[h] \in Seq(Msg)
  BY DEF LinkType
<1>2. completed[h] => outqueue[h] # <<>>
  BY DEF LinkType
<1>3. Out(h) \in Seq(Msg)
  BY <1>1, <1>2, Front DEF Out
<1> QED BY <1>1, <1>3

\* A step that moves no message and touches no ring.
LEMMA LinkKept ==
    ASSUME RdmaInv, program' = program, unsent' = unsent, outqueue' = outqueue,
           completed' = completed, inqueue' = inqueue, rq' = rq, cq' = cq, handled' = handled,
           events' \in [Host -> Seq(Host)], poll' \in [Host -> Host \cup {NoHost}]
    PROVE  RdmaInv'
<1>1. LinkType'
  BY DEF RdmaInv, LinkType
<1>2. Rings'
  BY DEF RdmaInv, Rings
<1>3. Messages'
  BY ZenonT(40) DEF RdmaInv, Messages, Order, Promised, SentTo, Gone, Out
<1> QED BY <1>1, <1>2, <1>3 DEF RdmaInv

\* The initial state.
LEMMA InitRdma == Init => RdmaInv
<1> SUFFICES ASSUME Init PROVE RdmaInv
  OBVIOUS
<1>1. program \in [Host -> Seq(Host)]
  BY ScenarioAssumption DEF Init
<1>2. /\ unsent = [h \in Host |-> Numbered(program[h])]
      /\ outqueue = [h \in Host |-> <<>>] /\ completed = [h \in Host |-> FALSE]
      /\ inqueue = [h \in Host |-> [g \in Host |-> EmptyQueue]]
      /\ rq = [h \in Host |-> [g \in Host |-> <<>>]] /\ cq = [h \in Host |-> [g \in Host |-> 0]]
      /\ events = [h \in Host |-> <<>>] /\ poll = [h \in Host |-> NoHost]
      /\ handled = [h \in Host |-> [g \in Host |-> <<>>]]
  BY DEF Init, OfPairs
<1>3. /\ EmptyQueue \in Ring /\ EmptyQueue.busy = 0 /\ EmptyQueue.free = QueueSize
      /\ EmptyQueue.head = 0 /\ EmptyQueue.tail = 0 /\ EmptyQueue.post = 0
  <2>1. 0 \in Slot /\ QueueSize \in Nat
    BY Around DEF Slot
  <2> QED BY <2>1 DEF EmptyQueue, Ring, NoMsg
<1>4. ASSUME NEW h \in Host
      PROVE  /\ Numbered(program[h]) \in Seq(Msg) /\ Len(Numbered(program[h])) = Len(program[h])
             /\ Len(program[h]) \in Nat
  <2>1. PICK p \in Seq(Host) : p = program[h]
    BY <1>1
  <2>2. Len(p) \in Nat /\ DOMAIN p = 1 .. Len(p)
    BY <2>1
  <2>3. \A k \in 1 .. Len(p) : Numbered(p)[k] \in Msg
    <3> SUFFICES ASSUME NEW k \in 1 .. Len(p) PROVE Numbered(p)[k] \in Msg
      OBVIOUS
    <3>1. /\ Numbered(p)[k] = [to |-> p[k], no |-> CountOf(p, p[k], k)]
          /\ p[k] \in Host /\ CountOf(p, p[k], k) \in Nat
      BY NumberedFacts
    <3>2. PICK a \in Host, b \in Nat : Numbered(p)[k] = [to |-> a, no |-> b]
      BY <3>1, Zenon
    <3> QED BY <3>2 DEF Msg
  <2>4. PICK n \in Nat : n = Len(p) /\ Numbered(p) \in [1 .. n -> Msg]
    <3>1. \E f : f = Numbered(p) /\ f = [k \in 1 .. Len(p) |-> f[k]]
      BY <2>2 DEF Numbered
    <3>2. Numbered(p) = [k \in 1 .. Len(p) |-> Numbered(p)[k]]
      BY <3>1
    <3> QED BY <2>2, <2>3, <3>2
  <2>5. Numbered(p) \in Seq(Msg) /\ Len(Numbered(p)) = n
    BY <2>4
  <2> QED BY <2>1, <2>4, <2>5
<1>5. LinkType
  <2>1. unsent \in [Host -> Seq(Msg)] /\ outqueue \in [Host -> Seq(Msg)]
    BY <1>2, <1>4
  <2>2. rq \in [Host -> [Host -> Seq(Slot)]] /\ handled \in [Host -> [Host -> Seq(Nat)]]
    BY <1>2
  <2>3. inqueue \in [Host -> [Host -> Ring]]
    BY <1>2, <1>3
  <2> QED BY <1>1, <1>2, <2>1, <2>2, <2>3 DEF LinkType
<1>6. Rings
  <2> SUFFICES ASSUME NEW h \in Host, NEW g \in Host \ {h}
               PROVE  RingLayout(inqueue[h][g], rq[h][g], Len(rq[h][g]), cq[h][g])
    BY DEF Rings
  <2>1. inqueue[h][g] = EmptyQueue /\ Len(rq[h][g]) = 0 /\ cq[h][g] = 0
    BY <1>2
  <2>2. 0 % QueueSize = 0
    BY Around
  <2> QED BY <1>3, <2>1, <2>2, Around DEF RingLayout
<1>7. Messages
  <2>1. ASSUME NEW h \in Host
        PROVE  /\ Out(h) = <<>> /\ Len(Out(h)) = 0 /\ Gone(h) = 0 /\ unsent[h] = Numbered(program[h])
    BY <1>2, <1>4 DEF Out, Gone
  <2>2. ASSUME NEW h \in Host
        PROVE  Remaining(program[h], Gone(h), Out(h), Len(Out(h)), unsent[h], Len(unsent[h]))
    <3>1. \A k \in 1 .. Len(unsent[h]) : k = 0 + 0 + k
      BY <1>2, <1>4
    <3> QED BY <2>1, <3>1 DEF Remaining
  <2>3. ASSUME NEW h \in Host, NEW g \in Host PROVE Order(h, g)
    <3>1. /\ inqueue[h][g] = EmptyQueue /\ inqueue[h][h] = EmptyQueue /\ Len(handled[h][g]) = 0
          /\ cq[h][g] = 0
      BY <1>2
    <3>2. CountOf(program[g], h, Gone(g)) = 0
      BY <2>1, CountFacts
    <3>3. 0 % QueueSize = 0
      BY Around
    <3>4. Contents(EmptyQueue, 0, 0)
      BY <1>3 DEF Contents
    <3> QED BY <1>3, <3>1, <3>2, <3>3, <3>4 DEF Order
  <2> QED BY <2>2, <2>3 DEF Messages
<1> QED BY <1>5, <1>6, <1>7 DEF RdmaInv

\* A message is put in the out queue.
LEMMA EnqueueKeeps ==
    ASSUME RdmaInv, NEW h \in Host, Enqueue(h)
    PROVE  RdmaInv'
<1>1. /\ program' = program /\ completed' = completed /\ inqueue' = inqueue /\ rq' = rq /\ cq' = cq
      /\ events' = events /\ poll' = poll /\ handled' = handled /\ unsent[h] # <<>>
      /\ unsent' = [unsent EXCEPT ![h] = Tail(unsent[h])]
      /\ outqueue' = [outqueue EXCEPT ![h] = Append(outqueue[h], Head(unsent[h]))]
  BY DEF Enqueue
<1>2. LinkType
  BY DEF RdmaInv
<1>3. PICK u \in Seq(Msg), o \in Seq(Msg), q \in Seq(Msg), e \in Msg :
          u = unsent[h] /\ o = Out(h) /\ q = outqueue[h] /\ e = Head(u) /\ u # <<>>
  BY <1>1, <1>2, HostTypes, Front
<1>4. /\ Tail(u) \in Seq(Msg) /\ Len(Tail(u)) = Len(u) - 1 /\ Len(u) \in Nat /\ Len(u) > 0 /\ e = u[1]
      /\ \A k \in 1 .. Len(u) - 1 : Tail(u)[k] = u[k + 1]
  BY <1>3, Front
<1>5. /\ Append(o, e) \in Seq(Msg) /\ Len(Append(o, e)) = Len(o) + 1 /\ Len(o) \in Nat
      /\ Append(o, e)[Len(o) + 1] = e /\ \A k \in 1 .. Len(o) : Append(o, e)[k] = o[k]
  BY Behind
<1>6. /\ unsent' \in [Host -> Seq(Msg)] /\ unsent'[h] = Tail(u)
      /\ \A x \in Host : x # h => unsent'[x] = unsent[x]
  BY <1>1, <1>2, <1>3, <1>4 DEF LinkType
<1>7. /\ outqueue' \in [Host -> Seq(Msg)] /\ outqueue'[h] = Append(q, e)
      /\ \A x \in Host : x # h => outqueue'[x] = outqueue[x]
  <2>1. Append(q, e) \in Seq(Msg)
    BY Behind
  <2> QED BY <1>1, <1>2, <1>3, <2>1 DEF LinkType
<1>8. q # <<>> => Head(Append(q, e)) = Head(q) /\ Tail(Append(q, e)) = Append(Tail(q), e)
  OBVIOUS
<1>9. Append(q, e) # <<>>
  BY Behind
<1>10. LinkType'
  <2>1. \A x \in Host : completed'[x] => outqueue'[x] # <<>> /\ Head(outqueue'[x]).to # x
    <3> SUFFICES ASSUME NEW x \in Host, completed[x]
                 PROVE  outqueue'[x] # <<>> /\ Head(outqueue'[x]).to # x
      BY <1>1
    <3>1. outqueue[x] # <<>> /\ Head(outqueue[x]).to # x
      BY <1>2 DEF LinkType
    <3>2. CASE x = h
      BY <1>3, <1>7, <1>8, <1>9, <3>1, <3>2
    <3>3. CASE x # h
      BY <1>7, <3>1, <3>3
    <3> QED BY <3>2, <3>3
  <2> QED BY <1>1, <1>2, <1>6, <1>7, <2>1 DEF LinkType
<1>11. Out(h)' = Append(o, e) /\ \A x \in Host : x # h => Out(x)' = Out(x)
  <2>1. completed[h] => q # <<>>
    BY <1>2, <1>3 DEF LinkType
  <2>2. Out(h)' = Append(o, e)
    BY <1>1, <1>3, <1>7, <1>8, <2>1 DEF Out
  <2>3. \A x \in Host : x # h => Out(x)' = Out(x)
    BY <1>1, <1>7 DEF Out
  <2> QED BY <2>2, <2>3
<1>12. \A x \in Host : Gone(x)' = Gone(x)
  <2>1. Gone(h)' = Gone(h)
    <3>1. Gone(h) = Len(program[h]) - Len(o) - Len(u)
      BY <1>3 DEF Gone
    <3>2. Gone(h)' = Len(program[h]) - (Len(o) + 1) - (Len(u) - 1)
      BY <1>1, <1>4, <1>5, <1>6, <1>11 DEF Gone
    <3>3. \A a, b, c \in Nat : a - (b + 1) - (c - 1) = a - b - c
      OBVIOUS
    <3>4. Len(program[h]) \in Nat
      BY <1>2, HostTypes
    <3>5. Len(program[h]) - (Len(o) + 1) - (Len(u) - 1) = Len(program[h]) - Len(o) - Len(u)
      BY <1>4, <1>5, <3>3, <3>4, Zenon
    <3> QED BY <3>1, <3>2, <3>5, Zenon
  <2>2. \A x \in Host : x # h => Gone(x)' = Gone(x)
    BY <1>1, <1>6, <1>11 DEF Gone
  <2> QED BY <2>1, <2>2
<1>13. Rings'
  BY <1>1 DEF RdmaInv, Rings
<1>14. ASSUME NEW x \in Host
       PROVE  Remaining(program[x], Gone(x), Out(x), Len(Out(x)), unsent[x], Len(unsent[x]))'
  <2>1. Remaining(program[x], Gone(x), Out(x), Len(Out(x)), unsent[x], Len(unsent[x]))
    BY DEF RdmaInv, Messages
  <2>2. CASE x = h
    <3>1. Remaining(program[h], Gone(h), o, Len(o), u, Len(u))
      BY <1>3, <2>1, <2>2
    <3>2. Remaining(program[h], Gone(h), Append(o, e), Len(o) + 1, Tail(u), Len(u) - 1)
      <4>0. PICK m \in Nat, l \in Nat : m = Len(o) /\ l = Len(u)
        BY <1>4, <1>5, Zenon
      <4>1. PICK o2, u2, p, d :
                /\ m = Len(o) /\ l = Len(u) /\ o2 = Append(o, e) /\ u2 = Tail(u)
                /\ p = program[h] /\ d = Gone(h)
        BY <4>0, <1>4, <1>5, Zenon
      <4>2. Remaining(p, d, o, m, u, l) /\ l > 0
        BY <1>4, <3>1, <4>1, Zenon
      <4>3. Pushed(o2, o, m, u[1])
        BY <1>4, <1>5, <4>1, Zenon DEF Pushed
      <4>4. TailOf(u2, u, l)
        BY <1>4, <4>1, Zenon DEF TailOf
      <4>5. Remaining(p, d, o2, m + 1, u2, l - 1)
        BY <4>2, <4>3, <4>4, RemainingMoved, Zenon
      <4> QED BY <4>1, <4>5, Zenon
    <3> QED BY <1>1, <1>4, <1>5, <1>6, <1>11, <1>12, <2>2, <3>2
  <2>3. CASE x # h
    BY <1>1, <1>6, <1>11, <1>12, <2>1, <2>3
  <2> QED BY <2>2, <2>3
<1>15. ASSUME NEW x \in Host, NEW y \in Host PROVE Order(x, y)'
  BY <1>1, <1>12, OrderKept DEF RdmaInv, Messages
<1> QED BY <1>10, <1>13, <1>14, <1>15 DEF RdmaInv, Messages

\* No more messages are delivered than are sent.
LEMMA GoneBounds ==
    ASSUME LinkType, Messages, NEW h \in Host
    PROVE  /\ Gone(h) \in Nat /\ Gone(h) <= Len(program[h])
           /\ \A k \in Nat : \A g \in Host :
                k <= Len(program[h]) => CountOf(program[h], g, k) <= SentTo(h, g)
           /\ \A g \in Host : SentTo(h, g) \in Nat
<1>1. /\ Len(program[h]) \in Nat /\ Len(Out(h)) \in Nat /\ Len(unsent[h]) \in Nat
      /\ program[h] \in Seq(Host)
  BY HostTypes
<1>2. Gone(h) \in Nat
  BY DEF Messages, Remaining
<1>3. Gone(h) <= Len(program[h])
  <2>1. \A a, b, c \in Nat : a - b - c <= a
    OBVIOUS
  <2>2. Len(program[h]) - Len(Out(h)) - Len(unsent[h]) <= Len(program[h])
    BY <1>1, <2>1, Zenon
  <2> QED BY <2>2 DEF Gone
<1>4. \A g \in Host : SentTo(h, g) = CountOf(program[h], g, Len(program[h]))
  <2>1. DOMAIN program[h] = 1 .. Len(program[h])
    BY <1>1
  <2> QED BY <2>1 DEF SentTo, CountOf
<1>0. PICK n \in Nat : n = Len(program[h])
  BY <1>1, Zenon
<1>5. PICK p : n = Len(program[h]) /\ p = program[h]
  BY <1>0, <1>1, Zenon
<1>6. ASSUME NEW k \in Nat, NEW g \in Host, k <= n PROVE CountOf(p, g, k) <= CountOf(p, g, n)
  BY <1>6, CountFacts
<1>7. \A g \in Host : CountOf(p, g, n) \in Nat
  BY CountFacts
<1> QED BY <1>2, <1>3, <1>4, <1>5, <1>6, <1>7, Zenon

\* The first message of Out(h), which is to g, is delivered.
LEMMA Departs ==
    ASSUME RdmaInv, NEW h \in Host, NEW g \in Host, Out(h) # <<>>, Head(Out(h)).to = g,
           program' = program, unsent' = unsent, Out(h)' = Tail(Out(h)),
           \A x \in Host : x # h => Out(x)' = Out(x)
    PROVE  /\ \A x \in Host :
                Remaining(program[x], Gone(x), Out(x), Len(Out(x)), unsent[x], Len(unsent[x]))'
           /\ \A x \in Host : x # h => Gone(x)' = Gone(x)
           /\ CountOf(program[h], g, Gone(h)) \in Nat
           /\ Head(Out(h)).no = CountOf(program[h], g, Gone(h)) + 1
           /\ CountOf(program[h], g, Gone(h)') = CountOf(program[h], g, Gone(h)) + 1
           /\ CountOf(program[h], g, Gone(h)') <= SentTo(h, g)
           /\ \A y \in Host : y # g =>
                CountOf(program[h], y, Gone(h)') = CountOf(program[h], y, Gone(h))
<1>1. LinkType /\ Messages
  BY DEF RdmaInv
<1>2. PICK o \in Seq(Msg), u \in Seq(Msg), p \in Seq(Host) : o = Out(h) /\ u = unsent[h] /\ p = program[h]
  BY <1>1, HostTypes
<1>3. PICK m \in Nat, l \in Nat, n \in Nat : m = Len(o) /\ l = Len(u) /\ n = Len(p)
  BY <1>1, <1>2, HostTypes
<1>4. PICK d \in Nat : d = Gone(h) /\ d <= n
  BY <1>1, <1>2, <1>3, GoneBounds
<1>5. d = n - m - l
  BY <1>2, <1>3, <1>4 DEF Gone
<1>6. PICK t : t = Tail(o) /\ Len(t) = m - 1 /\ m > 0 /\ \A k \in 1 .. m - 1 : t[k] = o[k + 1]
  <2>1. /\ Len(o) > 0 /\ Len(Tail(o)) = Len(o) - 1
        /\ \A k \in 1 .. Len(o) - 1 : Tail(o)[k] = o[k + 1]
    BY <1>2, Front
  <2> QED BY <1>3, <2>1, Zenon
<1>7. Gone(h)' = d + 1
  <2>1. Gone(h)' = Len(program[h]) - Len(Out(h)') - Len(unsent[h])
    BY DEF Gone
  <2>2. Gone(h)' = n - (m - 1) - l
    BY <1>2, <1>3, <1>6, <2>1
  <2>3. \A a, b, c \in Nat : a - (b - 1) - c = a - b - c + 1
    OBVIOUS
  <2> QED BY <1>5, <2>2, <2>3, Zenon
<1>8. Remaining(p, d, o, m, u, l)
  BY <1>1, <1>2, <1>3, <1>4 DEF Messages
<1>9. Remaining(p, d + 1, t, m - 1, u, l) /\ o[1] = Numbered(p)[d + 1]
  <2>1. m > 0 /\ TailOf(t, o, m)
    BY <1>6, Zenon DEF TailOf
  <2> QED BY <1>8, <2>1, RemainingSent
<1>10. ASSUME NEW x \in Host, x # h
       PROVE  /\ Gone(x)' = Gone(x)
              /\ Remaining(program[x], Gone(x), Out(x), Len(Out(x)), unsent[x], Len(unsent[x]))'
  <2>1. Out(x)' = Out(x) /\ Gone(x)' = Gone(x)
    BY <1>10 DEF Gone
  <2>2. Remaining(program[x], Gone(x), Out(x), Len(Out(x)), unsent[x], Len(unsent[x]))
    BY <1>1 DEF Messages
  <2> QED BY <2>1, <2>2
<1>11. Remaining(program[h], Gone(h), Out(h), Len(Out(h)), unsent[h], Len(unsent[h]))'
  BY <1>2, <1>3, <1>6, <1>7, <1>9
<1>12. d + 1 <= n
  BY <1>3, <1>4, <1>5, <1>6
<1>13. PICK e \in Nat : e = d + 1 /\ e \in 1 .. Len(p)
  BY <1>3, <1>12
<1>14. /\ Numbered(p)[e] = [to |-> p[e], no |-> CountOf(p, p[e], e)]
       /\ p[e] \in Host /\ CountOf(p, p[e], e) \in Nat
  BY <1>13, NumberedFacts
<1>15. p[e] = g /\ Head(o).no = CountOf(p, g, e)
  <2>1. Head(o) = Numbered(p)[e] /\ Head(o).to = g
    BY <1>2, <1>9, <1>13, Front
  <2> QED BY <1>14, <2>1
<1>16. ASSUME NEW y \in Host
       PROVE  /\ CountOf(p, y, e) = IF p[e] = y THEN CountOf(p, y, d) + 1 ELSE CountOf(p, y, d)
              /\ CountOf(p, y, d) \in Nat
  <2>1. /\ CountOf(p, y, d + 1) = IF p[d + 1] = y THEN CountOf(p, y, d) + 1 ELSE CountOf(p, y, d)
        /\ CountOf(p, y, d) \in Nat
    BY CountFacts, SMTT(30)
  <2> QED BY <1>13, <2>1, Zenon
<1>17. CountOf(p, g, e) <= SentTo(h, g)
  BY <1>1, <1>2, <1>3, <1>12, <1>13, GoneBounds
<1> QED BY <1>2, <1>4, <1>7, <1>10, <1>11, <1>13, <1>15, <1>16, <1>17

\* The messages between all pairs but one.
LEMMA OtherPairs ==
    ASSUME RdmaInv, NEW h \in Host, NEW g \in Host, program' = program,
           \A x, y \in Host : ~(x = h /\ y = g) =>
               /\ handled'[x][y] = handled[x][y] /\ inqueue'[x][y] = inqueue[x][y]
               /\ cq'[x][y] = cq[x][y]
               /\ CountOf(program[y], x, Gone(y)') = CountOf(program[y], x, Gone(y))
    PROVE  \A x, y \in Host : ~(x = h /\ y = g) => Order(x, y)'
<1> SUFFICES ASSUME NEW x \in Host, NEW y \in Host, ~(x = h /\ y = g) PROVE Order(x, y)'
  OBVIOUS
<1>1. Order(x, y)
  BY DEF RdmaInv, Messages
<1> QED BY <1>1, OrderKept

\* The rings of all pairs but one.
LEMMA OtherRings ==
    ASSUME RdmaInv, NEW h \in Host, NEW g \in Host,
           \A x, y \in Host : ~(x = h /\ y = g) =>
               /\ inqueue'[x][y] = inqueue[x][y] /\ rq'[x][y] = rq[x][y] /\ cq'[x][y] = cq[x][y],
           g # h => RingLayout(inqueue'[h][g], rq'[h][g], Len(rq'[h][g]), cq'[h][g])
    PROVE  Rings'
<1> SUFFICES ASSUME NEW x \in Host, NEW y \in Host \ {x}
             PROVE  RingLayout(inqueue'[x][y], rq'[x][y], Len(rq'[x][y]), cq'[x][y])
  BY DEF Rings
<1>1. CASE x = h /\ y = g
  BY <1>1
<1>2. CASE ~(x = h /\ y = g)
  <2>1. RingLayout(inqueue[x][y], rq[x][y], Len(rq[x][y]), cq[x][y])
    BY DEF RdmaInv, Rings
  <2> QED BY <1>2, <2>1
<1> QED BY <1>1, <1>2

\* The client thread puts a message of the host itself in the in queue.
LEMMA SendSelfKeeps ==
    ASSUME RdmaInv, NEW h \in Host, SendSelf(h)
    PROVE  RdmaInv'
<1>1. /\ program' = program /\ unsent' = unsent /\ completed' = completed /\ rq' = rq /\ cq' = cq
      /\ events' = events /\ poll' = poll /\ handled' = handled
      /\ outqueue[h] # <<>> /\ Head(outqueue[h]).to = h
      /\ outqueue' = [outqueue EXCEPT ![h] = Tail(outqueue[h])]
  BY DEF SendSelf
<1>2. LinkType
  BY DEF RdmaInv
<1>3. PICK o \in Seq(Msg) : o = outqueue[h] /\ o # <<>> /\ Tail(o) \in Seq(Msg) /\ Head(o) \in Msg
  BY <1>1, <1>2, HostTypes, Front
<1>4. ~completed[h]
  BY <1>1, <1>2 DEF LinkType
<1>5. /\ outqueue' \in [Host -> Seq(Msg)] /\ outqueue'[h] = Tail(o)
      /\ \A x \in Host : x # h => outqueue'[x] = outqueue[x]
  BY <1>1, <1>2, <1>3 DEF LinkType
<1>6. Out(h) = o /\ Out(h)' = Tail(o) /\ \A x \in Host : x # h => Out(x)' = Out(x)
  BY <1>1, <1>3, <1>4, <1>5 DEF Out
<1>7. PICK q \in Ring, v \in Nat, k \in Nat :
          q = inqueue[h][h] /\ v = Head(o).no /\ k = Len(handled[h][h])
  BY <1>2, <1>3, PairTypes DEF Msg
<1>8. PICK z : z = PutOwn(q, v)
  OBVIOUS
<1>9. inqueue' = [inqueue EXCEPT ![h][h] = z]
  BY <1>3, <1>7, <1>8 DEF SendSelf
<1>10. /\ z \in Ring /\ z.busy = q.busy + 1 /\ z.head = q.head
       /\ q.busy < QueueSize /\ q.tail = (q.head + q.busy) % QueueSize =>
            /\ z.tail = (z.head + z.busy) % QueueSize
            /\ \A n \in Nat : Contents(q, 0, n) /\ v = n + q.busy + 1 => Contents(z, 0, n)
  BY <1>8, RingSelf
<1>11. /\ inqueue' \in [Host -> [Host -> Ring]] /\ inqueue'[h][h] = z
       /\ \A x, y \in Host : ~(x = h /\ y = h) => inqueue'[x][y] = inqueue[x][y]
  <2>1. inqueue \in [Host -> [Host -> Ring]]
    BY <1>2 DEF LinkType
  <2> QED BY <1>9, <1>10, <2>1, Update
<1>12. LinkType'
  <2>1. \A x \in Host : completed'[x] => outqueue'[x] # <<>> /\ Head(outqueue'[x]).to # x
    BY <1>1, <1>2, <1>4, <1>5 DEF LinkType
  <2> QED BY <1>1, <1>2, <1>5, <1>11, <2>1 DEF LinkType
<1>13. PICK c \in Nat :
          /\ c = CountOf(program[h], h, Gone(h)) /\ v = c + 1
          /\ CountOf(program[h], h, Gone(h)') = c + 1 /\ c + 1 <= SentTo(h, h)
  BY <1>1, <1>3, <1>6, <1>7, Departs
<1>14. /\ \A x \in Host :
            Remaining(program[x], Gone(x), Out(x), Len(Out(x)), unsent[x], Len(unsent[x]))'
       /\ \A x \in Host : x # h => Gone(x)' = Gone(x)
       /\ \A y \in Host : y # h => CountOf(program[h], y, Gone(h)') = CountOf(program[h], y, Gone(h))
  BY <1>1, <1>3, <1>6, Departs
<1>15. Rings'
  BY <1>1, <1>11, OtherRings
<1>16. \A x, y \in Host : ~(x = h /\ y = h) => Order(x, y)'
  <2>1. \A x, y \in Host : ~(x = h /\ y = h) =>
            CountOf(program[y], x, Gone(y)') = CountOf(program[y], x, Gone(y))
    BY <1>14
  <2> QED BY <1>1, <1>11, <2>1, OtherPairs
<1>17. Order(h, h)'
  <2>1. cq[h][h] = 0 /\ cq'[h][h] = 0
    BY <1>1, <1>2 DEF LinkType
  <2>2. Order(h, h)
    BY DEF RdmaInv, Messages
  <2>3. PICK b \in Nat : b = q.busy /\ k + b = c
    <3>1. k + q.busy + 0 = c /\ q.busy \in Nat
      BY <1>7, <1>13, <2>1, <2>2, RingFields DEF Order
    <3> QED BY <3>1
  <2>4. Len(handled'[h][h]) + inqueue'[h][h].busy + cq'[h][h] = CountOf(program[h], h, Gone(h)')
    <3>1. k + (b + 1) + 0 = c + 1
      BY <2>3
    <3> QED BY <1>1, <1>7, <1>10, <1>11, <1>13, <2>1, <2>3, <3>1
  <2>5. ASSUME Promised(h, h)
        PROVE  /\ Contents(z, 0, k) /\ z.tail = (z.head + z.busy) % QueueSize
               /\ \A i \in 1 .. Len(handled'[h][h]) : handled'[h][h][i] = i
    <3>1. SentTo(h, h) <= QueueSize /\ SentTo(h, h) \in Nat /\ QueueSize \in Nat
      BY <1>2, <2>5, GoneBounds, Around DEF Promised, RdmaInv
    <3>2. b < QueueSize /\ v = k + b + 1
      BY <1>13, <2>3, <3>1
    <3>3. /\ Contents(q, 0, k) /\ q.tail = (q.head + q.busy) % QueueSize
          /\ \A i \in 1 .. Len(handled[h][h]) : handled[h][h][i] = i
      BY <1>7, <2>1, <2>2, <2>5 DEF Order
    <3> QED BY <1>1, <1>10, <2>3, <3>2, <3>3
  <2>6. Promised(h, h)' <=> Promised(h, h)
    BY <1>1 DEF Promised, SentTo
  <2> QED BY <1>1, <1>7, <1>11, <2>1, <2>4, <2>5, <2>6 DEF Order
<1>18. Messages'
  BY <1>14, <1>16, <1>17 DEF Messages
<1> QED BY <1>12, <1>15, <1>18 DEF RdmaInv

\* post_send learns of the completion: the message has been delivered before.
LEMMA SendCompletedKeeps ==
    ASSUME RdmaInv, NEW h \in Host, SendCompleted(h)
    PROVE  RdmaInv'
<1>1. /\ program' = program /\ unsent' = unsent /\ inqueue' = inqueue /\ rq' = rq /\ cq' = cq
      /\ events' = events /\ poll' = poll /\ handled' = handled /\ completed[h]
      /\ completed' = [completed EXCEPT ![h] = FALSE]
      /\ outqueue' = [outqueue EXCEPT ![h] = Tail(outqueue[h])]
  BY DEF SendCompleted
<1>2. LinkType
  BY DEF RdmaInv
<1>3. Tail(outqueue[h]) \in Seq(Msg)
  BY <1>1, <1>2, HostTypes, Front DEF LinkType
<1>4. /\ outqueue' \in [Host -> Seq(Msg)] /\ outqueue'[h] = Tail(outqueue[h])
      /\ \A x \in Host : x # h => outqueue'[x] = outqueue[x]
  BY <1>1, <1>2, <1>3 DEF LinkType
<1>5. /\ completed' \in [Host -> BOOLEAN] /\ ~completed'[h]
      /\ \A x \in Host : x # h => completed'[x] = completed[x]
  BY <1>1, <1>2 DEF LinkType
<1>6. \A x \in Host : Out(x)' = Out(x)
  BY <1>1, <1>4, <1>5 DEF Out
<1>7. LinkType'
  <2>1. \A x \in Host : completed'[x] => outqueue'[x] # <<>> /\ Head(outqueue'[x]).to # x
    BY <1>2, <1>4, <1>5 DEF LinkType
  <2> QED BY <1>1, <1>2, <1>4, <1>5, <2>1 DEF LinkType
<1>8. Rings'
  BY <1>1 DEF RdmaInv, Rings
<1>9. \A x \in Host : Gone(x)' = Gone(x)
  BY <1>1, <1>6 DEF Gone
<1>10. ASSUME NEW x \in Host
       PROVE  Remaining(program[x], Gone(x), Out(x), Len(Out(x)), unsent[x], Len(unsent[x]))'
  <2>1. Remaining(program[x], Gone(x), Out(x), Len(Out(x)), unsent[x], Len(unsent[x]))
    BY DEF RdmaInv, Messages
  <2> QED BY <1>1, <1>6, <1>9, <2>1
<1>11. ASSUME NEW x \in Host, NEW y \in Host PROVE Order(x, y)'
  BY <1>1, <1>9, OrderKept DEF RdmaInv, Messages
<1> QED BY <1>7, <1>8, <1>10, <1>11 DEF RdmaInv, Messages

\* The adapters move a message into a posted receive.
LEMMA DeliverKeeps ==
    ASSUME RdmaInv, NEW h \in Host, NEW g \in Host, Deliver(h, g)
    PROVE  RdmaInv'
<1>1. /\ program' = program /\ unsent' = unsent /\ outqueue' = outqueue /\ poll' = poll
      /\ handled' = handled /\ g # h /\ ~completed[h] /\ outqueue[h] # <<>>
      /\ Head(outqueue[h]).to = g /\ rq[g][h] # <<>>
      /\ inqueue' = [inqueue EXCEPT ![g][h].queue[Head(rq[g][h])] = Head(outqueue[h]).no]
      /\ rq' = [rq EXCEPT ![g][h] = Tail(rq[g][h])]
      /\ cq' = [cq EXCEPT ![g][h] = cq[g][h] + 1]
      /\ completed' = [completed EXCEPT ![h] = TRUE]
  BY DEF Deliver
<1>2. LinkType
  BY DEF RdmaInv
<1>3. PICK o \in Seq(Msg) : o = outqueue[h] /\ o # <<>> /\ Head(o) \in Msg
  BY <1>1, <1>2, HostTypes, Front
<1>4. /\ completed' \in [Host -> BOOLEAN] /\ completed'[h]
      /\ \A x \in Host : x # h => completed'[x] = completed[x]
  BY <1>1, <1>2 DEF LinkType
<1>5. Out(h) = o /\ Out(h)' = Tail(o) /\ \A x \in Host : x # h => Out(x)' = Out(x)
  BY <1>1, <1>3, <1>4 DEF Out
<1>6. events' \in [Host -> Seq(Host)]
  <2>1. events \in [Host -> Seq(Host)] /\ events[g] \in Seq(Host)
    BY <1>2 DEF LinkType
  <2>2. Append(events[g], h) \in Seq(Host)
    BY <2>1, Behind
  <2>3. events' = events \/ events' = [events EXCEPT ![g] = Append(events[g], h)]
    BY DEF Deliver
  <2> QED BY <2>1, <2>2, <2>3
<1>7. PICK q \in Ring, v \in Nat, k \in Nat, c \in Nat :
          q = inqueue[g][h] /\ v = Head(o).no /\ k = Len(handled[g][h]) /\ c = cq[g][h]
  BY <1>2, <1>3, PairTypes DEF Msg
<1>8. PICK r \in Seq(Slot), m \in Nat : r = rq[g][h] /\ m = Len(r) /\ r # <<>>
  BY <1>1, <1>2, PairTypes
<1>9. PICK t : /\ t = Tail(r) /\ t \in Seq(Slot) /\ Len(t) = m - 1 /\ m > 0 /\ Head(r) = r[1]
               /\ r[1] \in Slot /\ TailOf(t, r, m)
  <2>1. /\ Tail(r) \in Seq(Slot) /\ Len(Tail(r)) = Len(r) - 1 /\ Len(r) > 0 /\ Head(r) = r[1]
        /\ r[1] \in Slot /\ \A i \in 1 .. Len(r) - 1 : Tail(r)[i] = r[i + 1]
    BY <1>8, Front
  <2> QED BY <1>8, <2>1, Zenon DEF TailOf
<1>10. PICK z : z = Filled(q, r[1], v)
  OBVIOUS
<1>11. RingLayout(q, r, m, c)
  BY <1>1, <1>7, <1>8 DEF RdmaInv, Rings
<1>12. /\ z \in Ring /\ z.head = q.head /\ z.busy = q.busy
       /\ RingLayout(z, t, m - 1, c + 1)
       /\ \A n \in Nat : Contents(q, c, n) /\ v = n + q.busy + c + 1 => Contents(z, c + 1, n)
  <2>1. m > 0 /\ TailOf(t, r, m)
    BY <1>9, Zenon
  <2> QED BY <1>10, <1>11, <2>1, RingDeliver
<1>13. inqueue \in [Host -> [Host -> Ring]]
  BY <1>2 DEF LinkType
<1>14. inqueue' = [inqueue EXCEPT ![g][h] = z]
  BY <1>1, <1>3, <1>7, <1>8, <1>9, <1>10 DEF Filled
<1>15. /\ inqueue' \in [Host -> [Host -> Ring]] /\ inqueue'[g][h] = z
       /\ \A x, y \in Host : ~(x = g /\ y = h) => inqueue'[x][y] = inqueue[x][y]
  BY <1>12, <1>13, <1>14, Update
<1>16. /\ rq' \in [Host -> [Host -> Seq(Slot)]] /\ rq'[g][h] = t
       /\ \A x, y \in Host : ~(x = g /\ y = h) => rq'[x][y] = rq[x][y]
  <2>1. rq \in [Host -> [Host -> Seq(Slot)]] /\ t \in Seq(Slot) /\ rq' = [rq EXCEPT ![g][h] = t]
    BY <1>1, <1>2, <1>8, <1>9 DEF LinkType
  <2> QED BY <2>1, Update
<1>17. /\ cq' \in [Host -> [Host -> Nat]] /\ cq'[g][h] = c + 1
       /\ \A x, y \in Host : ~(x = g /\ y = h) => cq'[x][y] = cq[x][y]
  <2>1. cq \in [Host -> [Host -> Nat]]
    BY <1>2 DEF LinkType
  <2>2. cq' = [cq EXCEPT ![g][h] = c + 1]
    BY <1>1, <1>7
  <2>3. c + 1 \in Nat
    OBVIOUS
  <2> QED BY <2>1, <2>2, <2>3, Update
<1>18. LinkType'
  <2>1. \A x \in Host : completed'[x] => outqueue'[x] # <<>> /\ Head(outqueue'[x]).to # x
    BY <1>1, <1>2, <1>4 DEF LinkType
  <2>2. \A x \in Host : cq'[x][x] = 0
    BY <1>1, <1>2, <1>17 DEF LinkType
  <2> QED BY <1>1, <1>2, <1>4, <1>6, <1>15, <1>16, <1>17, <2>1, <2>2 DEF LinkType
<1>19. Out(h) # <<>> /\ Head(Out(h)).to = g /\ Out(h)' = Tail(Out(h))
  BY <1>1, <1>3, <1>5
<1>20. PICK w \in Nat :
          /\ w = CountOf(program[h], g, Gone(h)) /\ v = w + 1
          /\ CountOf(program[h], g, Gone(h)') = w + 1
  <2>1. /\ CountOf(program[h], g, Gone(h)) \in Nat
        /\ Head(Out(h)).no = CountOf(program[h], g, Gone(h)) + 1
        /\ CountOf(program[h], g, Gone(h)') = CountOf(program[h], g, Gone(h)) + 1
    BY <1>1, <1>5, <1>19, Departs, Zenon
  <2> QED BY <1>5, <1>7, <2>1
<1>21. /\ \A x \in Host :
            Remaining(program[x], Gone(x), Out(x), Len(Out(x)), unsent[x], Len(unsent[x]))'
       /\ \A x \in Host : x # h => Gone(x)' = Gone(x)
       /\ \A y \in Host : y # g => CountOf(program[h], y, Gone(h)') = CountOf(program[h], y, Gone(h))
  BY <1>1, <1>5, <1>19, Departs, Zenon
<1>22. Rings'
  <2>1. RingLayout(inqueue'[g][h], rq'[g][h], Len(rq'[g][h]), cq'[g][h])
    BY <1>9, <1>12, <1>15, <1>16, <1>17
  <2>2. \A x, y \in Host : ~(x = g /\ y = h) =>
            /\ inqueue'[x][y] = inqueue[x][y] /\ rq'[x][y] = rq[x][y] /\ cq'[x][y] = cq[x][y]
    BY <1>15, <1>16, <1>17
  <2> QED BY <2>1, <2>2, OtherRings, Zenon
<1>23. \A x, y \in Host : ~(x = g /\ y = h) => Order(x, y)'
  <2>1. \A x, y \in Host : ~(x = g /\ y = h) =>
            CountOf(program[y], x, Gone(y)') = CountOf(program[y], x, Gone(y))
    BY <1>21
  <2>2. \A x, y \in Host : ~(x = g /\ y = h) =>
            /\ handled'[x][y] = handled[x][y] /\ inqueue'[x][y] = inqueue[x][y]
            /\ cq'[x][y] = cq[x][y]
            /\ CountOf(program[y], x, Gone(y)') = CountOf(program[y], x, Gone(y))
    BY <1>1, <1>15, <1>17, <2>1
  <2> QED BY <1>1, <2>2, OtherPairs, Zenon
<1>24. Order(g, h)'
  <2>1. Order(g, h)
    BY DEF RdmaInv, Messages
  <2>2. PICK b \in Nat : b = q.busy /\ k + b + c = w
    <3>1. k + q.busy + c = w /\ q.busy \in Nat
      BY <1>7, <1>20, <2>1, RingFields DEF Order
    <3> QED BY <3>1
  <2>3. k + b + (c + 1) = w + 1 /\ v = k + b + c + 1
    BY <1>20, <2>2
  <2>4. Len(handled'[g][h]) + inqueue'[g][h].busy + cq'[g][h] = CountOf(program[h], g, Gone(h)')
    BY <1>1, <1>7, <1>12, <1>15, <1>17, <1>20, <2>2, <2>3
  <2>5. Contents(q, c, k) /\ \A i \in 1 .. Len(handled[g][h]) : handled[g][h][i] = i
    BY <1>1, <1>7, <2>1 DEF Order, Promised
  <2>6. Contents(z, c + 1, k)
    BY <1>12, <2>2, <2>3, <2>5
  <2> QED BY <1>1, <1>7, <1>15, <1>17, <2>4, <2>5, <2>6 DEF Order
<1>25. Messages'
  BY <1>21, <1>23, <1>24 DEF Messages
<1> QED BY <1>18, <1>22, <1>25 DEF RdmaInv

\* A step that leaves the messages to be sent alone and concerns the ring of
\* the messages from g to h.
LEMMA RingStep ==
    ASSUME RdmaInv, program' = program, unsent' = unsent, outqueue' = outqueue,
           completed' = completed, events' = events, poll' \in [Host -> Host \cup {NoHost}],
           NEW h \in Host, NEW g \in Host,
           NEW z \in Ring, inqueue' = [inqueue EXCEPT ![h][g] = z],
           NEW r \in Seq(Slot), rq' = [rq EXCEPT ![h][g] = r],
           NEW c \in Nat, cq' = [cq EXCEPT ![h][g] = c], h = g => c = 0,
           NEW s \in Seq(Nat), handled' = [handled EXCEPT ![h][g] = s],
           g # h => RingLayout(z, r, Len(r), c),
           Len(s) + z.busy + c = CountOf(program[g], h, Gone(g)),
           Promised(h, g) => Contents(z, c, Len(s)) /\ \A i \in 1 .. Len(s) : s[i] = i,
           h = g /\ Promised(h, h) => z.tail = (z.head + z.busy) % QueueSize
    PROVE  RdmaInv'
<1>1. LinkType
  BY DEF RdmaInv
<1>2. /\ inqueue \in [Host -> [Host -> Ring]] /\ rq \in [Host -> [Host -> Seq(Slot)]]
      /\ cq \in [Host -> [Host -> Nat]] /\ handled \in [Host -> [Host -> Seq(Nat)]]
  BY <1>1 DEF LinkType
<1>3. /\ inqueue' \in [Host -> [Host -> Ring]] /\ inqueue'[h][g] = z
      /\ \A x, y \in Host : ~(x = h /\ y = g) => inqueue'[x][y] = inqueue[x][y]
  BY <1>2, Update, ZenonT(40)
<1>4. /\ rq' \in [Host -> [Host -> Seq(Slot)]] /\ rq'[h][g] = r
      /\ \A x, y \in Host : ~(x = h /\ y = g) => rq'[x][y] = rq[x][y]
  BY <1>2, Update, ZenonT(40)
<1>5. /\ cq' \in [Host -> [Host -> Nat]] /\ cq'[h][g] = c
      /\ \A x, y \in Host : ~(x = h /\ y = g) => cq'[x][y] = cq[x][y]
  BY <1>2, Update, ZenonT(40)
<1>6. /\ handled' \in [Host -> [Host -> Seq(Nat)]] /\ handled'[h][g] = s
      /\ \A x, y \in Host : ~(x = h /\ y = g) => handled'[x][y] = handled[x][y]
  BY <1>2, Update, ZenonT(40)
<1>7. \A x \in Host : Out(x)' = Out(x) /\ Gone(x)' = Gone(x)
  BY DEF Out, Gone
<1>8. LinkType'
  <2>1. \A x \in Host : cq'[x][x] = 0
    BY <1>1, <1>5 DEF LinkType
  <2>2. \A x \in Host : completed'[x] => outqueue'[x] # <<>> /\ Head(outqueue'[x]).to # x
    BY <1>1 DEF LinkType
  <2> QED BY <1>1, <1>3, <1>4, <1>5, <1>6, <2>1, <2>2 DEF LinkType
<1>9. Rings'
  <2>1. g # h => RingLayout(inqueue'[h][g], rq'[h][g], Len(rq'[h][g]), cq'[h][g])
    BY <1>3, <1>4, <1>5
  <2>2. \A x, y \in Host : ~(x = h /\ y = g) =>
            /\ inqueue'[x][y] = inqueue[x][y] /\ rq'[x][y] = rq[x][y] /\ cq'[x][y] = cq[x][y]
    BY <1>3, <1>4, <1>5
  <2> QED BY <2>1, <2>2, OtherRings, Zenon, Zenon
<1>10. ASSUME NEW x \in Host
       PROVE  Remaining(program[x], Gone(x), Out(x), Len(Out(x)), unsent[x], Len(unsent[x]))'
  <2>1. Remaining(program[x], Gone(x), Out(x), Len(Out(x)), unsent[x], Len(unsent[x]))
    BY DEF RdmaInv, Messages
  <2> QED BY <1>7, <2>1
<1>11. \A x, y \in Host : ~(x = h /\ y = g) => Order(x, y)'
  <2>1. \A x, y \in Host : ~(x = h /\ y = g) =>
            /\ handled'[x][y] = handled[x][y] /\ inqueue'[x][y] = inqueue[x][y]
            /\ cq'[x][y] = cq[x][y]
            /\ CountOf(program[y], x, Gone(y)') = CountOf(program[y], x, Gone(y))
    BY <1>3, <1>5, <1>6, <1>7
  <2> QED BY <2>1, OtherPairs, Zenon, ZenonT(40)
<1>12. Order(h, g)'
  <2>1. Promised(h, g)' <=> Promised(h, g)
    BY DEF Promised, SentTo
  <2> QED BY <1>3, <1>5, <1>6, <1>7, <2>1 DEF Order
<1> QED BY <1>8, <1>9, <1>10, <1>11, <1>12 DEF RdmaInv, Messages

\* What the invariant says of the ring of the messages from g to h.
LEMMA RingOf ==
    ASSUME RdmaInv, NEW h \in Host, NEW g \in Host
    PROVE  /\ LinkType
           /\ inqueue[h][g] \in Ring /\ rq[h][g] \in Seq(Slot) /\ cq[h][g] \in Nat
           /\ handled[h][g] \in Seq(Nat) /\ Len(handled[h][g]) \in Nat /\ Len(rq[h][g]) \in Nat
           /\ g # h => RingLayout(inqueue[h][g], rq[h][g], Len(rq[h][g]), cq[h][g])
           /\ h = g => cq[h][g] = 0
           /\ Order(h, g)
<1>1. LinkType
  BY DEF RdmaInv
<1> QED BY <1>1, PairTypes DEF RdmaInv, Rings, Messages, LinkType

\* Entries that do not change.
LEMMA Unchanged ==
    ASSUME NEW S, NEW f \in [Host -> [Host -> S]], NEW h \in Host, NEW g \in Host
    PROVE  f = [f EXCEPT ![h][g] = f[h][g]]
OBVIOUS

\* The listen thread polls a completion, or finds none.
LEMMA PollOneKeeps ==
    ASSUME RdmaInv, NEW h \in Host, PollOne(h)
    PROVE  RdmaInv'
<1>1. /\ program' = program /\ unsent' = unsent /\ outqueue' = outqueue /\ completed' = completed
      /\ events' = events /\ rq' = rq /\ handled' = handled
  BY DEF PollOne
<1>2. LinkType
  BY DEF RdmaInv
<1>3. PICK g \in Host : g = poll[h]
  BY <1>2 DEF LinkType, PollOne
<1>4. poll' \in [Host -> Host \cup {NoHost}] /\ events' \in [Host -> Seq(Host)]
  BY <1>1, <1>2 DEF LinkType, PollOne
<1>5. CASE cq[h][g] = 0
  <2>1. cq' = cq /\ inqueue' = inqueue
    BY <1>3, <1>5 DEF PollOne
  <2> QED BY <1>1, <1>4, <2>1, LinkKept
<1>6. CASE cq[h][g] # 0
  <2>1. g # h
    BY <1>2, <1>6 DEF LinkType
  <2>2. PICK q \in Ring, c \in Nat, d \in Nat, s \in Seq(Nat), r \in Seq(Slot) :
            /\ q = inqueue[h][g] /\ c = cq[h][g] /\ s = handled[h][g] /\ r = rq[h][g]
            /\ c = d + 1 /\ c > 0 /\ c - 1 = d
    <3>1. cq[h][g] - 1 \in Nat /\ cq[h][g] = cq[h][g] - 1 + 1 /\ cq[h][g] > 0
      BY <1>6, RingOf
    <3> QED BY <3>1, RingOf
  <2>0. PICK m \in Nat, k \in Nat : m = Len(r) /\ k = Len(s)
    BY <2>2, RingOf
  <2>3. PICK z : m = Len(r) /\ k = Len(s) /\ z = Polled(q)
    BY <2>0, <2>2, RingOf
  <2>4. c > 0 /\ c - 1 = d
    BY <2>2, Zenon
  <2>5. /\ z \in Ring /\ z.busy = q.busy + 1
        /\ RingLayout(q, r, m, c) => RingLayout(z, r, m, c - 1)
        /\ \A n \in Nat : Contents(q, c, n) => Contents(z, c - 1, n)
    BY <2>3, <2>4, RingPoll
  <2>6. cq' = [cq EXCEPT ![h][g] = d] /\ inqueue' = [inqueue EXCEPT ![h][g] = z]
    BY <1>3, <1>6, <2>2, <2>3, <2>4 DEF PollOne
  <2>7. rq' = [rq EXCEPT ![h][g] = r] /\ handled' = [handled EXCEPT ![h][g] = s]
    <3>1. rq \in [Host -> [Host -> Seq(Slot)]] /\ handled \in [Host -> [Host -> Seq(Nat)]]
      BY <1>2 DEF LinkType
    <3> QED BY <1>1, <2>2, <3>1, Unchanged
  <2>8. Order(h, g) /\ RingLayout(q, r, m, c)
    BY <2>1, <2>2, <2>3, RingOf
  <2>9. k + z.busy + d = CountOf(program[g], h, Gone(g))
    <3>1. k + q.busy + c = CountOf(program[g], h, Gone(g))
      BY <2>2, <2>3, <2>8 DEF Order
    <3>2. q.busy \in Nat
      BY RingFields
    <3>3. \A x, y \in Nat : x + (y + 1) + d = x + y + (d + 1)
      OBVIOUS
    <3>4. k + (q.busy + 1) + d = k + q.busy + (d + 1)
      BY <3>2, <3>3, Zenon
    <3> QED BY <2>2, <2>5, <3>1, <3>4, Zenon
  <2>10. Contents(z, d, k) /\ \A i \in 1 .. k : s[i] = i
    BY <2>1, <2>2, <2>3, <2>4, <2>5, <2>8 DEF Order, Promised
  <2>11. RingLayout(z, r, m, d)
    BY <2>4, <2>5, <2>8, Zenon
  <2> QED BY <1>1, <1>4, <2>1, <2>3, <2>5, <2>6, <2>7, <2>9, <2>10, <2>11, RingStep
<1> QED BY <1>5, <1>6

\* The server thread handles a message.
LEMMA HandleKeeps ==
    ASSUME RdmaInv, NEW h \in Host, NEW g \in Host, Handle(h, g)
    PROVE  RdmaInv'
<1>1. /\ program' = program /\ unsent' = unsent /\ outqueue' = outqueue /\ completed' = completed
      /\ events' = events /\ poll' = poll /\ rq' = rq /\ cq' = cq
  BY DEF Handle
<1>2. LinkType
  BY DEF RdmaInv
<1>3. PICK q \in Ring, c \in Nat, s \in Seq(Nat), r \in Seq(Slot) :
          /\ q = inqueue[h][g] /\ c = cq[h][g] /\ s = handled[h][g] /\ r = rq[h][g]
  BY RingOf
<1>0. PICK m \in Nat, k \in Nat : m = Len(r) /\ k = Len(s)
  BY <1>3, RingOf
<1>4. PICK z : m = Len(r) /\ k = Len(s) /\ z = TakeHead(q)
  BY <1>0, <1>3, RingOf
<1>5. q.busy # 0 /\ q.busy > 0 /\ q.busy \in Nat
  BY <1>3, RingFields DEF Handle
<1>6. /\ z \in Ring /\ z.busy = q.busy - 1 /\ z.tail = q.tail
      /\ q.busy <= QueueSize /\ q.tail = (q.head + q.busy) % QueueSize =>
           z.tail = (z.head + z.busy) % QueueSize
      /\ RingLayout(q, r, m, c) => RingLayout(z, r, m, c)
      /\ q.busy + c <= QueueSize =>
           \A n \in Nat : Contents(q, c, n) => q.queue[q.head] = n + 1 /\ Contents(z, c, n + 1)
  <2>1. z = TakeHead(q)
    BY <1>4
  <2>2. /\ z \in Ring /\ z.busy = q.busy - 1 /\ z.tail = q.tail
        /\ q.busy <= QueueSize /\ q.tail = (q.head + q.busy) % QueueSize =>
             z.tail = (z.head + z.busy) % QueueSize
    BY <1>5, <2>1, RingHandle
  <2>3. RingLayout(q, r, m, c) => RingLayout(z, r, m, c)
    BY <1>5, <2>1, RingHandle
  <2>4. q.busy + c <= QueueSize =>
           \A n \in Nat : Contents(q, c, n) => q.queue[q.head] = n + 1 /\ Contents(z, c, n + 1)
    <3> SUFFICES ASSUME q.busy + c <= QueueSize, NEW n \in Nat, Contents(q, c, n)
                 PROVE  q.queue[q.head] = n + 1 /\ Contents(z, c, n + 1)
      BY Zenon
    <3> QED BY <1>5, <2>1, <2>3, RingHandle
  <2> QED BY <2>2, <2>3, <2>4, Zenon
<1>7. PICK v \in Nat : v = q.queue[q.head]
  BY RingFields
<1>8. PICK t \in Seq(Nat) : /\ t = Append(s, v) /\ Len(t) = k + 1 /\ t[k + 1] = v
                            /\ \A i \in 1 .. k : t[i] = s[i]
  <2>1. /\ Append(s, v) \in Seq(Nat) /\ Len(Append(s, v)) = Len(s) + 1
        /\ Append(s, v)[Len(s) + 1] = v /\ \A i \in 1 .. Len(s) : Append(s, v)[i] = s[i]
    BY Behind
  <2> QED BY <1>4, <2>1, Zenon
<1>9. inqueue' = [inqueue EXCEPT ![h][g] = z] /\ handled' = [handled EXCEPT ![h][g] = t]
  BY <1>3, <1>4, <1>7, <1>8 DEF Handle
<1>10. rq' = [rq EXCEPT ![h][g] = r] /\ cq' = [cq EXCEPT ![h][g] = c]
  <2>1. rq \in [Host -> [Host -> Seq(Slot)]] /\ cq \in [Host -> [Host -> Nat]]
    BY <1>2 DEF LinkType
  <2> QED BY <1>1, <1>3, <2>1, Unchanged
<1>11. PICK b \in Nat : b = q.busy /\ k + b + c = CountOf(program[g], h, Gone(g)) /\ b > 0
  BY <1>3, <1>4, <1>5, RingOf DEF Order
<1>12. k + 1 + z.busy + c = CountOf(program[g], h, Gone(g))
  <2>1. k + 1 + (b - 1) + c = k + b + c
    OBVIOUS
  <2> QED BY <1>6, <1>11, <2>1
<1>13. ASSUME Promised(h, g)
       PROVE  /\ Contents(z, c, k + 1) /\ \A i \in 1 .. k + 1 : t[i] = i
              /\ h = g => z.tail = (z.head + z.busy) % QueueSize
  <2>1. b + c <= QueueSize
    <3>1. CASE g # h
      <4>1. m + c + b + q.free = QueueSize /\ q.free \in Nat
        BY <1>11, <3>1, RingFields, RingOf, <1>3, <1>4 DEF RingLayout
      <4>2. \A x, y \in Nat : b + c <= x + c + b + y
        OBVIOUS
      <4> QED BY <4>1, <4>2, Zenon
    <3>2. CASE g = h
      <4>1. /\ Gone(h) \in Nat /\ Gone(h) <= Len(program[h]) /\ SentTo(h, h) \in Nat
            /\ CountOf(program[h], h, Gone(h)) <= SentTo(h, h)
        BY <1>2, GoneBounds DEF RdmaInv
      <4>2. SentTo(h, h) <= QueueSize /\ QueueSize \in Nat
        BY <1>13, <3>2, Around DEF Promised
      <4>3. k + b + c <= SentTo(h, h)
        BY <1>11, <3>2, <4>1
      <4> QED BY <4>1, <4>2, <4>3
    <3> QED BY <3>1, <3>2
  <2>2. Contents(q, c, k) /\ \A i \in 1 .. k : s[i] = i
    <3>1. Order(h, g)
      BY RingOf
    <3> QED BY <1>3, <1>4, <1>13, <3>1 DEF Order
  <2>3. v = k + 1 /\ Contents(z, c, k + 1)
    BY <1>6, <1>7, <1>11, <2>1, <2>2
  <2>4. ASSUME NEW i \in 1 .. k + 1 PROVE t[i] = i
    <3>1. i \in 1 .. k \/ i = k + 1
      OBVIOUS
    <3> QED BY <1>8, <2>2, <2>3, <3>1
  <2>5. ASSUME h = g PROVE z.tail = (z.head + z.busy) % QueueSize
    <3>1. Order(h, g)
      BY RingOf
    <3>2. q.tail = (q.head + b) % QueueSize
      BY <1>3, <1>11, <1>13, <2>5, <3>1 DEF Order
    <3>3. b <= QueueSize
      BY <2>1, Around
    <3> QED BY <1>6, <1>11, <3>2, <3>3
  <2> QED BY <2>3, <2>4, <2>5
<1>14. poll' \in [Host -> Host \cup {NoHost}]
  BY <1>1, <1>2 DEF LinkType
<1>15. g # h => RingLayout(z, r, m, c)
  BY <1>6, <1>3, <1>4, RingOf
<1>16. h = g => c = 0
  BY <1>3, RingOf
<1>17. /\ Len(t) + z.busy + c = CountOf(program[g], h, Gone(g))
       /\ Promised(h, g) => Contents(z, c, Len(t)) /\ \A i \in 1 .. Len(t) : t[i] = i
       /\ h = g /\ Promised(h, h) => z.tail = (z.head + z.busy) % QueueSize
       /\ g # h => RingLayout(z, r, Len(r), c)
  BY <1>4, <1>8, <1>12, <1>13, <1>15, Zenon
<1>18. z \in Ring
  BY <1>6
<1> QED BY <1>1, <1>9, <1>10, <1>14, <1>16, <1>17, <1>18, RingStep

\* A sequence and a batch.
LEMMA BatchBehind ==
    ASSUME NEW q \in Ring, NEW r \in Seq(Slot)
    PROVE  /\ r \o Batch(q) \in Seq(Slot) /\ Len(r \o Batch(q)) = Len(r) + BatchingSize
           /\ WithBatch(r \o Batch(q), r, Len(r), q.post)
<1>1. BatchingSize \in Nat
  BY QueueAssumption
<1>2. \A i \in 1 .. BatchingSize : (q.post + i - 1) % QueueSize \in Slot
  <2> SUFFICES ASSUME NEW i \in 1 .. BatchingSize PROVE (q.post + i - 1) % QueueSize \in Slot
    OBVIOUS
  <2>1. PICK p \in Nat : p = q.post
    BY RingFields
  <2>2. p + i - 1 \in Nat
    BY <1>1
  <2> QED BY <2>1, <2>2, Around
<1>3. PICK b \in [1 .. BatchingSize -> Slot] :
          b = Batch(q) /\ \A i \in 1 .. BatchingSize : b[i] = (q.post + i - 1) % QueueSize
  <2>1. Batch(q) = [i \in 1 .. BatchingSize |-> (q.post + i - 1) % QueueSize]
    BY DEF Batch
  <2>2. Batch(q) \in [1 .. BatchingSize -> Slot]
    BY <1>2, <2>1, Zenon
  <2>3. \A i \in 1 .. BatchingSize : Batch(q)[i] = (q.post + i - 1) % QueueSize
    BY <2>1, Zenon
  <2> QED BY <2>2, <2>3, Zenon
<1>4. b \in Seq(Slot) /\ Len(b) = BatchingSize
  BY <1>1, <1>3
<1>5. /\ r \o b \in Seq(Slot) /\ Len(r \o b) = Len(r) + Len(b) /\ Len(r) \in Nat
      /\ \A k \in 1 .. Len(r) + Len(b) :
            (r \o b)[k] = IF k <= Len(r) THEN r[k] ELSE b[k - Len(r)]
  BY <1>4
<1>0. PICK m \in Nat : m = Len(r)
  BY <1>5, Zenon
<1>6. PICK w : m = Len(r) /\ w = r \o b
  BY <1>0, <1>5, Zenon
<1>7. \A k \in 1 .. m + BatchingSize : w[k] = IF k <= m THEN r[k] ELSE b[k - m]
  BY <1>4, <1>5, <1>6
<1>8. ASSUME NEW k \in 1 .. m PROVE w[k] = r[k]
  BY <1>1, <1>7
<1>9. ASSUME NEW k \in m + 1 .. m + BatchingSize PROVE w[k] = (q.post + (k - m) - 1) % QueueSize
  <2>1. k \in 1 .. m + BatchingSize /\ ~(k <= m) /\ k - m \in 1 .. BatchingSize
    BY <1>1
  <2>2. w[k] = b[k - m]
    BY <1>7, <2>1
  <2> QED BY <1>3, <2>1, <2>2
<1>10. WithBatch(w, r, m, q.post)
  BY <1>8, <1>9 DEF WithBatch
<1> QED BY <1>3, <1>4, <1>5, <1>6, <1>10

\* The server thread posts a batch of receives.
LEMMA PostRecvKeeps ==
    ASSUME RdmaInv, NEW h \in Host, NEW g \in Host, PostRecv(h, g)
    PROVE  RdmaInv'
<1>1. /\ program' = program /\ unsent' = unsent /\ outqueue' = outqueue /\ completed' = completed
      /\ events' = events /\ poll' = poll /\ cq' = cq /\ handled' = handled
  BY DEF PostRecv
<1>2. LinkType /\ g # h
  BY DEF RdmaInv, PostRecv
<1>3. PICK q \in Ring, c \in Nat, s \in Seq(Nat), r \in Seq(Slot) :
          /\ q = inqueue[h][g] /\ c = cq[h][g] /\ s = handled[h][g] /\ r = rq[h][g]
  BY RingOf
<1>0. PICK m \in Nat : m = Len(r)
  BY <1>3, RingOf
<1>4. PICK z, w : m = Len(r) /\ z = Posted(q) /\ w = r \o Batch(q)
  BY <1>0, <1>3, RingOf
<1>5. w \in Seq(Slot) /\ Len(w) = m + BatchingSize /\ WithBatch(w, r, m, q.post)
  BY <1>4, BatchBehind
<1>6. RingLayout(q, r, m, c) /\ Order(h, g)
  BY <1>2, <1>3, <1>4, RingOf
<1>7. q.free >= BatchingSize
  BY <1>3 DEF PostRecv
<1>8. /\ z \in Ring /\ z.head = q.head /\ z.busy = q.busy /\ z.queue = q.queue
      /\ RingLayout(z, w, m + BatchingSize, c)
  BY <1>4, <1>5, <1>6, <1>7, RingPost, ZenonT(40)
<1>9. inqueue' = [inqueue EXCEPT ![h][g] = z] /\ rq' = [rq EXCEPT ![h][g] = w]
  BY <1>3, <1>4 DEF PostRecv
<1>10. handled' = [handled EXCEPT ![h][g] = s] /\ cq' = [cq EXCEPT ![h][g] = c]
  <2>1. handled \in [Host -> [Host -> Seq(Nat)]] /\ cq \in [Host -> [Host -> Nat]]
    BY <1>2 DEF LinkType
  <2> QED BY <1>1, <1>3, <2>1, Unchanged
<1>11. /\ Len(s) + z.busy + c = CountOf(program[g], h, Gone(g))
       /\ Promised(h, g) => Contents(q, c, Len(s)) /\ \A i \in 1 .. Len(s) : s[i] = i
  BY <1>3, <1>6, <1>8 DEF Order
<1>12. Contents(q, c, Len(s)) => Contents(z, c, Len(s))
  BY <1>8 DEF Contents
<1>13. poll' \in [Host -> Host \cup {NoHost}]
  BY <1>1, <1>2 DEF LinkType
<1>14. /\ z \in Ring /\ w \in Seq(Slot) /\ h # g /\ (g # h => RingLayout(z, w, Len(w), c))
       /\ Promised(h, g) => Contents(z, c, Len(s)) /\ \A i \in 1 .. Len(s) : s[i] = i
  BY <1>2, <1>5, <1>8, <1>11, <1>12, Zenon
<1> QED BY <1>1, <1>9, <1>10, <1>11, <1>13, <1>14, RingStep

\* Every step.
LEMMA NextRdma == RdmaInv /\ [Next]_vars => RdmaInv'
<1> SUFFICES ASSUME RdmaInv, [Next]_vars PROVE RdmaInv'
  OBVIOUS
<1>1. LinkType
  BY DEF RdmaInv
<1>2. CASE UNCHANGED link
  <2>1. /\ program' = program /\ unsent' = unsent /\ outqueue' = outqueue /\ completed' = completed
        /\ inqueue' = inqueue /\ rq' = rq /\ cq' = cq /\ handled' = handled
        /\ events' = events /\ poll' = poll
    BY <1>2 DEF link
  <2>2. events' \in [Host -> Seq(Host)] /\ poll' \in [Host -> Host \cup {NoHost}]
    BY <1>1, <2>1 DEF LinkType
  <2> QED BY <2>1, <2>2, LinkKept
<1>3. ASSUME NEW h \in Host, GetEvent(h) PROVE RdmaInv'
  <2>1. /\ program' = program /\ unsent' = unsent /\ outqueue' = outqueue /\ completed' = completed
        /\ inqueue' = inqueue /\ rq' = rq /\ cq' = cq /\ handled' = handled /\ events[h] # <<>>
        /\ poll' = [poll EXCEPT ![h] = Head(events[h])]
    BY <1>3 DEF GetEvent
  <2>2. /\ events \in [Host -> Seq(Host)] /\ events[h] \in Seq(Host)
        /\ poll \in [Host -> Host \cup {NoHost}]
    BY <1>1 DEF LinkType
  <2>3. Head(events[h]) \in Host /\ Tail(events[h]) \in Seq(Host)
    BY <2>1, <2>2, Front
  <2>4. Append(Tail(events[h]), Head(events[h])) \in Seq(Host)
    BY <2>3, Behind
  <2>5. poll' \in [Host -> Host \cup {NoHost}]
    BY <2>1, <2>2, <2>3
  <2>6. \/ events' = [events EXCEPT ![h] = Append(Tail(events[h]), Head(events[h]))]
        \/ events' = [events EXCEPT ![h] = Tail(events[h])]
    BY <1>3 DEF GetEvent, Rearm
  <2>7. events' \in [Host -> Seq(Host)]
    BY <2>2, <2>3, <2>4, <2>6
  <2> QED BY <2>1, <2>5, <2>7, LinkKept
<1>4. ASSUME NEW h \in Host, InitPosted(h) PROVE RdmaInv'
  <2>1. /\ program' = program /\ unsent' = unsent /\ outqueue' = outqueue /\ completed' = completed
        /\ inqueue' = inqueue /\ rq' = rq /\ cq' = cq /\ handled' = handled
        /\ events' = events /\ poll' = poll
    BY <1>4 DEF InitPosted
  <2>2. events' \in [Host -> Seq(Host)] /\ poll' \in [Host -> Host \cup {NoHost}]
    BY <1>1, <2>1 DEF LinkType
  <2> QED BY <2>1, <2>2, LinkKept
<1>5. CASE LinkNext
  BY <1>3, <1>4, <1>5, EnqueueKeeps, SendSelfKeeps, SendCompletedKeeps, DeliverKeeps, PollOneKeeps,
     HandleKeeps, PostRecvKeeps DEF LinkNext, Client, Nic, Listen, Server
<1> QED BY <1>2, <1>5 DEF Next, Connect, vars

\* The invariant of the rings and messages.
THEOREM RdmaInvariance == Spec => []RdmaInv
BY InitRdma, NextRdma, PTL DEF Spec

\* A host handles the messages of another in the order they were sent and each
\* once, over any interleaving of client, adapter, listen and server threads.
THEOREM MessagesInOrder == Spec => []RdmaInOrder
<1>1. RdmaInv => RdmaInOrder
  <2> SUFFICES ASSUME RdmaInv, NEW h \in Host, NEW g \in Host, g # h \/ SentTo(h, h) <= QueueSize
               PROVE  /\ Len(handled[h][g]) <= SentTo(g, h)
                      /\ \A i \in DOMAIN handled[h][g] : handled[h][g][i] = i
    BY DEF RdmaInOrder
  <2>1. Order(h, g) /\ LinkType /\ Promised(h, g)
    BY RingOf DEF Promised
  <2>2. PICK k \in Nat, b \in Nat, c \in Nat :
            /\ k = Len(handled[h][g]) /\ b = inqueue[h][g].busy /\ c = cq[h][g]
            /\ k + b + c = CountOf(program[g], h, Gone(g))
    BY <2>1, PairTypes DEF Order
  <2>3. /\ CountOf(program[g], h, Gone(g)) <= SentTo(g, h) /\ SentTo(g, h) \in Nat
    BY <2>1, GoneBounds DEF RdmaInv
  <2>4. k <= SentTo(g, h)
    BY <2>2, <2>3, SMTT(40)
  <2>5. DOMAIN handled[h][g] = 1 .. Len(handled[h][g])
    BY RingOf
  <2> QED BY <2>1, <2>2, <2>4, <2>5 DEF Order
<1> QED BY <1>1, RdmaInvariance, PTL

\* The posted receives are different slots, none of which is unread.
LEMMA PostedApart ==
    ASSUME NEW q \in Ring, NEW r, NEW m \in Nat, NEW c \in Nat, RingLayout(q, r, m, c)
    PROVE  /\ \A k \in 1 .. m : \A i \in 0 .. q.busy + c - 1 : r[k] # (q.head + i) % QueueSize
           /\ \A k, l \in 1 .. m : r[k] = r[l] => k = l
           /\ m + c + q.busy + q.free = QueueSize
<1>1. PICK hd \in Slot, b \in Nat, f \in Nat :
          hd = q.head /\ b = q.busy /\ f = q.free /\ m + c + b + f = QueueSize
  BY RingFields DEF RingLayout
<1>2. ASSUME NEW k \in 1 .. m
      PROVE  \E j \in 0 .. QueueSize - 1 : j = b + c + k - 1 /\ r[k] = (hd + j) % QueueSize
  <2>1. b + c + k - 1 \in 0 .. QueueSize - 1 /\ hd + b + c + k - 1 = hd + (b + c + k - 1)
    BY <1>1, Around
  <2>2. r[k] = (hd + b + c + k - 1) % QueueSize
    BY <1>1 DEF RingLayout
  <2> QED BY <2>1, <2>2
<1>3. ASSUME NEW k \in 1 .. m, NEW i \in 0 .. b + c - 1, r[k] = (hd + i) % QueueSize
      PROVE  FALSE
  <2>1. PICK j \in 0 .. QueueSize - 1 : j = b + c + k - 1 /\ r[k] = (hd + j) % QueueSize
    BY <1>2
  <2>2. i \in 0 .. QueueSize - 1 /\ i # j
    BY <1>1, <2>1
  <2> QED BY <1>3, <2>1, <2>2, SlotsDiffer
<1>4. ASSUME NEW k \in 1 .. m, NEW l \in 1 .. m, r[k] = r[l] PROVE k = l
  <2>1. PICK j \in 0 .. QueueSize - 1 : j = b + c + k - 1 /\ r[k] = (hd + j) % QueueSize
    BY <1>2
  <2>2. PICK i \in 0 .. QueueSize - 1 : i = b + c + l - 1 /\ r[l] = (hd + i) % QueueSize
    BY <1>2
  <2>3. i = j
    BY <1>4, <2>1, <2>2, SlotsDiffer
  <2> QED BY <2>1, <2>2, <2>3
<1> QED BY <1>1, <1>3, <1>4

\* No receive is posted for a slot with an unread message, no slot is posted
\* twice, and none is lost (head, tail, post_value, busy and free of a ring).
THEOREM SlotsSafe == Spec => []RecvSlotsSafe
<1>1. RdmaInv => RecvSlotsSafe
  <2> SUFFICES ASSUME RdmaInv, NEW h \in Host, NEW g \in Host \ {h}
               PROVE  /\ Range(rq[h][g]) \cap Unhandled(h, g) = {}
                      /\ Cardinality(Range(rq[h][g])) = Len(rq[h][g])
                      /\ Len(rq[h][g]) + cq[h][g] + inqueue[h][g].busy + inqueue[h][g].free = QueueSize
    BY DEF RecvSlotsSafe
  <2>1. PICK r \in Seq(Slot) : r = rq[h][g]
    BY RingOf
  <2>2. PICK q \in Ring, c \in Nat, m \in Nat :
            q = inqueue[h][g] /\ c = cq[h][g] /\ m = Len(r) /\ RingLayout(q, r, m, c)
    BY <2>1, RingOf
  <2>3. /\ \A k \in 1 .. m : \A i \in 0 .. q.busy + c - 1 : r[k] # (q.head + i) % QueueSize
        /\ \A k, l \in 1 .. m : r[k] = r[l] => k = l
        /\ m + c + q.busy + q.free = QueueSize
    <3>1. RingLayout(q, r, m, c)
      BY <2>2, Zenon
    <3>2. ASSUME NEW k \in 1 .. m, NEW i \in 0 .. q.busy + c - 1
          PROVE  r[k] # (q.head + i) % QueueSize
      BY <3>1, PostedApart
    <3>3. ASSUME NEW k \in 1 .. m, NEW l \in 1 .. m, r[k] = r[l] PROVE k = l
      BY <3>1, <3>3, PostedApart
    <3>4. m + c + q.busy + q.free = QueueSize
      BY <3>1, PostedApart
    <3> QED BY <3>2, <3>3, <3>4, Zenon
  <2>4. DOMAIN r = 1 .. m
    BY <2>2
  <2>5. Range(r) \cap Unhandled(h, g) = {}
    <3> SUFFICES ASSUME NEW k \in 1 .. m, NEW i \in 0 .. q.busy + c - 1,
                        r[k] = (q.head + i) % QueueSize
                 PROVE  FALSE
      BY <2>2, <2>4, Zenon DEF Range, Unhandled
    <3> QED BY <2>3, Zenon
  <2>6. r \in Bijection(1 .. m, Range(r))
    <3>1. r \in [1 .. m -> Range(r)]
      BY <2>2, <2>4 DEF Range
    <3>2. \A x \in Range(r) : \E k \in 1 .. m : r[k] = x
      BY <2>4 DEF Range
    <3> QED BY <2>3, <3>1, <3>2, Zenon DEF Bijection, Injection, Surjection, IsInjective
  <2>7. IsFiniteSet(1 .. m) /\ Cardinality(1 .. m) = m
    <3>1. Cardinality(1 .. m) = IF 1 > m THEN 0 ELSE m - 1 + 1
      BY FS_Interval
    <3> QED BY <3>1, FS_Interval
  <2>8. Cardinality(Range(r)) = m
    <3>1. ExistsBijection(1 .. m, Range(r))
      BY <2>6 DEF ExistsBijection
    <3> QED BY <2>7, <3>1, FS_Bijection
  <2> QED BY <2>1, <2>2, <2>3, <2>5, <2>8
<1> QED BY <1>1, RdmaInvariance, PTL
=============================================================================
