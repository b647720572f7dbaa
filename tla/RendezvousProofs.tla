-------------------------- MODULE RendezvousProofs --------------------------
(***************************************************************************)
(* jia_wait separates, no answer clears the flag of a later call, all      *)
(* hosts compute with the same powers and the master ends last, for any    *)
(* number of hosts and condition variables and for any programs.           *)
(*                                                                         *)
(* A call is followed from its request to its answer: the request is under *)
(* way, or counted (or queued) by the manager, or the answer is under way, *)
(* or the flag has been cleared; never two of these.  So a counter is the  *)
(* number of hosts that wait, whose request has been served and to which   *)
(* no answer is under way, and when it reaches the number of hosts all of  *)
(* them are in the same call.                                              *)
(***************************************************************************)
EXTENDS Rendezvous, FiniteSetTheorems, TLAPS

(***************************************************************************)
(* The invariant.                                                          *)
(***************************************************************************)
Elements(s) == {s[i] : i \in 1 .. Len(s)}

\* Requests and their answers, by the call that waits.
RequestOp == [wait |-> "WAIT", load |-> "LOADREQ", exit |-> "STAT", waitcv |-> "WAITCV"]
GrantOp == [wait |-> "WAITGRANT", load |-> "LOADGRANT", exit |-> "STATGRANT",
            waitcv |-> "CVGRANT"]

Message ==
    [op : {"WAIT", "WAITGRANT", "STATGRANT"}, frompid : Host, topid : Host]
    \cup [op : {"LOADREQ"}, frompid : Host, topid : Host, time : Nat]
    \cup [op : {"LOADGRANT"}, frompid : Host, topid : Host, power : [Host -> Nat]]
    \cup [op : {"STAT"}, frompid : Host, topid : Host, stat : Nat]
    \cup [op : {"SETCV", "RESETCV", "WAITCV", "CVGRANT"}, frompid : Host, topid : Host, cv : Cvs]

CondVar == [value : {0, 1}, waits : Seq(Host)]

TypeInv ==
    /\ prog \in [Host -> Seq(Call)]
    /\ pc \in [Host -> Flags \cup {"run", "ended"}]
    /\ flag \in [Host -> [Flags -> BOOLEAN]]
    /\ calls \in [Host -> Nat]
    /\ waitcounter \in Nat /\ loadcnt \in Nat /\ statcnt \in Nat
    /\ times \in [Host -> Nat] /\ power \in [Host -> [Host -> Nat]] /\ allstats \in [Host -> Nat]
    /\ condvars \in [Cvs -> CondVar]

QueueType == outq \in [Host -> Seq(Message)] /\ inq \in [Host -> Seq(Message)]

\* Where messages come from and go to.
Route(m) ==
    /\ m.op \in {"WAIT", "LOADREQ", "STAT"} => m.topid = Master
    /\ m.op \in {"WAITGRANT", "LOADGRANT", "STATGRANT"} => m.frompid = Master
    /\ m.op \in {"SETCV", "RESETCV", "WAITCV"} => m.topid = Manager(m.cv)
    /\ m.op = "CVGRANT" => m.frompid = Manager(m.cv)

Routing ==
    /\ \A g \in Host : \A m \in Elements(outq[g]) : m.frompid = g /\ Route(m)
    /\ \A g \in Host : \A m \in Elements(inq[g]) : m.topid = g /\ Route(m)

\* Two messages that must not be under way together.
Twins(m, n) ==
    /\ m.op = n.op /\ m.op \notin {"SETCV", "RESETCV"}
    /\ m.frompid = n.frompid /\ m.topid = n.topid

Alone(s) == \A i, j \in 1 .. Len(s) : i # j => ~Twins(s[i], s[j])

NoTwins ==
    /\ \A g \in Host : Alone(outq[g]) /\ Alone(inq[g])
    /\ \A g, h \in Host : \A m \in Elements(inq[g]), n \in Elements(outq[h]) : ~Twins(m, n)

\* The master's own answer leaves last.
MasterLast(s) ==
    \A j \in 1 .. Len(s) : s[j].op = "STATGRANT" =>
        \E i \in 1 .. Len(s) : i >= j /\ s[i].op = "STATGRANT" /\ s[i].topid = Master

NetInv == QueueType /\ Routing /\ NoTwins /\ MasterLast(outq[Master])

Asked(h, k) == \E m \in InTransit : m.op = RequestOp[k] /\ m.frompid = h
Granted(h, k) == \E m \in InTransit : m.op = GrantOp[k] /\ m.topid = h
Waits(h, k) == pc[h] = k /\ flag[h][k]

\* A host that has left jia_exit by its timeout no longer waits.
Gone(h, k) == k = "exit" /\ pc[h] = "ended" /\ h # Master

Turn(h, k) ==
    /\ Asked(h, k) => (Waits(h, k) \/ Gone(h, k)) /\ ~Granted(h, k)
    /\ Granted(h, k) => Waits(h, k) \/ Gone(h, k)

Turns == \A h \in Host, k \in Flags : Turn(h, k)

\* A waiting application thread is in the call it waits in.
InCalls == \A h \in Host : pc[h] \in Flags => prog[h] # <<>> /\ CallOf(h).op = pc[h]

\* What a message says is still so when it arrives.
Says(m) ==
    /\ m.op = "LOADREQ" => m.time = calls[m.frompid]
    /\ m.op = "STAT" => m.stat = calls[m.frompid]
    /\ m.op = "WAITCV" => CallOf(m.frompid).cv = m.cv
    /\ m.op = "CVGRANT" => CallOf(m.topid).cv = m.cv
    /\ m.op = "LOADGRANT" => m.power = power[Master]

Contents == \A m \in InTransit : Says(m)

\* The hosts whose request has been served and not been answered.
Counted(k) == {h \in Host : Waits(h, k) /\ ~Asked(h, k) /\ ~Granted(h, k)}

WaitInv == pc[Master] # "ended" => waitcounter = Cardinality(Counted("wait"))

\* The rounds of load balancing a host has been through.
Leaving(h) == pc[h] \in {"exit", "ended"}
Rounds(h) == calls[h] - (IF Waits(h, "load") /\ ~Granted(h, "load") THEN 1 ELSE 0)

LoadInv ==
    /\ pc[Master] # "ended" => /\ loadcnt = Cardinality(Counted("load"))
                               /\ \A h \in Counted("load") : times[h] = calls[h]
    /\ \A h \in Host : Granted(h, "load") \/ power[h] = power[Master]
    /\ \A i, j \in Host : power[Master][i] = power[Master][j]
    /\ \A g, h \in Host : ~Leaving(g) /\ ~Leaving(h) => Rounds(g) = Rounds(h)

\* The hosts whose statistics the master has.
Reported == {h \in Host : Leaving(h) /\ ~Asked(h, "exit")}

StatInv ==
    /\ statcnt = IF Reported = Host THEN 0 ELSE Cardinality(Reported)
    /\ pc[Master] = "ended" => Reported = Host
    /\ \A h \in Host : Granted(h, "exit") \/ (pc[h] = "exit" /\ ~flag[h]["exit"]) => Reported = Host
    /\ Reported = Host => \A h \in Host : Waits(h, "exit") => Granted(h, "exit")
    /\ \A h \in Reported : allstats[h] = calls[h]

\* The hosts in the list of a condition variable wait for it.
Queues(h, c) ==
    Waits(h, "waitcv") /\ CallOf(h).cv = c /\ ~Asked(h, "waitcv") /\ ~Granted(h, "waitcv")

CvInv ==
    \A c \in Cvs : /\ \A i \in 1 .. Len(condvars[c].waits) : Queues(condvars[c].waits[i], c)
                   /\ \A i, j \in 1 .. Len(condvars[c].waits) :
                         condvars[c].waits[i] = condvars[c].waits[j] => i = j

RInv ==
    TypeInv /\ NetInv /\ Turns /\ InCalls /\ Contents /\ WaitInv /\ LoadInv /\ StatInv /\ CvInv

\* The jia_wait a host is in has been granted; the calls still to be granted.
Through(h) == pc[h] = "wait" /\ (Granted(h, "wait") \/ ~flag[h]["wait"])
Due(h) == CallsLeft(h, "wait") - (IF Through(h) THEN 1 ELSE 0)
Even == \A g, h \in Host : Due(g) = Due(h)

-----------------------------------------------------------------------------
(***************************************************************************)
(* Queues.                                                                 *)
(***************************************************************************)
\* What the fields of a message are.
LEMMA MessageTypes ==
    ASSUME NEW m \in Message
    PROVE  /\ m.frompid \in Host /\ m.topid \in Host
           /\ m.op = "LOADREQ" => m.time \in Nat
           /\ m.op = "STAT" => m.stat \in Nat
           /\ m.op = "LOADGRANT" => m.power \in [Host -> Nat]
           /\ m.op \in {"SETCV", "RESETCV", "WAITCV", "CVGRANT"} => m.cv \in Cvs
BY DEF Message

\* The hosts are finitely many, the master is one of them, and so is every
\* manager.
LEMMA HostFacts ==
    /\ Master \in Host /\ Host \subseteq Nat /\ \A c \in Cvs : Manager(c) \in Host
    /\ IsFiniteSet(Host) /\ Cardinality(Host) = HostC
<1>1. HostC \in Nat /\ HostC > 1 /\ Cvs \subseteq Nat
  BY RendezvousAssumption
<1>2. Master \in Host /\ Host \subseteq Nat /\ \A c \in Cvs : Manager(c) \in Host
  BY <1>1 DEF Host, Master, Manager
<1>3. 0 \in Int /\ HostC - 1 \in Int /\ ~(0 > HostC - 1) /\ HostC - 1 - 0 + 1 = HostC
  BY <1>1
<1>4. IsFiniteSet(0 .. HostC - 1) /\ Cardinality(0 .. HostC - 1) = HostC - 1 - 0 + 1
  BY <1>3, FS_Interval
<1> QED BY <1>2, <1>3, <1>4 DEF Host

\* Sending: a queue and what joins it.
LEMMA ConcatQueue ==
    ASSUME NEW s \in Seq(Message), NEW t \in Seq(Message)
    PROVE  /\ s \o t \in Seq(Message) /\ Elements(s \o t) = Elements(s) \cup Elements(t)
           /\ Alone(s) /\ Alone(t) /\ (\A m \in Elements(s), n \in Elements(t) : ~Twins(m, n))
                 => Alone(s \o t)
<1>1. PICK k \in Nat, l \in Nat : k = Len(s) /\ l = Len(t)
  OBVIOUS
<1>2. PICK u : u = s \o t /\ u \in Seq(Message)
  <2>1. s \o t \in Seq(Message)
    OBVIOUS
  <2> QED BY <2>1, Zenon
<1>3. /\ Len(u) = k + l
      /\ \A i \in 1 .. k : u[i] = s[i]
      /\ \A i \in 1 .. l : u[k + i] = t[i]
  BY <1>1, <1>2
<1>4. ASSUME NEW i \in 1 .. Len(u)
      PROVE  \/ i \in 1 .. Len(s) /\ u[i] = s[i]
             \/ i - k \in 1 .. Len(t) /\ u[i] = t[i - k]
  <2>1. CASE i <= k
    BY <1>1, <1>3, <2>1
  <2>2. CASE i > k
    <3>1. i - k \in 1 .. Len(t) /\ i = k + (i - k)
      BY <1>1, <1>3, <2>2
    <3> QED BY <1>1, <1>3, <3>1
  <2> QED BY <1>1, <2>1, <2>2
<1>5. Elements(u) \subseteq Elements(s) \cup Elements(t)
  BY <1>4 DEF Elements
<1>6. Elements(s) \subseteq Elements(u)
  <2>1. ASSUME NEW i \in 1 .. Len(s) PROVE s[i] \in Elements(u)
    <3>1. i \in 1 .. Len(u) /\ u[i] = s[i]
      BY <1>1, <1>3
    <3> QED BY <3>1 DEF Elements
  <2> QED BY <2>1 DEF Elements
<1>7. Elements(t) \subseteq Elements(u)
  <2>1. ASSUME NEW i \in 1 .. Len(t) PROVE t[i] \in Elements(u)
    <3>1. k + i \in 1 .. Len(u) /\ u[k + i] = t[i]
      BY <1>1, <1>3
    <3> QED BY <3>1 DEF Elements
  <2> QED BY <2>1 DEF Elements
<1>8. ASSUME Alone(s), Alone(t), \A m \in Elements(s), n \in Elements(t) : ~Twins(m, n)
      PROVE  Alone(u)
  <2> SUFFICES ASSUME NEW i \in 1 .. Len(u), NEW j \in 1 .. Len(u), i # j, Twins(u[i], u[j])
               PROVE  FALSE
    BY DEF Alone
  <2>1. \A m, n : Twins(m, n) => Twins(n, m)
    BY DEF Twins
  <2>2. CASE i \in 1 .. Len(s) /\ u[i] = s[i] /\ j \in 1 .. Len(s) /\ u[j] = s[j]
    BY <1>8, <2>2 DEF Alone
  <2>3. CASE i - k \in 1 .. Len(t) /\ u[i] = t[i - k] /\ j - k \in 1 .. Len(t) /\ u[j] = t[j - k]
    <3>1. i - k # j - k
      BY <1>1
    <3> QED BY <1>8, <2>3, <3>1 DEF Alone
  <2>4. CASE i \in 1 .. Len(s) /\ u[i] = s[i] /\ j - k \in 1 .. Len(t) /\ u[j] = t[j - k]
    <3>1. u[i] \in Elements(s) /\ u[j] \in Elements(t)
      BY <2>4 DEF Elements
    <3> QED BY <1>8, <3>1
  <2>5. CASE i - k \in 1 .. Len(t) /\ u[i] = t[i - k] /\ j \in 1 .. Len(s) /\ u[j] = s[j]
    <3>1. u[j] \in Elements(s) /\ u[i] \in Elements(t)
      BY <2>5 DEF Elements
    <3> QED BY <1>8, <2>1, <3>1
  <2> QED BY <1>4, <2>2, <2>3, <2>4, <2>5
<1> QED BY <1>2, <1>5, <1>6, <1>7, <1>8

\* Taking the head of a queue: nothing left is its twin.
LEMMA TailQueue ==
    ASSUME NEW s \in Seq(Message), s # <<>>
    PROVE  /\ Head(s) = s[1] /\ Head(s) \in Message /\ Tail(s) \in Seq(Message)
           /\ Elements(s) = {Head(s)} \cup Elements(Tail(s))
           /\ Alone(s) => Alone(Tail(s)) /\ \A m \in Elements(Tail(s)) : ~Twins(Head(s), m)
           /\ MasterLast(s) => MasterLast(Tail(s))
<1>1. PICK k \in Nat : k = Len(s) /\ k >= 1
  OBVIOUS
<1>2. PICK u : u = Tail(s) /\ u \in Seq(Message)
  <2>1. Tail(s) \in Seq(Message)
    OBVIOUS
  <2> QED BY <2>1, Zenon
<1>3. /\ Head(s) = s[1] /\ Head(s) \in Message /\ 1 \in 1 .. Len(s)
      /\ Len(u) = k - 1
      /\ \A i \in 1 .. k - 1 : u[i] = s[i + 1]
  BY <1>1, <1>2
<1>4. \A i \in 1 .. Len(u) : i + 1 \in 1 .. Len(s) /\ u[i] = s[i + 1] /\ i + 1 # 1
  BY <1>1, <1>3
<1>5. \A i \in 1 .. Len(s) : i # 1 => i - 1 \in 1 .. Len(u) /\ u[i - 1] = s[i]
  BY <1>1, <1>3
<1>6. Elements(s) \subseteq {Head(s)} \cup Elements(u)
  BY <1>3, <1>5 DEF Elements
<1>7. {Head(s)} \cup Elements(u) \subseteq Elements(s)
  BY <1>3, <1>4 DEF Elements
<1>8. ASSUME Alone(s) PROVE Alone(u) /\ \A m \in Elements(u) : ~Twins(Head(s), m)
  <2>1. ASSUME NEW i \in 1 .. Len(u), NEW j \in 1 .. Len(u), i # j
        PROVE  ~Twins(u[i], u[j])
    <3>1. i + 1 # j + 1
      BY <2>1
    <3> QED BY <1>4, <1>8, <3>1 DEF Alone
  <2>2. ASSUME NEW i \in 1 .. Len(u) PROVE ~Twins(s[1], u[i])
    BY <1>3, <1>4, <1>8 DEF Alone
  <2> QED BY <1>3, <2>1, <2>2 DEF Alone, Elements
<1>9. ASSUME MasterLast(s) PROVE MasterLast(u)
  <2> SUFFICES ASSUME NEW j \in 1 .. Len(u), u[j].op = "STATGRANT"
               PROVE  \E i \in 1 .. Len(u) : i >= j /\ u[i].op = "STATGRANT" /\ u[i].topid = Master
    BY DEF MasterLast
  <2>1. PICK i \in 1 .. Len(s) : i >= j + 1 /\ s[i].op = "STATGRANT" /\ s[i].topid = Master
    BY <1>4, <1>9 DEF MasterLast
  <2>2. i - 1 \in 1 .. Len(u) /\ u[i - 1] = s[i] /\ i - 1 >= j
    BY <1>5, <2>1
  <2> QED BY <2>1, <2>2
<1> QED BY <1>2, <1>3, <1>6, <1>7, <1>8, <1>9

\* Queues of no message and of one.
LEMMA ShortQueue ==
    ASSUME NEW m \in Message
    PROVE  /\ <<m>> \in Seq(Message) /\ Elements(<<m>>) = {m} /\ Alone(<<m>>)
           /\ <<>> \in Seq(Message) /\ Elements(<<>>) = {} /\ Alone(<<>>)
BY DEF Elements, Alone

\* The master's answer stays last when others join the queue, or when it joins
\* as the last.
LEMMA ConcatMasterLast ==
    ASSUME NEW s \in Seq(Message), NEW t \in Seq(Message), MasterLast(s), MasterLast(t)
    PROVE  MasterLast(s \o t)
<1>1. PICK k \in Nat, l \in Nat : k = Len(s) /\ l = Len(t)
  OBVIOUS
<1>2. PICK u : u = s \o t /\ u \in Seq(Message)
  <2>1. s \o t \in Seq(Message)
    OBVIOUS
  <2> QED BY <2>1, Zenon
<1>3. /\ Len(u) = k + l
      /\ \A i \in 1 .. k : u[i] = s[i]
      /\ \A i \in 1 .. l : u[k + i] = t[i]
  BY <1>1, <1>2
<1> SUFFICES ASSUME NEW j \in 1 .. Len(u), u[j].op = "STATGRANT"
             PROVE  \E i \in 1 .. Len(u) : i >= j /\ u[i].op = "STATGRANT" /\ u[i].topid = Master
  BY <1>2 DEF MasterLast
<1>4. CASE j <= k
  <2>1. j \in 1 .. Len(s) /\ u[j] = s[j]
    BY <1>1, <1>3, <1>4
  <2>2. PICK i \in 1 .. Len(s) : i >= j /\ s[i].op = "STATGRANT" /\ s[i].topid = Master
    BY <2>1 DEF MasterLast
  <2>3. i \in 1 .. Len(u) /\ u[i] = s[i]
    BY <1>1, <1>3, <2>2
  <2> QED BY <2>2, <2>3
<1>5. CASE j > k
  <2>1. PICK q \in 1 .. Len(t) : j = k + q /\ u[j] = t[q]
    <3>1. j - k \in 1 .. Len(t) /\ j = k + (j - k)
      BY <1>1, <1>3, <1>5
    <3> QED BY <1>1, <1>3, <3>1
  <2>2. PICK i \in 1 .. Len(t) : i >= q /\ t[i].op = "STATGRANT" /\ t[i].topid = Master
    BY <2>1 DEF MasterLast
  <2>3. k + i \in 1 .. Len(u) /\ u[k + i] = t[i] /\ k + i >= j
    BY <1>1, <1>3, <2>1, <2>2
  <2> QED BY <2>2, <2>3
<1> QED BY <1>1, <1>4, <1>5

-----------------------------------------------------------------------------
(***************************************************************************)
(* What a step does to the messages under way.                             *)
(***************************************************************************)
\* Messages host h may send.
Sendable(h, msgs) ==
    /\ msgs \in Seq(Message) /\ Alone(msgs) /\ MasterLast(msgs)
    /\ \A n \in Elements(msgs) : /\ n.frompid = h /\ Route(n)
                                 /\ \A m \in InTransit : ~Twins(m, n)

\* The head of the in queue of host h is taken.
Taken(h) == inq[h] # <<>> /\ inq' = [inq EXCEPT ![h] = Tail(@)]

\* A message in a queue is under way.
LEMMA QueuesInTransit ==
    /\ \A g \in Host : Elements(outq[g]) \subseteq InTransit /\ Elements(inq[g]) \subseteq InTransit
    /\ InTransit = UNION {Elements(outq[g]) \cup Elements(inq[g]) : g \in Host}
BY DEF InTransit, Elements

\* The messages under way are messages that keep to their route.
LEMMA TransitTypes == NetInv => \A m \in InTransit : m \in Message /\ Route(m)
<1> SUFFICES ASSUME NetInv, NEW g \in Host, NEW m \in Elements(outq[g]) \cup Elements(inq[g])
             PROVE  m \in Message /\ Route(m)
  BY QueuesInTransit
<1>1. outq[g] \in Seq(Message) /\ inq[g] \in Seq(Message)
  BY DEF NetInv, QueueType
<1>2. Elements(outq[g]) \subseteq Message /\ Elements(inq[g]) \subseteq Message
  BY <1>1 DEF Elements
<1> QED BY <1>2 DEF NetInv, Routing

\* Messages join the end of an out queue.
LEMMA SendNet ==
    ASSUME NetInv, NEW h \in Host, NEW msgs, Sendable(h, msgs), Send(h, msgs)
    PROVE  /\ outq' \in [Host -> Seq(Message)] /\ MasterLast(outq[Master])'
           /\ \A g \in Host : Alone(outq'[g])
           /\ \A g \in Host : \A m \in Elements(outq'[g]) : m.frompid = g /\ Route(m)
           /\ \A g, f \in Host : \A m \in Elements(inq[g]), n \in Elements(outq'[f]) : ~Twins(m, n)
           /\ \A g \in Host \ {h} : outq'[g] = outq[g]
           /\ Elements(outq'[h]) = Elements(outq[h]) \cup Elements(msgs)
<1>1. /\ outq \in [Host -> Seq(Message)] /\ msgs \in Seq(Message)
      /\ outq' = [outq EXCEPT ![h] = outq[h] \o msgs]
  BY DEF NetInv, QueueType, Send, Sendable
<1>2. outq'[h] = outq[h] \o msgs /\ outq[h] \in Seq(Message) /\ \A g \in Host \ {h} : outq'[g] = outq[g]
  BY <1>1
<1>3. Elements(outq'[h]) = Elements(outq[h]) \cup Elements(msgs) /\ outq'[h] \in Seq(Message)
  BY <1>1, <1>2, ConcatQueue
<1>4. Alone(outq'[h])
  <2>1. \A m \in Elements(outq[h]), n \in Elements(msgs) : ~Twins(m, n)
    BY QueuesInTransit DEF Sendable
  <2> QED BY <1>1, <1>2, <2>1, ConcatQueue DEF NetInv, NoTwins, Sendable
<1>5. \A g \in Host : \A m \in Elements(outq'[g]) : m.frompid = g /\ Route(m)
  BY <1>2, <1>3 DEF NetInv, Routing, Sendable
<1>6. \A g, f \in Host : \A m \in Elements(inq[g]), n \in Elements(outq'[f]) : ~Twins(m, n)
  BY <1>2, <1>3, QueuesInTransit DEF NetInv, NoTwins, Sendable
<1>7. \A g \in Host : Alone(outq'[g])
  BY <1>2, <1>4 DEF NetInv, NoTwins
<1>8. MasterLast(outq[Master])'
  <2>1. CASE h = Master
    BY <1>1, <1>2, <2>1, ConcatMasterLast DEF NetInv, Sendable
  <2>2. CASE h # Master
    BY <1>2, <2>2, HostFacts DEF NetInv
  <2> QED BY <2>1, <2>2
<1>9. outq' \in [Host -> Seq(Message)]
  BY <1>1, <1>2, <1>3
<1> QED BY <1>2, <1>3, <1>5, <1>6, <1>7, <1>8, <1>9

\* The head leaves an in queue.
LEMMA ReceiveNet ==
    ASSUME NetInv, NEW h \in Host, Taken(h)
    PROVE  /\ inq' \in [Host -> Seq(Message)]
           /\ \A g \in Host : Alone(inq'[g]) /\ Elements(inq'[g]) \subseteq Elements(inq[g])
           /\ \A g \in Host \ {h} : inq'[g] = inq[g]
           /\ Req(h) \in Message /\ Req(h).topid = h /\ Route(Req(h)) /\ Req(h) \in InTransit
           /\ Elements(inq[h]) = {Req(h)} \cup Elements(inq'[h])
           /\ \A g \in Host : \A m \in Elements(inq'[g]) \cup Elements(outq[g]) : ~Twins(Req(h), m)
<1>1. inq \in [Host -> Seq(Message)] /\ inq' = [inq EXCEPT ![h] = Tail(inq[h])]
  BY DEF NetInv, QueueType, Taken
<1>2. /\ inq'[h] = Tail(inq[h]) /\ inq[h] \in Seq(Message) /\ inq[h] # <<>>
      /\ \A g \in Host \ {h} : inq'[g] = inq[g]
  BY <1>1 DEF Taken
<1>3. /\ Elements(inq[h]) = {Req(h)} \cup Elements(inq'[h]) /\ Req(h) \in Message
      /\ Alone(inq'[h]) /\ \A m \in Elements(inq'[h]) : ~Twins(Req(h), m)
      /\ inq'[h] \in Seq(Message)
  BY <1>2, TailQueue DEF NetInv, NoTwins, Req
<1>4. Req(h).topid = h /\ Route(Req(h)) /\ Req(h) \in InTransit
  BY <1>3, QueuesInTransit DEF NetInv, Routing
<1>5. ASSUME NEW g \in Host, NEW m \in Elements(inq'[g]) PROVE ~Twins(Req(h), m)
  <2>1. CASE g = h
    BY <1>3, <2>1
  <2>2. CASE g # h
    <3>1. m.topid = g
      BY <1>2, <2>2 DEF NetInv, Routing
    <3> QED BY <1>4, <2>2, <3>1 DEF Twins
  <2> QED BY <2>1, <2>2
<1>6. \A g \in Host : \A m \in Elements(outq[g]) : ~Twins(Req(h), m)
  BY <1>3 DEF NetInv, NoTwins
<1>7. \A g \in Host : Alone(inq'[g]) /\ Elements(inq'[g]) \subseteq Elements(inq[g])
  BY <1>2, <1>3 DEF NetInv, NoTwins
<1>8. inq' \in [Host -> Seq(Message)]
  BY <1>1, <1>2, <1>3
<1> QED BY <1>2, <1>3, <1>4, <1>5, <1>6, <1>7, <1>8

\* A step of the application thread that sends.
LEMMA MainSends ==
    ASSUME NetInv, NEW h \in Host, NEW msgs, Sendable(h, msgs), Send(h, msgs), UNCHANGED inq
    PROVE  NetInv' /\ InTransit' = InTransit \cup Elements(msgs)
<1>1. /\ outq' \in [Host -> Seq(Message)] /\ MasterLast(outq[Master])'
      /\ \A g \in Host : Alone(outq'[g])
      /\ \A g \in Host : \A m \in Elements(outq'[g]) : m.frompid = g /\ Route(m)
      /\ \A g, f \in Host : \A m \in Elements(inq[g]), n \in Elements(outq'[f]) : ~Twins(m, n)
      /\ \A g \in Host \ {h} : outq'[g] = outq[g]
      /\ Elements(outq'[h]) = Elements(outq[h]) \cup Elements(msgs)
  BY SendNet
<1>2. Routing' /\ QueueType'
  BY <1>1 DEF NetInv, Routing, QueueType
<1>3. NoTwins'
  BY <1>1 DEF NetInv, NoTwins
<1>4. InTransit' = InTransit \cup Elements(msgs)
  <2>1. InTransit' = UNION {Elements(outq'[g]) \cup Elements(inq'[g]) : g \in Host}
    BY DEF InTransit, Elements
  <2> QED BY <1>1, <2>1, QueuesInTransit
<1> QED BY <1>1, <1>2, <1>3, <1>4 DEF NetInv

\* A handler that takes the head of its in queue and sends.
LEMMA ServerSends ==
    ASSUME NetInv, NEW h \in Host, Taken(h), NEW msgs, Sendable(h, msgs), Send(h, msgs)
    PROVE  /\ NetInv'
           /\ \E rest : /\ InTransit = rest \cup {Req(h)}
                        /\ InTransit' = rest \cup Elements(msgs)
                        /\ \A m \in rest : ~Twins(Req(h), m)
<1>1. /\ outq' \in [Host -> Seq(Message)] /\ MasterLast(outq[Master])'
      /\ \A g \in Host : Alone(outq'[g])
      /\ \A g \in Host : \A m \in Elements(outq'[g]) : m.frompid = g /\ Route(m)
      /\ \A g, f \in Host : \A m \in Elements(inq[g]), n \in Elements(outq'[f]) : ~Twins(m, n)
      /\ \A g \in Host \ {h} : outq'[g] = outq[g]
      /\ Elements(outq'[h]) = Elements(outq[h]) \cup Elements(msgs)
  BY SendNet
<1>2. /\ inq' \in [Host -> Seq(Message)]
      /\ \A g \in Host : Alone(inq'[g]) /\ Elements(inq'[g]) \subseteq Elements(inq[g])
      /\ \A g \in Host \ {h} : inq'[g] = inq[g]
      /\ Elements(inq[h]) = {Req(h)} \cup Elements(inq'[h])
      /\ \A g \in Host : \A m \in Elements(inq'[g]) \cup Elements(outq[g]) : ~Twins(Req(h), m)
  BY ReceiveNet
<1>3. Routing' /\ QueueType'
  BY <1>1, <1>2 DEF NetInv, Routing, QueueType
<1>4. NoTwins'
  BY <1>1, <1>2 DEF NoTwins
<1>5. PICK rest : rest = UNION {Elements(outq[g]) \cup Elements(inq'[g]) : g \in Host}
  OBVIOUS
<1>6. InTransit = rest \cup {Req(h)}
  BY <1>2, <1>5, QueuesInTransit
<1>7. InTransit' = rest \cup Elements(msgs)
  <2>1. InTransit' = UNION {Elements(outq'[g]) \cup Elements(inq'[g]) : g \in Host}
    BY DEF InTransit, Elements
  <2> QED BY <1>1, <1>5, <2>1
<1>8. \A m \in rest : ~Twins(Req(h), m)
  BY <1>2, <1>5
<1> QED BY <1>1, <1>3, <1>4, <1>6, <1>7, <1>8 DEF NetInv

\* A handler that takes the head of its in queue and sends nothing.
LEMMA ServerTakes ==
    ASSUME NetInv, NEW h \in Host, Taken(h), UNCHANGED outq
    PROVE  /\ NetInv' /\ InTransit = InTransit' \cup {Req(h)}
           /\ \A m \in InTransit' : ~Twins(Req(h), m)
<1>1. /\ inq' \in [Host -> Seq(Message)]
      /\ \A g \in Host : Alone(inq'[g]) /\ Elements(inq'[g]) \subseteq Elements(inq[g])
      /\ \A g \in Host \ {h} : inq'[g] = inq[g]
      /\ Elements(inq[h]) = {Req(h)} \cup Elements(inq'[h])
      /\ \A g \in Host : \A m \in Elements(inq'[g]) \cup Elements(outq[g]) : ~Twins(Req(h), m)
  BY ReceiveNet
<1>2. Routing' /\ QueueType'
  BY <1>1 DEF NetInv, Routing, QueueType
<1>3. NoTwins' /\ MasterLast(outq[Master])'
  BY <1>1 DEF NetInv, NoTwins, MasterLast
<1>4. InTransit' = UNION {Elements(outq[g]) \cup Elements(inq'[g]) : g \in Host}
  BY DEF InTransit, Elements
<1>5. InTransit = InTransit' \cup {Req(h)}
  BY <1>1, <1>4, QueuesInTransit
<1>6. \A m \in InTransit' : ~Twins(Req(h), m)
  BY <1>1, <1>4
<1> QED BY <1>2, <1>3, <1>5, <1>6 DEF NetInv

\* The client thread moves the head of its out queue to the in queue of its
\* destination, or drops it when the destination has ended.
LEMMA TransferNet ==
    ASSUME NetInv, NEW h \in Host, Transfer(h)
    PROVE  /\ NetInv' /\ InTransit' \subseteq InTransit
           /\ \A m \in InTransit \ InTransit' : pc[m.topid] = "ended"
<1>1. outq \in [Host -> Seq(Message)] /\ inq \in [Host -> Seq(Message)] /\ outq[h] # <<>>
  BY DEF NetInv, QueueType, Transfer
<1>2. PICK m \in Message : m = Head(outq[h])
  BY <1>1, TailQueue
<1>3. PICK d \in Host : d = m.topid
  BY MessageTypes
<1>4. /\ outq' = [outq EXCEPT ![h] = Tail(outq[h])]
      /\ inq' = IF pc[d] = "ended" THEN inq ELSE [inq EXCEPT ![d] = Append(inq[d], m)]
  BY <1>2, <1>3 DEF Transfer
<1>5. /\ Elements(outq[h]) = {m} \cup Elements(outq'[h]) /\ Alone(outq'[h])
      /\ \A n \in Elements(outq'[h]) : ~Twins(m, n)
      /\ \A g \in Host \ {h} : outq'[g] = outq[g]
      /\ outq'[h] \in Seq(Message)
  BY <1>1, <1>2, <1>4, TailQueue DEF NetInv, NoTwins
<1>6. m.frompid = h /\ Route(m)
  BY <1>5 DEF NetInv, Routing
<1>7. outq' \in [Host -> Seq(Message)]
  BY <1>1, <1>4, <1>5
<1>8. MasterLast(outq[Master])'
  <2>1. CASE h = Master
    BY <1>1, <1>4, <2>1, TailQueue DEF NetInv
  <2>2. CASE h # Master
    BY <1>5, <2>2, HostFacts DEF NetInv
  <2> QED BY <2>1, <2>2
<1>9. InTransit' = UNION {Elements(outq'[g]) \cup Elements(inq'[g]) : g \in Host}
  BY DEF InTransit, Elements
<1>10. CASE pc[d] = "ended"
  <2>1. UNCHANGED inq
    BY <1>4, <1>10
  <2>2. Routing' /\ QueueType'
    BY <1>1, <1>5, <1>7, <2>1 DEF NetInv, Routing, QueueType
  <2>3. NoTwins'
    BY <1>5, <2>1 DEF NetInv, NoTwins
  <2>4. InTransit = InTransit' \cup {m}
    BY <1>5, <1>9, <2>1, QueuesInTransit
  <2> QED BY <1>3, <1>8, <1>10, <2>2, <2>3, <2>4 DEF NetInv
<1>11. CASE pc[d] # "ended"
  <2>1. inq' = [inq EXCEPT ![d] = Append(inq[d], m)]
    BY <1>4, <1>11
  <2>2. inq'[d] = inq[d] \o <<m>> /\ inq[d] \in Seq(Message) /\ \A g \in Host \ {d} : inq'[g] = inq[g]
    BY <1>1, <2>1
  <2>3. Elements(inq'[d]) = Elements(inq[d]) \cup {m} /\ Alone(inq'[d]) /\ inq'[d] \in Seq(Message)
    <3>1. PICK s : s = <<m>> /\ s \in Seq(Message) /\ Elements(s) = {m} /\ Alone(s)
      BY ShortQueue
    <3>2. \A n \in Elements(inq[d]), k \in Elements(s) : ~Twins(n, k)
      BY <1>5, <3>1 DEF NetInv, NoTwins
    <3>3. inq'[d] = inq[d] \o s /\ inq[d] \in Seq(Message) /\ Alone(inq[d])
      BY <2>2, <3>1 DEF NetInv, NoTwins
    <3>4. /\ inq[d] \o s \in Seq(Message) /\ Elements(inq[d] \o s) = Elements(inq[d]) \cup Elements(s)
          /\ Alone(inq[d] \o s)
      BY <3>1, <3>2, <3>3, ConcatQueue, Zenon
    <3> QED BY <3>1, <3>3, <3>4, Zenon
  <2>4. QueueType'
    BY <1>1, <1>7, <2>1, <2>2, <2>3 DEF QueueType
  <2>5. Routing'
    <3>1. \A g \in Host : \A n \in Elements(outq'[g]) : n \in Elements(outq[g])
      BY <1>5
    <3>2. \A g \in Host : \A n \in Elements(inq'[g]) : n \in Elements(inq[g]) \/ (n = m /\ g = d)
      BY <2>2, <2>3
    <3> QED BY <1>3, <1>6, <3>1, <3>2 DEF NetInv, Routing
  <2>6. ASSUME NEW f \in Host, NEW n \in Elements(outq'[f]) PROVE ~Twins(m, n)
    <3>1. CASE f = h
      BY <1>5, <3>1
    <3>2. CASE f # h
      <4>1. n.frompid = f
        BY <1>5, <3>2 DEF NetInv, Routing
      <4> QED BY <1>6, <3>2, <4>1 DEF Twins
    <3> QED BY <3>1, <3>2
  <2>7. NoTwins'
    <3>1. \A g \in Host : Alone(outq'[g]) /\ Alone(inq'[g])
      BY <1>5, <2>2, <2>3 DEF NetInv, NoTwins
    <3>2. \A g \in Host : /\ Elements(outq'[g]) \subseteq Elements(outq[g])
                          /\ Elements(inq'[g]) \subseteq Elements(inq[g]) \cup {m}
      BY <1>5, <2>2, <2>3
    <3>3. ASSUME NEW g \in Host, NEW f \in Host, NEW k \in Elements(inq'[g]),
                 NEW n \in Elements(outq'[f])
          PROVE  ~Twins(k, n)
      <4>1. CASE k = m
        BY <2>6, <4>1
      <4>2. CASE k # m
        <5>1. k \in Elements(inq[g]) /\ n \in Elements(outq[f])
          BY <3>2, <4>2
        <5> QED BY <5>1 DEF NetInv, NoTwins
      <4> QED BY <4>1, <4>2
    <3> QED BY <3>1, <3>3 DEF NoTwins
  <2>8. InTransit' = InTransit
    <3>1. \A g \in Host : Elements(outq'[g]) \cup Elements(inq'[g]) \subseteq InTransit
      BY <1>5, <2>2, <2>3, QueuesInTransit
    <3>2. \A g \in Host : Elements(outq[g]) \cup Elements(inq[g])
                              \subseteq Elements(outq'[g]) \cup Elements(inq'[g]) \cup {m}
      BY <1>5, <2>2, <2>3
    <3>3. m \in Elements(inq'[d])
      BY <2>3
    <3>4. InTransit' \subseteq InTransit
      BY <1>9, <3>1
    <3>5. \A g \in Host : Elements(outq'[g]) \cup Elements(inq'[g]) \subseteq InTransit'
      BY <1>9
    <3>6. m \in InTransit'
      BY <3>3, <3>5
    <3>7. \A g \in Host : Elements(outq[g]) \cup Elements(inq[g]) \subseteq InTransit'
      BY <3>2, <3>5, <3>6
    <3> QED BY <3>4, <3>7, QueuesInTransit
  <2> QED BY <1>8, <2>4, <2>5, <2>7, <2>8 DEF NetInv
<1> QED BY <1>10, <1>11

-----------------------------------------------------------------------------
(***************************************************************************)
(* Calls that a step does not touch.                                       *)
(***************************************************************************)
SameMessages(h, k) == (Asked(h, k)' <=> Asked(h, k)) /\ (Granted(h, k)' <=> Granted(h, k))
SameCall(h, k) == SameMessages(h, k) /\ (Waits(h, k)' <=> Waits(h, k))
SameCalls(k) == \A h \in Host : SameCall(h, k)

\* Calls in progress keep what their messages say.
Steady ==
    \A h \in Host : /\ calls'[h] = calls[h] \/ pc[h] = "run"
                    /\ Waits(h, "waitcv") => prog'[h] = prog[h]
                    /\ Leaving(h) => Leaving(h)'
                    /\ pc[h] = "ended" => pc'[h] = "ended"

\* Requests and answers of other calls leave a call as it is.
LEMMA OtherMessages ==
    ASSUME NEW rest, NEW A, NEW B, InTransit = rest \cup A, InTransit' = rest \cup B,
           NEW k \in Flags, NEW g \in Host,
           \A m \in A \cup B : /\ ~(m.op = RequestOp[k] /\ m.frompid = g)
                               /\ ~(m.op = GrantOp[k] /\ m.topid = g)
    PROVE  SameMessages(g, k)
BY DEF SameMessages, Asked, Granted

\* The operations of the four calls are different.
LEMMA OpsDiffer ==
    /\ RequestOp["wait"] = "WAIT" /\ RequestOp["load"] = "LOADREQ"
    /\ RequestOp["exit"] = "STAT" /\ RequestOp["waitcv"] = "WAITCV"
    /\ GrantOp["wait"] = "WAITGRANT" /\ GrantOp["load"] = "LOADGRANT"
    /\ GrantOp["exit"] = "STATGRANT" /\ GrantOp["waitcv"] = "CVGRANT"
    /\ \A k \in Flags : /\ RequestOp[k] \notin {"SETCV", "RESETCV"} /\ GrantOp[k] \notin {"SETCV", "RESETCV"}
                        /\ \A l \in Flags : RequestOp[k] # GrantOp[l]
    /\ \A k, l \in Flags : (RequestOp[k] = RequestOp[l] \/ GrantOp[k] = GrantOp[l]) => k = l
BY DEF RequestOp, GrantOp, Flags

\* jia_wait is not concerned.
LEMMA WaitFrame ==
    ASSUME WaitInv, SameCalls("wait"), Steady, waitcounter' = waitcounter
    PROVE  WaitInv'
<1>1. Counted("wait")' = Counted("wait")
  BY DEF Counted, SameCalls, SameCall, SameMessages
<1>2. pc[Master] = "ended" => pc'[Master] = "ended"
  BY HostFacts DEF Steady
<1> QED BY <1>1, <1>2 DEF WaitInv

\* jia_loadbalance is not concerned.
LEMMA LoadFrame ==
    ASSUME LoadInv, SameCalls("load"), Steady, UNCHANGED <<loadcnt, times, power>>,
           \A h \in Host : calls'[h] = calls[h] \/ Leaving(h)'
    PROVE  LoadInv'
<1>1. Counted("load")' = Counted("load")
  BY DEF Counted, SameCalls, SameCall, SameMessages
<1>2. pc[Master] = "ended" => pc'[Master] = "ended"
  BY HostFacts DEF Steady
<1>3. \A h \in Counted("load") : calls'[h] = calls[h]
  BY DEF Counted, Waits, Steady
<1>4. \A h \in Host : Granted(h, "load")' <=> Granted(h, "load")
  BY DEF SameCalls, SameCall, SameMessages
<1>5. \A h \in Host : ~Leaving(h)' => ~Leaving(h) /\ Rounds(h)' = Rounds(h)
  BY DEF Steady, Rounds, SameCalls, SameCall, SameMessages
<1> QED BY <1>1, <1>2, <1>3, <1>4, <1>5 DEF LoadInv

\* jia_exit is not concerned.
LEMMA StatFrame ==
    ASSUME StatInv, SameCalls("exit"), Steady, UNCHANGED <<statcnt, allstats>>,
           \A h \in Host : /\ Leaving(h)' => Leaving(h)
                           /\ pc'[h] = "exit" /\ ~flag'[h]["exit"] => pc[h] = "exit" /\ ~flag[h]["exit"]
                           /\ pc'[h] = "ended" => pc[h] = "ended"
    PROVE  StatInv'
<1>1. Reported' = Reported
  BY DEF Reported, SameCalls, SameCall, SameMessages, Steady
<1>2. \A h \in Reported : calls'[h] = calls[h]
  BY DEF Reported, Leaving, Steady
<1>3. \A h \in Host : /\ Granted(h, "exit")' <=> Granted(h, "exit")
                      /\ Waits(h, "exit")' <=> Waits(h, "exit")
  BY DEF SameCalls, SameCall, SameMessages
<1> QED BY <1>1, <1>2, <1>3, HostFacts DEF StatInv

\* Condition variables are not concerned.
LEMMA CvFrame ==
    ASSUME CvInv, TypeInv, SameCalls("waitcv"), Steady,
           \A c \in Cvs : condvars'[c].waits = condvars[c].waits
    PROVE  CvInv'
<1>1. ASSUME NEW c \in Cvs, NEW h \in Host, Queues(h, c) PROVE Queues(h, c)'
  BY <1>1 DEF Queues, SameCalls, SameCall, SameMessages, Steady, CallOf
<1>2. \A c \in Cvs : \A i \in 1 .. Len(condvars[c].waits) : condvars[c].waits[i] \in Host
  BY DEF TypeInv, CondVar
<1> QED BY <1>1, <1>2 DEF CvInv

\* What the messages under way say stays so.
LEMMA SaysFrame ==
    ASSUME NetInv, Turns, Contents, Steady,
           power'[Master] = power[Master] \/ \A g \in Host : ~Granted(g, "load")
    PROVE  \A m \in InTransit : Says(m)'
<1> SUFFICES ASSUME NEW m \in InTransit PROVE Says(m)'
  OBVIOUS
<1>1. Says(m) /\ m.frompid \in Host /\ m.topid \in Host
  BY TransitTypes, MessageTypes DEF Contents
<1>2. m.op \in {"LOADREQ", "STAT"} => calls'[m.frompid] = calls[m.frompid]
  <2>1. m.op = "LOADREQ" => Asked(m.frompid, "load")
    BY OpsDiffer DEF Asked
  <2>2. m.op = "STAT" => Asked(m.frompid, "exit")
    BY OpsDiffer DEF Asked
  <2>3. m.op \in {"LOADREQ", "STAT"} => pc[m.frompid] # "run"
    BY <1>1, <2>1, <2>2 DEF Turns, Turn, Waits, Gone, Flags
  <2> QED BY <1>1, <2>3 DEF Steady
<1>3. m.op = "WAITCV" => prog'[m.frompid] = prog[m.frompid]
  <2>1. m.op = "WAITCV" => Asked(m.frompid, "waitcv")
    BY OpsDiffer DEF Asked
  <2> QED BY <1>1, <2>1 DEF Turns, Turn, Gone, Flags, Steady
<1>4. m.op = "CVGRANT" => prog'[m.topid] = prog[m.topid]
  <2>1. m.op = "CVGRANT" => Granted(m.topid, "waitcv")
    BY OpsDiffer DEF Granted
  <2> QED BY <1>1, <2>1 DEF Turns, Turn, Gone, Flags, Steady
<1>5. m.op = "LOADGRANT" => power'[Master] = power[Master]
  BY <1>1, OpsDiffer DEF Granted
<1> QED BY <1>1, <1>2, <1>3, <1>4, <1>5 DEF Says, CallOf

-----------------------------------------------------------------------------
(***************************************************************************)
(* The calls of jia_wait still to be granted.                              *)
(***************************************************************************)
SameDue == \A g \in Host : Due(g)' = Due(g)

\* The calls x of a program.
CallsOf(s, x) == Cardinality({i \in 1 .. Len(s) : s[i].op = x})

\* Dropping the first call of a program.
LEMMA CallsTail ==
    ASSUME NEW E, NEW s \in Seq(E), s # <<>>, NEW x
    PROVE  /\ CallsOf(s, x) \in Nat /\ CallsOf(Tail(s), x) \in Nat
           /\ CallsOf(s, x) = IF Head(s).op = x THEN CallsOf(Tail(s), x) + 1 ELSE CallsOf(Tail(s), x)
<1>1. PICK n \in Nat : n = Len(s) /\ n >= 1
  OBVIOUS
<1>2. PICK t : t = Tail(s)
  OBVIOUS
<1>3. /\ Head(s) = s[1] /\ Len(t) = n - 1
      /\ \A i \in 1 .. n - 1 : t[i] = s[i + 1]
  BY <1>1, <1>2
<1> DEFINE S == {i \in 1 .. n : s[i].op = x}
           U == {i \in 2 .. n : s[i].op = x}
           T == {i \in 1 .. n - 1 : t[i].op = x}
           f == [i \in T |-> i + 1]
<1>4. IsFiniteSet(S) /\ IsFiniteSet(U) /\ IsFiniteSet(T)
  <2>1. IsFiniteSet(1 .. n) /\ S \subseteq 1 .. n /\ U \subseteq 1 .. n /\ T \subseteq 1 .. n
    BY FS_Interval
  <2> QED BY <2>1, FS_Subset
<1>5. f \in Bijection(T, U)
  <2>1. \A i \in T : i + 1 \in U
    BY <1>1, <1>3
  <2>2. \A j \in U : j - 1 \in T /\ f[j - 1] = j
    BY <1>1, <1>3
  <2>3. \A i, j \in T : f[i] = f[j] => i = j
    OBVIOUS
  <2>4. f \in [T -> U]
    BY <2>1
  <2>5. \A j \in U : \E i \in T : f[i] = j
    BY <2>2
  <2> HIDE DEF T, U, f
  <2> QED BY <2>3, <2>4, <2>5 DEF Bijection, Injection, Surjection, IsInjective
<1>6. Cardinality(U) = Cardinality(T)
  <2> HIDE DEF T, U, f
  <2>1. ExistsBijection(T, U)
    BY <1>5 DEF ExistsBijection
  <2> QED BY <1>4, <2>1, FS_Bijection
<1>7. S = IF s[1].op = x THEN U \cup {1} ELSE U
  BY <1>1
<1>8. 1 \notin U
  OBVIOUS
<1>9. Cardinality(S) = IF s[1].op = x THEN Cardinality(U) + 1 ELSE Cardinality(U)
  <2> HIDE DEF S, U
  <2> QED BY <1>4, <1>7, <1>8, FS_AddElement
<1>10. Cardinality(S) \in Nat /\ Cardinality(T) \in Nat
  <2> HIDE DEF S, T
  <2> QED BY <1>4, FS_CardinalityType
<1>11. CallsOf(s, x) = Cardinality(S) /\ CallsOf(t, x) = Cardinality(T)
  BY <1>1, <1>3 DEF CallsOf
<1> HIDE DEF S, T, U, f
<1> QED BY <1>2, <1>3, <1>6, <1>9, <1>10, <1>11

\* A program has finitely many calls.
LEMMA LeftType == ASSUME TypeInv PROVE \A h \in Host : CallsLeft(h, "wait") \in Nat
<1> TAKE h \in Host
<1>1. PICK n \in Nat : n = Len(prog[h])
  BY DEF TypeInv
<1>2. PICK S : S = {i \in 1 .. n : prog[h][i].op = "wait"}
  OBVIOUS
<1>3. IsFiniteSet(1 .. n) /\ S \subseteq 1 .. n
  BY <1>2, FS_Interval
<1>4. Cardinality(S) \in Nat
  BY <1>3, FS_Subset, FS_CardinalityType
<1> QED BY <1>1, <1>2, <1>4 DEF CallsLeft

\* Returning from a call.
LEMMA ReturnLeft ==
    ASSUME TypeInv, NEW h \in Host, prog[h] # <<>>, prog' = [prog EXCEPT ![h] = Tail(@)]
    PROVE  /\ CallsLeft(h, "wait") \in Nat /\ CallsLeft(h, "wait")' \in Nat
           /\ CallsLeft(h, "wait") = IF CallOf(h).op = "wait" THEN CallsLeft(h, "wait")' + 1
                                                              ELSE CallsLeft(h, "wait")'
           /\ \A g \in Host \ {h} : CallsLeft(g, "wait")' = CallsLeft(g, "wait")
           /\ prog' \in [Host -> Seq(Call)]
<1>1. prog[h] \in Seq(Call) /\ prog'[h] = Tail(prog[h]) /\ \A g \in Host \ {h} : prog'[g] = prog[g]
  BY DEF TypeInv
<1>2. CallsLeft(h, "wait") = CallsOf(prog[h], "wait")
  BY DEF CallsLeft, CallsOf
<1>3. CallsLeft(h, "wait")' = CallsOf(Tail(prog[h]), "wait")
  BY <1>1 DEF CallsLeft, CallsOf
<1>4. \A g \in Host \ {h} : CallsLeft(g, "wait")' = CallsLeft(g, "wait")
  BY <1>1 DEF CallsLeft
<1>5. prog' \in [Host -> Seq(Call)]
  <2>1. Tail(prog[h]) \in Seq(Call)
    BY <1>1
  <2> QED BY <2>1 DEF TypeInv
<1> QED BY <1>1, <1>2, <1>3, <1>4, <1>5, CallsTail DEF CallOf

\* A step of another call leaves jia_wait where it is.
LEMMA DueFrame ==
    ASSUME SameCalls("wait"),
           \A h \in Host : /\ pc'[h] = "wait" <=> pc[h] = "wait"
                           /\ CallsLeft(h, "wait")' = CallsLeft(h, "wait")
    PROVE  SameDue
<1>1. \A h \in Host : Through(h) <=> pc[h] = "wait" /\ (Granted(h, "wait") \/ ~Waits(h, "wait"))
  BY DEF Through, Waits
<1>2. \A h \in Host : Through(h)' <=> pc'[h] = "wait" /\ (Granted(h, "wait")' \/ ~Waits(h, "wait")')
  BY DEF Through, Waits
<1>3. \A h \in Host : Through(h)' <=> Through(h)
  BY <1>1, <1>2 DEF SameCalls, SameCall, SameMessages
<1> QED BY <1>3 DEF SameDue, Due

-----------------------------------------------------------------------------
(***************************************************************************)
(* The application thread.                                                 *)
(***************************************************************************)
\* A call sets its flag and sends its request: no other call of any host is
\* concerned, and no earlier request or answer of this one is under way.
LEMMA RequestTurns ==
    ASSUME RInv, NEW h \in Host, NEW k \in Flags, NEW m \in Message, Calls(h, k),
           m.op = RequestOp[k], m.frompid = h, Route(m), Request(h, k, m),
           UNCHANGED <<prog, inq>>
    PROVE  /\ NetInv' /\ Turns' /\ InCalls' /\ InTransit' = InTransit \cup {m}
           /\ ~Waits(h, k) /\ ~Asked(h, k) /\ ~Granted(h, k)
           /\ Waits(h, k)' /\ Asked(h, k)' /\ ~Granted(h, k)'
           /\ \A g \in Host, l \in Flags : (g # h \/ l # k) => SameCall(g, l)
           /\ pc' \in [Host -> Flags \cup {"run", "ended"}] /\ flag' \in [Host -> [Flags -> BOOLEAN]]
           /\ pc[h] = "run" /\ pc'[h] = k /\ \A g \in Host \ {h} : pc'[g] = pc[g] /\ flag'[g] = flag[g]
<1>1. /\ pc \in [Host -> Flags \cup {"run", "ended"}] /\ flag \in [Host -> [Flags -> BOOLEAN]]
      /\ pc' = [pc EXCEPT ![h] = k] /\ flag' = [flag EXCEPT ![h][k] = TRUE] /\ pc[h] = "run"
  BY DEF RInv, TypeInv, Request, Calls
<1>2. /\ pc' \in [Host -> Flags \cup {"run", "ended"}] /\ flag' \in [Host -> [Flags -> BOOLEAN]]
      /\ pc'[h] = k /\ flag'[h][k] /\ \A l \in Flags \ {k} : flag'[h][l] = flag[h][l]
      /\ \A g \in Host \ {h} : pc'[g] = pc[g] /\ flag'[g] = flag[g]
  BY <1>1
<1>3. k # "run" /\ k # "ended"
  BY DEF Flags
<1>4. \A l \in Flags : ~Waits(h, l) /\ ~Asked(h, l) /\ ~Granted(h, l)
  <2>1. \A l \in Flags : ~Waits(h, l) /\ ~Gone(h, l)
    BY <1>1 DEF Waits, Gone, Flags
  <2> QED BY <2>1 DEF RInv, Turns, Turn
<1>5. Sendable(h, <<m>>)
  <2>1. <<m>> \in Seq(Message) /\ Elements(<<m>>) = {m} /\ Alone(<<m>>)
    BY ShortQueue
  <2>2. MasterLast(<<m>>)
    <3>1. m.op # "STATGRANT"
      BY DEF RequestOp, Flags
    <3> QED BY <3>1 DEF MasterLast
  <2>3. \A n \in InTransit : ~Twins(n, m)
    BY <1>4 DEF Twins, Asked
  <2> QED BY <2>1, <2>2, <2>3 DEF Sendable
<1>6. NetInv' /\ InTransit' = InTransit \cup {m}
  <2>1. Elements(<<m>>) = {m} /\ Send(h, <<m>>)
    BY ShortQueue DEF Request
  <2> QED BY <1>5, <2>1, MainSends DEF RInv
<1>7. Waits(h, k)' /\ Asked(h, k)'
  BY <1>2, <1>6 DEF Waits, Asked
<1>8. \A l : m.op # GrantOp[l] \/ l \notin Flags
  BY OpsDiffer
<1>9. \A g \in Host, l \in Flags : Granted(g, l)' <=> Granted(g, l)
  BY <1>6, <1>8 DEF Granted
<1>10. ASSUME NEW g \in Host, NEW l \in Flags, g # h \/ l # k PROVE SameCall(g, l)
  <2>1. Asked(g, l)' <=> Asked(g, l)
    <3>1. m.frompid # g \/ m.op # RequestOp[l]
      BY <1>10, OpsDiffer
    <3> QED BY <1>6, <3>1 DEF Asked
  <2>2. Waits(g, l)' <=> Waits(g, l)
    <3>1. CASE g = h
      BY <1>2, <1>4, <1>10, <3>1 DEF Waits
    <3>2. CASE g # h
      BY <1>2, <3>2 DEF Waits
    <3> QED BY <3>1, <3>2
  <2> QED BY <1>9, <2>1, <2>2 DEF SameCall, SameMessages
<1>11. ASSUME NEW g \in Host, NEW l \in Flags PROVE Turn(g, l)'
  <2>1. CASE g = h /\ l = k
    BY <1>4, <1>7, <1>9, <2>1 DEF Turn
  <2>2. CASE g # h \/ l # k
    <3>1. Gone(g, l) => Gone(g, l)'
      BY <1>1, <1>2 DEF Gone
    <3> QED BY <1>10, <2>2, <3>1 DEF RInv, Turns, Turn, SameCall, SameMessages
  <2> QED BY <2>1, <2>2
<1>12. InCalls'
  <2>1. prog[h] # <<>> /\ CallOf(h).op = k
    BY DEF Calls
  <2> QED BY <1>2, <2>1 DEF RInv, InCalls, CallOf
<1>13. Turns'
  BY <1>11 DEF Turns
<1> QED BY <1>1, <1>2, <1>4, <1>6, <1>7, <1>9, <1>10, <1>12, <1>13

\* A request says what is so, and what others say stays so.
LEMMA RequestContents ==
    ASSUME RInv, Steady, UNCHANGED power, NEW m, InTransit' = InTransit \cup {m}, Says(m)'
    PROVE  Contents'
<1>1. \A n \in InTransit : Says(n)'
  BY SaysFrame DEF RInv
<1> QED BY <1>1 DEF Contents

\* The call at the head of a program.
LEMMA CallTypes ==
    ASSUME TypeInv, NEW h \in Host, NEW op, Calls(h, op)
    PROVE  /\ prog[h] \in Seq(Call) /\ prog[h] # <<>> /\ CallOf(h) \in Call /\ CallOf(h).op = op
           /\ op \in {"setcv", "resetcv", "waitcv"} => CallOf(h).cv \in Cvs
<1>1. prog[h] \in Seq(Call) /\ prog[h] # <<>>
  BY DEF TypeInv, Calls
<1>2. CallOf(h) \in Call
  BY <1>1 DEF CallOf
<1> QED BY <1>1, <1>2 DEF Calls, Call

\* jia_wait: a host that asks is not counted yet.
LEMMA WaitStep == ASSUME RInv, NEW h \in Host, jia_wait(h) PROVE RInv' /\ SameDue
<1>1. PICK m : m = [op |-> "WAIT", frompid |-> h, topid |-> Master]
  OBVIOUS
<1>2. /\ Calls(h, "wait") /\ Request(h, "wait", m)
      /\ UNCHANGED <<prog, calls, masterVars, power, condvars, inq>>
  BY <1>1 DEF jia_wait
<1>3. m \in Message /\ m.op = RequestOp["wait"] /\ m.frompid = h /\ Route(m) /\ "wait" \in Flags
  BY <1>1, HostFacts, OpsDiffer DEF Message, Route, Flags
<1>4. /\ NetInv' /\ Turns' /\ InCalls' /\ InTransit' = InTransit \cup {m}
      /\ ~Waits(h, "wait") /\ Asked(h, "wait")' /\ Waits(h, "wait")' /\ ~Granted(h, "wait")'
      /\ \A g \in Host, l \in Flags : (g # h \/ l # "wait") => SameCall(g, l)
      /\ pc' \in [Host -> Flags \cup {"run", "ended"}] /\ flag' \in [Host -> [Flags -> BOOLEAN]]
      /\ pc[h] = "run" /\ pc'[h] = "wait"
      /\ \A g \in Host \ {h} : pc'[g] = pc[g] /\ flag'[g] = flag[g]
  BY <1>2, <1>3, RequestTurns
<1>5. TypeInv'
  BY <1>2, <1>4 DEF RInv, TypeInv, masterVars
<1>6. Steady
  BY <1>2, <1>4 DEF Steady, Leaving
<1>7. Contents'
  <2>1. Says(m)'
    BY <1>1 DEF Says
  <2> QED BY <1>2, <1>4, <1>6, <2>1, RequestContents
<1>8. SameCalls("load") /\ SameCalls("exit") /\ SameCalls("waitcv")
  BY <1>4 DEF SameCalls, Flags
<1>9. WaitInv'
  <2>1. Counted("wait")' = Counted("wait")
    BY <1>3, <1>4 DEF Counted, SameCall, SameMessages
  <2> QED BY <1>2, <1>4, <1>6, <2>1, HostFacts DEF RInv, WaitInv, masterVars, Steady
<1>10. LoadInv'
  BY <1>2, <1>6, <1>8, LoadFrame DEF RInv, masterVars
<1>11. StatInv'
  BY <1>2, <1>4, <1>6, <1>8, StatFrame DEF RInv, masterVars, Leaving
<1>12. CvInv'
  BY <1>2, <1>6, <1>8, CvFrame DEF RInv
<1>13. SameDue
  <2>1. ~Through(h) /\ ~Through(h)'
    BY <1>4 DEF Through, Waits
  <2>2. \A g \in Host \ {h} : Through(g)' <=> Through(g)
    BY <1>3, <1>4 DEF Through, SameCall, SameMessages
  <2> QED BY <1>2, <2>1, <2>2 DEF SameDue, Due, CallsLeft
<1> QED BY <1>4, <1>5, <1>7, <1>9, <1>10, <1>11, <1>12, <1>13 DEF RInv

\* jia_loadbalance: its round counts once it is granted.
LEMMA LoadStep == ASSUME RInv, NEW h \in Host, jia_loadbalance(h) PROVE RInv' /\ SameDue
<1>1. calls[h] \in Nat /\ calls \in [Host -> Nat]
  BY DEF RInv, TypeInv
<1>2. PICK m : m = [op |-> "LOADREQ", frompid |-> h, topid |-> Master, time |-> calls[h] + 1]
  OBVIOUS
<1>3. /\ Calls(h, "load") /\ Request(h, "load", m) /\ calls' = [calls EXCEPT ![h] = calls[h] + 1]
      /\ UNCHANGED <<prog, masterVars, power, condvars, inq>>
  BY <1>2 DEF jia_loadbalance
<1>4. m \in Message /\ m.op = RequestOp["load"] /\ m.frompid = h /\ Route(m) /\ "load" \in Flags
  BY <1>1, <1>2, HostFacts, OpsDiffer DEF Message, Route, Flags
<1>5. /\ NetInv' /\ Turns' /\ InCalls' /\ InTransit' = InTransit \cup {m}
      /\ ~Waits(h, "load") /\ ~Asked(h, "load") /\ ~Granted(h, "load")
      /\ Waits(h, "load")' /\ Asked(h, "load")' /\ ~Granted(h, "load")'
      /\ \A g \in Host, l \in Flags : (g # h \/ l # "load") => SameCall(g, l)
      /\ pc' \in [Host -> Flags \cup {"run", "ended"}] /\ flag' \in [Host -> [Flags -> BOOLEAN]]
      /\ pc[h] = "run" /\ pc'[h] = "load"
      /\ \A g \in Host \ {h} : pc'[g] = pc[g] /\ flag'[g] = flag[g]
  BY <1>3, <1>4, RequestTurns
<1>6. calls' \in [Host -> Nat] /\ calls'[h] = calls[h] + 1 /\ \A g \in Host \ {h} : calls'[g] = calls[g]
  BY <1>1, <1>3
<1>7. TypeInv'
  BY <1>3, <1>5, <1>6 DEF RInv, TypeInv, masterVars
<1>8. Steady
  BY <1>3, <1>5, <1>6 DEF Steady, Leaving
<1>9. Contents'
  <2>1. Says(m)'
    BY <1>2, <1>6 DEF Says
  <2> QED BY <1>3, <1>5, <1>8, <2>1, RequestContents
<1>10. SameCalls("wait") /\ SameCalls("exit") /\ SameCalls("waitcv")
  BY <1>5 DEF SameCalls, Flags
<1>11. LoadInv'
  <2>1. Counted("load")' = Counted("load")
    BY <1>4, <1>5 DEF Counted, SameCall, SameMessages
  <2>2. \A g \in Counted("load") : calls'[g] = calls[g]
    BY <1>5, <1>6 DEF Counted
  <2>3. pc[Master] = "ended" => pc'[Master] = "ended"
    BY <1>8, HostFacts DEF Steady
  <2>4. \A g \in Host : Granted(g, "load")' <=> Granted(g, "load")
    BY <1>4, <1>5 DEF SameCall, SameMessages
  <2>5. Rounds(h)' = Rounds(h) /\ ~Leaving(h)
    <3>1. Rounds(h)' = (calls[h] + 1) - 1 /\ Rounds(h) = calls[h] - 0
      BY <1>5, <1>6 DEF Rounds
    <3> QED BY <1>1, <1>5, <3>1 DEF Leaving
  <2>6. \A g \in Host \ {h} : Rounds(g)' = Rounds(g) /\ (Leaving(g)' <=> Leaving(g))
    BY <1>4, <1>5, <1>6 DEF Rounds, Leaving, SameCall, SameMessages
  <2>7. \A f, g \in Host : ~Leaving(f)' /\ ~Leaving(g)' => Rounds(f)' = Rounds(g)'
    BY <2>5, <2>6 DEF RInv, LoadInv
  <2> QED BY <1>3, <2>1, <2>2, <2>3, <2>4, <2>7 DEF RInv, LoadInv, masterVars
<1>12. WaitInv'
  BY <1>3, <1>8, <1>10, WaitFrame DEF RInv, masterVars
<1>13. StatInv'
  BY <1>3, <1>5, <1>8, <1>10, StatFrame DEF RInv, masterVars, Leaving
<1>14. CvInv'
  BY <1>3, <1>8, <1>10, CvFrame DEF RInv
<1>15. SameDue
  BY <1>3, <1>5, <1>10, DueFrame DEF CallsLeft
<1> QED BY <1>5, <1>7, <1>9, <1>11, <1>12, <1>13, <1>14, <1>15 DEF RInv

\* jia_exit: a host that sends its statistics has not reported yet.
LEMMA ExitStep == ASSUME RInv, NEW h \in Host, jia_exit(h) PROVE RInv' /\ SameDue
<1>1. calls[h] \in Nat /\ calls \in [Host -> Nat]
  BY DEF RInv, TypeInv
<1>2. PICK m : m = [op |-> "STAT", frompid |-> h, topid |-> Master, stat |-> calls[h] + 1]
  OBVIOUS
<1>3. /\ Calls(h, "exit") /\ Request(h, "exit", m) /\ calls' = [calls EXCEPT ![h] = calls[h] + 1]
      /\ UNCHANGED <<prog, masterVars, power, condvars, inq>>
  BY <1>2 DEF jia_exit
<1>4. m \in Message /\ m.op = RequestOp["exit"] /\ m.frompid = h /\ Route(m) /\ "exit" \in Flags
  BY <1>1, <1>2, HostFacts, OpsDiffer DEF Message, Route, Flags
<1>5. /\ NetInv' /\ Turns' /\ InCalls' /\ InTransit' = InTransit \cup {m}
      /\ ~Waits(h, "exit") /\ ~Asked(h, "exit") /\ ~Granted(h, "exit")
      /\ Waits(h, "exit")' /\ Asked(h, "exit")' /\ ~Granted(h, "exit")'
      /\ \A g \in Host, l \in Flags : (g # h \/ l # "exit") => SameCall(g, l)
      /\ pc' \in [Host -> Flags \cup {"run", "ended"}] /\ flag' \in [Host -> [Flags -> BOOLEAN]]
      /\ pc[h] = "run" /\ pc'[h] = "exit"
      /\ \A g \in Host \ {h} : pc'[g] = pc[g] /\ flag'[g] = flag[g]
  BY <1>3, <1>4, RequestTurns
<1>6. calls' \in [Host -> Nat] /\ calls'[h] = calls[h] + 1 /\ \A g \in Host \ {h} : calls'[g] = calls[g]
  BY <1>1, <1>3
<1>7. TypeInv'
  BY <1>3, <1>5, <1>6 DEF RInv, TypeInv, masterVars
<1>8. Steady
  BY <1>3, <1>5, <1>6 DEF Steady, Leaving
<1>9. Contents'
  <2>1. Says(m)'
    BY <1>2, <1>6 DEF Says
  <2> QED BY <1>3, <1>5, <1>8, <2>1, RequestContents
<1>10. SameCalls("wait") /\ SameCalls("load") /\ SameCalls("waitcv")
  BY <1>5 DEF SameCalls, Flags
<1>11. StatInv'
  <2>1. h \notin Reported /\ Reported' = Reported
    <3>1. \A g \in Host \ {h} : (Leaving(g)' <=> Leaving(g)) /\ (Asked(g, "exit")' <=> Asked(g, "exit"))
      BY <1>4, <1>5 DEF Leaving, SameCall, SameMessages
    <3> QED BY <1>5, <3>1 DEF Reported, Leaving
  <2>2. Reported # Host /\ Reported' # Host
    BY <2>1
  <2>3. pc'[Master] # "ended"
    BY <1>5, <2>2, HostFacts DEF RInv, StatInv
  <2>4. ASSUME NEW g \in Host PROVE ~Granted(g, "exit")' /\ ~(pc'[g] = "exit" /\ ~flag'[g]["exit"])
    <3>1. CASE g = h
      BY <1>5, <3>1 DEF Waits
    <3>2. CASE g # h
      <4>1. ~Granted(g, "exit") /\ ~(pc[g] = "exit" /\ ~flag[g]["exit"])
        BY <2>2 DEF RInv, StatInv
      <4> QED BY <1>4, <1>5, <3>2, <4>1 DEF SameCall, SameMessages
    <3> QED BY <3>1, <3>2
  <2>5. \A g \in Reported : calls'[g] = calls[g]
    BY <1>6, <2>1 DEF Reported
  <2> QED BY <1>3, <2>1, <2>2, <2>3, <2>4, <2>5 DEF RInv, StatInv, masterVars
<1>12. WaitInv'
  BY <1>3, <1>8, <1>10, WaitFrame DEF RInv, masterVars
<1>13. LoadInv'
  <2>1. \A g \in Host : calls'[g] = calls[g] \/ Leaving(g)'
    BY <1>5, <1>6 DEF Leaving
  <2> QED BY <1>3, <1>8, <1>10, <2>1, LoadFrame DEF RInv, masterVars
<1>14. CvInv'
  BY <1>3, <1>8, <1>10, CvFrame DEF RInv
<1>15. SameDue
  BY <1>3, <1>5, <1>10, DueFrame DEF CallsLeft
<1> QED BY <1>5, <1>7, <1>9, <1>11, <1>12, <1>13, <1>14, <1>15 DEF RInv

\* jia_waitcv: a host that asks is in no list yet.
LEMMA WaitcvStep == ASSUME RInv, NEW h \in Host, jia_waitcv(h) PROVE RInv' /\ SameDue
<1>1. PICK c \in Cvs : c = CallOf(h).cv
  BY CallTypes DEF RInv, jia_waitcv
<1>2. PICK m : m = [op |-> "WAITCV", frompid |-> h, topid |-> Manager(c), cv |-> c]
  OBVIOUS
<1>3. /\ Calls(h, "waitcv") /\ Request(h, "waitcv", m)
      /\ UNCHANGED <<prog, calls, masterVars, power, condvars, inq>>
  BY <1>1, <1>2 DEF jia_waitcv
<1>4. m \in Message /\ m.op = RequestOp["waitcv"] /\ m.frompid = h /\ Route(m) /\ "waitcv" \in Flags
  BY <1>2, HostFacts, OpsDiffer DEF Message, Route, Flags
<1>5. /\ NetInv' /\ Turns' /\ InCalls' /\ InTransit' = InTransit \cup {m}
      /\ ~Waits(h, "waitcv")
      /\ \A g \in Host, l \in Flags : (g # h \/ l # "waitcv") => SameCall(g, l)
      /\ pc' \in [Host -> Flags \cup {"run", "ended"}] /\ flag' \in [Host -> [Flags -> BOOLEAN]]
      /\ pc[h] = "run" /\ pc'[h] = "waitcv"
      /\ \A g \in Host \ {h} : pc'[g] = pc[g] /\ flag'[g] = flag[g]
  BY <1>3, <1>4, RequestTurns
<1>6. TypeInv'
  BY <1>3, <1>5 DEF RInv, TypeInv, masterVars
<1>7. Steady
  BY <1>3, <1>5 DEF Steady, Leaving
<1>8. Contents'
  <2>1. Says(m)'
    BY <1>1, <1>2, <1>3 DEF Says, CallOf
  <2> QED BY <1>3, <1>5, <1>7, <2>1, RequestContents
<1>9. SameCalls("wait") /\ SameCalls("load") /\ SameCalls("exit")
  BY <1>5 DEF SameCalls, Flags
<1>10. CvInv'
  <2>1. ASSUME NEW d \in Cvs, NEW g \in Host, Queues(g, d) PROVE Queues(g, d)'
    <3>1. g # h
      BY <1>5, <2>1 DEF Queues
    <3> QED BY <1>3, <1>4, <1>5, <2>1, <3>1 DEF Queues, SameCall, SameMessages, CallOf
  <2>2. \A d \in Cvs : \A i \in 1 .. Len(condvars[d].waits) : condvars[d].waits[i] \in Host
    BY DEF RInv, TypeInv, CondVar
  <2> QED BY <1>3, <2>1, <2>2 DEF RInv, CvInv
<1>11. WaitInv'
  BY <1>3, <1>7, <1>9, WaitFrame DEF RInv, masterVars
<1>12. LoadInv'
  BY <1>3, <1>7, <1>9, LoadFrame DEF RInv, masterVars
<1>13. StatInv'
  BY <1>3, <1>5, <1>7, <1>9, StatFrame DEF RInv, masterVars, Leaving
<1>14. SameDue
  BY <1>3, <1>5, <1>9, DueFrame DEF CallsLeft
<1> QED BY <1>5, <1>6, <1>8, <1>10, <1>11, <1>12, <1>13, <1>14 DEF RInv

\* A step that leaves every call as it is.
LEMMA QuietStep ==
    ASSUME RInv, TypeInv', NetInv', InCalls', Contents', Steady,
           \A k \in Flags : SameCalls(k),
           UNCHANGED <<waitcounter, loadcnt, statcnt, times, power, allstats>>,
           \A h \in Host : /\ calls'[h] = calls[h]
                           /\ pc'[h] = pc[h] /\ flag'[h] = flag[h]
                           /\ CallsLeft(h, "wait")' = CallsLeft(h, "wait"),
           \A c \in Cvs : condvars'[c].waits = condvars[c].waits
    PROVE  RInv' /\ SameDue
<1>1. SameCalls("wait") /\ SameCalls("load") /\ SameCalls("exit") /\ SameCalls("waitcv")
  BY DEF Flags
<1>2. Turns'
  BY DEF RInv, Turns, Turn, SameCalls, SameCall, SameMessages, Gone
<1>3. WaitInv'
  BY <1>1, WaitFrame DEF RInv
<1>4. LoadInv'
  BY <1>1, LoadFrame DEF RInv
<1>5. StatInv'
  BY <1>1, StatFrame DEF RInv, Leaving
<1>6. CvInv'
  BY <1>1, CvFrame DEF RInv
<1>7. SameDue
  BY <1>1, DueFrame
<1> QED BY <1>2, <1>3, <1>4, <1>5, <1>6, <1>7 DEF RInv

\* jia_setcv and jia_resetcv.
LEMMA PostStep == ASSUME RInv, NEW h \in Host, jia_setcv(h) \/ jia_resetcv(h) PROVE RInv' /\ SameDue
<1>1. PICK op \in {"setcv", "resetcv"}, request \in {"SETCV", "RESETCV"} : Post(h, op, request)
  BY DEF jia_setcv, jia_resetcv
<1>2. Calls(h, op) /\ prog[h] # <<>> /\ pc[h] = "run" /\ CallOf(h).op # "wait"
  BY <1>1 DEF Post, Calls
<1>3. PICK c \in Cvs : c = CallOf(h).cv
  BY <1>2, CallTypes DEF RInv
<1>4. PICK m : m = [op |-> request, frompid |-> h, topid |-> Manager(c), cv |-> c]
  OBVIOUS
<1>5. /\ Send(h, <<m>>) /\ prog' = [prog EXCEPT ![h] = Tail(@)]
      /\ UNCHANGED <<pc, calls, flag, masterVars, power, condvars, inq>>
  BY <1>1, <1>3, <1>4 DEF Post
<1>6. m \in Message /\ m.frompid = h /\ Route(m) /\ m.op \in {"SETCV", "RESETCV"}
  BY <1>4, HostFacts DEF Message, Route
<1>7. NetInv' /\ InTransit' = InTransit \cup {m}
  <2>1. <<m>> \in Seq(Message) /\ Elements(<<m>>) = {m} /\ Alone(<<m>>)
    BY <1>6, ShortQueue
  <2>2. MasterLast(<<m>>)
    BY <1>6 DEF MasterLast
  <2>3. Sendable(h, <<m>>)
    BY <1>6, <2>1, <2>2 DEF Sendable, Twins
  <2> QED BY <1>5, <2>1, <2>3, MainSends DEF RInv
<1>8. /\ prog' \in [Host -> Seq(Call)]
      /\ \A g \in Host : CallsLeft(g, "wait")' = CallsLeft(g, "wait")
      /\ \A g \in Host \ {h} : prog'[g] = prog[g]
  BY <1>2, <1>5, ReturnLeft DEF RInv, TypeInv
<1>9. TypeInv'
  BY <1>5, <1>8 DEF RInv, TypeInv, masterVars
<1>10. \A k \in Flags : SameCalls(k)
  <2>1. \A k \in Flags : m.op # RequestOp[k] /\ m.op # GrantOp[k]
    BY <1>6, OpsDiffer
  <2> QED BY <1>5, <1>7, <2>1 DEF SameCalls, SameCall, SameMessages, Asked, Granted, Waits
<1>11. Steady
  BY <1>2, <1>5, <1>8 DEF Steady, Waits, Leaving
<1>12. InCalls'
  BY <1>2, <1>5, <1>8 DEF RInv, InCalls, CallOf, Flags
<1>13. Contents'
  <2>1. Says(m)'
    BY <1>6 DEF Says
  <2> QED BY <1>5, <1>7, <1>11, <2>1, RequestContents
<1> QED BY <1>5, <1>7, <1>8, <1>9, <1>10, <1>11, <1>12, <1>13, QuietStep DEF masterVars

\* A call returns because its flag was cleared, or jia_exit after its timeout.
LEMMA LeaveStep ==
    ASSUME RInv, NEW h \in Host, NEW k \in Flags, pc[h] = k, Leave(h),
           ~flag[h][k] \/ (k = "exit" /\ h # Master)
    PROVE  RInv' /\ SameDue
<1>1. /\ prog' = [prog EXCEPT ![h] = Tail(@)]
      /\ pc' = [pc EXCEPT ![h] = IF k = "exit" THEN "ended" ELSE "run"]
      /\ UNCHANGED <<calls, flag, masterVars, power, condvars, outq, inq>>
  BY DEF Leave
<1>2. /\ pc' \in [Host -> Flags \cup {"run", "ended"}] /\ \A g \in Host \ {h} : pc'[g] = pc[g]
      /\ pc'[h] = IF k = "exit" THEN "ended" ELSE "run"
  BY <1>1 DEF RInv, TypeInv
<1>3. prog[h] # <<>> /\ CallOf(h).op = k
  BY DEF RInv, InCalls
<1>4. /\ prog' \in [Host -> Seq(Call)]
      /\ CallsLeft(h, "wait") \in Nat /\ CallsLeft(h, "wait")' \in Nat
      /\ CallsLeft(h, "wait") = IF k = "wait" THEN CallsLeft(h, "wait")' + 1 ELSE CallsLeft(h, "wait")'
      /\ \A g \in Host \ {h} : CallsLeft(g, "wait")' = CallsLeft(g, "wait") /\ prog'[g] = prog[g]
  BY <1>1, <1>3, ReturnLeft DEF RInv, TypeInv
<1>5. TypeInv'
  BY <1>1, <1>2, <1>4 DEF RInv, TypeInv, masterVars
<1>6. InTransit' = InTransit /\ NetInv'
  BY <1>1 DEF InTransit, RInv, NetInv, QueueType, Routing, NoTwins
<1>7. \A g \in Host, l \in Flags : SameMessages(g, l)
  BY <1>6 DEF SameMessages, Asked, Granted
<1>8. \A l \in Flags : l # "exit" => SameCalls(l)
  BY <1>1, <1>2, <1>7 DEF SameCalls, SameCall, Waits, Flags
<1>9. Steady
  <2>1. ~Waits(h, "waitcv") /\ (Leaving(h) => Leaving(h)') /\ pc[h] # "ended"
    BY <1>2 DEF Waits, Leaving, Flags
  <2>2. \A g \in Host \ {h} : (Leaving(g) => Leaving(g)') /\ pc'[g] = pc[g] /\ prog'[g] = prog[g]
    BY <1>2, <1>4 DEF Leaving
  <2> QED BY <1>1, <2>1, <2>2 DEF Steady
<1>10. Turns'
  <2>1. ASSUME NEW g \in Host, NEW l \in Flags PROVE Waits(g, l) \/ Gone(g, l) => Waits(g, l)' \/ Gone(g, l)'
    <3>1. CASE g = h
      <4>1. ~Gone(h, l) /\ (Waits(h, l) => l = k /\ k = "exit" /\ h # Master)
        BY DEF Waits, Gone, Flags
      <4> QED BY <1>2, <3>1, <4>1 DEF Gone
    <3>2. CASE g # h
      BY <1>1, <1>2, <3>2 DEF Waits, Gone
    <3> QED BY <3>1, <3>2
  <2> QED BY <1>7, <2>1 DEF RInv, Turns, Turn, SameMessages
<1>11. InCalls'
  BY <1>2, <1>4 DEF RInv, InCalls, CallOf, Flags
<1>12. Contents'
  BY <1>1, <1>6, <1>9, SaysFrame DEF RInv, Contents
<1>13. WaitInv' /\ LoadInv' /\ CvInv'
  <2>1. SameCalls("wait") /\ SameCalls("load") /\ SameCalls("waitcv")
    BY <1>8 DEF Flags
  <2>2. WaitInv'
    BY <1>1, <1>9, <2>1, WaitFrame DEF RInv, masterVars
  <2>3. LoadInv'
    BY <1>1, <1>9, <2>1, LoadFrame DEF RInv, masterVars
  <2>4. CvInv'
    BY <1>1, <1>9, <2>1, CvFrame DEF RInv
  <2> QED BY <2>2, <2>3, <2>4
<1>14. StatInv'
  <2>1. Reported' = Reported
    BY <1>2, <1>7 DEF Reported, Leaving, SameMessages, Flags
  <2>2. pc'[Master] = "ended" => Reported = Host
    <3>1. CASE h = Master
      BY <1>2, <3>1 DEF RInv, StatInv
    <3>2. CASE h # Master
      BY <1>2, <3>2, HostFacts DEF RInv, StatInv
    <3> QED BY <3>1, <3>2
  <2>3. \A g \in Host : pc'[g] = "exit" => pc[g] = "exit"
    BY <1>2
  <2>4. \A g \in Host : Granted(g, "exit")' <=> Granted(g, "exit")
    BY <1>7 DEF SameMessages, Flags
  <2> QED BY <1>1, <2>1, <2>2, <2>3, <2>4 DEF RInv, StatInv, masterVars, Waits
<1>15. SameDue
  <2>1. ASSUME NEW g \in Host \ {h} PROVE Due(g)' = Due(g)
    <3>1. Through(g)' <=> Through(g)
      BY <1>1, <1>2, <1>7 DEF Through, SameMessages, Flags
    <3> QED BY <1>4, <3>1 DEF Due
  <2>2. Due(h)' = Due(h)
    <3>1. ~Through(h)' /\ (Through(h) <=> k = "wait")
      BY <1>2 DEF Through
    <3>2. Due(h)' = CallsLeft(h, "wait")' - 0
      BY <3>1 DEF Due
    <3>3. Due(h) = CallsLeft(h, "wait") - (IF k = "wait" THEN 1 ELSE 0)
      BY <3>1 DEF Due
    <3> QED BY <1>4, <3>2, <3>3
  <2> QED BY <2>1, <2>2 DEF SameDue
<1> QED BY <1>5, <1>6, <1>10, <1>11, <1>12, <1>13, <1>14, <1>15 DEF RInv

-----------------------------------------------------------------------------
(***************************************************************************)
(* The client thread.                                                      *)
(***************************************************************************)
\* What is dropped is a request to a manager that has ended, or the answer to a
\* host that has left jia_exit.
LEMMA TransferStep == ASSUME RInv, NEW h \in Host, Transfer(h) PROVE RInv' /\ SameDue
<1>1. /\ NetInv' /\ InTransit' \subseteq InTransit
      /\ \A m \in InTransit \ InTransit' : pc[m.topid] = "ended"
  BY TransferNet DEF RInv
<1>2. UNCHANGED <<mainVars, flag, masterVars, power, condvars>>
  BY DEF Transfer
<1>3. TypeInv' /\ InCalls' /\ Steady
  BY <1>2 DEF RInv, TypeInv, InCalls, Steady, mainVars, masterVars, CallOf, Leaving
<1>4. Contents'
  BY <1>1, <1>2, <1>3, SaysFrame DEF RInv, Contents
<1>5. \A g \in Host, k \in Flags : /\ Waits(g, k)' <=> Waits(g, k)
                                   /\ Gone(g, k)' <=> Gone(g, k)
                                   /\ Asked(g, k)' => Asked(g, k)
                                   /\ Granted(g, k)' => Granted(g, k)
  BY <1>1, <1>2 DEF Waits, Gone, Asked, Granted, mainVars
<1>6. Turns'
  BY <1>5 DEF RInv, Turns, Turn
<1>7. ASSUME NEW g \in Host, NEW k \in Flags, pc[g] # "ended" PROVE Granted(g, k)' <=> Granted(g, k)
  BY <1>1, <1>5, <1>7 DEF Granted
<1>8. ASSUME NEW g \in Host, NEW k \in Flags, k # "exit" PROVE Granted(g, k)' <=> Granted(g, k)
  <2>1. pc[g] = "ended" => ~Granted(g, k)
    <3>1. pc[g] = "ended" => ~Waits(g, k) /\ ~Gone(g, k)
      BY <1>8 DEF Waits, Gone, Flags
    <3> QED BY <3>1 DEF RInv, Turns, Turn
  <2> QED BY <1>5, <1>7, <2>1
<1>9. ASSUME NEW g \in Host, NEW k \in {"wait", "load", "exit"}, pc[Master] # "ended"
      PROVE  Asked(g, k)' <=> Asked(g, k)
  <2>1. \A m \in InTransit : m.op = RequestOp[k] => m.topid = Master
    BY TransitTypes, OpsDiffer DEF RInv, Route
  <2> QED BY <1>1, <1>9, <2>1 DEF Asked
<1>10. WaitInv'
  <2>1. pc[Master] # "ended" => Counted("wait")' = Counted("wait")
    BY <1>5, <1>8, <1>9 DEF Counted, Flags
  <2> QED BY <1>2, <2>1 DEF RInv, WaitInv, mainVars, masterVars
<1>11. LoadInv'
  <2>1. pc[Master] # "ended" => Counted("load")' = Counted("load")
    BY <1>5, <1>8, <1>9 DEF Counted, Flags
  <2>2. \A g \in Host : Rounds(g)' = Rounds(g) /\ (Leaving(g)' <=> Leaving(g))
    BY <1>2, <1>5, <1>8 DEF Rounds, Leaving, mainVars, Flags
  <2>3. \A g \in Host : Granted(g, "load")' <=> Granted(g, "load")
    BY <1>8 DEF Flags
  <2> QED BY <1>2, <2>1, <2>2, <2>3 DEF RInv, LoadInv, mainVars, masterVars
<1>12. StatInv'
  <2>1. \A g \in Host : Asked(g, "exit")' <=> Asked(g, "exit")
    <3>1. pc[Master] = "ended" => \A g \in Host : ~Asked(g, "exit")
      BY DEF RInv, StatInv, Reported
    <3> QED BY <1>5, <1>9, <3>1 DEF Flags
  <2>2. Reported' = Reported
    BY <1>2, <2>1 DEF Reported, Leaving, mainVars
  <2>3. \A g \in Host : (Granted(g, "exit")' => Granted(g, "exit")) /\ (Waits(g, "exit")' <=> Waits(g, "exit"))
    BY <1>5 DEF Flags
  <2>4. \A g \in Host : Waits(g, "exit") /\ Granted(g, "exit") => Granted(g, "exit")'
    BY <1>7 DEF Waits, Flags
  <2> QED BY <1>2, <2>2, <2>3, <2>4 DEF RInv, StatInv, mainVars, masterVars
<1>13. CvInv'
  <2>1. ASSUME NEW c \in Cvs, NEW g \in Host, Queues(g, c) PROVE Queues(g, c)'
    BY <1>2, <1>5, <2>1 DEF Queues, CallOf, mainVars, Flags
  <2>2. \A c \in Cvs : \A i \in 1 .. Len(condvars[c].waits) : condvars[c].waits[i] \in Host
    BY DEF RInv, TypeInv, CondVar
  <2> QED BY <1>2, <2>1, <2>2 DEF RInv, CvInv
<1>14. SameDue
  <2>1. \A g \in Host : Through(g)' <=> Through(g)
    BY <1>2, <1>8 DEF Through, mainVars, Flags
  <2> QED BY <1>2, <2>1 DEF SameDue, Due, CallsLeft, mainVars
<1> QED BY <1>1, <1>3, <1>4, <1>6, <1>10, <1>11, <1>12, <1>13, <1>14 DEF RInv

-----------------------------------------------------------------------------
(***************************************************************************)
(* The server thread.                                                      *)
(***************************************************************************)
\* A handler's message is one under way to a host that has not ended.
LEMMA HandledType ==
    ASSUME RInv, NEW h \in Host, NEW op, Handles(h, op)
    PROVE  /\ Taken(h) /\ pc[h] # "ended" /\ Req(h).op = op /\ Req(h) \in Message
           /\ Req(h) \in InTransit /\ Says(Req(h)) /\ Route(Req(h)) /\ Req(h).topid = h
           /\ Req(h).frompid \in Host
<1>1. Taken(h) /\ pc[h] # "ended" /\ Req(h).op = op
  BY DEF Handles, Taken
<1>2. Req(h) \in Message /\ Req(h).topid = h /\ Route(Req(h)) /\ Req(h) \in InTransit
  BY <1>1, ReceiveNet DEF RInv
<1> QED BY <1>1, <1>2, MessageTypes DEF RInv, Contents

\* The only answer to a host's call is the one being handled.
LEMMA AnswerAlone ==
    ASSUME RInv, NEW h \in Host, NEW k \in Flags, Handles(h, GrantOp[k]), NEW rest,
           rest \subseteq InTransit, \A m \in rest : ~Twins(Req(h), m)
    PROVE  \A m \in rest : ~(m.op = GrantOp[k] /\ m.topid = h)
<1> SUFFICES ASSUME NEW m \in rest, m.op = GrantOp[k], m.topid = h PROVE FALSE
  OBVIOUS
<1>1. Req(h).op = GrantOp[k] /\ Req(h).topid = h /\ Route(Req(h)) /\ Says(Req(h))
  BY HandledType
<1>2. m \in Message /\ Route(m) /\ Says(m)
  BY TransitTypes DEF RInv, Contents
<1>3. m.frompid = Req(h).frompid
  <2>1. CASE k = "waitcv"
    BY <1>1, <1>2, <2>1, OpsDiffer DEF Route, Says
  <2>2. CASE k # "waitcv"
    BY <1>1, <1>2, <2>2, OpsDiffer DEF Route, Flags
  <2> QED BY <2>1, <2>2
<1> QED BY <1>1, <1>3, OpsDiffer DEF Twins

\* The only request of a host's call is the one being handled.
LEMMA RequestAlone ==
    ASSUME RInv, NEW h \in Host, NEW k \in Flags, Handles(h, RequestOp[k]), NEW rest,
           rest \subseteq InTransit, \A m \in rest : ~Twins(Req(h), m)
    PROVE  \A m \in rest : ~(m.op = RequestOp[k] /\ m.frompid = Req(h).frompid)
<1> SUFFICES ASSUME NEW m \in rest, m.op = RequestOp[k], m.frompid = Req(h).frompid PROVE FALSE
  OBVIOUS
<1>1. Req(h).op = RequestOp[k] /\ Req(h).topid = h /\ Route(Req(h)) /\ Says(Req(h))
  BY HandledType
<1>2. m \in Message /\ Route(m) /\ Says(m)
  BY TransitTypes DEF RInv, Contents
<1>3. m.topid = Req(h).topid
  <2>1. CASE k = "waitcv"
    BY <1>1, <1>2, <2>1, OpsDiffer DEF Route, Says
  <2>2. CASE k # "waitcv"
    BY <1>1, <1>2, <2>2, OpsDiffer DEF Route, Flags
  <2> QED BY <2>1, <2>2
<1> QED BY <1>1, <1>3, OpsDiffer DEF Twins

\* An answer clears the flag of the call that waits for it.
LEMMA ClearTurns ==
    ASSUME RInv, NEW h \in Host, NEW k \in Flags, Handles(h, GrantOp[k]), Clear(h, k),
           UNCHANGED <<mainVars, outq>>
    PROVE  /\ NetInv' /\ Turns' /\ InCalls' /\ InTransit' \subseteq InTransit
           /\ Waits(h, k) /\ Granted(h, k) /\ ~Asked(h, k)
           /\ ~Waits(h, k)' /\ ~Granted(h, k)' /\ ~Asked(h, k)' /\ pc[h] = k /\ ~flag'[h][k]
           /\ \A g \in Host, l \in Flags : (g # h \/ l # k) => SameCall(g, l) /\ flag'[g][l] = flag[g][l]
           /\ flag' \in [Host -> [Flags -> BOOLEAN]]
<1>1. /\ Req(h) \in InTransit /\ Req(h).op = GrantOp[k] /\ Req(h).topid = h /\ pc[h] # "ended"
      /\ Taken(h)
  BY HandledType
<1>2. /\ NetInv' /\ InTransit = InTransit' \cup {Req(h)}
      /\ \A m \in InTransit' : ~Twins(Req(h), m)
  BY <1>1, ServerTakes DEF RInv
<1>3. flag \in [Host -> [Flags -> BOOLEAN]] /\ flag' = [flag EXCEPT ![h][k] = FALSE]
  BY DEF RInv, TypeInv, Clear
<1>4. /\ flag' \in [Host -> [Flags -> BOOLEAN]] /\ ~flag'[h][k]
      /\ \A g \in Host, l \in Flags : (g # h \/ l # k) => flag'[g][l] = flag[g][l]
  BY <1>3
<1>5. Granted(h, k)
  BY <1>1 DEF Granted
<1>6. Waits(h, k) /\ ~Asked(h, k)
  BY <1>1, <1>5 DEF RInv, Turns, Turn, Gone
<1>7. ~Granted(h, k)'
  <2>1. \A m \in InTransit' : ~(m.op = GrantOp[k] /\ m.topid = h)
    BY <1>2, AnswerAlone
  <2> QED BY <2>1 DEF Granted
<1>8. \A g \in Host, l \in Flags : Asked(g, l)' <=> Asked(g, l)
  BY <1>1, <1>2, OpsDiffer DEF Asked
<1>9. ~Waits(h, k)' /\ pc[h] = k
  BY <1>4, <1>6 DEF Waits
<1>10. ASSUME NEW g \in Host, NEW l \in Flags, g # h \/ l # k PROVE SameCall(g, l)
  <2>1. Granted(g, l)' <=> Granted(g, l)
    <3>1. Req(h).op # GrantOp[l] \/ Req(h).topid # g
      BY <1>1, <1>10, OpsDiffer
    <3> QED BY <1>2, <3>1 DEF Granted
  <2>2. Waits(g, l)' <=> Waits(g, l)
    BY <1>4, <1>10 DEF Waits, mainVars
  <2> QED BY <1>8, <2>1, <2>2 DEF SameCall, SameMessages
<1>11. ASSUME NEW g \in Host, NEW l \in Flags PROVE Turn(g, l)'
  <2>1. CASE g = h /\ l = k
    BY <1>6, <1>7, <1>8, <2>1 DEF Turn
  <2>2. CASE g # h \/ l # k
    <3>1. Gone(g, l) => Gone(g, l)'
      BY DEF Gone, mainVars
    <3> QED BY <1>10, <2>2, <3>1 DEF RInv, Turns, Turn, SameCall, SameMessages
  <2> QED BY <2>1, <2>2
<1>12. InCalls' /\ Turns'
  BY <1>11 DEF RInv, InCalls, CallOf, mainVars, Turns
<1> QED BY <1>2, <1>4, <1>5, <1>6, <1>7, <1>8, <1>9, <1>10, <1>12

\* Handlers leave the application threads where they are.
LEMMA ServerSteady == ASSUME UNCHANGED mainVars PROVE Steady
BY DEF mainVars, Steady, Leaving

\* waitgrantserver: the host that is released was not counted any more.
LEMMA WaitgrantStep == ASSUME RInv, NEW h \in Host, waitgrantserver(h) PROVE RInv' /\ SameDue
<1>1. /\ Handles(h, GrantOp["wait"]) /\ Clear(h, "wait") /\ "wait" \in Flags
      /\ UNCHANGED <<mainVars, masterVars, power, condvars, outq>>
  BY OpsDiffer DEF waitgrantserver, Flags
<1>2. /\ NetInv' /\ Turns' /\ InCalls' /\ InTransit' \subseteq InTransit
      /\ Granted(h, "wait") /\ ~Waits(h, "wait")' /\ ~flag'[h]["wait"] /\ pc[h] = "wait"
      /\ \A g \in Host, l \in Flags :
            (g # h \/ l # "wait") => SameCall(g, l) /\ flag'[g][l] = flag[g][l]
      /\ flag' \in [Host -> [Flags -> BOOLEAN]]
  BY <1>1, ClearTurns
<1>3. TypeInv' /\ Steady
  BY <1>1, <1>2, ServerSteady DEF RInv, TypeInv, mainVars, masterVars
<1>4. Contents'
  BY <1>1, <1>2, <1>3, SaysFrame DEF RInv, Contents
<1>5. SameCalls("load") /\ SameCalls("exit") /\ SameCalls("waitcv")
  BY <1>2 DEF SameCalls, Flags
<1>6. WaitInv'
  <2>1. Counted("wait")' = Counted("wait")
    BY <1>1, <1>2 DEF Counted, SameCall, SameMessages
  <2> QED BY <1>1, <2>1 DEF RInv, WaitInv, mainVars, masterVars
<1>7. LoadInv'
  BY <1>1, <1>3, <1>5, LoadFrame DEF RInv, mainVars, masterVars
<1>8. StatInv'
  BY <1>1, <1>2, <1>3, <1>5, StatFrame DEF RInv, mainVars, masterVars, Leaving, Flags
<1>9. CvInv'
  BY <1>1, <1>3, <1>5, CvFrame DEF RInv
<1>10. SameDue
  <2>1. Through(h) /\ Through(h)'
    BY <1>1, <1>2 DEF Through, mainVars
  <2>2. \A g \in Host \ {h} : Through(g)' <=> Through(g)
    BY <1>1, <1>2 DEF Through, SameCall, SameMessages, mainVars
  <2> QED BY <1>1, <2>1, <2>2 DEF SameDue, Due, CallsLeft, mainVars
<1> QED BY <1>2, <1>3, <1>4, <1>6, <1>7, <1>8, <1>9, <1>10 DEF RInv

\* loadgrantserver: the powers are those of the master.
LEMMA LoadgrantStep == ASSUME RInv, NEW h \in Host, loadgrantserver(h) PROVE RInv' /\ SameDue
<1>1. /\ Handles(h, GrantOp["load"]) /\ Clear(h, "load") /\ "load" \in Flags
      /\ power' = [power EXCEPT ![h] = Req(h).power]
      /\ UNCHANGED <<mainVars, masterVars, condvars, outq>>
  BY OpsDiffer DEF loadgrantserver, Flags
<1>2. /\ NetInv' /\ Turns' /\ InCalls' /\ InTransit' \subseteq InTransit
      /\ Granted(h, "load") /\ ~Waits(h, "load")' /\ ~Granted(h, "load")' /\ pc[h] = "load"
      /\ \A g \in Host, l \in Flags :
            (g # h \/ l # "load") => SameCall(g, l) /\ flag'[g][l] = flag[g][l]
      /\ flag' \in [Host -> [Flags -> BOOLEAN]]
  BY <1>1, ClearTurns
<1>3. Req(h).power = power[Master] /\ Req(h).power \in [Host -> Nat]
  BY <1>1, HandledType, MessageTypes, OpsDiffer DEF Says
<1>4. /\ power' \in [Host -> [Host -> Nat]] /\ power'[h] = power[Master] /\ power'[Master] = power[Master]
      /\ \A g \in Host \ {h} : power'[g] = power[g]
  <2>1. power \in [Host -> [Host -> Nat]]
    BY DEF RInv, TypeInv
  <2> QED BY <1>1, <1>3, <2>1, HostFacts
<1>5. TypeInv' /\ Steady
  BY <1>1, <1>2, <1>4, ServerSteady DEF RInv, TypeInv, mainVars, masterVars
<1>6. Contents'
  BY <1>2, <1>4, <1>5, SaysFrame DEF RInv, Contents
<1>7. SameCalls("wait") /\ SameCalls("exit") /\ SameCalls("waitcv")
  BY <1>2 DEF SameCalls, Flags
<1>8. LoadInv'
  <2>1. Counted("load")' = Counted("load")
    BY <1>1, <1>2 DEF Counted, SameCall, SameMessages
  <2>2. Rounds(h)' = Rounds(h)
    BY <1>1, <1>2 DEF Rounds, mainVars
  <2>3. \A g \in Host \ {h} : Rounds(g)' = Rounds(g) /\ (Granted(g, "load")' <=> Granted(g, "load"))
    BY <1>1, <1>2 DEF Rounds, SameCall, SameMessages, mainVars
  <2>4. \A g \in Host : Leaving(g)' <=> Leaving(g)
    BY <1>1 DEF Leaving, mainVars
  <2>5. \A g \in Host : Granted(g, "load")' \/ power'[g] = power[Master]
    BY <1>4, <2>3 DEF RInv, LoadInv
  <2>6. \A f, g \in Host : ~Leaving(f)' /\ ~Leaving(g)' => Rounds(f)' = Rounds(g)'
    BY <2>2, <2>3, <2>4 DEF RInv, LoadInv
  <2> QED BY <1>1, <1>4, <2>1, <2>5, <2>6 DEF RInv, LoadInv, mainVars, masterVars
<1>9. WaitInv'
  BY <1>1, <1>5, <1>7, WaitFrame DEF RInv, masterVars
<1>10. StatInv'
  BY <1>1, <1>2, <1>5, <1>7, StatFrame DEF RInv, mainVars, masterVars, Leaving, Flags
<1>11. CvInv'
  BY <1>1, <1>5, <1>7, CvFrame DEF RInv
<1>12. SameDue
  BY <1>1, <1>7, DueFrame DEF CallsLeft, mainVars
<1> QED BY <1>2, <1>5, <1>6, <1>8, <1>9, <1>10, <1>11, <1>12 DEF RInv

\* statgrantserver: an answer means that all have reported.
LEMMA StatgrantStep == ASSUME RInv, NEW h \in Host, statgrantserver(h) PROVE RInv' /\ SameDue
<1>1. /\ Handles(h, GrantOp["exit"]) /\ Clear(h, "exit") /\ "exit" \in Flags
      /\ UNCHANGED <<mainVars, masterVars, power, condvars, outq>>
  BY OpsDiffer DEF statgrantserver, Flags
<1>2. /\ NetInv' /\ Turns' /\ InCalls' /\ InTransit' \subseteq InTransit
      /\ Granted(h, "exit") /\ ~Waits(h, "exit")' /\ ~Asked(h, "exit") /\ ~Asked(h, "exit")'
      /\ \A g \in Host, l \in Flags :
            (g # h \/ l # "exit") => SameCall(g, l) /\ flag'[g][l] = flag[g][l]
      /\ flag' \in [Host -> [Flags -> BOOLEAN]]
  BY <1>1, ClearTurns
<1>3. TypeInv' /\ Steady
  BY <1>1, <1>2, ServerSteady DEF RInv, TypeInv, mainVars, masterVars
<1>4. Contents'
  BY <1>1, <1>2, <1>3, SaysFrame DEF RInv, Contents
<1>5. SameCalls("wait") /\ SameCalls("load") /\ SameCalls("waitcv")
  BY <1>2 DEF SameCalls, Flags
<1>6. StatInv'
  <2>1. Reported = Host
    BY <1>2 DEF RInv, StatInv
  <2>2. Reported' = Reported
    BY <1>1, <1>2 DEF Reported, Leaving, SameCall, SameMessages, mainVars
  <2>3. \A g \in Host : Waits(g, "exit")' => Granted(g, "exit")'
    BY <1>1, <1>2, <2>1 DEF RInv, StatInv, SameCall, SameMessages
  <2> QED BY <1>1, <2>1, <2>2, <2>3 DEF RInv, StatInv, mainVars, masterVars
<1>7. WaitInv'
  BY <1>1, <1>3, <1>5, WaitFrame DEF RInv, masterVars
<1>8. LoadInv'
  BY <1>1, <1>3, <1>5, LoadFrame DEF RInv, mainVars, masterVars
<1>9. CvInv'
  BY <1>1, <1>3, <1>5, CvFrame DEF RInv
<1>10. SameDue
  BY <1>1, <1>5, DueFrame DEF CallsLeft, mainVars
<1> QED BY <1>2, <1>3, <1>4, <1>6, <1>7, <1>8, <1>9, <1>10 DEF RInv

\* cvgrantserver: a host that is released is in no list any more.
LEMMA CvgrantStep == ASSUME RInv, NEW h \in Host, cvgrantserver(h) PROVE RInv' /\ SameDue
<1>1. /\ Handles(h, GrantOp["waitcv"]) /\ Clear(h, "waitcv") /\ "waitcv" \in Flags
      /\ UNCHANGED <<mainVars, masterVars, power, condvars, outq>>
  BY OpsDiffer DEF cvgrantserver, Flags
<1>2. /\ NetInv' /\ Turns' /\ InCalls' /\ InTransit' \subseteq InTransit /\ Granted(h, "waitcv")
      /\ \A g \in Host, l \in Flags :
            (g # h \/ l # "waitcv") => SameCall(g, l) /\ flag'[g][l] = flag[g][l]
      /\ flag' \in [Host -> [Flags -> BOOLEAN]]
  BY <1>1, ClearTurns
<1>3. TypeInv' /\ Steady
  BY <1>1, <1>2, ServerSteady DEF RInv, TypeInv, mainVars, masterVars
<1>4. Contents'
  BY <1>1, <1>2, <1>3, SaysFrame DEF RInv, Contents
<1>5. SameCalls("wait") /\ SameCalls("load") /\ SameCalls("exit")
  BY <1>2 DEF SameCalls, Flags
<1>6. CvInv'
  <2>1. ASSUME NEW d \in Cvs, NEW g \in Host, Queues(g, d) PROVE Queues(g, d)'
    <3>1. g # h
      BY <1>2, <2>1 DEF Queues
    <3> QED BY <1>1, <1>2, <2>1, <3>1 DEF Queues, SameCall, SameMessages, CallOf, mainVars
  <2>2. \A d \in Cvs : \A i \in 1 .. Len(condvars[d].waits) : condvars[d].waits[i] \in Host
    BY DEF RInv, TypeInv, CondVar
  <2> QED BY <1>1, <2>1, <2>2 DEF RInv, CvInv
<1>7. WaitInv'
  BY <1>1, <1>3, <1>5, WaitFrame DEF RInv, masterVars
<1>8. LoadInv'
  BY <1>1, <1>3, <1>5, LoadFrame DEF RInv, mainVars, masterVars
<1>9. StatInv'
  BY <1>1, <1>2, <1>3, <1>5, StatFrame DEF RInv, mainVars, masterVars, Leaving, Flags
<1>10. SameDue
  BY <1>1, <1>5, DueFrame DEF CallsLeft, mainVars
<1> QED BY <1>2, <1>3, <1>4, <1>6, <1>7, <1>8, <1>9, <1>10 DEF RInv

-----------------------------------------------------------------------------
(***************************************************************************)
(* The managers.                                                           *)
(***************************************************************************)
Answered(msgs) == {n.topid : n \in Elements(msgs)}

\* Nothing is sent, or msgs are.
Sends(h, msgs) == Send(h, msgs) \/ (UNCHANGED outq /\ msgs = <<>>)

\* A handler that answers call k of some hosts, each of which waits for it.
Answers(h, k, msgs) ==
    /\ Sendable(h, msgs) /\ Sends(h, msgs)
    /\ \A n \in Elements(msgs) : /\ n.op = GrantOp[k] /\ n.topid \in Host
                                 /\ Waits(n.topid, k) \/ Gone(n.topid, k)

\* The messages after a handler's step.
LEMMA ServeNet ==
    ASSUME RInv, NEW h \in Host, Taken(h), NEW msgs, Sendable(h, msgs), Sends(h, msgs)
    PROVE  /\ NetInv'
           /\ \E rest : /\ InTransit = rest \cup {Req(h)}
                        /\ InTransit' = rest \cup Elements(msgs)
                        /\ \A m \in rest : ~Twins(Req(h), m)
<1>1. CASE Send(h, msgs)
  BY <1>1, ServerSends DEF RInv
<1>2. CASE UNCHANGED outq /\ msgs = <<>>
  <2>1. /\ NetInv' /\ InTransit = InTransit' \cup {Req(h)}
        /\ \A m \in InTransit' : ~Twins(Req(h), m)
    BY <1>2, ServerTakes DEF RInv
  <2>2. Elements(msgs) = {}
    BY <1>2 DEF Elements
  <2>3. PICK rest : rest = InTransit'
    OBVIOUS
  <2> QED BY <2>1, <2>2, <2>3
<1> QED BY <1>1, <1>2 DEF Sends

\* A handler leaves the calls it neither serves nor answers as they are.
LEMMA ServeTurns ==
    ASSUME RInv, NEW h \in Host, Taken(h), NEW k \in Flags, NEW msgs, Answers(h, k, msgs),
           UNCHANGED <<mainVars, flag>>, NEW rest,
           InTransit = rest \cup {Req(h)}, InTransit' = rest \cup Elements(msgs),
           \A l \in Flags : Req(h).op # GrantOp[l] /\ (l # k => Req(h).op # RequestOp[l])
    PROVE  /\ \A l \in Flags \ {k} : SameCalls(l)
           /\ \A g \in Host, l \in Flags : (Waits(g, l)' <=> Waits(g, l)) /\ (Gone(g, l)' <=> Gone(g, l))
           /\ \A g \in Host : Granted(g, k)' <=> Granted(g, k) \/ g \in Answered(msgs)
           /\ \A g \in Host : (g # Req(h).frompid \/ Req(h).op # RequestOp[k])
                                  => (Asked(g, k)' <=> Asked(g, k))
           /\ InCalls' /\ InTransit' \subseteq InTransit \cup Elements(msgs)
<1>1. \A g \in Host, l \in Flags : (Waits(g, l)' <=> Waits(g, l)) /\ (Gone(g, l)' <=> Gone(g, l))
  BY DEF Waits, Gone, mainVars
<1>2. \A n \in Elements(msgs) : n.op = GrantOp[k]
  BY DEF Answers
<1>3. ASSUME NEW l \in Flags \ {k}, NEW g \in Host PROVE SameCall(g, l)
  <2>1. \A n \in Elements(msgs) \cup {Req(h)} : n.op # RequestOp[l] /\ n.op # GrantOp[l]
    BY <1>2, OpsDiffer
  <2> QED BY <1>1, <2>1 DEF SameCall, SameMessages, Asked, Granted
<1>4. \A g \in Host : Granted(g, k)' <=> Granted(g, k) \/ g \in Answered(msgs)
  BY <1>2 DEF Granted, Answered
<1>5. \A n \in Elements(msgs) : n.op # RequestOp[k]
  BY <1>2, OpsDiffer
<1>6. \A g \in Host : (g # Req(h).frompid \/ Req(h).op # RequestOp[k]) => (Asked(g, k)' <=> Asked(g, k))
  BY <1>5 DEF Asked
<1>7. InCalls'
  BY DEF RInv, InCalls, CallOf, mainVars
<1> QED BY <1>1, <1>3, <1>4, <1>6, <1>7 DEF SameCalls

\* A request is served: it is no longer under way, its call neither was answered
\* before nor is another request of it under way.
LEMMA ServeRequest ==
    ASSUME RInv, NEW h \in Host, NEW k \in Flags, Handles(h, RequestOp[k]),
           NEW a \in Host, a = Req(h).frompid, NEW msgs, Answers(h, k, msgs), UNCHANGED <<mainVars, flag>>,
           \A g \in Answered(msgs) : Asked(g, k) => g = a
    PROVE  /\ NetInv' /\ InCalls' /\ Turns' /\ InTransit' \subseteq InTransit \cup Elements(msgs)
           /\ \A l \in Flags \ {k} : SameCalls(l)
           /\ \A g \in Host : Waits(g, k)' <=> Waits(g, k)
           /\ \A g \in Host : Granted(g, k)' <=> Granted(g, k) \/ g \in Answered(msgs)
           /\ \A g \in Host \ {a} : Asked(g, k)' <=> Asked(g, k)
           /\ ~Asked(a, k)'
<1>1. /\ Taken(h) /\ Req(h).op = RequestOp[k] /\ Req(h) \in InTransit
  BY HandledType
<1>2. PICK rest : /\ NetInv' /\ InTransit = rest \cup {Req(h)}
                  /\ InTransit' = rest \cup Elements(msgs)
                  /\ \A m \in rest : ~Twins(Req(h), m)
  BY <1>1, ServeNet DEF Answers
<1>3. \A l \in Flags : Req(h).op # GrantOp[l] /\ (l # k => Req(h).op # RequestOp[l])
  BY <1>1, OpsDiffer
<1>4. /\ \A l \in Flags \ {k} : SameCalls(l)
      /\ \A g \in Host, l \in Flags : (Waits(g, l)' <=> Waits(g, l)) /\ (Gone(g, l)' <=> Gone(g, l))
      /\ \A g \in Host : Granted(g, k)' <=> Granted(g, k) \/ g \in Answered(msgs)
      /\ \A g \in Host : (g # a \/ Req(h).op # RequestOp[k])
                             => (Asked(g, k)' <=> Asked(g, k))
      /\ InCalls' /\ InTransit' \subseteq InTransit \cup Elements(msgs)
  BY <1>1, <1>2, <1>3, ServeTurns
<1>5. ~Asked(a, k)'
  <2>1. \A m \in rest : ~(m.op = RequestOp[k] /\ m.frompid = a)
    BY <1>2, RequestAlone
  <2>2. \A m \in Elements(msgs) : m.op # RequestOp[k]
    BY OpsDiffer DEF Answers
  <2> QED BY <1>2, <2>1, <2>2 DEF Asked
<1>6. ASSUME NEW g \in Host, NEW l \in Flags PROVE Turn(g, l)'
  <2>1. CASE l # k
    BY <1>4, <2>1 DEF RInv, Turns, Turn, SameCalls, SameCall, SameMessages
  <2>2. CASE l = k
    <3>1. Asked(g, k)' => Asked(g, k) /\ g # a
      BY <1>1, <1>4, <1>5
    <3>2. Asked(g, k)' => g \notin Answered(msgs)
      BY <3>1
    <3>3. g \in Answered(msgs) => Waits(g, k) \/ Gone(g, k)
      BY DEF Answers, Answered
    <3> QED BY <1>4, <2>2, <3>1, <3>2, <3>3 DEF RInv, Turns, Turn
  <2> QED BY <2>1, <2>2
<1> QED BY <1>1, <1>2, <1>4, <1>5, <1>6 DEF Turns

\* setcvserver and resetcvserver serve no call, but may answer some.
LEMMA ServePost ==
    ASSUME RInv, NEW h \in Host, Taken(h), Req(h).op \in {"SETCV", "RESETCV"},
           NEW msgs, Answers(h, "waitcv", msgs), UNCHANGED <<mainVars, flag>>,
           \A g \in Answered(msgs) : ~Asked(g, "waitcv")
    PROVE  /\ NetInv' /\ InCalls' /\ Turns' /\ InTransit' \subseteq InTransit \cup Elements(msgs)
           /\ SameCalls("wait") /\ SameCalls("load") /\ SameCalls("exit")
           /\ \A g \in Host : /\ Waits(g, "waitcv")' <=> Waits(g, "waitcv")
                              /\ Asked(g, "waitcv")' <=> Asked(g, "waitcv")
                              /\ Granted(g, "waitcv")' <=> Granted(g, "waitcv") \/ g \in Answered(msgs)
<1>1. "waitcv" \in Flags
  BY DEF Flags
<1>2. PICK rest : /\ NetInv' /\ InTransit = rest \cup {Req(h)}
                  /\ InTransit' = rest \cup Elements(msgs)
  BY ServeNet DEF Answers
<1>3. \A l \in Flags : Req(h).op # GrantOp[l] /\ Req(h).op # RequestOp[l]
  BY OpsDiffer
<1>4. /\ \A l \in Flags \ {"waitcv"} : SameCalls(l)
      /\ \A g \in Host, l \in Flags : (Waits(g, l)' <=> Waits(g, l)) /\ (Gone(g, l)' <=> Gone(g, l))
      /\ \A g \in Host : Granted(g, "waitcv")' <=> Granted(g, "waitcv") \/ g \in Answered(msgs)
      /\ \A g \in Host : Asked(g, "waitcv")' <=> Asked(g, "waitcv")
      /\ InCalls' /\ InTransit' \subseteq InTransit \cup Elements(msgs)
  BY <1>1, <1>2, <1>3, ServeTurns
<1>5. ASSUME NEW g \in Host, NEW l \in Flags PROVE Turn(g, l)'
  <2>1. CASE l # "waitcv"
    BY <1>4, <2>1 DEF RInv, Turns, Turn, SameCalls, SameCall, SameMessages
  <2>2. CASE l = "waitcv"
    <3>1. g \in Answered(msgs) => Waits(g, "waitcv") \/ Gone(g, "waitcv")
      BY DEF Answers, Answered
    <3> QED BY <1>1, <1>4, <2>2, <3>1 DEF RInv, Turns, Turn
  <2> QED BY <2>1, <2>2
<1>6. SameCalls("wait") /\ SameCalls("load") /\ SameCalls("exit")
  BY <1>4 DEF Flags
<1> QED BY <1>1, <1>2, <1>4, <1>5, <1>6 DEF Turns

\* Answers that are so when they leave.
LEMMA AnswerContents ==
    ASSUME RInv, Steady, power'[Master] = power[Master] \/ \A g \in Host : ~Granted(g, "load"), NEW msgs,
           InTransit' \subseteq InTransit \cup Elements(msgs), \A n \in Elements(msgs) : Says(n)'
    PROVE  Contents'
<1>1. \A n \in InTransit : Says(n)'
  BY SaysFrame DEF RInv
<1> QED BY <1>1 DEF Contents

\* A message to another host is a message.
LEMMA ReaddressType ==
    ASSUME NEW m \in Message, NEW d \in Host
    PROVE  /\ [m EXCEPT !.topid = d] \in Message /\ [m EXCEPT !.topid = d].topid = d
           /\ [m EXCEPT !.topid = d].op = m.op /\ [m EXCEPT !.topid = d].frompid = m.frompid
           /\ m.op = "LOADGRANT" => [m EXCEPT !.topid = d].power = m.power
BY DEF Message

\* An order of all hosts, and the message m to all of them in that order.
Order(t) ==
    /\ \A i \in 1 .. HostC : t[i] \in Host
    /\ \A i, j \in 1 .. HostC : t[i] = t[j] => i = j
    /\ \A g \in Host : \E i \in 1 .. HostC : t[i] = g

Addressed(msgs, m, t) == msgs = [i \in 1 .. HostC |-> [m EXCEPT !.topid = t[i]]]

\* The master's answer to all hosts, in whatever order, if its own comes last
\* where that matters.
LEMMA AllAnswered ==
    ASSUME NEW k \in {"wait", "load", "exit"}, NEW m \in Message, m.op = GrantOp[k], m.frompid = Master,
           \A g \in Host : ~Granted(g, k),
           NEW t, Order(t), k = "exit" => t[HostC] = Master,
           NEW msgs, Addressed(msgs, m, t)
    PROVE  /\ Sendable(Master, msgs) /\ Answered(msgs) = Host
           /\ \A n \in Elements(msgs) : /\ n.op = GrantOp[k] /\ n.topid \in Host
                                        /\ k = "load" => n.power = m.power
<1>1. HostC \in Nat /\ HostC >= 1
  BY RendezvousAssumption
<1>2. \A i \in 1 .. HostC : /\ msgs[i] \in Message /\ msgs[i].topid = t[i] /\ t[i] \in Host
                            /\ msgs[i].op = GrantOp[k]
                            /\ msgs[i].frompid = Master /\ (k = "load" => msgs[i].power = m.power)
  <2> TAKE i \in 1 .. HostC
  <2>1. PICK d \in Host : d = t[i]
    BY DEF Order
  <2>2. msgs[i] = [m EXCEPT !.topid = d]
    BY <2>1 DEF Addressed
  <2>3. k = "load" => m.op = "LOADGRANT"
    BY OpsDiffer
  <2>4. /\ [m EXCEPT !.topid = d] \in Message /\ [m EXCEPT !.topid = d].topid = d
        /\ [m EXCEPT !.topid = d].op = m.op /\ [m EXCEPT !.topid = d].frompid = m.frompid
        /\ m.op = "LOADGRANT" => [m EXCEPT !.topid = d].power = m.power
    BY ReaddressType
  <2>5. msgs[i].topid = t[i] /\ t[i] \in Host /\ msgs[i] \in Message
    BY <2>1, <2>2, <2>4, Zenon
  <2>6. msgs[i].op = GrantOp[k] /\ msgs[i].frompid = Master /\ (k = "load" => msgs[i].power = m.power)
    BY <2>2, <2>3, <2>4, Zenon
  <2> QED BY <2>5, <2>6
<1>3. msgs \in Seq(Message) /\ Len(msgs) = HostC
  <2>1. msgs \in [1 .. HostC -> Message]
    BY <1>2 DEF Addressed
  <2> QED BY <1>1, <2>1
<1>4. Alone(msgs)
  <2>1. ASSUME NEW i \in 1 .. HostC, NEW j \in 1 .. HostC, i # j PROVE msgs[i].topid # msgs[j].topid
    <3>1. t[i] # t[j]
      BY <2>1 DEF Order
    <3> QED BY <1>2, <3>1
  <2> SUFFICES ASSUME NEW i \in 1 .. Len(msgs), NEW j \in 1 .. Len(msgs), i # j
               PROVE  ~Twins(msgs[i], msgs[j])
    BY Zenon DEF Alone
  <2>2. i \in 1 .. HostC /\ j \in 1 .. HostC
    BY <1>3, Zenon
  <2> QED BY <2>1, <2>2, Zenon DEF Twins
<1>5. MasterLast(msgs)
  <2> SUFFICES ASSUME NEW j \in 1 .. Len(msgs), msgs[j].op = "STATGRANT"
               PROVE  \E i \in 1 .. Len(msgs) : i >= j /\ msgs[i].op = "STATGRANT" /\ msgs[i].topid = Master
    BY DEF MasterLast
  <2>1. k = "exit" /\ GrantOp[k] = "STATGRANT"
    BY <1>2, <1>3, OpsDiffer
  <2>2. HostC \in 1 .. Len(msgs) /\ HostC >= j
    BY <1>1, <1>3
  <2> QED BY <1>2, <1>3, <2>1, <2>2
<1>6. \A n \in Elements(msgs) : \E i \in 1 .. HostC : n = msgs[i]
  BY <1>3 DEF Elements
<1>7. \A n \in Elements(msgs) : n.frompid = Master /\ Route(n) /\ \A x \in InTransit : ~Twins(x, n)
  <2>1. GrantOp[k] \in {"WAITGRANT", "LOADGRANT", "STATGRANT"}
    BY OpsDiffer
  <2> QED BY <1>2, <1>6, <2>1 DEF Route, Twins, Granted
<1>8. Answered(msgs) = Host
  <2>1. \A i \in 1 .. HostC : msgs[i] \in Elements(msgs)
    BY <1>3 DEF Elements
  <2>2. ASSUME NEW g \in Host PROVE g \in Answered(msgs)
    <3>1. PICK i \in 1 .. HostC : t[i] = g
      BY DEF Order
    <3>2. msgs[i] \in Elements(msgs) /\ msgs[i].topid = g
      BY <1>2, <2>1, <3>1
    <3> QED BY <3>2 DEF Answered
  <2>3. ASSUME NEW g \in Answered(msgs) PROVE g \in Host
    <3>1. PICK n \in Elements(msgs) : g = n.topid
      BY DEF Answered
    <3>2. PICK i \in 1 .. HostC : n = msgs[i]
      BY <1>6
    <3> QED BY <1>2, <3>1, <3>2
  <2> QED BY <2>2, <2>3
<1>9. Sendable(Master, msgs)
  BY <1>3, <1>4, <1>5, <1>7 DEF Sendable
<1> QED BY <1>2, <1>6, <1>8, <1>9

\* A request to the master, and the host it is from.
LEMMA MasterRequest ==
    ASSUME RInv, NEW h \in Host, NEW k \in {"wait", "load", "exit"}, Handles(h, RequestOp[k])
    PROVE  /\ h = Master /\ pc[Master] # "ended" /\ Taken(h) /\ Says(Req(h)) /\ Req(h) \in Message
           /\ Req(h).op = RequestOp[k]
           /\ \E a \in Host : /\ a = Req(h).frompid /\ Asked(a, k) /\ ~Granted(a, k)
                              /\ Waits(a, k) \/ Gone(a, k)
<1>1. /\ Taken(h) /\ pc[h] # "ended" /\ Req(h).op = RequestOp[k] /\ Req(h) \in Message
      /\ Req(h) \in InTransit /\ Says(Req(h)) /\ Route(Req(h)) /\ Req(h).topid = h
      /\ Req(h).frompid \in Host
  BY HandledType
<1>2. h = Master
  BY <1>1, OpsDiffer DEF Route
<1>3. PICK a \in Host : a = Req(h).frompid
  BY <1>1
<1>4. Asked(a, k) /\ k \in Flags
  BY <1>1, <1>3 DEF Asked, Flags
<1>5. ~Granted(a, k) /\ (Waits(a, k) \/ Gone(a, k))
  BY <1>4 DEF RInv, Turns, Turn
<1> QED BY <1>1, <1>2, <1>3, <1>4, <1>5

\* A request is served and not answered yet.
LEMMA ServeLater ==
    ASSUME RInv, NEW h \in Host, NEW k \in Flags, Handles(h, RequestOp[k]),
           NEW a \in Host, a = Req(h).frompid, UNCHANGED <<mainVars, flag, outq>>
    PROVE  /\ NetInv' /\ InCalls' /\ Turns' /\ InTransit' \subseteq InTransit
           /\ \A l \in Flags \ {k} : SameCalls(l)
           /\ \A g \in Host : Waits(g, k)' <=> Waits(g, k)
           /\ \A g \in Host : Granted(g, k)' <=> Granted(g, k)
           /\ \A g \in Host \ {a} : Asked(g, k)' <=> Asked(g, k)
           /\ ~Asked(a, k)'
<1>1. PICK msgs : msgs = <<>>
  OBVIOUS
<1>2. Elements(msgs) = {} /\ msgs \in Seq(Message) /\ Alone(msgs) /\ MasterLast(msgs)
  BY <1>1 DEF Elements, Alone, MasterLast
<1>3. Answers(h, k, msgs) /\ Answered(msgs) = {}
  BY <1>1, <1>2 DEF Answers, Answered, Sendable, Sends
<1> QED BY <1>2, <1>3, ServeRequest

\* The master serves the last request of a round and answers all hosts.
LEMMA MasterAnswers ==
    ASSUME RInv, NEW h \in Host, NEW k \in {"wait", "load", "exit"}, Handles(h, RequestOp[k]),
           NEW a \in Host, a = Req(h).frompid, UNCHANGED <<mainVars, flag>>,
           NEW msgs, Sendable(h, msgs), Answered(msgs) = Host,
           \A n \in Elements(msgs) : n.op = GrantOp[k] /\ n.topid \in Host, Send(h, msgs),
           \A g \in Host : /\ Waits(g, k) \/ Gone(g, k)
                           /\ ~Granted(g, k) /\ (Asked(g, k) => g = a)
    PROVE  /\ NetInv' /\ InCalls' /\ Turns' /\ InTransit' \subseteq InTransit \cup Elements(msgs)
           /\ \A l \in Flags \ {k} : SameCalls(l)
           /\ \A g \in Host : Waits(g, k)' <=> Waits(g, k)
           /\ \A g \in Host : Granted(g, k)' /\ ~Asked(g, k)'
<1>1. k \in Flags
  BY DEF Flags
<1>2. Answers(h, k, msgs)
  BY DEF Answers, Sends
<1>3. \A g \in Answered(msgs) : Asked(g, k) => g = a
  OBVIOUS
<1>4. /\ NetInv' /\ InCalls' /\ Turns' /\ InTransit' \subseteq InTransit \cup Elements(msgs)
      /\ \A l \in Flags \ {k} : SameCalls(l)
      /\ \A g \in Host : Waits(g, k)' <=> Waits(g, k)
      /\ \A g \in Host : Granted(g, k)' <=> Granted(g, k) \/ g \in Answered(msgs)
      /\ \A g \in Host \ {a} : Asked(g, k)' <=> Asked(g, k)
      /\ ~Asked(a, k)'
  BY <1>1, <1>2, <1>3, ServeRequest
<1> QED BY <1>4

\* broadcast reaches all hosts.
LEMMA BroadcastOrder ==
    \E t : Order(t) /\ \A m : Addressed(Broadcast(m), m, t)
<1>1. HostC \in Nat /\ HostC > 1
  BY RendezvousAssumption
<1>2. PICK t : t = [i \in 1 .. HostC |-> i - 1]
  OBVIOUS
<1>3. \A i \in 1 .. HostC : t[i] = i - 1
  BY <1>2
<1>4. /\ \A i \in 1 .. HostC : t[i] \in Host
      /\ \A i, j \in 1 .. HostC : t[i] = t[j] => i = j
  BY <1>1, <1>3 DEF Host
<1>5. \A g \in Host : g + 1 \in 1 .. HostC /\ t[g + 1] = g
  BY <1>1, <1>3 DEF Host
<1>6. \A m : Addressed(Broadcast(m), m, t)
  BY <1>3 DEF Broadcast, Addressed
<1> QED BY <1>4, <1>5, <1>6 DEF Order

\* The answers of statserver: all hosts, the master last.
LEMMA AnswerStatOrder ==
    \E t : Order(t) /\ t[HostC] = Master /\ \A m : Addressed(AnswerStat(m), m, t)
<1>1. HostC \in Nat /\ HostC > 1
  BY RendezvousAssumption
<1>2. PICK t : t = [i \in 1 .. HostC |-> HostC - i]
  OBVIOUS
<1>3. \A i \in 1 .. HostC : t[i] = HostC - i
  BY <1>2
<1>4. /\ \A i \in 1 .. HostC : t[i] \in Host
      /\ \A i, j \in 1 .. HostC : t[i] = t[j] => i = j
  BY <1>1, <1>3 DEF Host
<1>5. \A g \in Host : HostC - g \in 1 .. HostC /\ t[HostC - g] = g
  BY <1>1, <1>3 DEF Host
<1>6. t[HostC] = Master
  BY <1>1, <1>3 DEF Master
<1>7. \A m : Addressed(AnswerStat(m), m, t)
  BY <1>3 DEF AnswerStat, Addressed
<1> QED BY <1>4, <1>5, <1>6, <1>7 DEF Order

\* One host more is counted; when all are, they are all the hosts.
LEMMA NextCounted ==
    ASSUME NEW S \in SUBSET Host, NEW a \in Host, a \notin S
    PROVE  /\ Cardinality(S) \in Nat /\ Cardinality(S \cup {a}) = Cardinality(S) + 1
           /\ Cardinality(S) + 1 = HostC <=> S \cup {a} = Host
           /\ Cardinality({}) = 0
<1>1. IsFiniteSet(Host) /\ Cardinality(Host) = HostC
  BY HostFacts
<1>2. IsFiniteSet(S) /\ Cardinality(S) \in Nat
  BY <1>1, FS_Subset, FS_CardinalityType
<1>3. Cardinality(S \cup {a}) = Cardinality(S) + 1
  BY <1>2, FS_AddElement
<1>4. S \cup {a} \subseteq Host
  OBVIOUS
<1>5. Cardinality(S \cup {a}) = HostC => S \cup {a} = Host
  BY <1>1, <1>4, FS_Subset
<1> QED BY <1>1, <1>2, <1>3, <1>5, FS_EmptySet

\* waitserver: the last request finds all other hosts waiting.
LEMMA WaitserverStep ==
    ASSUME RInv, NEW h \in Host, waitserver(h)
    PROVE  RInv' /\ (Even => Even')
<1>1. /\ Handles(h, RequestOp["wait"]) /\ "wait" \in Flags /\ "wait" \in {"wait", "load", "exit"}
      /\ UNCHANGED <<mainVars, flag, loadcnt, statcnt, times, allstats, power, condvars>>
  BY OpsDiffer DEF waitserver, Flags
<1>2. h = Master /\ pc[Master] # "ended" /\ Taken(h)
  BY <1>1, MasterRequest
<1>3. PICK a \in Host : a = Req(h).frompid /\ Asked(a, "wait") /\ ~Granted(a, "wait") /\ Waits(a, "wait")
  BY <1>1, MasterRequest DEF Gone
<1>4. PICK S \in SUBSET Host : S = Counted("wait") /\ a \notin S
  <2>1. Counted("wait") \in SUBSET Host /\ a \notin Counted("wait")
    BY <1>3 DEF Counted
  <2> QED BY <2>1, Zenon
<1>5. /\ waitcounter = Cardinality(S) /\ waitcounter \in Nat
      /\ Cardinality(S \cup {a}) = waitcounter + 1
      /\ waitcounter + 1 = HostC <=> S \cup {a} = Host
      /\ Cardinality({}) = 0
  BY <1>2, <1>4, NextCounted DEF RInv, WaitInv
<1>6. Steady /\ power'[Master] = power[Master]
  BY <1>1, ServerSteady
<1>7. CASE waitcounter + 1 = HostC
  <2>1. waitcounter' = 0 /\ Send(h, Broadcast([op |-> "WAITGRANT", frompid |-> h, topid |-> h]))
    BY <1>7 DEF waitserver, AllHere
  <2>2. PICK m \in Message : m = [op |-> "WAITGRANT", frompid |-> h, topid |-> h]
    BY DEF Message
  <2>3. m.op = GrantOp["wait"] /\ m.frompid = Master
    BY <1>2, <2>2, OpsDiffer
  <2>4. PICK msgs : msgs = Broadcast(m)
    OBVIOUS
  <2>5. \A g \in Host : Waits(g, "wait") /\ ~Granted(g, "wait") /\ (Asked(g, "wait") => g = a)
    BY <1>3, <1>4, <1>5, <1>7 DEF Counted
  <2>6. /\ Sendable(Master, msgs) /\ Answered(msgs) = Host
        /\ \A n \in Elements(msgs) : n.op = GrantOp["wait"] /\ n.topid \in Host
    <3>1. PICK t : Order(t) /\ Addressed(msgs, m, t)
      BY <2>4, BroadcastOrder
    <3>2. "wait" = "exit" => t[HostC] = Master
      OBVIOUS
    <3> QED BY <1>1, <2>3, <2>5, <3>1, <3>2, AllAnswered
  <2>7. /\ NetInv' /\ InCalls' /\ Turns' /\ InTransit' \subseteq InTransit \cup Elements(msgs)
        /\ \A l \in Flags \ {"wait"} : SameCalls(l)
        /\ \A g \in Host : Waits(g, "wait")' <=> Waits(g, "wait")
        /\ \A g \in Host : Granted(g, "wait")' /\ ~Asked(g, "wait")'
    BY <1>1, <1>2, <1>3, <2>1, <2>2, <2>4, <2>5, <2>6, MasterAnswers
  <2>8. TypeInv'
    BY <1>1, <2>1 DEF RInv, TypeInv, mainVars
  <2>9. WaitInv'
    <3>1. Counted("wait")' = {}
      BY <2>7 DEF Counted
    <3> QED BY <1>5, <2>1, <3>1 DEF WaitInv
  <2>10. SameCalls("load") /\ SameCalls("exit") /\ SameCalls("waitcv")
    BY <2>7 DEF Flags
  <2>11. Contents'
    <3>1. \A n \in Elements(msgs) : Says(n)'
      BY <2>6, OpsDiffer DEF Says
    <3> QED BY <1>6, <2>7, <3>1, AnswerContents
  <2>12. LoadInv' /\ CvInv'
    BY <1>1, <1>6, <2>10, LoadFrame, CvFrame DEF RInv, mainVars
  <2>13. StatInv'
    BY <1>1, <1>6, <2>10, StatFrame DEF RInv, mainVars, Leaving
  <2>14. Even => Even'
    <3>1. \A g \in Host : ~Through(g) /\ Through(g)'
      BY <1>1, <2>5, <2>7 DEF Through, Waits, mainVars
    <3>2. \A g \in Host : CallsLeft(g, "wait")' = CallsLeft(g, "wait") /\ CallsLeft(g, "wait") \in Nat
      BY <1>1, LeftType DEF RInv, CallsLeft, mainVars
    <3>3. \A g \in Host : Due(g)' = Due(g) - 1
      BY <3>1, <3>2 DEF Due
    <3> QED BY <3>3 DEF Even
  <2> QED BY <2>7, <2>8, <2>9, <2>11, <2>12, <2>13, <2>14 DEF RInv
<1>8. CASE waitcounter + 1 # HostC
  <2>1. waitcounter' = waitcounter + 1 /\ UNCHANGED outq
    BY <1>8 DEF waitserver, AllHere
  <2>2. /\ NetInv' /\ InCalls' /\ Turns' /\ InTransit' \subseteq InTransit
        /\ \A l \in Flags \ {"wait"} : SameCalls(l)
        /\ \A g \in Host : Waits(g, "wait")' <=> Waits(g, "wait")
        /\ \A g \in Host : Granted(g, "wait")' <=> Granted(g, "wait")
        /\ \A g \in Host \ {a} : Asked(g, "wait")' <=> Asked(g, "wait")
        /\ ~Asked(a, "wait")'
    BY <1>1, <1>3, <2>1, ServeLater
  <2>3. TypeInv'
    <3>1. waitcounter' \in Nat
      BY <1>5, <2>1
    <3> QED BY <1>1, <3>1 DEF RInv, TypeInv, mainVars
  <2>4. WaitInv'
    <3>1. Counted("wait")' = S \cup {a}
      BY <1>3, <1>4, <2>2 DEF Counted
    <3> QED BY <1>5, <2>1, <3>1 DEF WaitInv
  <2>5. SameCalls("load") /\ SameCalls("exit") /\ SameCalls("waitcv")
    BY <2>2 DEF Flags
  <2>6. Contents'
    BY <1>6, <2>2, SaysFrame DEF RInv, Contents
  <2>7. LoadInv' /\ CvInv'
    BY <1>1, <1>6, <2>5, LoadFrame, CvFrame DEF RInv, mainVars
  <2>8. StatInv'
    BY <1>1, <1>6, <2>5, StatFrame DEF RInv, mainVars, Leaving
  <2>9. Even => Even'
    <3>1. \A g \in Host : Through(g)' <=> Through(g)
      BY <1>1, <2>2 DEF Through, mainVars
    <3>2. \A g \in Host : Due(g)' = Due(g)
      BY <1>1, <3>1 DEF Due, CallsLeft, mainVars
    <3> QED BY <3>2 DEF Even
  <2> QED BY <2>2, <2>3, <2>4, <2>6, <2>7, <2>8, <2>9 DEF RInv
<1> QED BY <1>7, <1>8

\* loadserver: the powers come from the times of one round.
LEMMA LoadserverStep == ASSUME RInv, NEW h \in Host, loadserver(h) PROVE RInv' /\ SameDue
<1>1. /\ Handles(h, RequestOp["load"]) /\ "load" \in Flags /\ "load" \in {"wait", "load", "exit"}
      /\ times' = [times EXCEPT ![Req(h).frompid] = Req(h).time]
      /\ UNCHANGED <<mainVars, flag, waitcounter, statcnt, allstats, condvars>>
  BY OpsDiffer DEF loadserver, Flags
<1>2. /\ h = Master /\ pc[Master] # "ended" /\ Taken(h) /\ Says(Req(h)) /\ Req(h) \in Message
      /\ Req(h).op = "LOADREQ"
  BY <1>1, MasterRequest, OpsDiffer
<1>3. PICK a \in Host : a = Req(h).frompid /\ Asked(a, "load") /\ ~Granted(a, "load") /\ Waits(a, "load")
  BY <1>1, MasterRequest DEF Gone
<1>4. PICK S \in SUBSET Host : S = Counted("load") /\ a \notin S
  <2>1. Counted("load") \in SUBSET Host /\ a \notin Counted("load")
    BY <1>3 DEF Counted
  <2> QED BY <2>1, Zenon
<1>5. /\ loadcnt = Cardinality(S) /\ loadcnt \in Nat
      /\ Cardinality(S \cup {a}) = loadcnt + 1
      /\ loadcnt + 1 = HostC <=> S \cup {a} = Host
      /\ Cardinality({}) = 0
  <2>1. loadcnt = Cardinality(S)
    BY <1>2, <1>4 DEF RInv, LoadInv
  <2> QED BY <1>4, <2>1, NextCounted
<1>6. Steady
  BY <1>1, ServerSteady
<1>7. /\ times' \in [Host -> Nat] /\ times'[a] = calls[a]
      /\ \A g \in S : times'[g] = calls[g]
  <2>1. times \in [Host -> Nat] /\ calls \in [Host -> Nat]
    BY DEF RInv, TypeInv
  <2>2. Req(h).time = calls[a]
    BY <1>2, <1>3 DEF Says
  <2>3. times' = [times EXCEPT ![a] = calls[a]]
    BY <1>1, <1>3, <2>2
  <2>4. \A g \in S : times[g] = calls[g]
    BY <1>2, <1>4 DEF RInv, LoadInv
  <2> QED BY <1>4, <2>1, <2>3, <2>4
<1>8. CASE loadcnt + 1 = HostC
  <2>1. loadcnt' = 0
    BY <1>8 DEF loadserver, AllHere
  <2>2. PICK p : /\ p = power[Master] \/ p = times'
                 /\ power' = [power EXCEPT ![Master] = p]
                 /\ Send(h, Broadcast([op |-> "LOADGRANT", frompid |-> h, topid |-> h, power |-> p]))
    BY <1>2, <1>8 DEF loadserver, AllHere, jia_newload
  <2>3. power \in [Host -> [Host -> Nat]] /\ calls \in [Host -> Nat] /\ Master \in Host
    BY HostFacts DEF RInv, TypeInv
  <2>4. \A g \in Host : Waits(g, "load") /\ ~Granted(g, "load") /\ (Asked(g, "load") => g = a)
    BY <1>3, <1>4, <1>5, <1>8 DEF Counted
  <2>5. \A f, g \in Host : calls[f] = calls[g]
    <3>1. \A g \in Host : ~Leaving(g) /\ Rounds(g) = calls[g] - 1 /\ calls[g] \in Nat
      BY <2>3, <2>4 DEF Leaving, Waits, Rounds
    <3>2. \A f, g \in Host : calls[f] - 1 = calls[g] - 1
      BY <3>1 DEF RInv, LoadInv
    <3> QED BY <3>1, <3>2
  <2>6. p \in [Host -> Nat] /\ \A i, j \in Host : p[i] = p[j]
    <3>1. CASE p = power[Master]
      BY <2>3, <3>1 DEF RInv, LoadInv
    <3>2. CASE p = times'
      <4>1. \A g \in Host : times'[g] = calls[g]
        BY <1>5, <1>7, <1>8
      <4> QED BY <1>7, <2>5, <3>2, <4>1
    <3> QED BY <2>2, <3>1, <3>2
  <2>7. /\ power' \in [Host -> [Host -> Nat]] /\ power'[Master] = p
    BY <2>2, <2>3, <2>6
  <2>8. PICK m \in Message : m = [op |-> "LOADGRANT", frompid |-> h, topid |-> h, power |-> p]
    BY <2>6 DEF Message
  <2>9. m.op = GrantOp["load"] /\ m.frompid = Master /\ m.power = p
    BY <1>2, <2>8, OpsDiffer
  <2>10. PICK msgs : msgs = Broadcast(m) /\ Send(h, msgs)
    BY <2>2, <2>8
  <2>11. /\ Sendable(Master, msgs) /\ Answered(msgs) = Host
         /\ \A n \in Elements(msgs) : n.op = GrantOp["load"] /\ n.topid \in Host /\ n.power = m.power
    <3>1. PICK t : Order(t) /\ Addressed(msgs, m, t)
      BY <2>10, BroadcastOrder
    <3>2. "load" = "exit" => t[HostC] = Master
      OBVIOUS
    <3> QED BY <1>1, <2>4, <2>9, <3>1, <3>2, AllAnswered
  <2>12. /\ NetInv' /\ InCalls' /\ Turns' /\ InTransit' \subseteq InTransit \cup Elements(msgs)
         /\ \A l \in Flags \ {"load"} : SameCalls(l)
         /\ \A g \in Host : Waits(g, "load")' <=> Waits(g, "load")
         /\ \A g \in Host : Granted(g, "load")' /\ ~Asked(g, "load")'
    BY <1>1, <1>2, <1>3, <2>4, <2>10, <2>11, MasterAnswers
  <2>13. TypeInv'
    BY <1>1, <1>7, <2>1, <2>7 DEF RInv, TypeInv, mainVars
  <2>14. LoadInv'
    <3>1. Counted("load")' = {}
      BY <2>12 DEF Counted
    <3>2. \A g \in Host : Rounds(g)' = calls[g]
      BY <1>1, <2>3, <2>12 DEF Rounds, mainVars
    <3>3. \A f, g \in Host : Rounds(f)' = Rounds(g)'
      BY <2>5, <3>2
    <3>4. loadcnt' = Cardinality(Counted("load")')
      BY <1>5, <2>1, <3>1
    <3> QED BY <2>6, <2>7, <2>12, <3>1, <3>3, <3>4 DEF LoadInv
  <2>15. SameCalls("wait") /\ SameCalls("exit") /\ SameCalls("waitcv")
    BY <2>12 DEF Flags
  <2>16. Contents'
    <3>1. \A n \in Elements(msgs) : Says(n)'
      BY <2>7, <2>9, <2>11, OpsDiffer DEF Says
    <3> QED BY <1>6, <2>4, <2>12, <3>1, AnswerContents
  <2>17. WaitInv' /\ CvInv'
    BY <1>1, <1>6, <2>15, WaitFrame, CvFrame DEF RInv, mainVars
  <2>18. StatInv'
    BY <1>1, <1>6, <2>15, StatFrame DEF RInv, mainVars, Leaving
  <2>19. SameDue
    BY <1>1, <2>15, DueFrame DEF CallsLeft, mainVars
  <2> QED BY <2>12, <2>13, <2>14, <2>16, <2>17, <2>18, <2>19 DEF RInv
<1>9. CASE loadcnt + 1 # HostC
  <2>1. loadcnt' = loadcnt + 1 /\ UNCHANGED <<outq, power>>
    BY <1>9 DEF loadserver, AllHere
  <2>2. /\ NetInv' /\ InCalls' /\ Turns' /\ InTransit' \subseteq InTransit
        /\ \A l \in Flags \ {"load"} : SameCalls(l)
        /\ \A g \in Host : Waits(g, "load")' <=> Waits(g, "load")
        /\ \A g \in Host : Granted(g, "load")' <=> Granted(g, "load")
        /\ \A g \in Host \ {a} : Asked(g, "load")' <=> Asked(g, "load")
        /\ ~Asked(a, "load")'
    BY <1>1, <1>3, <2>1, ServeLater
  <2>3. TypeInv'
    <3>1. loadcnt' \in Nat
      BY <1>5, <2>1
    <3> QED BY <1>1, <1>7, <2>1, <3>1 DEF RInv, TypeInv, mainVars
  <2>4. LoadInv'
    <3>1. Counted("load")' = S \cup {a}
      BY <1>3, <1>4, <2>2 DEF Counted
    <3>2. \A g \in Host : Rounds(g)' = Rounds(g) /\ (Leaving(g)' <=> Leaving(g))
      BY <1>1, <2>2 DEF Rounds, Leaving, mainVars
    <3>3. \A g \in S \cup {a} : times'[g] = calls'[g]
      BY <1>1, <1>7 DEF mainVars
    <3> QED BY <1>5, <2>1, <2>2, <3>1, <3>2, <3>3 DEF RInv, LoadInv
  <2>5. SameCalls("wait") /\ SameCalls("exit") /\ SameCalls("waitcv")
    BY <2>2 DEF Flags
  <2>6. Contents'
    BY <1>6, <2>1, <2>2, SaysFrame DEF RInv, Contents
  <2>7. WaitInv' /\ CvInv'
    BY <1>1, <1>6, <2>5, WaitFrame, CvFrame DEF RInv, mainVars
  <2>8. StatInv'
    BY <1>1, <1>6, <2>5, StatFrame DEF RInv, mainVars, Leaving
  <2>9. SameDue
    BY <1>1, <2>5, DueFrame DEF CallsLeft, mainVars
  <2> QED BY <2>2, <2>3, <2>4, <2>6, <2>7, <2>8, <2>9 DEF RInv
<1> QED BY <1>8, <1>9

\* statserver: the master answers when it has the statistics of all hosts.
LEMMA StatserverStep == ASSUME RInv, NEW h \in Host, statserver(h) PROVE RInv' /\ SameDue
<1>1. /\ Handles(h, RequestOp["exit"]) /\ "exit" \in Flags /\ "exit" \in {"wait", "load", "exit"}
      /\ allstats' = [allstats EXCEPT ![Req(h).frompid] = Req(h).stat]
      /\ UNCHANGED <<mainVars, flag, waitcounter, loadcnt, times, power, condvars>>
  BY OpsDiffer DEF statserver, Flags
<1>2. /\ h = Master /\ pc[Master] # "ended" /\ Taken(h) /\ Says(Req(h)) /\ Req(h) \in Message
      /\ Req(h).op = "STAT"
  BY <1>1, MasterRequest, OpsDiffer
<1>3. PICK a \in Host : /\ a = Req(h).frompid /\ Asked(a, "exit") /\ ~Granted(a, "exit")
                        /\ Waits(a, "exit") \/ Gone(a, "exit")
  BY <1>1, MasterRequest
<1>4. PICK S \in SUBSET Host : S = Reported /\ a \notin S
  <2>1. Reported \in SUBSET Host /\ a \notin Reported
    BY <1>3 DEF Reported
  <2> QED BY <2>1, Zenon
<1>5. /\ S # Host /\ statcnt = Cardinality(S) /\ statcnt \in Nat
      /\ Cardinality(S \cup {a}) = statcnt + 1
      /\ statcnt + 1 = HostC <=> S \cup {a} = Host
  <2>1. S # Host
    BY <1>4
  <2>2. statcnt = Cardinality(S)
    BY <1>4, <2>1 DEF RInv, StatInv
  <2> QED BY <1>4, <2>1, <2>2, NextCounted
<1>6. Steady
  BY <1>1, ServerSteady
<1>7. allstats' \in [Host -> Nat] /\ \A g \in S \cup {a} : allstats'[g] = calls'[g]
  <2>1. allstats \in [Host -> Nat] /\ calls \in [Host -> Nat]
    BY DEF RInv, TypeInv
  <2>2. Req(h).stat = calls[a]
    BY <1>2, <1>3 DEF Says
  <2>3. allstats' = [allstats EXCEPT ![a] = calls[a]]
    BY <1>1, <1>3, <2>2
  <2>4. \A g \in S : allstats[g] = calls[g]
    BY <1>4 DEF RInv, StatInv
  <2>5. allstats' \in [Host -> Nat]
    BY <2>1, <2>3
  <2>6. \A g \in S \cup {a} : allstats'[g] = calls[g]
    BY <1>4, <2>1, <2>3, <2>4
  <2> QED BY <1>1, <2>5, <2>6 DEF mainVars
<1>8. \A g \in Host : /\ ~Granted(g, "exit") /\ ~(pc[g] = "exit" /\ ~flag[g]["exit"])
                      /\ (Leaving(g)' <=> Leaving(g))
  BY <1>1, <1>4, <1>5 DEF RInv, StatInv, Leaving, mainVars
<1>9. Leaving(a) /\ pc'[Master] # "ended"
  BY <1>1, <1>2, <1>3 DEF Leaving, Waits, Gone, mainVars
<1>10. CASE statcnt + 1 = HostC
  <2>1. statcnt' = 0 /\ Send(h, AnswerStat([op |-> "STATGRANT", frompid |-> h, topid |-> h]))
    BY <1>10 DEF statserver, AllHere
  <2>2. PICK m \in Message : m = [op |-> "STATGRANT", frompid |-> h, topid |-> h]
    BY DEF Message
  <2>3. m.op = GrantOp["exit"] /\ m.frompid = Master
    BY <1>2, <2>2, OpsDiffer
  <2>4. PICK msgs : msgs = AnswerStat(m) /\ Send(h, msgs)
    BY <2>1, <2>2
  <2>5. ASSUME NEW g \in Host
        PROVE  (Waits(g, "exit") \/ Gone(g, "exit")) /\ ~Granted(g, "exit") /\ (Asked(g, "exit") => g = a)
    <3>1. Leaving(g) /\ (Asked(g, "exit") => g = a)
      BY <1>4, <1>5, <1>9, <1>10 DEF Reported
    <3>2. pc[g] = "exit" => Waits(g, "exit")
      BY <1>8 DEF Waits
    <3>3. pc[g] = "ended" => Gone(g, "exit")
      BY <1>2 DEF Gone
    <3> QED BY <1>8, <3>1, <3>2, <3>3 DEF Leaving
  <2>6. /\ Sendable(Master, msgs) /\ Answered(msgs) = Host
        /\ \A n \in Elements(msgs) : n.op = GrantOp["exit"] /\ n.topid \in Host
    <3>1. PICK t : Order(t) /\ t[HostC] = Master /\ Addressed(msgs, m, t)
      BY <2>4, AnswerStatOrder
    <3> QED BY <1>1, <1>8, <2>3, <3>1, AllAnswered
  <2>7. /\ NetInv' /\ InCalls' /\ Turns' /\ InTransit' \subseteq InTransit \cup Elements(msgs)
        /\ \A l \in Flags \ {"exit"} : SameCalls(l)
        /\ \A g \in Host : Waits(g, "exit")' <=> Waits(g, "exit")
        /\ \A g \in Host : Granted(g, "exit")' /\ ~Asked(g, "exit")'
    BY <1>1, <1>2, <1>3, <2>4, <2>5, <2>6, MasterAnswers
  <2>8. TypeInv'
    BY <1>1, <1>7, <2>1 DEF RInv, TypeInv, mainVars
  <2>9. StatInv'
    <3>1. Reported' = Host
      BY <1>4, <1>5, <1>8, <1>9, <1>10, <2>7 DEF Reported
    <3>2. \A g \in Host : allstats'[g] = calls'[g]
      BY <1>5, <1>7, <1>10
    <3> QED BY <2>1, <2>7, <3>1, <3>2 DEF StatInv
  <2>10. SameCalls("wait") /\ SameCalls("load") /\ SameCalls("waitcv")
    BY <2>7 DEF Flags
  <2>11. Contents'
    <3>1. \A n \in Elements(msgs) : Says(n)'
      BY <2>6, OpsDiffer DEF Says
    <3> QED BY <1>1, <1>6, <2>7, <3>1, AnswerContents
  <2>12. WaitInv' /\ CvInv'
    BY <1>1, <1>6, <2>10, WaitFrame, CvFrame DEF RInv, mainVars
  <2>13. LoadInv'
    BY <1>1, <1>6, <2>10, LoadFrame DEF RInv, mainVars
  <2>14. SameDue
    BY <1>1, <2>10, DueFrame DEF CallsLeft, mainVars
  <2> QED BY <2>7, <2>8, <2>9, <2>11, <2>12, <2>13, <2>14 DEF RInv
<1>11. CASE statcnt + 1 # HostC
  <2>1. statcnt' = statcnt + 1 /\ UNCHANGED outq
    BY <1>11 DEF statserver, AllHere
  <2>2. /\ NetInv' /\ InCalls' /\ Turns' /\ InTransit' \subseteq InTransit
        /\ \A l \in Flags \ {"exit"} : SameCalls(l)
        /\ \A g \in Host : Waits(g, "exit")' <=> Waits(g, "exit")
        /\ \A g \in Host : Granted(g, "exit")' <=> Granted(g, "exit")
        /\ \A g \in Host \ {a} : Asked(g, "exit")' <=> Asked(g, "exit")
        /\ ~Asked(a, "exit")'
    BY <1>1, <1>3, <2>1, ServeLater
  <2>3. TypeInv'
    <3>1. statcnt' \in Nat
      BY <1>5, <2>1
    <3> QED BY <1>1, <1>7, <3>1 DEF RInv, TypeInv, mainVars
  <2>4. StatInv'
    <3>1. Reported' = S \cup {a} /\ S \cup {a} # Host
      BY <1>4, <1>5, <1>8, <1>9, <1>11, <2>2 DEF Reported
    <3>2. \A g \in Host : ~Granted(g, "exit")' /\ ~(pc'[g] = "exit" /\ ~flag'[g]["exit"])
      BY <1>1, <1>8, <2>2 DEF mainVars
    <3> QED BY <1>5, <1>7, <1>9, <2>1, <3>1, <3>2 DEF StatInv
  <2>5. SameCalls("wait") /\ SameCalls("load") /\ SameCalls("waitcv")
    BY <2>2 DEF Flags
  <2>6. Contents'
    BY <1>1, <1>6, <2>2, SaysFrame DEF RInv, Contents
  <2>7. WaitInv' /\ CvInv'
    BY <1>1, <1>6, <2>5, WaitFrame, CvFrame DEF RInv, mainVars
  <2>8. LoadInv'
    BY <1>1, <1>6, <2>5, LoadFrame DEF RInv, mainVars
  <2>9. SameDue
    BY <1>1, <2>5, DueFrame DEF CallsLeft, mainVars
  <2> QED BY <2>2, <2>3, <2>4, <2>6, <2>7, <2>8, <2>9 DEF RInv
<1> QED BY <1>10, <1>11

\* A list without repetition.
Once(s) == \A i, j \in 1 .. Len(s) : s[i] = s[j] => i = j

\* grantcondv for hosts that wait for the condition variable.
LEMMA GrantAllAnswers ==
    ASSUME RInv, NEW h \in Host, NEW c \in Cvs, h = Manager(c), NEW waits \in Seq(Host),
           Once(waits), \A g \in Elements(waits) : Waits(g, "waitcv") /\ ~Granted(g, "waitcv"),
           GrantAll(h, c, waits)
    PROVE  \E msgs : /\ Answers(h, "waitcv", msgs) /\ Answered(msgs) = Elements(waits)
                     /\ \A n \in Elements(msgs) : n.op = "CVGRANT" /\ n.cv = c
<1>1. PICK k \in Nat : k = Len(waits)
  OBVIOUS
<1>2. PICK msgs : /\ msgs = [i \in 1 .. k |-> [op |-> "CVGRANT", frompid |-> h, topid |-> waits[i], cv |-> c]]
                  /\ Send(h, msgs)
  BY <1>1 DEF GrantAll
<1>3. \A i \in 1 .. k : waits[i] \in Host /\ waits[i] \in Elements(waits)
  BY <1>1 DEF Elements
<1>4. \A i \in 1 .. k : /\ msgs[i] \in Message /\ msgs[i].op = "CVGRANT" /\ msgs[i].frompid = h
                        /\ msgs[i].topid = waits[i] /\ msgs[i].cv = c
  BY <1>2, <1>3 DEF Message
<1>5. msgs \in Seq(Message) /\ Len(msgs) = k
  <2>1. msgs \in [1 .. k -> Message]
    BY <1>2, <1>4
  <2> QED BY <2>1
<1>6. \A n \in Elements(msgs) : \E i \in 1 .. k : n = msgs[i]
  BY <1>5 DEF Elements
<1>7. \A i \in 1 .. k : msgs[i] \in Elements(msgs)
  BY <1>5 DEF Elements
<1>8. Alone(msgs)
  <2> SUFFICES ASSUME NEW i \in 1 .. Len(msgs), NEW j \in 1 .. Len(msgs), i # j
               PROVE  ~Twins(msgs[i], msgs[j])
    BY Zenon DEF Alone
  <2>1. i \in 1 .. k /\ j \in 1 .. k
    BY <1>5, Zenon
  <2>2. waits[i] # waits[j]
    BY <1>1, <2>1 DEF Once
  <2> QED BY <1>4, <2>1, <2>2, Zenon DEF Twins
<1>9. MasterLast(msgs)
  BY <1>4, <1>5 DEF MasterLast
<1>10. \A n \in Elements(msgs) : /\ n.op = "CVGRANT" /\ n.cv = c /\ n.frompid = h /\ n.topid \in Host
                                 /\ Waits(n.topid, "waitcv") /\ ~Granted(n.topid, "waitcv")
  BY <1>1, <1>3, <1>4, <1>6
<1>11. \A n \in Elements(msgs) : Route(n) /\ \A x \in InTransit : ~Twins(x, n)
  BY <1>10, OpsDiffer DEF Route, Twins, Granted
<1>12. Answers(h, "waitcv", msgs)
  BY <1>2, <1>5, <1>8, <1>9, <1>10, <1>11, OpsDiffer DEF Answers, Sendable, Sends
<1>13. Answered(msgs) = Elements(waits)
  <2>1. \A g \in Elements(waits) : \E i \in 1 .. k : g = waits[i]
    BY <1>1 DEF Elements
  <2>2. Elements(waits) \subseteq Answered(msgs)
    BY <1>4, <1>7, <2>1 DEF Answered
  <2>3. Answered(msgs) \subseteq Elements(waits)
    BY <1>3, <1>4, <1>6 DEF Answered
  <2> QED BY <2>2, <2>3
<1> QED BY <1>10, <1>12, <1>13

\* Answers for one condition variable leave the lists of the others alone.
LEMMA OtherQueues ==
    ASSUME NEW c \in Cvs, NEW d \in Cvs, c # d, NEW g \in Host, Queues(g, d), UNCHANGED mainVars,
           NEW A, \A f \in A : CallOf(f).cv = c,
           Waits(g, "waitcv")' <=> Waits(g, "waitcv"), Asked(g, "waitcv")' => Asked(g, "waitcv"),
           Granted(g, "waitcv")' <=> Granted(g, "waitcv") \/ g \in A
    PROVE  Queues(g, d)'
BY DEF Queues, CallOf, mainVars

\* A request for a condition variable is handled by its manager.
LEMMA CvRequest ==
    ASSUME RInv, NEW h \in Host, NEW op \in {"SETCV", "RESETCV", "WAITCV"}, Handles(h, op)
    PROVE  /\ Taken(h) /\ Req(h).op = op /\ Says(Req(h)) /\ Req(h).cv \in Cvs /\ h = Manager(Req(h).cv)
           /\ Req(h).frompid \in Host /\ Req(h) \in InTransit
           /\ condvars[Req(h).cv] \in CondVar /\ condvars[Req(h).cv].waits \in Seq(Host)
<1>1. /\ Taken(h) /\ Req(h).op = op /\ Req(h) \in Message /\ Says(Req(h)) /\ Route(Req(h))
      /\ Req(h).topid = h /\ Req(h).frompid \in Host /\ Req(h) \in InTransit
  BY HandledType
<1>2. Req(h).cv \in Cvs /\ h = Manager(Req(h).cv)
  BY <1>1, MessageTypes DEF Route
<1>3. condvars[Req(h).cv] \in CondVar /\ condvars[Req(h).cv].waits \in Seq(Host)
  BY <1>2 DEF RInv, TypeInv, CondVar
<1> QED BY <1>1, <1>2, <1>3

\* setcvserver: the hosts that are released are those that wait for the
\* variable, and they leave its list.
LEMMA SetcvserverStep == ASSUME RInv, NEW h \in Host, setcvserver(h) PROVE RInv' /\ SameDue
<1>1. Handles(h, "SETCV") /\ UNCHANGED <<mainVars, flag, masterVars, power>>
  BY DEF setcvserver
<1>2. PICK c \in Cvs : c = Req(h).cv /\ h = Manager(c)
  BY <1>1, CvRequest
<1>3. PICK waits \in Seq(Host) : waits = condvars[c].waits
  BY <1>1, <1>2, CvRequest
<1>4. condvars' = [condvars EXCEPT ![c] = [value |-> 1, waits |-> <<>>]] /\ GrantAll(h, c, waits)
  BY <1>2, <1>3 DEF setcvserver, WaitsLeft
<1>5. condvars \in [Cvs -> CondVar]
  BY DEF RInv, TypeInv
<1>6. /\ condvars' \in [Cvs -> CondVar] /\ condvars'[c].waits = <<>>
      /\ \A d \in Cvs \ {c} : condvars'[d] = condvars[d]
  BY <1>4, <1>5 DEF CondVar
<1>7. /\ \A i \in 1 .. Len(waits) : Queues(waits[i], c) /\ waits[i] \in Host
      /\ \A i, j \in 1 .. Len(waits) : waits[i] = waits[j] => i = j
  BY <1>3 DEF RInv, CvInv
<1>8. PICK msgs : /\ Answers(h, "waitcv", msgs) /\ Answered(msgs) = Elements(waits)
                  /\ \A n \in Elements(msgs) : n.op = "CVGRANT" /\ n.cv = c
  <2>1. Once(waits) /\ \A g \in Elements(waits) : Waits(g, "waitcv") /\ ~Granted(g, "waitcv")
    BY <1>7 DEF Once, Elements, Queues
  <2> QED BY <1>2, <1>4, <2>1, GrantAllAnswers
<1>9. \A g \in Answered(msgs) : g \in Host /\ Queues(g, c)
  BY <1>7, <1>8 DEF Elements
<1>10. /\ NetInv' /\ InCalls' /\ Turns' /\ InTransit' \subseteq InTransit \cup Elements(msgs)
       /\ SameCalls("wait") /\ SameCalls("load") /\ SameCalls("exit")
       /\ \A g \in Host : /\ Waits(g, "waitcv")' <=> Waits(g, "waitcv")
                          /\ Asked(g, "waitcv")' <=> Asked(g, "waitcv")
                          /\ Granted(g, "waitcv")' <=> Granted(g, "waitcv") \/ g \in Answered(msgs)
  <2>1. Taken(h) /\ Req(h).op \in {"SETCV", "RESETCV"}
    BY <1>1, CvRequest
  <2>2. \A g \in Answered(msgs) : ~Asked(g, "waitcv")
    BY <1>9 DEF Queues
  <2> QED BY <1>1, <1>8, <2>1, <2>2, ServePost
<1>11. Steady /\ TypeInv'
  BY <1>1, <1>6, ServerSteady DEF RInv, TypeInv, mainVars, masterVars
<1>12. Contents'
  <2>1. ASSUME NEW n \in Elements(msgs) PROVE Says(n)'
    <3>1. n.topid \in Answered(msgs)
      BY DEF Answered
    <3> QED BY <1>1, <1>8, <1>9, <3>1 DEF Says, Queues, CallOf, mainVars
  <2> QED BY <1>1, <1>10, <1>11, <2>1, AnswerContents
<1>13. CvInv'
  <2>1. ASSUME NEW d \in Cvs, d # c, NEW g \in Host, Queues(g, d) PROVE Queues(g, d)'
    <3>1. \A f \in Answered(msgs) : CallOf(f).cv = c
      BY <1>9 DEF Queues
    <3> QED BY <1>1, <1>10, <2>1, <3>1, OtherQueues
  <2>2. \A d \in Cvs : \A i \in 1 .. Len(condvars[d].waits) : condvars[d].waits[i] \in Host
    BY <1>5 DEF CondVar
  <2>3. ASSUME NEW d \in Cvs
        PROVE  \E w : /\ w = condvars'[d].waits /\ \A i \in 1 .. Len(w) : Queues(w[i], d)'
                      /\ \A i, j \in 1 .. Len(w) : w[i] = w[j] => i = j
    <3>1. CASE d = c
      <4>1. PICK w : w = <<>>
        OBVIOUS
      <4> QED BY <1>6, <3>1, <4>1
    <3>2. CASE d # c
      <4>1. PICK w : w = condvars[d].waits
        OBVIOUS
      <4>2. w = condvars'[d].waits
        BY <1>6, <3>2, <4>1
      <4>3. \A i \in 1 .. Len(w) : w[i] \in Host /\ Queues(w[i], d)
        BY <2>2, <4>1 DEF RInv, CvInv
      <4>4. \A i, j \in 1 .. Len(w) : w[i] = w[j] => i = j
        BY <4>1 DEF RInv, CvInv
      <4> QED BY <2>1, <3>2, <4>2, <4>3, <4>4
    <3> QED BY <3>1, <3>2
  <2> QED BY <2>3 DEF CvInv
<1>14. WaitInv'
  BY <1>1, <1>10, <1>11, WaitFrame DEF RInv, masterVars
<1>15. LoadInv'
  BY <1>1, <1>10, <1>11, LoadFrame DEF RInv, mainVars, masterVars
<1>16. StatInv'
  BY <1>1, <1>10, <1>11, StatFrame DEF RInv, mainVars, masterVars, Leaving
<1>17. SameDue
  BY <1>1, <1>10, DueFrame DEF CallsLeft, mainVars
<1> QED BY <1>10, <1>11, <1>12, <1>13, <1>14, <1>15, <1>16, <1>17 DEF RInv

\* resetcvserver: nobody is released.
LEMMA ResetcvserverStep == ASSUME RInv, NEW h \in Host, resetcvserver(h) PROVE RInv' /\ SameDue
<1>1. Handles(h, "RESETCV") /\ UNCHANGED <<mainVars, flag, masterVars, power, outq>>
  BY DEF resetcvserver
<1>2. PICK c \in Cvs : c = Req(h).cv
  BY <1>1, CvRequest
<1>3. condvars \in [Cvs -> CondVar] /\ condvars' = [condvars EXCEPT ![c].value = 0]
  BY <1>2 DEF RInv, TypeInv, resetcvserver
<1>4. condvars' \in [Cvs -> CondVar] /\ \A d \in Cvs : condvars'[d].waits = condvars[d].waits
  BY <1>3 DEF CondVar
<1>5. PICK msgs : msgs = <<>>
  OBVIOUS
<1>6. Elements(msgs) = {} /\ msgs \in Seq(Message) /\ Alone(msgs) /\ MasterLast(msgs)
  BY <1>5 DEF Elements, Alone, MasterLast
<1>7. Answers(h, "waitcv", msgs) /\ Answered(msgs) = {}
  BY <1>1, <1>5, <1>6 DEF Answers, Answered, Sendable, Sends
<1>8. /\ NetInv' /\ InCalls' /\ Turns' /\ InTransit' \subseteq InTransit \cup Elements(msgs)
      /\ SameCalls("wait") /\ SameCalls("load") /\ SameCalls("exit")
      /\ \A g \in Host : /\ Waits(g, "waitcv")' <=> Waits(g, "waitcv")
                         /\ Asked(g, "waitcv")' <=> Asked(g, "waitcv")
                         /\ Granted(g, "waitcv")' <=> Granted(g, "waitcv") \/ g \in Answered(msgs)
  <2>1. Taken(h) /\ Req(h).op \in {"SETCV", "RESETCV"}
    BY <1>1, CvRequest
  <2> QED BY <1>1, <1>7, <2>1, ServePost
<1>9. SameCalls("waitcv")
  BY <1>7, <1>8 DEF SameCalls, SameCall, SameMessages
<1>10. Steady /\ TypeInv'
  BY <1>1, <1>4, ServerSteady DEF RInv, TypeInv, mainVars, masterVars
<1>11. Contents'
  BY <1>1, <1>6, <1>8, <1>10, AnswerContents
<1>12. CvInv'
  BY <1>4, <1>9, <1>10, CvFrame DEF RInv
<1>13. WaitInv'
  BY <1>1, <1>8, <1>10, WaitFrame DEF RInv, masterVars
<1>14. LoadInv'
  BY <1>1, <1>8, <1>10, LoadFrame DEF RInv, mainVars, masterVars
<1>15. StatInv'
  BY <1>1, <1>8, <1>10, StatFrame DEF RInv, mainVars, masterVars, Leaving
<1>16. SameDue
  BY <1>1, <1>8, DueFrame DEF CallsLeft, mainVars
<1> QED BY <1>8, <1>10, <1>11, <1>12, <1>13, <1>14, <1>15, <1>16 DEF RInv

\* A host joins a list of hosts.
LEMMA JoinList ==
    ASSUME NEW s \in Seq(Host), NEW a \in Host, \A i \in 1 .. Len(s) : s[i] # a,
           \A i, j \in 1 .. Len(s) : s[i] = s[j] => i = j
    PROVE  /\ Append(s, a) \in Seq(Host)
           /\ \A i, j \in 1 .. Len(Append(s, a)) : Append(s, a)[i] = Append(s, a)[j] => i = j
           /\ \A i \in 1 .. Len(Append(s, a)) :
                 Append(s, a)[i] = a \/ \E j \in 1 .. Len(s) : Append(s, a)[i] = s[j]
<1>1. PICK k \in Nat : k = Len(s)
  OBVIOUS
<1>2. PICK u \in Seq(Host) : u = Append(s, a)
  <2>1. Append(s, a) \in Seq(Host)
    OBVIOUS
  <2> QED BY <2>1, Zenon
<1>3. Len(u) = k + 1 /\ u[k + 1] = a /\ \A i \in 1 .. k : u[i] = s[i]
  BY <1>1, <1>2
<1>4. \A i \in 1 .. Len(u) : i = k + 1 \/ i \in 1 .. k
  BY <1>1, <1>3
<1>5. \A i \in 1 .. Len(u) : u[i] = a \/ \E j \in 1 .. Len(s) : u[i] = s[j]
  BY <1>1, <1>3, <1>4
<1>6. \A i, j \in 1 .. Len(u) : u[i] = u[j] => i = j
  BY <1>1, <1>3, <1>4
<1> QED BY <1>2, <1>5, <1>6

\* waitcvserver: a host that finds the variable set is answered with those in
\* the list, the others join the list.
LEMMA WaitcvserverStep == ASSUME RInv, NEW h \in Host, waitcvserver(h) PROVE RInv' /\ SameDue
<1>1. /\ Handles(h, RequestOp["waitcv"]) /\ "waitcv" \in Flags
      /\ UNCHANGED <<mainVars, flag, masterVars, power>>
  BY OpsDiffer DEF waitcvserver, Flags
<1>2. /\ Taken(h) /\ Req(h).op = "WAITCV" /\ Says(Req(h)) /\ Req(h).cv \in Cvs /\ h = Manager(Req(h).cv)
      /\ Req(h).frompid \in Host /\ Req(h) \in InTransit
      /\ condvars[Req(h).cv] \in CondVar /\ condvars[Req(h).cv].waits \in Seq(Host)
  BY <1>1, CvRequest, OpsDiffer
<1>3. PICK a \in Host, c \in Cvs : a = Req(h).frompid /\ c = Req(h).cv
  BY <1>2
<1>4. h = Manager(c) /\ CallOf(a).cv = c
  BY <1>2, <1>3 DEF Says
<1>5. Asked(a, "waitcv") /\ ~Granted(a, "waitcv") /\ Waits(a, "waitcv")
  <2>1. Asked(a, "waitcv")
    BY <1>2, <1>3, OpsDiffer DEF Asked
  <2> QED BY <1>1, <2>1 DEF RInv, Turns, Turn, Gone
<1>6. PICK list \in Seq(Host) : list = condvars[c].waits
  BY <1>2, <1>3
<1>7. /\ \A i \in 1 .. Len(list) : Queues(list[i], c) /\ list[i] \in Host
      /\ \A i, j \in 1 .. Len(list) : list[i] = list[j] => i = j
  BY <1>6 DEF RInv, CvInv
<1>8. \A i \in 1 .. Len(list) : list[i] # a
  BY <1>5, <1>7 DEF Queues
<1>9. PICK waits \in Seq(Host) : waits = Append(list, a)
  <2>1. Append(list, a) \in Seq(Host)
    OBVIOUS
  <2> QED BY <2>1, Zenon
<1>10. /\ \A i, j \in 1 .. Len(waits) : waits[i] = waits[j] => i = j
       /\ \A i \in 1 .. Len(waits) : waits[i] = a \/ \E j \in 1 .. Len(list) : waits[i] = list[j]
  BY <1>7, <1>8, <1>9, JoinList
<1>11. condvars \in [Cvs -> CondVar]
  BY DEF RInv, TypeInv
<1>12. \A d \in Cvs : condvars[d].waits \in Seq(Host)
  BY <1>11 DEF CondVar
<1>13. ASSUME NEW A, NEW w \in Seq(Host), condvars' = [condvars EXCEPT ![c].waits = w],
              NetInv', InCalls', Turns', \A l \in Flags \ {"waitcv"} : SameCalls(l),
              Contents',
              \A g \in Host : /\ Waits(g, "waitcv")' <=> Waits(g, "waitcv")
                              /\ Asked(g, "waitcv")' => Asked(g, "waitcv")
                              /\ Granted(g, "waitcv")' <=> Granted(g, "waitcv") \/ g \in A,
              \A f \in A : CallOf(f).cv = c,
              \A i \in 1 .. Len(w) : Queues(w[i], c)',
              \A i, j \in 1 .. Len(w) : w[i] = w[j] => i = j
       PROVE  RInv' /\ SameDue
  <2>1. /\ condvars' \in [Cvs -> CondVar] /\ condvars'[c].waits = w
        /\ \A d \in Cvs \ {c} : condvars'[d] = condvars[d]
    BY <1>11, <1>13 DEF CondVar
  <2>2. Steady /\ TypeInv'
    BY <1>1, <2>1, ServerSteady DEF RInv, TypeInv, mainVars, masterVars
  <2>3. SameCalls("wait") /\ SameCalls("load") /\ SameCalls("exit")
    BY <1>13 DEF Flags
  <2>4. CvInv'
    <3>1. ASSUME NEW d \in Cvs, d # c, NEW g \in Host, Queues(g, d) PROVE Queues(g, d)'
      BY <1>1, <1>13, <3>1, OtherQueues
    <3>2. ASSUME NEW d \in Cvs
          PROVE  \E u : /\ u = condvars'[d].waits /\ \A i \in 1 .. Len(u) : Queues(u[i], d)'
                        /\ \A i, j \in 1 .. Len(u) : u[i] = u[j] => i = j
      <4>1. CASE d = c
        BY <1>13, <2>1, <4>1
      <4>2. CASE d # c
        <5>1. PICK u \in Seq(Host) : u = condvars[d].waits
          BY <1>12
        <5>2. u = condvars'[d].waits
          BY <2>1, <4>2, <5>1
        <5>3. \A i \in 1 .. Len(u) : u[i] \in Host /\ Queues(u[i], d)
          BY <5>1 DEF RInv, CvInv
        <5>4. \A i, j \in 1 .. Len(u) : u[i] = u[j] => i = j
          BY <5>1 DEF RInv, CvInv
        <5> QED BY <3>1, <4>2, <5>2, <5>3, <5>4
      <4> QED BY <4>1, <4>2
    <3> QED BY <3>2 DEF CvInv
  <2>5. WaitInv'
    BY <1>1, <2>2, <2>3, WaitFrame DEF RInv, masterVars
  <2>6. LoadInv'
    BY <1>1, <2>2, <2>3, LoadFrame DEF RInv, mainVars, masterVars
  <2>7. StatInv'
    BY <1>1, <2>2, <2>3, StatFrame DEF RInv, mainVars, masterVars, Leaving
  <2>8. SameDue
    BY <1>1, <2>3, DueFrame DEF CallsLeft, mainVars
  <2> QED BY <1>13, <2>2, <2>4, <2>5, <2>6, <2>7, <2>8 DEF RInv
<1>14. Steady
  BY <1>1, ServerSteady
<1>15. CASE IsSet(c)
  <2>1. condvars' = [condvars EXCEPT ![c].waits = <<>>] /\ GrantAll(h, c, waits)
    BY <1>3, <1>6, <1>9, <1>15 DEF waitcvserver, WaitsLeft
  <2>2. \A i \in 1 .. Len(waits) : /\ Waits(waits[i], "waitcv") /\ ~Granted(waits[i], "waitcv")
                                   /\ CallOf(waits[i]).cv = c
                                   /\ Asked(waits[i], "waitcv") => waits[i] = a
    BY <1>4, <1>5, <1>7, <1>10 DEF Queues
  <2>3. PICK msgs : /\ Answers(h, "waitcv", msgs) /\ Answered(msgs) = Elements(waits)
                    /\ \A n \in Elements(msgs) : n.op = "CVGRANT" /\ n.cv = c
    <3>1. Once(waits) /\ \A g \in Elements(waits) : Waits(g, "waitcv") /\ ~Granted(g, "waitcv")
      BY <1>10, <2>2, Zenon DEF Once, Elements
    <3> QED BY <1>4, <2>1, <3>1, GrantAllAnswers
  <2>4. \A g \in Answered(msgs) : CallOf(g).cv = c /\ (Asked(g, "waitcv") => g = a)
    BY <2>2, <2>3 DEF Elements
  <2>5. /\ NetInv' /\ InCalls' /\ Turns' /\ InTransit' \subseteq InTransit \cup Elements(msgs)
        /\ \A l \in Flags \ {"waitcv"} : SameCalls(l)
        /\ \A g \in Host : Waits(g, "waitcv")' <=> Waits(g, "waitcv")
        /\ \A g \in Host : Granted(g, "waitcv")' <=> Granted(g, "waitcv") \/ g \in Answered(msgs)
        /\ \A g \in Host \ {a} : Asked(g, "waitcv")' <=> Asked(g, "waitcv")
        /\ ~Asked(a, "waitcv")'
    BY <1>1, <1>3, <2>3, <2>4, ServeRequest
  <2>6. Contents'
    <3>1. ASSUME NEW n \in Elements(msgs) PROVE Says(n)'
      <4>1. n.topid \in Answered(msgs)
        BY DEF Answered
      <4> QED BY <1>1, <2>3, <2>4, <4>1 DEF Says, CallOf, mainVars
    <3> QED BY <1>1, <1>14, <2>5, <3>1, AnswerContents
  <2>7. \A g \in Host : Asked(g, "waitcv")' => Asked(g, "waitcv")
    BY <2>5
  <2>8. PICK w \in Seq(Host) : w = <<>> /\ Len(w) = 0
    <3>1. <<>> \in Seq(Host) /\ Len(<<>>) = 0
      OBVIOUS
    <3> QED BY <3>1, Zenon
  <2>9. /\ \A i \in 1 .. Len(w) : Queues(w[i], c)'
        /\ \A i, j \in 1 .. Len(w) : w[i] = w[j] => i = j
    BY <2>8
  <2> QED BY <1>13, <2>1, <2>4, <2>5, <2>6, <2>7, <2>8, <2>9
<1>16. CASE ~IsSet(c)
  <2>1. condvars' = [condvars EXCEPT ![c].waits = waits] /\ UNCHANGED outq
    BY <1>3, <1>6, <1>9, <1>16 DEF waitcvserver
  <2>2. /\ NetInv' /\ InCalls' /\ Turns' /\ InTransit' \subseteq InTransit
        /\ \A l \in Flags \ {"waitcv"} : SameCalls(l)
        /\ \A g \in Host : Waits(g, "waitcv")' <=> Waits(g, "waitcv")
        /\ \A g \in Host : Granted(g, "waitcv")' <=> Granted(g, "waitcv")
        /\ \A g \in Host \ {a} : Asked(g, "waitcv")' <=> Asked(g, "waitcv")
        /\ ~Asked(a, "waitcv")'
    BY <1>1, <1>3, <2>1, ServeLater
  <2>3. Contents'
    BY <1>1, <1>14, <2>2, SaysFrame DEF RInv, Contents
  <2>4. ASSUME NEW g \in Host, Queues(g, c) \/ g = a PROVE Queues(g, c)'
    BY <1>1, <1>4, <1>5, <2>2, <2>4 DEF Queues, CallOf, mainVars
  <2>5. \A i \in 1 .. Len(waits) : Queues(waits[i], c)'
    <3>1. \A i \in 1 .. Len(waits) : waits[i] \in Host /\ (Queues(waits[i], c) \/ waits[i] = a)
      BY <1>7, <1>10
    <3> QED BY <2>4, <3>1
  <2>6. PICK A : A = {}
    OBVIOUS
  <2>7. /\ \A g \in Host : /\ Waits(g, "waitcv")' <=> Waits(g, "waitcv")
                           /\ Asked(g, "waitcv")' => Asked(g, "waitcv")
                           /\ Granted(g, "waitcv")' <=> Granted(g, "waitcv") \/ g \in A
        /\ \A f \in A : CallOf(f).cv = c
    BY <2>2, <2>6
  <2> QED BY <1>10, <1>13, <2>1, <2>2, <2>3, <2>5, <2>7
<1> QED BY <1>15, <1>16

-----------------------------------------------------------------------------
(***************************************************************************)
(* The theorems.                                                           *)
(***************************************************************************)
\* The invariant holds initially: nobody waits and nothing is under way.
LEMMA InitRInv == Init => RInv
<1> SUFFICES ASSUME Init PROVE RInv
  OBVIOUS
<1> USE DEF Init
<1>1. TypeInv
  <2>1. prog \in [Host -> Seq(Call)]
    BY RendezvousAssumption
  <2>2. /\ flag \in [Host -> [Flags -> BOOLEAN]] /\ power \in [Host -> [Host -> Nat]]
        /\ condvars \in [Cvs -> CondVar]
    BY DEF CondVar
  <2> QED BY <2>1, <2>2 DEF TypeInv
<1>2. \A h \in Host : outq[h] = <<>> /\ inq[h] = <<>>
  OBVIOUS
<1>3. \A h \in Host : Elements(outq[h]) = {} /\ Elements(inq[h]) = {}
  BY <1>2 DEF Elements
<1>4. InTransit = {}
  BY <1>3, QueuesInTransit
<1>5. NetInv
  <2>1. QueueType
    BY <1>2 DEF QueueType
  <2>2. Routing
    BY <1>3 DEF Routing
  <2>3. NoTwins
    BY <1>2, <1>3 DEF NoTwins, Alone
  <2>4. MasterLast(outq[Master])
    BY <1>2, HostFacts DEF MasterLast
  <2> QED BY <2>1, <2>2, <2>3, <2>4 DEF NetInv
<1>6. \A h \in Host, k \in Flags : ~Asked(h, k) /\ ~Granted(h, k)
  BY <1>4 DEF Asked, Granted
<1>7. Turns /\ Contents
  BY <1>4, <1>6 DEF Turns, Turn, Contents
<1>8. \A h \in Host : pc[h] = "run" /\ calls[h] = 0 /\ ~Leaving(h)
  BY DEF Leaving
<1>9. InCalls
  BY <1>8 DEF InCalls, Flags
<1>10. \A k \in Flags : Counted(k) = {}
  BY <1>8 DEF Counted, Waits, Flags
<1>11. Reported = {} /\ Reported # Host
  BY <1>8, HostFacts DEF Reported
<1>12. Cardinality({}) = 0
  BY FS_EmptySet
<1>13. WaitInv
  BY <1>10, <1>12 DEF WaitInv, Flags
<1>14. LoadInv
  <2>1. Counted("load") = {}
    BY <1>10 DEF Flags
  <2>2. \A h \in Host : Rounds(h) = 0
    BY <1>8 DEF Rounds, Waits
  <2>3. /\ \A h \in Host : power[h] = power[Master]
        /\ \A i, j \in Host : power[Master][i] = power[Master][j]
    BY HostFacts
  <2> QED BY <1>12, <2>1, <2>2, <2>3 DEF LoadInv
<1>15. StatInv
  <2>1. \A h \in Host : ~Granted(h, "exit") /\ pc[h] # "exit" /\ pc[Master] # "ended"
    BY <1>6, <1>8, HostFacts DEF Flags
  <2> QED BY <1>11, <1>12, <2>1, HostFacts DEF StatInv
<1>16. CvInv
  <2>1. \A c \in Cvs : condvars[c].waits = <<>>
    OBVIOUS
  <2> QED BY <2>1 DEF CvInv
<1> QED BY <1>1, <1>5, <1>7, <1>9, <1>13, <1>14, <1>15, <1>16 DEF RInv

\* Nothing happens.
LEMMA StutterStep == ASSUME RInv, UNCHANGED vars PROVE RInv' /\ (Even => Even')
<1>1. /\ UNCHANGED <<prog, pc, calls, flag, waitcounter, loadcnt, statcnt, times, allstats>>
      /\ UNCHANGED <<power, condvars, outq, inq>>
  BY DEF vars, mainVars, masterVars
<1>2. InTransit' = InTransit
  BY <1>1 DEF InTransit
<1>3. \A h \in Host, k \in Flags : /\ Asked(h, k)' <=> Asked(h, k)
                                   /\ Granted(h, k)' <=> Granted(h, k)
                                   /\ Waits(h, k)' <=> Waits(h, k)
                                   /\ Gone(h, k)' <=> Gone(h, k)
  BY <1>1, <1>2 DEF Asked, Granted, Waits, Gone
<1>4. TypeInv' /\ InCalls'
  BY <1>1 DEF RInv, TypeInv, InCalls, CallOf
<1>5. NetInv'
  BY <1>1 DEF RInv, NetInv, QueueType, Routing, NoTwins, MasterLast
<1>6. Turns'
  BY <1>3 DEF RInv, Turns, Turn
<1>7. Contents'
  BY <1>1, <1>2 DEF RInv, Contents, Says, CallOf
<1>8. \A k \in Flags : SameCalls(k)
  BY <1>3 DEF SameCalls, SameCall, SameMessages
<1>9. Steady
  BY <1>1 DEF Steady, Leaving
<1>10. SameCalls("wait") /\ SameCalls("load") /\ SameCalls("exit") /\ SameCalls("waitcv")
  BY <1>8 DEF Flags
<1>11. WaitInv' /\ CvInv'
  BY <1>1, <1>9, <1>10, WaitFrame, CvFrame DEF RInv
<1>12. LoadInv' /\ StatInv'
  BY <1>1, <1>9, <1>10, LoadFrame, StatFrame DEF RInv, Leaving
<1>13. SameDue
  BY <1>1, <1>10, DueFrame DEF CallsLeft
<1> QED BY <1>4, <1>5, <1>6, <1>7, <1>11, <1>12, <1>13 DEF RInv, SameDue, Even

\* The application thread.
LEMMA MainThreadStep ==
    ASSUME RInv, NEW h \in Host, MainThread(h) \/ ExitTimeout(h)
    PROVE  RInv' /\ SameDue
<1>1. CASE jia_wait(h)
  BY <1>1, WaitStep
<1>2. CASE jia_loadbalance(h)
  BY <1>2, LoadStep
<1>3. CASE jia_exit(h)
  BY <1>3, ExitStep
<1>4. CASE jia_waitcv(h)
  BY <1>4, WaitcvStep
<1>5. CASE jia_setcv(h) \/ jia_resetcv(h)
  BY <1>5, PostStep
<1>6. CASE Released(h)
  <2>1. PICK k \in Flags : k = pc[h] /\ ~flag[h][k] /\ Leave(h)
    BY <1>6 DEF Released
  <2> QED BY <2>1, LeaveStep
<1>7. CASE ExitTimeout(h)
  <2>1. "exit" \in Flags /\ pc[h] = "exit" /\ h # Master /\ Leave(h)
    BY <1>7 DEF ExitTimeout, Flags
  <2> QED BY <2>1, LeaveStep
<1> QED BY <1>1, <1>2, <1>3, <1>4, <1>5, <1>6, <1>7 DEF MainThread

\* The server thread: the calls of jia_wait still to be granted change only
\* with the last request of a round, and then for all hosts.
LEMMA ServerThreadStep ==
    ASSUME RInv, NEW h \in Host, ServerThread(h)
    PROVE  RInv' /\ (Even => Even')
<1>1. SameDue => (Even => Even')
  BY DEF SameDue, Even
<1>2. CASE waitserver(h)
  BY <1>2, WaitserverStep
<1>3. CASE loadserver(h)
  BY <1>1, <1>3, LoadserverStep
<1>4. CASE statserver(h)
  BY <1>1, <1>4, StatserverStep
<1>5. CASE waitgrantserver(h)
  BY <1>1, <1>5, WaitgrantStep
<1>6. CASE loadgrantserver(h)
  BY <1>1, <1>6, LoadgrantStep
<1>7. CASE statgrantserver(h)
  BY <1>1, <1>7, StatgrantStep
<1>8. CASE cvgrantserver(h)
  BY <1>1, <1>8, CvgrantStep
<1>9. CASE setcvserver(h)
  BY <1>1, <1>9, SetcvserverStep
<1>10. CASE resetcvserver(h)
  BY <1>1, <1>10, ResetcvserverStep
<1>11. CASE waitcvserver(h)
  BY <1>1, <1>11, WaitcvserverStep
<1> QED BY <1>2, <1>3, <1>4, <1>5, <1>6, <1>7, <1>8, <1>9, <1>10, <1>11 DEF ServerThread

\* Every step keeps the invariant, and the hosts even.
LEMMA NextRInv == RInv /\ [Next]_vars => RInv' /\ (Even => Even')
<1> SUFFICES ASSUME RInv, [Next]_vars PROVE RInv' /\ (Even => Even')
  OBVIOUS
<1>1. SameDue => (Even => Even')
  BY DEF SameDue, Even
<1>2. CASE UNCHANGED vars
  BY <1>2, StutterStep
<1>3. ASSUME NEW h \in Host, MainThread(h) \/ ExitTimeout(h) PROVE RInv' /\ (Even => Even')
  BY <1>1, <1>3, MainThreadStep
<1>4. ASSUME NEW h \in Host, ServerThread(h) PROVE RInv' /\ (Even => Even')
  BY <1>4, ServerThreadStep
<1>5. ASSUME NEW h \in Host, Transfer(h) PROVE RInv' /\ (Even => Even')
  BY <1>1, <1>5, TransferStep
<1>6. ASSUME NEW h \in Host, Spin(h) PROVE UNCHANGED vars
  BY <1>6 DEF Spin
<1>7. Finished => UNCHANGED vars
  BY DEF Finished
<1> QED BY <1>2, <1>3, <1>4, <1>5, <1>6, <1>7 DEF Next

\* The invariant, for any number of hosts, any condition variables and any
\* programs: every call is followed from its request to its answer.
THEOREM RendezvousInvariance == Spec => []RInv
<1>1. RInv /\ [Next]_vars => RInv'
  BY NextRInv
<1> QED BY <1>1, InitRInv, PTL DEF Spec

\* The programs make equally many calls of jia_wait.
EqualWaits == \A g, h \in Host : CallsLeft(g, "wait") = CallsLeft(h, "wait")

\* waitserver: if the programs call jia_wait equally often, a host is past a
\* jia_wait only when every other host is in it.
THEOREM WaitsSeparate == Spec /\ EqualWaits => []WaitSeparation
<1>1. Init /\ EqualWaits => RInv /\ Even
  <2> SUFFICES ASSUME Init, EqualWaits PROVE RInv /\ Even
    OBVIOUS
  <2>1. \A h \in Host : ~Through(h)
    BY DEF Init, Through
  <2> QED BY <2>1, InitRInv DEF Even, Due, EqualWaits
<1>2. RInv /\ Even /\ [Next]_vars => RInv' /\ Even'
  BY NextRInv
<1>3. RInv /\ Even => WaitSeparation
  <2> SUFFICES ASSUME RInv, Even, NEW g \in Host, NEW h \in Host,
                      CallsLeft(g, "wait") < CallsLeft(h, "wait")
               PROVE  CallsLeft(h, "wait") = CallsLeft(g, "wait") + 1 /\ pc[h] = "wait"
    BY DEF WaitSeparation
  <2>1. CallsLeft(g, "wait") \in Nat /\ CallsLeft(h, "wait") \in Nat
    BY LeftType DEF RInv
  <2>2. CallsLeft(h, "wait") = CallsLeft(g, "wait") + 1 /\ Through(h)
    BY <2>1 DEF Even, Due
  <2> QED BY <2>2 DEF Through
<1> QED BY <1>1, <1>2, <1>3, PTL DEF Spec

\* loadserver and loadgrantserver: outside jia_loadbalance all hosts have the
\* powers of the master, computed from the times of one round.
THEOREM LoadsAgree == Spec => []LoadAgreement
<1>1. RInv => LoadAgreement
  <2> SUFFICES ASSUME RInv, NEW g \in Host, NEW h \in Host, pc[g] # "load", pc[h] # "load"
               PROVE  power[g] = power[h] /\ \A i, j \in Host : power[g][i] = power[g][j]
    BY DEF LoadAgreement
  <2>1. \A f \in Host : pc[f] # "load" => ~Granted(f, "load")
    BY DEF RInv, Turns, Turn, Waits, Gone, Flags
  <2>2. power[g] = power[Master] /\ power[h] = power[Master]
    BY <2>1 DEF RInv, LoadInv
  <2> QED BY <2>2 DEF RInv, LoadInv
<1> QED BY <1>1, RendezvousInvariance, PTL

\* The grant servers: an answer under way finds the call it answers still
\* waiting, for the same condition variable.
THEOREM AnswersAwaited == Spec => []GrantsAwaited
<1>1. RInv => GrantsAwaited
  <2> SUFFICES ASSUME RInv, NEW m \in InTransit, m.op \in DOMAIN WaitsFor
               PROVE  \/ pc[m.topid] = "ended"
                      \/ /\ pc[m.topid] = WaitsFor[m.op] /\ flag[m.topid][WaitsFor[m.op]]
                         /\ m.op = "CVGRANT" => CallOf(m.topid).cv = m.cv
    BY DEF GrantsAwaited
  <2>1. m \in Message /\ Says(m) /\ m.topid \in Host
    BY TransitTypes, MessageTypes DEF RInv, Contents
  <2>2. PICK k \in Flags : m.op = GrantOp[k] /\ WaitsFor[m.op] = k
    <3>1. /\ WaitsFor["WAITGRANT"] = "wait" /\ WaitsFor["LOADGRANT"] = "load"
          /\ WaitsFor["STATGRANT"] = "exit" /\ WaitsFor["CVGRANT"] = "waitcv"
          /\ m.op \in {"WAITGRANT", "LOADGRANT", "STATGRANT", "CVGRANT"}
      BY DEF WaitsFor
    <3> QED BY <3>1, OpsDiffer DEF Flags
  <2>3. Granted(m.topid, k)
    BY <2>2 DEF Granted
  <2>4. Waits(m.topid, k) \/ Gone(m.topid, k)
    BY <2>1, <2>3 DEF RInv, Turns, Turn
  <2> QED BY <2>1, <2>2, <2>4 DEF Waits, Gone, Says
<1> QED BY <1>1, RendezvousInvariance, PTL

\* statserver and jia_exit: when the master ends it has the statistics of all
\* hosts, and its answer has reached every host that still waits for it.
THEOREM MasterLeavesLast == Spec => []MasterEndsLast
<1>1. RInv => MasterEndsLast
  <2> SUFFICES ASSUME RInv, pc[Master] = "ended"
               PROVE  /\ allstats = calls
                      /\ \A h \in Host : pc[h] = "exit" /\ flag[h]["exit"] =>
                            \E i \in 1 .. Len(inq[h]) : inq[h][i].op = "STATGRANT"
    BY DEF MasterEndsLast
  <2>1. Reported = Host
    BY DEF RInv, StatInv
  <2>2. allstats = calls
    <3>1. allstats \in [Host -> Nat] /\ calls \in [Host -> Nat]
      BY DEF RInv, TypeInv
    <3>2. \A h \in Host : allstats[h] = calls[h]
      BY <2>1 DEF RInv, StatInv
    <3> QED BY <3>1, <3>2
  <2>3. ASSUME NEW h \in Host, pc[h] = "exit", flag[h]["exit"]
        PROVE  \E i \in 1 .. Len(inq[h]) : inq[h][i].op = "STATGRANT"
    <3>1. PICK m \in InTransit : m.op = "STATGRANT" /\ m.topid = h
      <4>1. Granted(h, "exit")
        BY <2>1, <2>3 DEF RInv, StatInv, Waits
      <4> QED BY <4>1, OpsDiffer DEF Granted
    <3>2. ~Granted(Master, "exit")
      BY HostFacts DEF RInv, Turns, Turn, Waits, Gone, Flags
    <3>3. PICK g \in Host : m \in Elements(outq[g]) \/ m \in Elements(inq[g])
      BY QueuesInTransit
    <3>4. CASE m \in Elements(inq[g])
      <4>1. g = h
        BY <3>1, <3>4 DEF RInv, NetInv, Routing
      <4> QED BY <3>1, <3>4, <4>1 DEF Elements
    <3>5. CASE m \in Elements(outq[g])
      <4>1. g = Master
        BY <3>1, <3>5 DEF RInv, NetInv, Routing, Route
      <4>2. PICK j \in 1 .. Len(outq[Master]) : outq[Master][j].op = "STATGRANT"
        BY <3>1, <3>5, <4>1 DEF Elements
      <4>3. PICK i \in 1 .. Len(outq[Master]) :
                outq[Master][i].op = "STATGRANT" /\ outq[Master][i].topid = Master
        BY <4>2 DEF RInv, NetInv, MasterLast
      <4>4. outq[Master][i] \in InTransit
        BY <4>3, QueuesInTransit, HostFacts DEF Elements
      <4>5. Granted(Master, "exit")
        BY <4>3, <4>4, OpsDiffer DEF Granted
      <4> QED BY <3>2, <4>5
    <3> QED BY <3>3, <3>4, <3>5
  <2> QED BY <2>2, <2>3
<1> QED BY <1>1, RendezvousInvariance, PTL
=============================================================================
