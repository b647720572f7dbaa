--------------------------- MODULE UdpLinkProofs ---------------------------
(***************************************************************************)
(* "send msg success!" means delivered, for any number of peers, any       *)
(* messages, any RETRYNUM and any size of the socket buffers, whatever the *)
(* network loses, duplicates or reorders.                                  *)
(*                                                                         *)
(* The ack that outsend accepts is one of the current message, because the *)
(* sequence numbers of a destination never repeat.  The listen thread that *)
(* sent it either enqueued the datagram, or still holds it, or dropped it; *)
(* it drops one it has seen already, or one that comes too early, and that *)
(* only happens when the client has given up an earlier message.           *)
(*                                                                         *)
(* The second half is the refinement of Wire, step by step, with what it   *)
(* takes to know about lists of messages in the order they are sent.       *)
(***************************************************************************)
EXTENDS UdpLink, FiniteSetTheorems, SequenceTheorems, WellFoundedInduction,
        TLAPS

(***************************************************************************)
(* The invariant.                                                          *)
(***************************************************************************)
\* The variables hold what their C types allow; a socket whose edge has not
\* been reported has something to read.
TypeInv ==
    /\ cur \in Nat \ {0} /\ cpc \in {"idle", "send", "wait"} /\ (cpc # "idle" => cur \in Ids)
    /\ seqno \in [Ids -> Nat] /\ snd_seq \in [Dests -> Nat]
    /\ net \in [Ids -> Nat] /\ acknet \in [Ids -> Nat]
    /\ abuf \in Seq(Ids) /\ (aedge => abuf # <<>>)
    /\ rbuf \in [Peers -> Seq(Ids)] /\ redge \in [Peers -> BOOLEAN]
    /\ \A d \in Peers : redge[d] => rbuf[d] # <<>>
    /\ held \in [Peers -> Ids \cup {None}]
    /\ rcv_seq \in [Peers -> Nat]
    /\ inq \in [Dests -> Seq(Ids)]
    /\ acked \subseteq Ids /\ gaveup \subseteq Ids

\* Message i has its sequence number.
Taken(i) == i < cur \/ (i = cur /\ cpc # "idle")

\* The sequence numbers of a destination are 0, 1, 2, ... in the order of the
\* messages.
Numbering ==
    /\ \A i, j \in Ids : Taken(j) /\ Dest(i) = Dest(j) /\ i < j => seqno[i] < seqno[j]
    /\ \A i \in Ids : Taken(i) =>
          \A s \in 0 .. seqno[i] - 1 :
              \E b \in Ids : b < i /\ Dest(b) = Dest(i) /\ seqno[b] = s
    /\ \A i \in Ids : i < cur => seqno[i] < snd_seq[Dest(i)]
    /\ \A d \in Dests : \A s \in 0 .. snd_seq[d] - 1 :
          \E b \in Ids : b < cur /\ Dest(b) = d /\ seqno[b] = s
    /\ cpc # "idle" => seqno[cur] = snd_seq[Dest(cur)]

\* What is in the network and in the sockets has been sent, and is where it
\* was sent to.
Datagrams ==
    /\ \A i \in Ids : net[i] > 0 \/ acknet[i] > 0 => Taken(i) /\ Dest(i) \in Peers
    /\ \A i \in Range(abuf) : Taken(i) /\ Dest(i) \in Peers
    /\ \A d \in Peers : \A i \in Range(rbuf[d]) : Taken(i) /\ Dest(i) = d
    /\ \A d \in Peers : held[d] # None => Taken(held[d]) /\ Dest(held[d]) = d

\* The in queue of a peer holds the messages up to rcv_seq, in order.
Delivery ==
    \A d \in Peers :
        /\ Len(inq[d]) = rcv_seq[d]
        /\ \A k \in 1 .. rcv_seq[d] :
              Taken(inq[d][k]) /\ Dest(inq[d][k]) = d /\ seqno[inq[d][k]] = k - 1

\* An earlier message to the destination of i, or i itself, was given up.
GivenUpBy(i) == \E j \in gaveup : Dest(j) = Dest(i) /\ j <= i

\* i need not arrive any more, has arrived, or is held by the listen thread.
Arrived(i) == GivenUpBy(i) \/ seqno[i] < rcv_seq[Dest(i)] \/ held[Dest(i)] = i

\* What is acknowledged has arrived.
Acknowledged ==
    \A i \in Ids : Dest(i) \in Peers /\ (acknet[i] > 0 \/ i \in Range(abuf) \/ i \in acked)
                       => Arrived(i)

\* The client is done with every message before the current one.
Progress ==
    /\ \A i \in Ids : i < cur => i \in acked \cup gaveup
    /\ \A i \in acked : i < cur
    /\ \A i \in acked : Dest(i) = Self => i \in Range(inq[Self])

LinkInv == TypeInv /\ Numbering /\ Datagrams /\ Delivery /\ Acknowledged /\ Progress

-----------------------------------------------------------------------------
(***************************************************************************)
(* Sequences and messages.                                                 *)
(***************************************************************************)
\* Messages are numbered from 1, and each has a destination.
LEMMA IdFacts == /\ Ids \subseteq Nat \ {0} /\ None \notin Ids
                 /\ \A i \in Ids : Dest(i) \in Dests
                 /\ Self \in Dests /\ Peers \subseteq Dests /\ Self \notin Peers
                 /\ \A d \in Dests : d # Self => d \in Peers
<1>1. Script \in Seq(Dests)
  BY LinkAssumption
<1>2. Ids = 1 .. Len(Script) /\ Len(Script) \in Nat
  BY <1>1 DEF Ids
<1>3. \A i \in Ids : Dest(i) \in Dests
  BY <1>1, <1>2 DEF Dest
<1> QED BY <1>2, <1>3, LinkAssumption DEF Dests, None

\* The elements of a sequence after a message is put behind or taken in front.
LEMMA BufferFacts ==
    ASSUME NEW s \in Seq(Ids), NEW e \in Ids
    PROVE  /\ Append(s, e) \in Seq(Ids) /\ Append(s, e) # <<>>
           /\ Range(Append(s, e)) = Range(s) \cup {e}
           /\ s # <<>> => /\ Head(s) \in Ids /\ Head(s) \in Range(s) /\ Tail(s) \in Seq(Ids)
                          /\ Range(Tail(s)) \subseteq Range(s)
<1>1. DOMAIN s = 1 .. Len(s) /\ Len(s) \in Nat
  OBVIOUS
<1>2. PICK t : t = Append(s, e) /\ t \in Seq(Ids)
  <2>1. Append(s, e) \in Seq(Ids)
    OBVIOUS
  <2> QED BY <2>1, Zenon
<1>3. /\ DOMAIN t = 1 .. Len(s) + 1 /\ t[Len(s) + 1] = e
      /\ \A k \in 1 .. Len(s) : t[k] = s[k]
  BY <1>2
<1>4. 1 .. Len(s) + 1 = (1 .. Len(s)) \cup {Len(s) + 1}
  BY <1>1
<1>5. Range(t) = Range(s) \cup {e}
  BY <1>1, <1>3, <1>4 DEF Range
<1>6. t # <<>>
  BY <1>2
<1>7. ASSUME s # <<>>
      PROVE  /\ Head(s) \in Ids /\ Head(s) \in Range(s) /\ Tail(s) \in Seq(Ids)
             /\ Range(Tail(s)) \subseteq Range(s)
  <2>1. Head(s) = s[1] /\ 1 \in DOMAIN s /\ s[1] \in Ids
    BY <1>7
  <2>2. PICK u : u = Tail(s) /\ u \in Seq(Ids)
    <3>1. Tail(s) \in Seq(Ids)
      BY <1>7
    <3> QED BY <3>1, Zenon
  <2>3. DOMAIN u = 1 .. Len(s) - 1 /\ \A k \in 1 .. Len(s) - 1 : u[k] = s[k + 1]
    BY <1>7, <2>2
  <2>4. \A k \in 1 .. Len(s) - 1 : k + 1 \in DOMAIN s
    BY <1>1
  <2> QED BY <2>1, <2>2, <2>3, <2>4 DEF Range
<1> QED BY <1>2, <1>5, <1>6, <1>7

\* Sequence numbers identify the messages of a destination.
LEMMA NumbersDiffer ==
    ASSUME Numbering, NEW i \in Ids, NEW j \in Ids, Taken(i), Taken(j), Dest(i) = Dest(j),
           seqno[i] = seqno[j], seqno \in [Ids -> Nat]
    PROVE  i = j
<1>1. i \in Nat /\ j \in Nat /\ seqno[i] \in Nat
  BY IdFacts
<1>2. CASE i < j
  BY <1>1, <1>2 DEF Numbering
<1>3. CASE j < i
  BY <1>1, <1>3 DEF Numbering
<1> QED BY <1>1, <1>2, <1>3

\* A datagram that the listen thread has acknowledged and does not expect was
\* expected before, or the client has given up an earlier one.
LEMMA Unexpected ==
    ASSUME LinkInv, NEW i \in Ids, Taken(i), Dest(i) \in Peers, held[Dest(i)] = i,
           seqno[i] # rcv_seq[Dest(i)]
    PROVE  GivenUpBy(i) \/ seqno[i] < rcv_seq[Dest(i)]
<1>1. PICK d \in Peers, r \in Nat, n \in Nat : d = Dest(i) /\ r = rcv_seq[d] /\ n = seqno[i]
  BY DEF LinkInv, TypeInv
<1>2. CASE n > r
  <2>1. PICK b \in Ids : b < i /\ Dest(b) = d /\ seqno[b] = r
    BY <1>1, <1>2 DEF LinkInv, Numbering
  <2>2. b < cur /\ b # i /\ b <= i
    <3>1. b \in Nat /\ i \in Nat /\ cur \in Nat
      BY IdFacts DEF LinkInv, TypeInv
    <3>2. i <= cur
      BY <3>1 DEF Taken
    <3> QED BY <2>1, <3>1, <3>2
  <2>3. CASE b \in gaveup
    BY <1>1, <2>1, <2>2, <2>3 DEF GivenUpBy
  <2>4. CASE b \in acked
    <3>1. Arrived(b)
      BY <1>1, <2>1, <2>4 DEF LinkInv, Acknowledged
    <3>2. GivenUpBy(b)
      BY <1>1, <2>1, <2>2, <3>1 DEF Arrived
    <3>3. PICK j \in gaveup : Dest(j) = d /\ j <= b
      BY <2>1, <3>2 DEF GivenUpBy
    <3>4. j <= i
      BY <2>2, <3>3, IdFacts DEF LinkInv, TypeInv
    <3> QED BY <1>1, <3>3, <3>4 DEF GivenUpBy
  <2> QED BY <2>2, <2>3, <2>4 DEF LinkInv, Progress
<1> QED BY <1>1, <1>2

\* The invariant says what success means.
LEMMA SuccessFromInv == LinkInv => SuccessMeansDelivered
<1> SUFFICES ASSUME LinkInv, NEW i \in acked, \A j \in gaveup : Dest(j) = Dest(i) => j > i
             PROVE  i \in Range(Reached(Dest(i)))
  BY DEF SuccessMeansDelivered
<1>1. i \in Ids /\ Dest(i) \in Dests /\ i < cur /\ Taken(i)
  BY IdFacts DEF LinkInv, TypeInv, Progress, Taken
<1>2. CASE Dest(i) = Self
  <2>1. Reached(Self) = inq[Self]
    BY IdFacts DEF Reached
  <2> QED BY <1>2, <2>1 DEF LinkInv, Progress
<1>3. CASE Dest(i) # Self
  <2>1. PICK d \in Peers : d = Dest(i)
    BY <1>1, <1>3, IdFacts
  <2>2. ~GivenUpBy(i)
    <3>1. \A j \in gaveup : j \in Nat /\ i \in Nat
      BY <1>1, IdFacts DEF LinkInv, TypeInv
    <3> QED BY <3>1 DEF GivenUpBy
  <2>3. seqno[i] < rcv_seq[d] \/ held[d] = i
    BY <1>1, <2>1, <2>2 DEF LinkInv, Acknowledged, Arrived
  <2>4. inq[d] \in Seq(Ids) /\ seqno[i] \in Nat /\ rcv_seq[d] \in Nat
    BY <1>1, IdFacts DEF LinkInv, TypeInv
  <2>5. CASE seqno[i] < rcv_seq[d]
    <3>1. PICK k \in 1 .. rcv_seq[d] : k = seqno[i] + 1
      BY <2>4, <2>5
    <3>2. inq[d][k] \in Ids /\ Taken(inq[d][k]) /\ Dest(inq[d][k]) = d /\ seqno[inq[d][k]] = seqno[i]
          /\ k \in DOMAIN inq[d]
      BY <2>4, <3>1 DEF LinkInv, Delivery
    <3>3. inq[d][k] = i
      BY <1>1, <2>1, <3>2, NumbersDiffer DEF LinkInv, TypeInv
    <3>4. i \in Range(inq[d])
      BY <3>2, <3>3 DEF Range
    <3>5. CASE Reached(d) = inq[d]
      BY <2>1, <3>4, <3>5
    <3>6. CASE Reached(d) = Append(inq[d], held[d]) /\ held[d] \in Ids
      BY <2>1, <2>4, <3>4, <3>6, BufferFacts
    <3> QED BY <3>5, <3>6, IdFacts DEF Reached, LinkInv, TypeInv
  <2>6. CASE held[d] = i /\ ~(seqno[i] < rcv_seq[d])
    <3>1. seqno[i] = rcv_seq[d]
      BY <1>1, <2>1, <2>2, <2>6, Unexpected
    <3>2. Reached(d) = Append(inq[d], i)
      BY <1>1, <2>6, <3>1, IdFacts DEF Reached, Expected
    <3> QED BY <1>1, <2>1, <2>4, <3>2, BufferFacts
  <2> QED BY <2>3, <2>5, <2>6
<1> QED BY <1>2, <1>3

-----------------------------------------------------------------------------
(***************************************************************************)
(* The network and the listen threads: the client's part of the state      *)
(* stays as it is.                                                         *)
(***************************************************************************)
\* The sequence numbers are the client's.
LEMMA NumberingKept ==
    ASSUME LinkInv, UNCHANGED clientVars
    PROVE  Numbering' /\ \A i \in Ids : Taken(i)' <=> Taken(i)
<1>1. cur' = cur /\ cpc' = cpc /\ seqno' = seqno /\ snd_seq' = snd_seq
  BY DEF clientVars
<1> QED BY <1>1 DEF LinkInv, Numbering, Taken

\* A datagram or an ack that is lost.
LEMMA LoseKeeps ==
    ASSUME LinkInv, NEW m \in Ids, Lose(m)
    PROVE  LinkInv'
<1>1. /\ UNCHANGED clientVars
      /\ abuf' = abuf /\ aedge' = aedge /\ rbuf' = rbuf /\ redge' = redge /\ held' = held
      /\ rcv_seq' = rcv_seq /\ inq' = inq /\ acked' = acked /\ gaveup' = gaveup
      /\ cur' = cur /\ cpc' = cpc /\ seqno' = seqno /\ snd_seq' = snd_seq
  BY DEF Lose, clientVars, ackVars, listenVars, ghostVars
<1>2. /\ net' \in [Ids -> Nat] /\ acknet' \in [Ids -> Nat]
      /\ \A i \in Ids : (net'[i] > 0 => net[i] > 0) /\ (acknet'[i] > 0 => acknet[i] > 0)
  <2>1. net \in [Ids -> Nat] /\ acknet \in [Ids -> Nat]
    BY DEF LinkInv, TypeInv
  <2>2. CASE net[m] > 0 /\ net' = [net EXCEPT ![m] = @ - 1] /\ acknet' = acknet
    BY <2>1, <2>2
  <2>3. CASE acknet[m] > 0 /\ acknet' = [acknet EXCEPT ![m] = @ - 1] /\ net' = net
    BY <2>1, <2>3
  <2> QED BY <2>2, <2>3 DEF Lose
<1>3. TypeInv'
  BY <1>1, <1>2 DEF LinkInv, TypeInv
<1>4. Numbering' /\ \A i \in Ids : Taken(i)' <=> Taken(i)
  BY <1>1, NumberingKept
<1>5. Datagrams'
  BY <1>1, <1>2 DEF LinkInv, Datagrams, Taken
<1>6. Delivery'
  BY <1>1 DEF LinkInv, Delivery, Taken
<1>7. Acknowledged'
  BY <1>1, <1>2 DEF LinkInv, Acknowledged, Arrived, GivenUpBy
<1>8. Progress'
  BY <1>1 DEF LinkInv, Progress
<1> QED BY <1>3, <1>4, <1>5, <1>6, <1>7, <1>8 DEF LinkInv

\* A datagram that reaches the socket of its destination.
LEMMA ArriveKeeps ==
    ASSUME LinkInv, NEW m \in Ids, Arrive(m)
    PROVE  LinkInv'
<1>1. /\ UNCHANGED clientVars
      /\ abuf' = abuf /\ aedge' = aedge /\ held' = held /\ acknet' = acknet
      /\ rcv_seq' = rcv_seq /\ inq' = inq /\ acked' = acked /\ gaveup' = gaveup
      /\ cur' = cur /\ cpc' = cpc /\ seqno' = seqno /\ snd_seq' = snd_seq
  BY DEF Arrive, clientVars, ackVars, ghostVars
<1>2. PICK d \in Peers : d = Dest(m) /\ Taken(m)
  BY DEF Arrive, LinkInv, Datagrams
<1>3. /\ net' \in [Ids -> Nat]
      /\ \A i \in Ids : net'[i] > 0 => net[i] > 0
  BY SMTT(40) DEF Arrive, LinkInv, TypeInv
<1>4. /\ rbuf' = [rbuf EXCEPT ![d] = Append(rbuf[d], m)]
      /\ redge' = [redge EXCEPT ![d] = TRUE]
  BY <1>2 DEF Arrive
<1>5. /\ rbuf[d] \in Seq(Ids) /\ Append(rbuf[d], m) \in Seq(Ids) /\ Append(rbuf[d], m) # <<>>
      /\ Range(Append(rbuf[d], m)) = Range(rbuf[d]) \cup {m}
  BY BufferFacts DEF LinkInv, TypeInv
<1>6. /\ rbuf' \in [Peers -> Seq(Ids)] /\ redge' \in [Peers -> BOOLEAN]
      /\ \A e \in Peers : redge'[e] => rbuf'[e] # <<>>
  BY <1>4, <1>5 DEF LinkInv, TypeInv
<1>7. TypeInv'
  BY <1>1, <1>3, <1>6 DEF LinkInv, TypeInv
<1>8. Numbering' /\ \A i \in Ids : Taken(i)' <=> Taken(i)
  BY <1>1, NumberingKept
<1>9. \A e \in Peers : \A i \in Range(rbuf'[e]) : Taken(i) /\ Dest(i) = e
  <2> SUFFICES ASSUME NEW e \in Peers, NEW i \in Range(rbuf'[e]) PROVE Taken(i) /\ Dest(i) = e
    OBVIOUS
  <2>1. CASE e = d
    BY <1>2, <1>4, <1>5, <2>1 DEF LinkInv, TypeInv, Datagrams
  <2>2. CASE e # d
    BY <1>4, <2>2 DEF LinkInv, TypeInv, Datagrams
  <2> QED BY <2>1, <2>2
<1>10. Datagrams'
  BY <1>1, <1>3, <1>9 DEF LinkInv, Datagrams, Taken
<1>11. Delivery'
  BY <1>1 DEF LinkInv, Delivery, Taken
<1>12. Acknowledged'
  BY <1>1 DEF LinkInv, Acknowledged, Arrived, GivenUpBy
<1>13. Progress'
  BY <1>1 DEF LinkInv, Progress
<1> QED BY <1>7, <1>8, <1>10, <1>11, <1>12, <1>13 DEF LinkInv

\* An ack that reaches the socket of the sender.
LEMMA AckArriveKeeps ==
    ASSUME LinkInv, NEW m \in Ids, AckArrive(m)
    PROVE  LinkInv'
<1>1. /\ UNCHANGED clientVars
      /\ net' = net /\ rbuf' = rbuf /\ redge' = redge /\ held' = held
      /\ rcv_seq' = rcv_seq /\ inq' = inq /\ acked' = acked /\ gaveup' = gaveup
      /\ cur' = cur /\ cpc' = cpc /\ seqno' = seqno /\ snd_seq' = snd_seq
  BY DEF AckArrive, clientVars, listenVars, ghostVars
<1>2. /\ acknet' \in [Ids -> Nat] /\ acknet[m] > 0
      /\ \A i \in Ids : acknet'[i] > 0 => acknet[i] > 0
  BY SMTT(40) DEF AckArrive, LinkInv, TypeInv
<1>3. abuf' \in Seq(Ids) /\ abuf' # <<>> /\ Range(abuf') = Range(abuf) \cup {m}
  BY BufferFacts DEF AckArrive, LinkInv, TypeInv
<1>4. TypeInv'
  BY <1>1, <1>2, <1>3 DEF LinkInv, TypeInv
<1>5. Numbering' /\ \A i \in Ids : Taken(i)' <=> Taken(i)
  BY <1>1, NumberingKept
<1>6. \A i \in Range(abuf') : Taken(i) /\ Dest(i) \in Peers
  BY <1>2, <1>3 DEF LinkInv, Datagrams
<1>7. Datagrams'
  BY <1>1, <1>2, <1>6 DEF LinkInv, Datagrams, Taken
<1>8. Delivery'
  BY <1>1 DEF LinkInv, Delivery, Taken
<1>9. \A i \in Ids : Dest(i) \in Peers /\ (acknet'[i] > 0 \/ i \in Range(abuf') \/ i \in acked)
                         => Arrived(i)
  BY <1>2, <1>3 DEF LinkInv, Acknowledged
<1>10. Acknowledged'
  BY <1>1, <1>9 DEF Acknowledged, Arrived, GivenUpBy
<1>11. Progress'
  BY <1>1 DEF LinkInv, Progress
<1> QED BY <1>4, <1>5, <1>7, <1>8, <1>10, <1>11 DEF LinkInv

\* listen_thread receives a datagram and acknowledges it.
LEMMA ListenAckKeeps ==
    ASSUME LinkInv, NEW d \in Peers, ListenAck(d)
    PROVE  LinkInv'
<1>1. /\ UNCHANGED clientVars
      /\ net' = net /\ abuf' = abuf /\ aedge' = aedge
      /\ rcv_seq' = rcv_seq /\ inq' = inq /\ acked' = acked /\ gaveup' = gaveup
      /\ cur' = cur /\ cpc' = cpc /\ seqno' = seqno /\ snd_seq' = snd_seq
  BY DEF ListenAck, clientVars, ackVars, ghostVars
<1>2. rbuf[d] \in Seq(Ids) /\ rbuf[d] # <<>>
  BY DEF ListenAck, LinkInv, TypeInv
<1>3. /\ Head(rbuf[d]) \in Ids /\ Head(rbuf[d]) \in Range(rbuf[d])
      /\ Tail(rbuf[d]) \in Seq(Ids) /\ Range(Tail(rbuf[d])) \subseteq Range(rbuf[d])
  <2>1. \E e \in Ids : TRUE
    BY <1>2
  <2> QED BY <1>2, <2>1, BufferFacts
<1>4. PICK m \in Ids : m = Head(rbuf[d]) /\ m \in Range(rbuf[d])
  BY <1>3
<1>5. /\ held' = [held EXCEPT ![d] = m] /\ held[d] = None
      /\ rbuf' = [rbuf EXCEPT ![d] = Tail(rbuf[d])]
      /\ redge' = [redge EXCEPT ![d] = FALSE]
      /\ acknet' = [acknet EXCEPT ![m] = @ + 1]
  BY <1>4 DEF ListenAck, EdgeTaken
<1>6. /\ held' \in [Peers -> Ids \cup {None}]
      /\ rbuf' \in [Peers -> Seq(Ids)] /\ redge' \in [Peers -> BOOLEAN]
      /\ acknet' \in [Ids -> Nat]
  <2>1. held' \in [Peers -> Ids \cup {None}]
    BY <1>5 DEF LinkInv, TypeInv
  <2>2. rbuf' \in [Peers -> Seq(Ids)]
    BY <1>3, <1>5 DEF LinkInv, TypeInv
  <2>3. redge' \in [Peers -> BOOLEAN]
    BY <1>5 DEF LinkInv, TypeInv
  <2>4. acknet \in [Ids -> Nat]
    BY DEF LinkInv, TypeInv
  <2>5. acknet' \in [Ids -> Nat]
    BY <1>5, <2>4
  <2> QED BY <2>1, <2>2, <2>3, <2>5
<1>7. \A e \in Peers : redge'[e] => rbuf'[e] # <<>>
  BY <1>5 DEF LinkInv, TypeInv
<1>8. TypeInv'
  BY <1>1, <1>6, <1>7 DEF LinkInv, TypeInv
<1>9. Numbering' /\ \A i \in Ids : Taken(i)' <=> Taken(i)
  BY <1>1, NumberingKept
<1>10. Taken(m) /\ Dest(m) = d
  BY <1>4 DEF LinkInv, Datagrams
<1>11. \A e \in Peers : \A i \in Range(rbuf'[e]) : i \in Range(rbuf[e])
  <2> SUFFICES ASSUME NEW e \in Peers, NEW i \in Range(rbuf'[e]) PROVE i \in Range(rbuf[e])
    OBVIOUS
  <2>1. CASE e = d
    BY <1>3, <1>5, <2>1 DEF LinkInv, TypeInv
  <2>2. CASE e # d
    BY <1>5, <2>2 DEF LinkInv, TypeInv
  <2> QED BY <2>1, <2>2
<1>12. \A i \in Ids : net[i] > 0 \/ acknet'[i] > 0 => Taken(i) /\ Dest(i) \in Peers
  BY <1>5, <1>10 DEF LinkInv, TypeInv, Datagrams
<1>13. \A e \in Peers : held'[e] # None => Taken(held'[e]) /\ Dest(held'[e]) = e
  BY <1>5, <1>10 DEF LinkInv, TypeInv, Datagrams
<1>14. Datagrams'
  BY <1>1, <1>11, <1>12, <1>13 DEF LinkInv, Datagrams, Taken
<1>15. Delivery'
  BY <1>1 DEF LinkInv, Delivery, Taken
<1>16. ASSUME NEW i \in Ids, Dest(i) \in Peers,
              acknet'[i] > 0 \/ i \in Range(abuf) \/ i \in acked
       PROVE  GivenUpBy(i) \/ seqno[i] < rcv_seq[Dest(i)] \/ held'[Dest(i)] = i
  <2>1. CASE i = m
    BY <1>5, <1>10, <2>1 DEF LinkInv, TypeInv
  <2>2. CASE i # m
    <3>1. acknet'[i] = acknet[i]
      BY <1>5, <2>2 DEF LinkInv, TypeInv
    <3>2. Arrived(i)
      BY <1>16, <3>1 DEF LinkInv, Acknowledged
    <3>3. held[Dest(i)] = i => held'[Dest(i)] = i
      BY <1>5, <1>16, IdFacts DEF LinkInv, TypeInv
    <3> QED BY <3>2, <3>3 DEF Arrived
  <2> QED BY <2>1, <2>2
<1>17. Acknowledged'
  BY <1>1, <1>16 DEF Acknowledged, Arrived, GivenUpBy
<1>18. Progress'
  BY <1>1 DEF LinkInv, Progress
<1> QED BY <1>8, <1>9, <1>14, <1>15, <1>17, <1>18 DEF LinkInv

\* listen_thread enqueues the datagram that it expects.
LEMMA ListenEnqueueKeeps ==
    ASSUME LinkInv, NEW d \in Peers, ListenEnqueue(d)
    PROVE  LinkInv'
<1>1. /\ UNCHANGED clientVars
      /\ net' = net /\ acknet' = acknet /\ abuf' = abuf /\ aedge' = aedge
      /\ rbuf' = rbuf /\ redge' = redge /\ acked' = acked /\ gaveup' = gaveup
      /\ cur' = cur /\ cpc' = cpc /\ seqno' = seqno /\ snd_seq' = snd_seq
  BY DEF ListenEnqueue, clientVars, netVars, ackVars, ghostVars
<1>2. PICK m \in Ids : m = held[d] /\ Taken(m) /\ Dest(m) = d /\ seqno[m] = rcv_seq[d]
  BY DEF ListenEnqueue, Expected, LinkInv, TypeInv, Datagrams
<1>3. PICK q, r : /\ q = inq[d] /\ q \in Seq(Ids) /\ r = rcv_seq[d] /\ r \in Nat /\ Len(q) = r
  <2>1. d \in Dests
    BY IdFacts
  <2>2. inq[d] \in Seq(Ids) /\ rcv_seq[d] \in Nat /\ Len(inq[d]) = rcv_seq[d]
    BY <2>1 DEF LinkInv, TypeInv, Delivery
  <2> QED BY <2>2, Zenon
<1>4. /\ rcv_seq' = [rcv_seq EXCEPT ![d] = r + 1]
      /\ inq' = [inq EXCEPT ![d] = Append(q, m)]
      /\ held' = [held EXCEPT ![d] = None]
  BY <1>2, <1>3 DEF ListenEnqueue
<1>5. Append(q, m) \in Seq(Ids) /\ Len(Append(q, m)) = r + 1
      /\ Append(q, m)[r + 1] = m /\ \A k \in 1 .. r : Append(q, m)[k] = q[k]
  BY <1>3
<1>6. /\ rcv_seq' \in [Peers -> Nat] /\ inq' \in [Dests -> Seq(Ids)]
      /\ held' \in [Peers -> Ids \cup {None}]
  <2>1. held' \in [Peers -> Ids \cup {None}]
    BY <1>4 DEF LinkInv, TypeInv
  <2>2. inq' \in [Dests -> Seq(Ids)]
    BY <1>4, <1>5 DEF LinkInv, TypeInv
  <2>3. rcv_seq' \in [Peers -> Nat]
    BY <1>3, <1>4, SMTT(40) DEF LinkInv, TypeInv
  <2> QED BY <2>1, <2>2, <2>3
<1>7. TypeInv'
  BY <1>1, <1>6 DEF LinkInv, TypeInv
<1>8. Numbering' /\ \A i \in Ids : Taken(i)' <=> Taken(i)
  BY <1>1, NumberingKept
<1>9. \A e \in Peers : held'[e] # None => Taken(held'[e]) /\ Dest(held'[e]) = e
  BY <1>4 DEF LinkInv, TypeInv, Datagrams
<1>10. Datagrams'
  BY <1>1, <1>9 DEF LinkInv, Datagrams, Taken
<1>11. ASSUME NEW e \in Peers
       PROVE  /\ Len(inq'[e]) = rcv_seq'[e]
              /\ \A k \in 1 .. rcv_seq'[e] :
                    Taken(inq'[e][k]) /\ Dest(inq'[e][k]) = e /\ seqno[inq'[e][k]] = k - 1
  <2>1. CASE e = d
    <3>1. inq'[e] = Append(q, m) /\ rcv_seq'[e] = r + 1
      BY <1>4, <2>1, IdFacts DEF LinkInv, TypeInv
    <3>2. \A k \in 1 .. r : Taken(q[k]) /\ Dest(q[k]) = d /\ seqno[q[k]] = k - 1
      BY <1>3 DEF LinkInv, Delivery
    <3>3. \A k \in 1 .. r + 1 : k \in 1 .. r \/ k = r + 1
      BY <1>3
    <3>4. ASSUME NEW k \in 1 .. r + 1
          PROVE  /\ Taken(Append(q, m)[k]) /\ Dest(Append(q, m)[k]) = d
                 /\ seqno[Append(q, m)[k]] = k - 1
      <4>1. CASE k \in 1 .. r
        BY <1>5, <3>2, <4>1
      <4>2. CASE k = r + 1
        BY <1>2, <1>3, <1>5, <4>2
      <4> QED BY <3>3, <4>1, <4>2
    <3> QED BY <1>5, <2>1, <3>1, <3>4
  <2>2. CASE e # d
    <3>1. inq'[e] = inq[e] /\ rcv_seq'[e] = rcv_seq[e]
      BY <1>4, <2>2, IdFacts DEF LinkInv, TypeInv
    <3> QED BY <3>1 DEF LinkInv, Delivery
  <2> QED BY <2>1, <2>2
<1>12. Delivery'
  BY <1>1, <1>11 DEF Delivery, Taken
<1>13. ASSUME NEW i \in Ids, Dest(i) \in Peers, Arrived(i)
       PROVE  GivenUpBy(i) \/ seqno[i] < rcv_seq'[Dest(i)] \/ held'[Dest(i)] = i
  <2>1. seqno[i] \in Nat
    BY DEF LinkInv, TypeInv
  <2>2. CASE Dest(i) = d
    <3>1. rcv_seq'[Dest(i)] = r + 1
      BY <1>4, <2>2 DEF LinkInv, TypeInv
    <3>2. CASE held[d] = i
      BY <1>2, <1>3, <3>1, <3>2
    <3> QED BY <1>3, <1>13, <2>1, <2>2, <3>1, <3>2 DEF Arrived
  <2>3. CASE Dest(i) # d
    BY <1>4, <1>13, <2>3 DEF Arrived, LinkInv, TypeInv
  <2> QED BY <2>2, <2>3
<1>14. Acknowledged'
  BY <1>1, <1>13 DEF LinkInv, Acknowledged, Arrived, GivenUpBy
<1>15. inq'[Self] = inq[Self]
  BY <1>4, IdFacts DEF LinkInv, TypeInv
<1>16. Progress'
  BY <1>1, <1>15 DEF LinkInv, Progress
<1> QED BY <1>7, <1>8, <1>10, <1>12, <1>14, <1>16 DEF LinkInv

\* listen_thread drops a datagram that it does not expect.
LEMMA ListenDropKeeps ==
    ASSUME LinkInv, NEW d \in Peers, ListenDrop(d)
    PROVE  LinkInv'
<1>1. /\ UNCHANGED clientVars
      /\ net' = net /\ acknet' = acknet /\ abuf' = abuf /\ aedge' = aedge
      /\ rbuf' = rbuf /\ redge' = redge /\ acked' = acked /\ gaveup' = gaveup
      /\ rcv_seq' = rcv_seq /\ inq' = inq
      /\ cur' = cur /\ cpc' = cpc /\ seqno' = seqno /\ snd_seq' = snd_seq
  BY DEF ListenDrop, clientVars, netVars, ackVars, ghostVars
<1>2. PICK m \in Ids : m = held[d] /\ Taken(m) /\ Dest(m) = d /\ seqno[m] # rcv_seq[d]
  BY DEF ListenDrop, Expected, LinkInv, TypeInv, Datagrams
<1>3. held' = [held EXCEPT ![d] = None]
  BY DEF ListenDrop
<1>4. held' \in [Peers -> Ids \cup {None}]
  BY <1>3 DEF LinkInv, TypeInv
<1>5. TypeInv'
  BY <1>1, <1>4 DEF LinkInv, TypeInv
<1>6. Numbering' /\ \A i \in Ids : Taken(i)' <=> Taken(i)
  BY <1>1, NumberingKept
<1>7. \A e \in Peers : held'[e] # None => Taken(held'[e]) /\ Dest(held'[e]) = e
  BY <1>3 DEF LinkInv, TypeInv, Datagrams
<1>8. Datagrams'
  BY <1>1, <1>7 DEF LinkInv, Datagrams, Taken
<1>9. Delivery'
  BY <1>1 DEF LinkInv, Delivery, Taken
<1>10. ASSUME NEW i \in Ids, Dest(i) \in Peers, Arrived(i)
       PROVE  GivenUpBy(i) \/ seqno[i] < rcv_seq[Dest(i)] \/ held'[Dest(i)] = i
  <2>1. CASE i = m /\ held[Dest(i)] = i
    BY <1>2, <2>1, Unexpected
  <2>2. CASE held[Dest(i)] # i
    BY <1>10, <2>2 DEF Arrived
  <2>3. CASE i # m /\ held[Dest(i)] = i
    BY <1>2, <1>3, <2>3, SMTT(40) DEF LinkInv, TypeInv
  <2> QED BY <2>1, <2>2, <2>3
<1>11. Acknowledged'
  BY <1>1, <1>10 DEF LinkInv, Acknowledged, Arrived, GivenUpBy
<1>12. Progress'
  BY <1>1 DEF LinkInv, Progress
<1> QED BY <1>5, <1>6, <1>8, <1>9, <1>11, <1>12 DEF LinkInv

-----------------------------------------------------------------------------
(***************************************************************************)
(* The client thread.                                                      *)
(***************************************************************************)
\* The initial state: nothing has been sent.
LEMMA InitLink == Init => LinkInv
<1> SUFFICES ASSUME Init PROVE LinkInv
  OBVIOUS
<1>1. /\ cur = 1 /\ cpc = "idle" /\ seqno = [i \in Ids |-> 0] /\ snd_seq = [d \in Dests |-> 0]
      /\ net = [i \in Ids |-> 0] /\ acknet = [i \in Ids |-> 0] /\ abuf = <<>> /\ aedge = FALSE
      /\ rbuf = [d \in Peers |-> <<>>] /\ redge = [d \in Peers |-> FALSE]
      /\ held = [d \in Peers |-> None] /\ rcv_seq = [d \in Peers |-> 0]
      /\ inq = [d \in Dests |-> <<>>] /\ acked = {} /\ gaveup = {}
  BY DEF Init
<1>2. \A i \in Ids : ~(i < 1) /\ ~Taken(i)
  BY <1>1, IdFacts DEF Taken
<1>3. <<>> \in Seq(Ids) /\ \A e : e \notin Range(<<>>)
  BY DEF Range
<1>4. TypeInv
  BY <1>1, <1>3 DEF TypeInv
<1>5. Numbering
  <2>1. \A d \in Dests : 0 .. snd_seq[d] - 1 = {}
    BY <1>1
  <2> QED BY <1>1, <1>2, <2>1 DEF Numbering
<1>6. Datagrams
  <2>1. \A d \in Peers : rbuf[d] = <<>> /\ held[d] = None
    BY <1>1
  <2>2. \A i \in Ids : ~(net[i] > 0) /\ ~(acknet[i] > 0)
    BY <1>1
  <2> QED BY <1>1, <1>3, <2>1, <2>2 DEF Datagrams
<1>7. Delivery
  <2>1. \A d \in Peers : Len(inq[d]) = 0 /\ rcv_seq[d] = 0
    BY <1>1, IdFacts
  <2> QED BY <2>1 DEF Delivery
<1>8. Acknowledged
  <2>1. \A i \in Ids : ~(acknet[i] > 0)
    BY <1>1
  <2> QED BY <1>1, <1>3, <2>1 DEF Acknowledged
<1>9. Progress
  BY <1>1, <1>2 DEF Progress
<1> QED BY <1>4, <1>5, <1>6, <1>7, <1>8, <1>9 DEF LinkInv

\* The client takes the next message and gives it the next sequence number.
LEMMA ClientTakeKeeps ==
    ASSUME LinkInv, ClientTake
    PROVE  LinkInv'
<1>1. /\ net' = net /\ acknet' = acknet /\ abuf' = abuf /\ aedge' = aedge
      /\ rbuf' = rbuf /\ redge' = redge /\ acked' = acked /\ gaveup' = gaveup /\ held' = held
      /\ rcv_seq' = rcv_seq /\ inq' = inq /\ cur' = cur /\ cpc' = "send" /\ snd_seq' = snd_seq
  BY DEF ClientTake, netVars, ackVars, listenVars, ghostVars
<1>2. PICK c \in Ids : c = cur /\ cpc = "idle"
  BY DEF ClientTake
<1>3. PICK n \in Nat : n = snd_seq[Dest(c)] /\ seqno' = [seqno EXCEPT ![c] = n]
  BY <1>2, IdFacts DEF ClientTake, LinkInv, TypeInv
<1>4. seqno \in [Ids -> Nat] /\ seqno' \in [Ids -> Nat] /\ seqno'[c] = n
      /\ \A i \in Ids : i # c => seqno'[i] = seqno[i]
  BY <1>3 DEF LinkInv, TypeInv
<1>5. TypeInv'
  BY <1>1, <1>2, <1>4 DEF LinkInv, TypeInv
<1>6. \A i \in Ids : i \in Nat /\ (Taken(i) <=> i < c) /\ (Taken(i)' <=> i < c \/ i = c)
  BY <1>1, <1>2, IdFacts DEF Taken
<1>7. \A i \in Ids : Taken(i) => i # c /\ seqno'[i] = seqno[i] /\ Taken(i)'
  BY <1>4, <1>6
<1>8. Numbering'
  <2>1. ASSUME NEW i \in Ids, NEW j \in Ids, Taken(j)', Dest(i) = Dest(j), i < j
        PROVE  seqno'[i] < seqno'[j]
    <3>1. i < c /\ Taken(i)
      BY <1>6, <2>1
    <3>2. CASE j = c
      BY <1>2, <1>3, <1>4, <1>7, <2>1, <3>1, <3>2 DEF LinkInv, Numbering
    <3>3. CASE j # c
      BY <1>6, <1>7, <2>1, <3>1, <3>3 DEF LinkInv, Numbering
    <3> QED BY <3>2, <3>3
  <2>2. ASSUME NEW i \in Ids, Taken(i)', NEW s \in 0 .. seqno'[i] - 1
        PROVE  \E b \in Ids : b < i /\ Dest(b) = Dest(i) /\ seqno'[b] = s
    <3>1. CASE i = c
      <4>1. PICK b \in Ids : b < cur /\ Dest(b) = Dest(c) /\ seqno[b] = s
        BY <1>2, <1>3, <1>4, <2>2, <3>1, IdFacts DEF LinkInv, Numbering
      <4>2. seqno'[b] = s
        BY <1>2, <1>6, <1>7, <4>1
      <4> QED BY <1>2, <3>1, <4>1, <4>2
    <3>2. CASE i # c
      <4>1. Taken(i) /\ s \in 0 .. seqno[i] - 1
        BY <1>4, <1>6, <2>2, <3>2
      <4>2. PICK b \in Ids : b < i /\ Dest(b) = Dest(i) /\ seqno[b] = s
        BY <4>1 DEF LinkInv, Numbering
      <4>3. b < c
        BY <1>6, <4>1, <4>2
      <4> QED BY <1>6, <1>7, <4>2, <4>3
    <3> QED BY <3>1, <3>2
  <2>3. \A i \in Ids : i < cur' => seqno'[i] < snd_seq'[Dest(i)]
    BY <1>1, <1>2, <1>6, <1>7 DEF LinkInv, Numbering
  <2>4. ASSUME NEW d \in Dests, NEW s \in 0 .. snd_seq'[d] - 1
        PROVE  \E b \in Ids : b < cur' /\ Dest(b) = d /\ seqno'[b] = s
    <3>1. PICK b \in Ids : b < cur /\ Dest(b) = d /\ seqno[b] = s
      BY <1>1 DEF LinkInv, Numbering
    <3> QED BY <1>1, <1>2, <1>6, <1>7, <3>1
  <2>5. seqno'[cur'] = snd_seq'[Dest(cur')]
    BY <1>1, <1>2, <1>3, <1>4
  <2> QED BY <2>1, <2>2, <2>3, <2>4, <2>5 DEF Numbering
<1>9. Datagrams'
  <2>1. Range(abuf) \subseteq Ids /\ \A d \in Peers : Range(rbuf[d]) \subseteq Ids
    BY SMTT(40) DEF LinkInv, TypeInv, Range
  <2> QED BY <1>1, <1>7, <2>1 DEF LinkInv, TypeInv, Datagrams
<1>10. Delivery'
  <2>1. \A d \in Peers : \A k \in 1 .. rcv_seq[d] : inq[d][k] \in Ids
    BY IdFacts DEF LinkInv, TypeInv, Delivery
  <2> QED BY <1>1, <1>7, <2>1 DEF LinkInv, Delivery
<1>11. ASSUME NEW i \in Ids, Dest(i) \in Peers, acknet[i] > 0 \/ i \in Range(abuf) \/ i \in acked
       PROVE  GivenUpBy(i) \/ seqno'[i] < rcv_seq[Dest(i)] \/ held[Dest(i)] = i
  <2>1. Taken(i)
    BY <1>11 DEF LinkInv, Datagrams, Progress, Taken
  <2> QED BY <1>7, <1>11, <2>1 DEF LinkInv, Acknowledged, Arrived
<1>12. Acknowledged'
  BY <1>1, <1>11 DEF Acknowledged, Arrived, GivenUpBy
<1>13. Progress'
  BY <1>1 DEF LinkInv, Progress
<1> QED BY <1>5, <1>8, <1>9, <1>10, <1>12, <1>13 DEF LinkInv

\* The client sends a datagram.
LEMMA SendToKeeps ==
    ASSUME LinkInv, SendTo
    PROVE  LinkInv'
<1>1. /\ acknet' = acknet /\ abuf' = abuf /\ aedge' = aedge
      /\ rbuf' = rbuf /\ redge' = redge /\ acked' = acked /\ gaveup' = gaveup /\ held' = held
      /\ rcv_seq' = rcv_seq /\ inq' = inq /\ cur' = cur /\ snd_seq' = snd_seq /\ seqno' = seqno
      /\ cpc = "send" /\ cpc' = "wait"
  BY DEF SendTo, ackVars, listenVars, ghostVars
<1>2. cur \in Ids /\ Taken(cur) /\ Dest(cur) \in Peers
  BY <1>1, IdFacts DEF SendTo, LinkInv, TypeInv, Taken
<1>3. /\ net' \in [Ids -> Nat]
      /\ \A i \in Ids : net'[i] > 0 => net[i] > 0 \/ i = cur
  BY <1>2 DEF SendTo, LinkInv, TypeInv
<1>4. TypeInv'
  BY <1>1, <1>2, <1>3 DEF LinkInv, TypeInv
<1>5. Numbering'
  BY <1>1 DEF LinkInv, Numbering, Taken
<1>6. Datagrams'
  BY <1>1, <1>2, <1>3 DEF LinkInv, Datagrams, Taken
<1>7. Delivery'
  BY <1>1 DEF LinkInv, Delivery, Taken
<1>8. Acknowledged'
  BY <1>1 DEF LinkInv, Acknowledged, Arrived, GivenUpBy
<1>9. Progress'
  BY <1>1 DEF LinkInv, Progress
<1> QED BY <1>4, <1>5, <1>6, <1>7, <1>8, <1>9 DEF LinkInv

\* The next message, and the next sequence number of the destination.
LEMMA DoneNumbers ==
    ASSUME LinkInv, cpc # "idle", ClientDone, seqno' = seqno
    PROVE  /\ Numbering' /\ cur' = cur + 1 /\ cpc' = "idle" /\ cur \in Ids /\ cur' \in Nat \ {0}
           /\ snd_seq' \in [Dests -> Nat]
           /\ \A i \in Ids : Taken(i)' <=> Taken(i)
           /\ \A i \in Ids : i < cur' <=> i < cur \/ i = cur
<1>1. PICK c \in Ids, n \in Nat : /\ c = cur /\ n = snd_seq[Dest(c)] /\ n = seqno[c]
                                  /\ snd_seq' = [snd_seq EXCEPT ![Dest(c)] = n + 1]
  BY IdFacts DEF LinkInv, TypeInv, Numbering, ClientDone
<1>2. cur' = c + 1 /\ cpc' = "idle" /\ c \in Nat
  BY <1>1, IdFacts DEF ClientDone
<1>3. /\ snd_seq \in [Dests -> Nat] /\ snd_seq' \in [Dests -> Nat] /\ snd_seq'[Dest(c)] = n + 1
      /\ \A d \in Dests : d # Dest(c) => snd_seq'[d] = snd_seq[d]
  BY <1>1, IdFacts DEF LinkInv, TypeInv
<1>4. \A i \in Ids : i \in Nat /\ (i < cur' <=> i < c \/ i = c)
  BY <1>2, IdFacts
<1>5. \A i \in Ids : (Taken(i)' <=> Taken(i)) /\ (Taken(i) <=> i < cur')
  BY <1>1, <1>2, <1>4 DEF Taken
<1>6. ASSUME NEW i \in Ids, i < cur'
      PROVE  seqno[i] < snd_seq'[Dest(i)]
  <2>1. seqno[i] \in Nat /\ Dest(i) \in Dests
    BY IdFacts DEF LinkInv, TypeInv
  <2>2. CASE i = c
    BY <1>1, <1>3, <2>2
  <2>3. CASE i < c
    <3>1. seqno[i] < snd_seq[Dest(i)]
      BY <1>1, <2>3 DEF LinkInv, Numbering
    <3>2. CASE Dest(i) = Dest(c)
      <4>1. seqno[i] < n /\ snd_seq'[Dest(i)] = n + 1
        BY <1>1, <1>3, <3>1, <3>2
      <4> QED BY <2>1, <4>1
    <3>3. CASE Dest(i) # Dest(c)
      BY <1>3, <2>1, <3>1, <3>3
    <3> QED BY <3>2, <3>3
  <2> QED BY <1>4, <1>6, <2>2, <2>3
<1>7. ASSUME NEW d \in Dests, NEW s \in 0 .. snd_seq'[d] - 1
      PROVE  \E b \in Ids : b < cur' /\ Dest(b) = d /\ seqno[b] = s
  <2>1. CASE d = Dest(c) /\ s = n
    BY <1>1, <1>4, <2>1
  <2>2. CASE s \in 0 .. snd_seq[d] - 1
    <3>1. PICK b \in Ids : b < cur /\ Dest(b) = d /\ seqno[b] = s
      BY <2>2 DEF LinkInv, Numbering
    <3> QED BY <1>1, <1>4, <3>1
  <2>3. CASE d = Dest(c) /\ s # n
    <3>1. snd_seq'[d] = n + 1 /\ snd_seq[d] = n
      BY <1>1, <1>3, <2>3
    <3>2. s \in 0 .. n - 1
      BY <2>3, <3>1
    <3> QED BY <2>2, <3>1, <3>2
  <2>4. CASE d # Dest(c)
    BY <1>3, <2>2, <2>4
  <2> QED BY <2>1, <2>3, <2>4
<1>8. Numbering'
  BY <1>2, <1>5, <1>6, <1>7 DEF LinkInv, Numbering
<1> QED BY <1>1, <1>2, <1>3, <1>4, <1>5, <1>8

\* A message of the host to itself.
LEMMA SendSelfKeeps ==
    ASSUME LinkInv, SendSelf
    PROVE  LinkInv'
<1>1. /\ net' = net /\ acknet' = acknet /\ abuf' = abuf /\ aedge' = aedge
      /\ rbuf' = rbuf /\ redge' = redge /\ gaveup' = gaveup /\ held' = held
      /\ rcv_seq' = rcv_seq /\ seqno' = seqno /\ acked' = acked \cup {cur}
      /\ cpc # "idle" /\ Dest(cur) = Self
  BY DEF SendSelf, netVars, ackVars, listenVars
<1>2. /\ Numbering' /\ cur' = cur + 1 /\ cpc' = "idle" /\ cur \in Ids /\ cur' \in Nat \ {0}
      /\ snd_seq' \in [Dests -> Nat]
      /\ \A i \in Ids : Taken(i)' <=> Taken(i)
      /\ \A i \in Ids : i < cur' <=> i < cur \/ i = cur
  BY <1>1, DoneNumbers DEF SendSelf
<1>3. /\ inq[Self] \in Seq(Ids) /\ inq' \in [Dests -> Seq(Ids)]
      /\ inq'[Self] = Append(inq[Self], cur) /\ \A d \in Peers : inq'[d] = inq[d]
  BY <1>2, BufferFacts, IdFacts DEF SendSelf, LinkInv, TypeInv
<1>4. TypeInv'
  BY <1>1, <1>2, <1>3 DEF LinkInv, TypeInv
<1>5. Datagrams'
  <2>1. Range(abuf) \subseteq Ids /\ \A d \in Peers : Range(rbuf[d]) \subseteq Ids
    BY DEF LinkInv, TypeInv, Range
  <2> QED BY <1>1, <1>2, <2>1 DEF LinkInv, TypeInv, Datagrams
<1>6. Delivery'
  <2>1. \A d \in Peers : \A k \in 1 .. rcv_seq[d] : inq[d][k] \in Ids
    BY IdFacts DEF LinkInv, TypeInv, Delivery
  <2> QED BY <1>1, <1>2, <1>3, <2>1 DEF LinkInv, Delivery
<1>7. Acknowledged'
  BY <1>1, IdFacts DEF LinkInv, Acknowledged, Arrived, GivenUpBy
<1>8. Progress'
  <2>1. Range(inq'[Self]) = Range(inq[Self]) \cup {cur}
    BY <1>2, <1>3, BufferFacts
  <2> QED BY <1>1, <1>2, <2>1 DEF LinkInv, TypeInv, Progress
<1> QED BY <1>2, <1>4, <1>5, <1>6, <1>7, <1>8 DEF LinkInv

\* outsend reads an ack: the one it accepts is an ack of the current message.
LEMMA RecvAckKeeps ==
    ASSUME LinkInv, RecvAck
    PROVE  LinkInv'
<1>1. /\ net' = net /\ acknet' = acknet /\ abuf' = Tail(abuf) /\ aedge' = FALSE
      /\ rbuf' = rbuf /\ redge' = redge /\ gaveup' = gaveup /\ held' = held
      /\ rcv_seq' = rcv_seq /\ seqno' = seqno /\ inq' = inq /\ cpc # "idle" /\ abuf # <<>>
  BY DEF RecvAck, netVars, listenVars, LinkInv, TypeInv
<1>2. /\ abuf \in Seq(Ids) /\ Head(abuf) \in Ids /\ Head(abuf) \in Range(abuf)
      /\ Tail(abuf) \in Seq(Ids) /\ Range(Tail(abuf)) \subseteq Range(abuf)
  <2>1. abuf \in Seq(Ids) /\ \E e \in Ids : TRUE
    BY <1>1 DEF LinkInv, TypeInv
  <2> QED BY <1>1, <2>1, BufferFacts
<1>3. Range(abuf) \subseteq Ids /\ \A d \in Peers : Range(rbuf[d]) \subseteq Ids
  BY DEF LinkInv, TypeInv, Range
<1>4. \A d \in Peers : \A k \in 1 .. rcv_seq[d] : inq[d][k] \in Ids
  BY IdFacts DEF LinkInv, TypeInv, Delivery
<1>5. CASE Matches(Head(abuf))
  <2>1. ClientDone /\ acked' = acked \cup {cur}
    BY <1>5 DEF RecvAck
  <2>2. /\ Numbering' /\ cur' = cur + 1 /\ cpc' = "idle" /\ cur \in Ids /\ cur' \in Nat \ {0}
        /\ snd_seq' \in [Dests -> Nat]
        /\ \A i \in Ids : Taken(i)' <=> Taken(i)
        /\ \A i \in Ids : i < cur' <=> i < cur \/ i = cur
    BY <1>1, <2>1, DoneNumbers
  <2>3. PICK m \in Ids : m = Head(abuf) /\ m \in Range(abuf) /\ Taken(m) /\ Dest(m) \in Peers
    BY <1>2 DEF LinkInv, Datagrams
  <2>4. m = cur
    <3>1. Taken(cur) /\ Dest(m) = Dest(cur) /\ seqno[m] = seqno[cur]
      BY <1>1, <1>5, <2>3 DEF Matches, Taken
    <3> QED BY <2>2, <2>3, <3>1, NumbersDiffer DEF LinkInv, TypeInv
  <2>5. Arrived(cur) /\ Dest(cur) \in Peers
    BY <2>2, <2>3, <2>4 DEF LinkInv, Acknowledged
  <2>6. TypeInv'
    BY <1>1, <1>2, <2>1, <2>2 DEF LinkInv, TypeInv
  <2>7. Datagrams'
    BY <1>1, <1>2, <1>3, <2>2 DEF LinkInv, TypeInv, Datagrams
  <2>8. Delivery'
    BY <1>1, <1>4, <2>2 DEF LinkInv, Delivery
  <2>9. Acknowledged'
    BY <1>1, <1>2, <2>1, <2>5 DEF LinkInv, Acknowledged, Arrived, GivenUpBy
  <2>10. Progress'
    BY <1>1, <2>1, <2>2, <2>5, IdFacts DEF LinkInv, TypeInv, Progress
  <2> QED BY <2>2, <2>6, <2>7, <2>8, <2>9, <2>10 DEF LinkInv
<1>6. CASE ~Matches(Head(abuf))
  <2>1. snd_seq' = snd_seq /\ cur' = cur /\ cpc' = cpc /\ acked' = acked
    BY <1>6 DEF RecvAck
  <2>2. TypeInv'
    BY <1>1, <1>2, <2>1 DEF LinkInv, TypeInv
  <2>3. Numbering'
    BY <1>1, <2>1 DEF LinkInv, Numbering, Taken
  <2>4. Datagrams'
    BY <1>1, <1>2, <2>1 DEF LinkInv, Datagrams, Taken
  <2>5. Delivery'
    BY <1>1, <2>1 DEF LinkInv, Delivery, Taken
  <2>6. Acknowledged'
    BY <1>1, <1>2, <2>1 DEF LinkInv, Acknowledged, Arrived, GivenUpBy
  <2>7. Progress'
    BY <1>1, <2>1 DEF LinkInv, Progress
  <2> QED BY <2>2, <2>3, <2>4, <2>5, <2>6, <2>7 DEF LinkInv
<1> QED BY <1>5, <1>6

\* outsend sees no ack: it sends again or gives the message up.
LEMMA TimeoutKeeps ==
    ASSUME LinkInv, Timeout
    PROVE  LinkInv'
<1>1. /\ net' = net /\ acknet' = acknet /\ abuf' = abuf /\ aedge' = aedge
      /\ rbuf' = rbuf /\ redge' = redge /\ acked' = acked /\ held' = held
      /\ rcv_seq' = rcv_seq /\ seqno' = seqno /\ inq' = inq /\ cpc = "wait"
  BY DEF Timeout, netVars, ackVars, listenVars
<1>2. CASE TryAgain
  <2>1. snd_seq' = snd_seq /\ cur' = cur /\ cpc' = "send" /\ gaveup' = gaveup
    BY <1>2 DEF Timeout
  <2>2. TypeInv'
    BY <1>1, <2>1 DEF LinkInv, TypeInv
  <2>3. Numbering'
    BY <1>1, <2>1 DEF LinkInv, Numbering, Taken
  <2>4. Datagrams'
    BY <1>1, <2>1 DEF LinkInv, Datagrams, Taken
  <2>5. Delivery'
    BY <1>1, <2>1 DEF LinkInv, Delivery, Taken
  <2>6. Acknowledged'
    BY <1>1, <2>1 DEF LinkInv, Acknowledged, Arrived, GivenUpBy
  <2>7. Progress'
    BY <1>1, <2>1 DEF LinkInv, Progress
  <2> QED BY <2>2, <2>3, <2>4, <2>5, <2>6, <2>7 DEF LinkInv
<1>3. CASE ~TryAgain
  <2>1. ClientDone /\ gaveup' = gaveup \cup {cur}
    BY <1>3 DEF Timeout
  <2>2. /\ Numbering' /\ cur' = cur + 1 /\ cpc' = "idle" /\ cur \in Ids /\ cur' \in Nat \ {0}
        /\ snd_seq' \in [Dests -> Nat]
        /\ \A i \in Ids : Taken(i)' <=> Taken(i)
        /\ \A i \in Ids : i < cur' <=> i < cur \/ i = cur
    BY <1>1, <2>1, DoneNumbers
  <2>3. Range(abuf) \subseteq Ids /\ \A d \in Peers : Range(rbuf[d]) \subseteq Ids
    BY DEF LinkInv, TypeInv, Range
  <2>4. \A d \in Peers : \A k \in 1 .. rcv_seq[d] : inq[d][k] \in Ids
    BY IdFacts DEF LinkInv, TypeInv, Delivery
  <2>5. TypeInv'
    BY <1>1, <2>1, <2>2 DEF LinkInv, TypeInv
  <2>6. Datagrams'
    BY <1>1, <2>2, <2>3 DEF LinkInv, TypeInv, Datagrams
  <2>7. Delivery'
    BY <1>1, <2>2, <2>4 DEF LinkInv, Delivery
  <2>8. \A i \in Ids : Arrived(i) => Arrived(i)'
    BY <1>1, <2>1 DEF Arrived, GivenUpBy
  <2>9. Acknowledged'
    BY <1>1, <2>8 DEF LinkInv, Acknowledged
  <2>10. Progress'
    BY <1>1, <2>1, <2>2 DEF LinkInv, TypeInv, Progress
  <2> QED BY <2>2, <2>5, <2>6, <2>7, <2>9, <2>10 DEF LinkInv
<1> QED BY <1>2, <1>3

-----------------------------------------------------------------------------
\* A step that changes nothing.
LEMMA StutterKeeps ==
    ASSUME LinkInv, UNCHANGED vars
    PROVE  LinkInv'
<1>1. /\ net' = net /\ acknet' = acknet /\ abuf' = abuf /\ aedge' = aedge
      /\ rbuf' = rbuf /\ redge' = redge /\ acked' = acked /\ gaveup' = gaveup /\ held' = held
      /\ rcv_seq' = rcv_seq /\ inq' = inq /\ cur' = cur /\ snd_seq' = snd_seq /\ seqno' = seqno
      /\ cpc' = cpc
  BY DEF vars, clientVars, netVars, ackVars, listenVars, ghostVars
<1> QED BY <1>1 DEF LinkInv, TypeInv, Numbering, Datagrams, Delivery, Acknowledged, Progress,
                    Taken, Arrived, GivenUpBy

\* Every step of the client, of the network and of a listen thread keeps the
\* invariant.
LEMMA NextLink == LinkInv /\ [Next]_vars => LinkInv'
<1> SUFFICES ASSUME LinkInv, [Next]_vars PROVE LinkInv'
  OBVIOUS
<1>1. CASE Client
  BY <1>1, ClientTakeKeeps, SendSelfKeeps, SendToKeeps, RecvAckKeeps, TimeoutKeeps DEF Client
<1>2. CASE Network
  BY <1>2, LoseKeeps, ArriveKeeps, AckArriveKeeps DEF Network
<1>3. CASE \E d \in Peers : Listen(d)
  BY <1>3, ListenAckKeeps, ListenEnqueueKeeps, ListenDropKeeps DEF Listen
<1>4. CASE Idle \/ UNCHANGED vars
  BY <1>4, StutterKeeps DEF Idle
<1> QED BY <1>1, <1>2, <1>3, <1>4 DEF Next

\* The invariant of the link: sequence numbers are consecutive and never
\* reused, the in queue of a peer holds the messages up to rcv_seq in order,
\* and what was acknowledged has arrived unless an earlier one was given up.
THEOREM LinkInvariance == Spec => []LinkInv
<1> QED BY InitLink, NextLink, PTL DEF Spec

\* "send msg success!" in outsend means delivered: the listen thread of the
\* destination has enqueued the message, or is about to, if the client gave up
\* no earlier message to that destination.
THEOREM SuccessIsDelivery == Spec => []SuccessMeansDelivered
<1> QED BY LinkInvariance, SuccessFromInv, PTL

\* What a listen thread puts in its in queue: each sequence number once, in
\* order, so no message twice and none before an earlier one, whatever the
\* network duplicates or reorders.
THEOREM DeliveryInOrder == Spec => []Delivery
<1>1. LinkInv => Delivery
  BY DEF LinkInv
<1> QED BY <1>1, LinkInvariance, PTL

-----------------------------------------------------------------------------
(***************************************************************************)
(* Lists of messages in the order in which they are sent.                  *)
(***************************************************************************)
\* A set of numbers that is not empty has a least one.
LEMMA LeastNumber ==
    ASSUME NEW T, T \subseteq Nat, T # {}
    PROVE  \E x \in T : \A y \in T : x <= y
<1> DEFINE Less == {p \in Nat \X Nat : p[1] < p[2]}
<1>1. IsWellFoundedOn(Less, Nat)
  BY NatLessThanWellFounded DEF OpToRel
<1>2. PICK x \in T : \A y \in T : <<y, x>> \notin Less
  BY <1>1, WFMin
<1>3. ASSUME NEW y \in T PROVE x <= y
  <2>1. <<y, x>> \notin Less BY <1>2
  <2> QED BY <2>1
<1> QED BY <1>3

\* s has its entries in increasing order, each once.
Increasing(s) == \A j, k \in DOMAIN s : j < k => s[j] < s[k]

\* s is a list of the messages of S in the order in which they are sent.
Lists(s, S) == s \in Seq(S) /\ Range(s) = S /\ Increasing(s)

\* A list has as many entries as the set has members.
LEMMA ListLength ==
    ASSUME NEW S \in SUBSET Nat, NEW s, Lists(s, S)
    PROVE  IsFiniteSet(S) /\ Cardinality(S) = Len(s)
<1>1. s \in [1 .. Len(s) -> S] /\ Len(s) \in Nat /\ DOMAIN s = 1 .. Len(s)
  BY DEF Lists
<1>2. \A j, k \in 1 .. Len(s) : s[j] = s[k] => j = k
  <2> SUFFICES ASSUME NEW j \in 1 .. Len(s), NEW k \in 1 .. Len(s), s[j] = s[k]
               PROVE  j = k
    OBVIOUS
  <2>1. s[j] \in Nat /\ s[k] \in Nat BY <1>1
  <2>2. ~ (j < k) /\ ~ (k < j) BY <1>1, <2>1 DEF Lists, Increasing
  <2> QED BY <2>2
<1>3. \A x \in S : \E k \in 1 .. Len(s) : s[k] = x
  BY <1>1 DEF Lists, Range
<1>4. s \in Bijection(1 .. Len(s), S)
  <2>1. s \in Injection(1 .. Len(s), S) BY <1>1, <1>2, Zenon DEF Injection, IsInjective
  <2>2. s \in Surjection(1 .. Len(s), S) BY <1>1, <1>3, Zenon DEF Surjection
  <2> QED BY <2>1, <2>2, Zenon DEF Bijection
<1>5. ExistsBijection(1 .. Len(s), S) BY <1>4, Zenon DEF ExistsBijection
<1>6. IsFiniteSet(1 .. Len(s)) /\ Cardinality(1 .. Len(s)) = Len(s)
  <2>1. PICK n \in Nat : n = Len(s) BY <1>1
  <2>2. IsFiniteSet(1 .. n) /\ Cardinality(1 .. n) = n BY FS_Interval
  <2> QED BY <2>1, <2>2
<1> QED BY <1>5, <1>6, FS_Bijection, Zenon

\* There is only one list of a set: the first place where two differ is in neither.
LEMMA ListUnique ==
    ASSUME NEW S \in SUBSET Nat, NEW s, NEW t, Lists(s, S), Lists(t, S)
    PROVE  s = t
<1>1. /\ DOMAIN s = 1 .. Len(s) /\ DOMAIN t = 1 .. Len(t) /\ Len(s) = Len(t) /\ Len(s) \in Nat
      /\ s \in [1 .. Len(s) -> S] /\ t \in [1 .. Len(s) -> S]
  <2>1. Len(s) = Len(t) BY ListLength
  <2> QED BY <2>1 DEF Lists
<1>2. PICK n \in Nat : n = Len(s) BY <1>1
<1> DEFINE D == {k \in 1 .. n : s[k] # t[k]}
<1>3. SUFFICES ASSUME D # {} PROVE FALSE
  <2>1. \A k \in 1 .. n : s[k] = t[k] BY <1>3
  <2>2. s \in [1 .. n -> S] /\ t \in [1 .. n -> S] BY <1>1, <1>2
  <2> QED BY <2>1, <2>2
<1>4. PICK k \in D : \A j \in D : k <= j
  <2>1. D \subseteq Nat OBVIOUS
  <2> HIDE DEF D
  <2> QED BY <1>3, <2>1, LeastNumber
<1>5. k \in 1 .. n /\ s[k] # t[k] /\ \A j \in 1 .. k - 1 : s[j] = t[j]
  <2>1. k \in 1 .. n /\ s[k] # t[k] OBVIOUS
  <2>2. ASSUME NEW j \in 1 .. k - 1 PROVE s[j] = t[j]
    <3>1. j \in 1 .. n /\ ~ (k <= j) BY <2>1
    <3> QED BY <1>4, <3>1
  <2> QED BY <2>1, <2>2
<1> HIDE DEF D
<1>6. \A u : u \in {s, t} => \A i, j \in 1 .. n : i < j => u[i] < u[j]
  BY <1>1, <1>2 DEF Lists, Increasing
<1>7. \A u, v \in {s, t} : \E j \in 1 .. n : v[j] = u[k]
  <2>1. \A u \in {s, t} : u[k] \in S BY <1>1, <1>2, <1>5
  <2>2. \A x \in S : \A v \in {s, t} : \E j \in 1 .. n : v[j] = x
    BY <1>1, <1>2 DEF Lists, Range
  <2> QED BY <2>1, <2>2
<1>8. \A u \in {s, t} : \A j \in 1 .. n : u[j] \in Nat
  BY <1>1, <1>2
<1>9. ASSUME NEW u \in {s, t}, NEW v \in {s, t}, u[k] < v[k] PROVE FALSE
  <2>1. PICK j \in 1 .. n : v[j] = u[k] BY <1>7
  <2>2. CASE k <= j
    <3>1. v[k] <= v[j]
      <4>1. CASE k = j BY <4>1, <1>8, <1>5
      <4>2. CASE k < j BY <4>2, <1>5, <1>6, <1>8
      <4> QED BY <2>2, <4>1, <4>2, <1>5
    <3> QED BY <1>5, <1>8, <1>9, <2>1, <3>1
  <2>3. CASE j < k
    <3>1. j \in 1 .. k - 1 BY <2>3, <1>5
    <3>2. u[j] = v[j] BY <1>5, <3>1
    <3>3. u[j] < u[k] BY <1>5, <1>6, <2>3
    <3> QED BY <1>5, <1>8, <2>1, <3>2, <3>3
  <2> QED BY <2>2, <2>3, <1>5
<1>10. s[k] \in Nat /\ t[k] \in Nat /\ (s[k] < t[k] \/ t[k] < s[k]) BY <1>5, <1>8
<1> QED BY <1>9, <1>10

\* A message that is sent after those of a list goes behind them.
LEMMA ListAppend ==
    ASSUME NEW S \in SUBSET Nat, NEW s, Lists(s, S), NEW x \in Nat, \A y \in S : y < x
    PROVE  Lists(Append(s, x), S \cup {x})
<1>1. s \in Seq(S) /\ DOMAIN s = 1 .. Len(s) /\ Len(s) \in Nat BY DEF Lists
<1>2. PICK t, n : t = Append(s, x) /\ n = Len(s) OBVIOUS
<1>3. /\ t \in Seq(S \cup {x}) /\ DOMAIN t = 1 .. n + 1 /\ t[n + 1] = x /\ n \in Nat
      /\ \A k \in 1 .. n : t[k] = s[k] /\ s[k] \in S
  BY <1>1, <1>2
<1>4. 1 .. n + 1 = (1 .. n) \cup {n + 1} BY <1>3
<1>5. Range(t) = S \cup {x}
  <2>1. Range(t) = {t[k] : k \in 1 .. n} \cup {t[n + 1]} BY <1>3, <1>4, Zenon DEF Range
  <2>2. {t[k] : k \in 1 .. n} = Range(s) BY <1>1, <1>2, <1>3 DEF Range
  <2> QED BY <1>3, <2>1, <2>2 DEF Lists
<1>6. Increasing(t)
  <2> SUFFICES ASSUME NEW j \in 1 .. n + 1, NEW k \in 1 .. n + 1, j < k PROVE t[j] < t[k]
    BY <1>3 DEF Increasing
  <2>1. j \in 1 .. n BY <1>3
  <2>2. CASE k = n + 1 BY <1>3, <2>1, <2>2
  <2>3. CASE k \in 1 .. n
    <3>1. s[j] < s[k] BY <1>1, <1>2, <2>1, <2>3 DEF Lists, Increasing
    <3> QED BY <1>3, <2>1, <2>3, <3>1
  <2> QED BY <1>4, <2>2, <2>3
<1> QED BY <1>2, <1>3, <1>5, <1>6 DEF Lists

\* Every set of messages has a list: one would be missing for the least prefix.
LEMMA ListExists ==
    ASSUME NEW S \in SUBSET Ids
    PROVE  \E s : Lists(s, S)
<1>1. Len(Script) \in Nat /\ Ids = 1 .. Len(Script) BY LinkAssumption DEF Ids
<1>2. PICK n \in Nat : Ids = 1 .. n BY <1>1
<1>a. \A i \in S : i \in 1 .. n BY <1>2
<1> DEFINE Before(k) == {i \in S : i <= k}
           Bad == {k \in 0 .. n : \A s : ~ Lists(s, Before(k))}
<1>3. ASSUME Bad # {} PROVE FALSE
  <2>1. PICK k \in Bad : \A j \in Bad : k <= j
    <3>1. Bad \subseteq Nat OBVIOUS
    <3> HIDE DEF Bad
    <3> QED BY <1>3, <3>1, LeastNumber
  <2>2. k \in 0 .. n /\ \A s : ~ Lists(s, Before(k)) OBVIOUS
  <2>3. CASE k = 0
    <3>1. Before(k) = {} BY <2>3, <1>a
    <3>2. Lists(<<>>, {}) BY DEF Lists, Increasing, Range
    <3> QED BY <2>2, <3>1, <3>2
  <2>4. CASE k # 0
    <3>1. k - 1 \in 0 .. n /\ ~ (k <= k - 1) BY <2>2, <2>4
    <3>2. k - 1 \notin Bad BY <2>1, <3>1, Zenon
    <3>3. PICK s : Lists(s, Before(k - 1)) BY <3>1, <3>2, Zenon
    <3>4. CASE k \in S
      <4>1. Before(k) = Before(k - 1) \cup {k}
        <5>1. k \in Nat /\ \A i \in 1 .. n : i <= k <=> i <= k - 1 \/ i = k BY <2>2
        <5> QED BY <1>a, <3>4, <5>1
      <4>2. Before(k - 1) \in SUBSET Nat /\ \A y \in Before(k - 1) : y < k BY <1>a, <2>2
      <4>3. k \in Nat BY <2>2
      <4> HIDE DEF Before, Bad
      <4>4. Lists(Append(s, k), Before(k - 1) \cup {k}) BY <3>3, <4>2, <4>3, ListAppend
      <4> QED BY <2>2, <4>1, <4>4, Zenon
    <3>5. CASE k \notin S
      <4>1. Before(k) = Before(k - 1) BY <1>a, <2>2, <3>5
      <4> QED BY <2>2, <3>3, <4>1, Zenon
    <3> QED BY <3>4, <3>5
  <2> QED BY <2>3, <2>4
<1>4. n \in 0 .. n /\ Before(n) = S BY <1>a
<1>5. n \notin Bad BY <1>3, Zenon
<1> QED BY <1>4, <1>5, Zenon

\* The list that Listed chooses is one.
LEMMA ListedLists ==
    ASSUME NEW S \in SUBSET Ids
    PROVE  Lists(Listed(S), S)
<1>1. PICK s : Lists(s, S) BY ListExists
<1>2. S \in SUBSET Nat BY IdFacts
<1>3. IsFiniteSet(S) /\ Cardinality(S) = Len(s) /\ Len(s) \in Nat
  BY <1>1, <1>2, ListLength DEF Lists
<1>4. PICK n \in Nat : n = Cardinality(S) BY <1>3
<1>5. s \in [1 .. n -> S] /\ Increasing(s)
  BY <1>1, <1>3, <1>4 DEF Lists
<1>6. PICK t \in [1 .. n -> S] : t = Listed(S) /\ Increasing(t)
  <2>1. Listed(S) = CHOOSE u \in [1 .. n -> S] : Increasing(u)
    BY <1>4, Zenon DEF Listed, Increasing
  <2> QED BY <1>5, <2>1, Zenon
<1>7. \A j, k \in 1 .. n : t[j] = t[k] => j = k
  <2> SUFFICES ASSUME NEW j \in 1 .. n, NEW k \in 1 .. n, t[j] = t[k] PROVE j = k
    OBVIOUS
  <2>1. t[j] \in Nat /\ t[k] \in Nat BY <1>2
  <2>2. DOMAIN t = 1 .. n OBVIOUS
  <2>3. ~ (j < k) /\ ~ (k < j) BY <1>6, <2>1, <2>2 DEF Increasing
  <2> QED BY <2>3
<1>8. t \in Injection(1 .. n, S) BY <1>7, Zenon DEF Injection, IsInjective
<1>9. IsFiniteSet(1 .. n) /\ Cardinality(1 .. n) = n BY FS_Interval
<1>10. t \in Surjection(1 .. n, S) BY <1>3, <1>4, <1>8, <1>9, FS_Injection
<1>11. Range(t) = S BY <1>10 DEF Surjection, Range
<1> QED BY <1>6, <1>11 DEF Lists

\* A list of a set is the one that Listed chooses.
LEMMA ListedIs ==
    ASSUME NEW S \in SUBSET Ids, NEW s, Lists(s, S)
    PROVE  Listed(S) = s
<1>1. S \in SUBSET Nat BY IdFacts
<1> QED BY <1>1, ListedLists, ListUnique

\* The list of no messages.
LEMMA ListedEmpty ==
    ASSUME NEW S \in SUBSET Ids
    PROVE  Listed(S) = <<>> <=> S = {}
<1>1. ASSUME S = {} PROVE Listed(S) = <<>>
  <2>1. Lists(<<>>, {}) BY DEF Lists, Increasing, Range
  <2> QED BY <1>1, <2>1, ListedIs
<1>2. ASSUME Listed(S) = <<>> PROVE S = {}
  <2>1. Lists(<<>>, S) BY <1>2, ListedLists
  <2> QED BY <2>1 DEF Lists, Range
<1> QED BY <1>1, <1>2

\* A message sent after those of a list goes behind them.
LEMMA ListedAppend ==
    ASSUME NEW S \in SUBSET Ids, NEW x \in Ids, \A y \in S : y < x
    PROVE  Listed(S \cup {x}) = Append(Listed(S), x)
<1>1. S \in SUBSET Nat /\ x \in Nat BY IdFacts
<1>2. Lists(Append(Listed(S), x), S \cup {x}) BY <1>1, ListedLists, ListAppend
<1> QED BY <1>2, ListedIs

\* The first message of a list is the one sent first.
LEMMA ListedTail ==
    ASSUME NEW S \in SUBSET Ids, NEW x \in S, \A y \in S : x <= y
    PROVE  /\ Listed(S) # <<>> /\ Head(Listed(S)) = x
           /\ Tail(Listed(S)) = Listed(S \ {x})
<1>1. S \in SUBSET Nat /\ x \in Nat BY IdFacts
<1>2. PICK s : s = Listed(S) OBVIOUS
<1>3. Lists(s, S) BY <1>2, ListedLists
<1>4. s \in Seq(S) /\ Len(s) \in Nat /\ DOMAIN s = 1 .. Len(s) /\ Range(s) = S
  BY <1>3 DEF Lists
<1>5. PICK n \in Nat : n = Len(s) BY <1>4
<1>6. /\ \A k \in 1 .. n : s[k] \in S /\ s[k] \in Nat
      /\ \A j, k \in 1 .. n : j < k => s[j] < s[k]
  <2>1. DOMAIN s = 1 .. n BY <1>4, <1>5
  <2>2. \A k \in 1 .. n : s[k] \in S BY <1>4, <2>1, Zenon DEF Range
  <2>3. \A k \in 1 .. n : s[k] \in Nat BY <1>1, <2>2
  <2>4. \A j, k \in 1 .. n : j < k => s[j] < s[k] BY <1>3, <2>1, Zenon DEF Lists, Increasing
  <2> QED BY <2>2, <2>3, <2>4
<1>7. PICK k \in 1 .. n : s[k] = x BY <1>4, <1>5 DEF Range
<1>8. k = 1
  <2>1. 1 \in 1 .. n /\ (1 < k \/ k = 1) BY <1>7
  <2>2. x <= s[1] BY <1>6, <2>1
  <2>3. ~ (s[1] < x) BY <1>1, <1>6, <2>1, <2>2
  <2> QED BY <1>6, <1>7, <2>1, <2>3
<1>9. s # <<>> /\ Head(s) = x BY <1>4, <1>5, <1>7, <1>8
<1>10. PICK t : t = Tail(s) OBVIOUS
<1>11. /\ t \in Seq(S) /\ DOMAIN t = 1 .. n - 1
       /\ \A j \in 1 .. n - 1 : t[j] = s[j + 1]
  BY <1>4, <1>5, <1>9, <1>10
<1>12. \A j \in 1 .. n - 1 : j + 1 \in 1 .. n /\ s[j + 1] # x
  <2> SUFFICES ASSUME NEW j \in 1 .. n - 1 PROVE j + 1 \in 1 .. n /\ s[j + 1] # x
    OBVIOUS
  <2>1. j + 1 \in 1 .. n /\ 1 \in 1 .. n /\ 1 < j + 1 OBVIOUS
  <2>2. s[1] < s[j + 1] BY <1>6, <2>1
  <2> QED BY <1>1, <1>6, <1>7, <1>8, <2>1, <2>2
<1>13. Lists(t, S \ {x})
  <2>1. \A j \in 1 .. n - 1 : t[j] \in S \ {x} BY <1>6, <1>11, <1>12
  <2>2. t \in Seq(S \ {x}) BY <1>11, <2>1
  <2>3. Range(t) = S \ {x}
    <3>1. ASSUME NEW y \in S \ {x} PROVE \E j \in 1 .. n - 1 : t[j] = y
      <4>1. PICK i \in 1 .. n : s[i] = y BY <1>4, <1>5 DEF Range
      <4>2. i # 1 BY <1>7, <1>8, <4>1
      <4>3. i - 1 \in 1 .. n - 1 /\ (i - 1) + 1 = i BY <4>2
      <4>4. t[i - 1] = s[i] BY <1>11, <4>3
      <4> QED BY <4>1, <4>3, <4>4
    <3>2. Range(t) = {t[j] : j \in 1 .. n - 1} BY <1>11, Zenon DEF Range
    <3> QED BY <2>1, <3>1, <3>2
  <2>4. Increasing(t)
    <3> SUFFICES ASSUME NEW i \in 1 .. n - 1, NEW j \in 1 .. n - 1, i < j PROVE t[i] < t[j]
      BY <1>11 DEF Increasing
    <3>1. i + 1 \in 1 .. n /\ j + 1 \in 1 .. n /\ i + 1 < j + 1 OBVIOUS
    <3>2. s[i + 1] < s[j + 1] BY <1>6, <3>1
    <3> QED BY <1>11, <3>2
  <2> QED BY <2>2, <2>3, <2>4 DEF Lists
<1>14. S \ {x} \in SUBSET Ids OBVIOUS
<1> QED BY <1>2, <1>9, <1>10, <1>13, <1>14, ListedIs

-----------------------------------------------------------------------------
(***************************************************************************)
(* The link implements Wire.  What the mapping adds to the invariant: the  *)
(* messages of the host to itself, which do not go through the network.    *)
(***************************************************************************)
ToSelf ==
    /\ cpc = "wait" => Dest(cur) # Self
    /\ Range(inq[Self]) = {i \in Ids : Dest(i) = Self /\ i < cur}

\* No message has been sent.
LEMMA InitSelf == Init => ToSelf
<1> SUFFICES ASSUME Init PROVE ToSelf
  OBVIOUS
<1>1. cur = 1 /\ cpc = "idle" /\ inq[Self] = <<>> BY IdFacts DEF Init
<1>2. Range(<<>>) = {} BY DEF Range
<1>3. \A i \in Ids : ~ (i < 1) BY IdFacts
<1> QED BY <1>1, <1>2, <1>3 DEF ToSelf

\* A message to the own host is done when it is in the in queue, any other without.
LEMMA NextSelf ==
    ASSUME LinkInv, ToSelf, [Next]_vars
    PROVE  ToSelf'
<1>1. /\ cur \in Nat \ {0} /\ inq \in [Dests -> Seq(Ids)] /\ Self \in Dests /\ Self \notin Peers
      /\ cpc # "idle" => cur \in Ids
  BY IdFacts DEF LinkInv, TypeInv
<1>2. ASSUME inq'[Self] = inq[Self], cur' = cur, cpc' = "wait" => Dest(cur) # Self
      PROVE  ToSelf'
  BY <1>2 DEF ToSelf
<1>3. ASSUME inq' = inq, cur' = cur + 1, cpc = "wait", cpc' = "idle"
      PROVE  ToSelf'
  <2>1. Dest(cur) # Self BY <1>3 DEF ToSelf
  <2>2. \A i \in Ids : i < cur + 1 <=> i < cur \/ i = cur BY <1>1, IdFacts
  <2>3. {i \in Ids : Dest(i) = Self /\ i < cur + 1} = {i \in Ids : Dest(i) = Self /\ i < cur}
    BY <2>1, <2>2
  <2> QED BY <1>3, <2>3 DEF ToSelf
<1>4. CASE UNCHANGED vars BY <1>2, <1>4 DEF vars, clientVars, ToSelf
<1>5. CASE ClientTake BY <1>2, <1>5 DEF ClientTake
<1>6. CASE SendSelf
  <2>1. PICK q, u : q = inq[Self] /\ u = Append(q, cur) BY Zenon
  <2>2. /\ cpc' = "idle" /\ cur' = cur + 1 /\ inq'[Self] = u /\ Dest(cur) = Self /\ cur \in Ids
    BY <1>1, <1>6, <2>1 DEF SendSelf, ClientDone
  <2>3. q \in Seq(Ids) BY <1>1, <2>1
  <2>4. Range(u) = Range(q) \cup {cur} BY <2>1, <2>2, <2>3, BufferFacts
  <2>5. \A i \in Ids : i < cur + 1 <=> i < cur \/ i = cur BY <1>1, IdFacts
  <2>6. Range(q) = {i \in Ids : Dest(i) = Self /\ i < cur} BY <2>1 DEF ToSelf
  <2>7. Range(u) = {i \in Ids : Dest(i) = Self /\ i < cur + 1} BY <2>2, <2>4, <2>5, <2>6
  <2> QED BY <2>2, <2>7 DEF ToSelf
<1>7. CASE SendTo BY <1>2, <1>7 DEF SendTo
<1>8. CASE RecvAck
  <2>1. CASE Matches(Head(abuf)) BY <1>3, <1>8, <2>1 DEF RecvAck, ClientDone
  <2>2. CASE ~ Matches(Head(abuf)) BY <1>2, <1>8, <2>2 DEF RecvAck, ToSelf
  <2> QED BY <2>1, <2>2
<1>9. CASE Timeout
  <2>1. CASE TryAgain BY <1>2, <1>9, <2>1 DEF Timeout
  <2>2. CASE ~ TryAgain BY <1>3, <1>9, <2>2 DEF Timeout, ClientDone
  <2> QED BY <2>1, <2>2
<1>10. CASE Network
  BY <1>2, <1>10 DEF Network, Lose, Arrive, AckArrive, clientVars, ToSelf
<1>11. ASSUME NEW d \in Peers, Listen(d) PROVE ToSelf'
  <2>1. d # Self BY <1>1
  <2>2. inq'[Self] = inq[Self] /\ cur' = cur /\ cpc' = cpc
    <3>1. CASE ListenAck(d) BY <3>1 DEF ListenAck, clientVars
    <3>2. CASE ListenEnqueue(d) BY <1>1, <2>1, <3>2 DEF ListenEnqueue, clientVars
    <3>3. CASE ListenDrop(d) BY <3>3 DEF ListenDrop, clientVars
    <3> QED BY <1>11, <3>1, <3>2, <3>3 DEF Listen
  <2> QED BY <1>2, <2>2 DEF ToSelf
<1>12. CASE Idle BY <1>4, <1>12 DEF Idle
<1>13. CASE Client BY <1>5, <1>6, <1>7, <1>8, <1>9, <1>13 DEF Client
<1> QED BY <1>4, <1>10, <1>11, <1>12, <1>13 DEF Next

\* A peer has enqueued the messages with the numbers below rcv_seq.
LEMMA Enqueued ==
    ASSUME LinkInv, NEW d \in Peers, NEW i \in Ids, Dest(i) = d, Taken(i)
    PROVE  i \in Range(inq[d]) <=> seqno[i] < rcv_seq[d]
<1>1. PICK q, r : q = inq[d] /\ r = rcv_seq[d] BY Zenon
<1>2. q \in Seq(Ids) /\ r \in Nat /\ Len(q) = r /\ DOMAIN q = 1 .. r
  <2>1. q \in Seq(Ids) /\ r \in Nat /\ Len(q) = r
    BY <1>1, IdFacts DEF LinkInv, TypeInv, Delivery
  <2> QED BY <2>1
<1>3. \A k \in 1 .. r : q[k] \in Ids /\ Taken(q[k]) /\ Dest(q[k]) = d /\ seqno[q[k]] = k - 1
  <2>1. \A k \in 1 .. r : q[k] \in Ids BY <1>2
  <2> QED BY <1>1, <2>1 DEF LinkInv, Delivery
<1>4. seqno \in [Ids -> Nat] /\ seqno[i] \in Nat /\ Numbering BY DEF LinkInv, TypeInv
<1>5. ASSUME i \in Range(q) PROVE seqno[i] < r
  <2>1. PICK k \in 1 .. r : q[k] = i BY <1>2, <1>5 DEF Range
  <2> QED BY <1>2, <1>3, <2>1
<1>6. ASSUME seqno[i] < r PROVE i \in Range(q)
  <2>1. PICK k \in 1 .. r : seqno[i] = k - 1
    <3>1. seqno[i] + 1 \in 1 .. r /\ seqno[i] = (seqno[i] + 1) - 1 BY <1>2, <1>4, <1>6
    <3> QED BY <3>1
  <2>2. q[k] = i BY <1>3, <1>4, <2>1, NumbersDiffer
  <2> QED BY <1>2, <2>2 DEF Range
<1> QED BY <1>1, <1>5, <1>6

\* When a message is expected, the earlier ones to the same peer have arrived.
LEMMA ExpectedNext ==
    ASSUME LinkInv, NEW d \in Peers, NEW i \in Ids, Dest(i) = d, Taken(i),
           seqno[i] = rcv_seq[d]
    PROVE  /\ i \notin Range(inq[d])
           /\ \A j \in Ids : j < i /\ Dest(j) = d => j \in Range(inq[d])
<1>1. rcv_seq[d] \in Nat /\ cur \in Nat /\ Ids \subseteq Nat /\ Numbering
  BY IdFacts DEF LinkInv, TypeInv
<1>2. i \notin Range(inq[d]) BY <1>1, Enqueued
<1>3. ASSUME NEW j \in Ids, j < i, Dest(j) = d PROVE j \in Range(inq[d])
  <2>1. Taken(j) BY <1>1, <1>3 DEF Taken
  <2>2. seqno[j] < seqno[i] BY <1>1, <1>3 DEF Numbering
  <2> QED BY <1>3, <2>1, <2>2, Enqueued
<1> QED BY <1>2, <1>3

\* What has arrived at a host was sent to it.
LEMMA ArrivalsFacts ==
    ASSUME LinkInv, ToSelf
    PROVE  /\ Arrivals \in [Dests -> Seq(Ids)]
           /\ \A d \in Dests : \A i \in Range(Arrivals[d]) :
                 i \in Ids /\ Dest(i) = d /\ i <= cur
<1>1. /\ cur \in Nat /\ Ids \subseteq Nat /\ Self \notin Peers
      /\ \A d \in Dests : d # Self => d \in Peers
      /\ inq \in [Dests -> Seq(Ids)] /\ held \in [Peers -> Ids \cup {None}]
  BY IdFacts DEF LinkInv, TypeInv
<1>2. \A i \in Ids : Taken(i) => i <= cur BY <1>1 DEF Taken
<1>3. ASSUME NEW d \in Dests
      PROVE  /\ Reached(d) \in Seq(Ids)
             /\ \A i \in Range(Reached(d)) : i \in Ids /\ Dest(i) = d /\ i <= cur
  <2>1. PICK q : q = inq[d] /\ q \in Seq(Ids) BY <1>1
  <2>2. \A i \in Range(q) : i \in Ids /\ Dest(i) = d /\ i <= cur
    <3>1. CASE d = Self
      <4>1. \A i \in Ids : i < cur => i <= cur BY <1>1
      <4>2. Range(q) = {i \in Ids : Dest(i) = Self /\ i < cur} BY <2>1, <3>1 DEF ToSelf
      <4> QED BY <3>1, <4>1, <4>2
    <3>2. CASE d \in Peers
      <4>1. ASSUME NEW i \in Range(q) PROVE i \in Ids /\ Dest(i) = d /\ i <= cur
        <5>1. Len(q) = rcv_seq[d] BY <2>1, <3>2 DEF LinkInv, Delivery
        <5>2. PICK k \in 1 .. Len(q) : q[k] = i BY <2>1 DEF Range
        <5>3. i \in Ids BY <2>1, <5>2
        <5>4. Taken(i) /\ Dest(i) = d BY <2>1, <3>2, <5>1, <5>2 DEF LinkInv, Delivery
        <5> QED BY <1>2, <5>3, <5>4
      <4> QED BY <4>1
    <3> QED BY <1>1, <3>1, <3>2
  <2>3. CASE Reached(d) = q BY <2>1, <2>2, <2>3
  <2>4. CASE d \in Peers /\ held[d] # None /\ Reached(d) = Append(q, held[d])
    <3>1. PICK h \in Ids : h = held[d] BY <1>1, <2>4
    <3>2. Taken(h) /\ Dest(h) = d BY <2>4, <3>1 DEF LinkInv, Datagrams
    <3>3. PICK u : u = Append(q, h) /\ u \in Seq(Ids) /\ Range(u) = Range(q) \cup {h}
      BY <2>1, <3>1, BufferFacts
    <3>4. \A i \in Range(u) : i \in Ids /\ Dest(i) = d /\ i <= cur
      BY <1>2, <2>2, <3>1, <3>2, <3>3
    <3> QED BY <2>4, <3>1, <3>3, <3>4
  <2> QED BY <2>1, <2>3, <2>4 DEF Reached
<1> QED BY <1>3 DEF Arrivals

\* The mapped variables, in terms of what has arrived.
LEMMA Mapped ==
    /\ First = IF cur \in Ids /\ cur \in Range(Arrivals[Dest(cur)]) THEN cur + 1 ELSE cur
    /\ \A d \in Dests : Gone(d) =
          {i \in Ids : Dest(i) = d /\ i < cur /\ i \notin Range(Arrivals[d])}
    /\ \A d \in Dests : Overdue[d] = Listed(Gone(d)) /\ Gone(d) \in SUBSET Ids
<1>1. \A d \in Dests : Arrivals[d] = Reached(d) BY DEF Arrivals
<1>2. cur \in Ids => Dest(cur) \in Dests BY IdFacts
<1> QED BY <1>1, <1>2 DEF First, Gone, Overdue

\* The same after a step.
LEMMA MappedNext ==
    \A b, c : b = Arrivals' /\ c = cur' =>
        /\ First' = IF c \in Ids /\ c \in Range(b[Dest(c)]) THEN c + 1 ELSE c
        /\ \A d \in Dests :
              Gone(d)' = {i \in Ids : Dest(i) = d /\ i < c /\ i \notin Range(b[d])}
<1> SUFFICES ASSUME NEW b, NEW c, b = Arrivals', c = cur'
             PROVE  /\ First' = IF c \in Ids /\ c \in Range(b[Dest(c)]) THEN c + 1 ELSE c
                    /\ \A d \in Dests :
                          Gone(d)' = {i \in Ids : Dest(i) = d /\ i < c /\ i \notin Range(b[d])}
  OBVIOUS
<1>1. \A d \in Dests : b[d] = Reached(d)' BY DEF Arrivals
<1>2. c \in Ids => Dest(c) \in Dests BY IdFacts
<1>3. First' = IF c \in Ids /\ c \in Range(Reached(Dest(c))') THEN c + 1 ELSE c
  BY DEF First
<1>4. \A d \in Dests : Gone(d)' =
         {i \in Ids : Dest(i) = d /\ i < c /\ i \notin Range(Reached(d)')}
  BY DEF Gone
<1> QED BY <1>1, <1>2, <1>3, <1>4

\* The out queue of Wire from a message on.
LEMMA QueueFrom ==
    ASSUME NEW f \in Ids
    PROVE  LET s == SubSeq(Messages, f, Len(Script))
           IN  s # <<>> /\ Head(s) = f /\ Tail(s) = SubSeq(Messages, f + 1, Len(Script))
<1>1. Len(Script) \in Nat /\ Ids = 1 .. Len(Script) BY LinkAssumption DEF Ids
<1>2. PICK n \in Nat : n = Len(Script) BY <1>1
<1>3. Messages \in Seq(Ids) /\ Len(Messages) = n /\ \A i \in 1 .. n : Messages[i] = i
  BY <1>1, <1>2 DEF Messages
<1>4. f \in 1 .. n /\ n \in f .. n BY <1>1, <1>2
<1>5. PICK s : s = SubSeq(Messages, f, n) BY Zenon
<1>6. Head(s) = f /\ Tail(s) = SubSeq(Messages, f + 1, n)
  BY <1>3, <1>4, <1>5, HeadTailOfSubSeq
<1>7. Len(s) # 0
  <2>1. \A i \in f .. n : Messages[i] \in Ids BY <1>3, <1>4
  <2>2. f \in Int /\ n \in Int /\ f <= n BY <1>4
  <2>3. Len(s) = n - f + 1 BY <1>5, <2>1, <2>2, SubSeqProperties
  <2> QED BY <2>2, <2>3
<1>8. s # <<>> BY <1>7
<1> QED BY <1>2, <1>5, <1>6, <1>8

\* What happens to the mapped variables when neither the queues nor cur change.
LEMMA Unmoved ==
    ASSUME cur' = cur, Arrivals' = Arrivals
    PROVE  UNCHANGED <<Queue, Arrivals, Overdue>>
<1>1. \A d \in Dests : Reached(d)' = Reached(d)
  BY DEF Arrivals
<1>2. PICK c : c = cur OBVIOUS
<1>3. First' = First
  <2>1. cur \in Ids => Reached(Dest(cur))' = Reached(Dest(cur))
    <3>1. c \in Ids => Dest(c) \in Dests BY IdFacts
    <3>2. c \in Ids => Reached(Dest(c))' = Reached(Dest(c)) BY <1>1, <3>1
    <3> QED BY <1>2, <3>2
  <2> QED BY <2>1 DEF First
<1>4. \A d \in Dests : Gone(d)' = Gone(d) BY <1>1 DEF Gone
<1> QED BY <1>3, <1>4 DEF Queue, Overdue

\* A message arrives.
Puts(i) == Arrivals' = [Arrivals EXCEPT ![Dest(i)] = Append(@, i)]

\* The current message arrives, when none before it to the same host is overdue.
LEMMA TransferStep ==
    ASSUME LinkInv, ToSelf, NEW i \in Ids, i = cur, i \notin Range(Arrivals[Dest(i)]),
           \A j \in Ids : j < i /\ Dest(j) = Dest(i) => j \in Range(Arrivals[Dest(i)]),
           Puts(i),
           cur' = cur \/ cur' = cur + 1
    PROVE  W!Transfer
<1>0. PICK d \in Dests : d = Dest(i) BY IdFacts
<1>1. PICK a, b, c : d = Dest(i) /\ a = Arrivals /\ b = Arrivals' /\ c = cur'
  BY <1>0
<1>2. /\ a \in [Dests -> Seq(Ids)]
      /\ \A e \in Dests : \A j \in Range(a[e]) : j \in Ids /\ Dest(j) = e /\ j <= i
  BY <1>1, ArrivalsFacts
<1>3. i \in Nat /\ Ids \subseteq Nat /\ (c = i \/ c = i + 1) BY <1>1, IdFacts
<1>4. b = [a EXCEPT ![d] = Append(@, i)] BY <1>1 DEF Puts
<1>5. PICK u : u = Append(a[d], i) /\ Range(u) = Range(a[d]) \cup {i}
  BY <1>2, BufferFacts
<1>6. b[d] = u /\ \A e \in Dests : e # d => b[e] = a[e] BY <1>2, <1>4, <1>5
<1>7. First = i BY <1>1, Mapped
<1>8. /\ First' = IF c \in Ids /\ c \in Range(b[Dest(c)]) THEN c + 1 ELSE c
      /\ \A e \in Dests : Gone(e)' = {j \in Ids : Dest(j) = e /\ j < c /\ j \notin Range(b[e])}
  <2>1. b = Arrivals' /\ c = cur' BY <1>1
  <2>2. First' = IF c \in Ids /\ c \in Range(b[Dest(c)]) THEN c + 1 ELSE c
    BY <2>1, MappedNext
  <2>3. \A e \in Dests :
           Gone(e)' = {j \in Ids : Dest(j) = e /\ j < c /\ j \notin Range(b[e])}
    BY <2>1, MappedNext
  <2> QED BY <2>2, <2>3
<1>9. First' = i + 1
  <2>1. CASE c = i
    <3>1. i \in Range(b[Dest(i)]) BY <1>1, <1>5, <1>6
    <3> QED BY <1>8, <2>1, <3>1
  <2>2. CASE c = i + 1
    <3>1. ASSUME c \in Ids, c \in Range(b[Dest(c)]) PROVE FALSE
      <4>1. Dest(c) \in Dests BY <3>1, IdFacts
      <4>2. Range(b[Dest(c)]) \subseteq Range(a[Dest(c)]) \cup {i}
        BY <1>5, <1>6, <4>1
      <4>3. c \in Range(a[Dest(c)]) BY <1>3, <2>2, <3>1, <4>2
      <4>4. c <= i BY <1>2, <4>1, <4>3
      <4> QED BY <1>3, <2>2, <4>4
    <3> QED BY <1>8, <2>2, <3>1
  <2> QED BY <1>3, <2>1, <2>2
<1>10. Gone(d) = {}
  BY <1>1, Mapped
<1>11. \A e \in Dests : Gone(e)' = Gone(e)
  <2> SUFFICES ASSUME NEW e \in Dests PROVE Gone(e)' = Gone(e)
    OBVIOUS
  <2>1. Gone(e) = {j \in Ids : Dest(j) = e /\ j < i /\ j \notin Range(a[e])} BY <1>1, Mapped
  <2>2. Gone(e)' = {j \in Ids : Dest(j) = e /\ j < c /\ j \notin Range(b[e])} BY <1>8
  <2>3. \A j \in Ids : Dest(j) = e =>
           (j < c /\ j \notin Range(b[e]) <=> j < i /\ j \notin Range(a[e]))
    <3> SUFFICES ASSUME NEW j \in Ids, Dest(j) = e
                 PROVE  j < c /\ j \notin Range(b[e]) <=> j < i /\ j \notin Range(a[e])
      OBVIOUS
    <3>1. CASE j = i
      <4>1. j \in Range(b[e]) BY <1>1, <1>5, <1>6, <3>1
      <4>2. ~ (j < i) BY <1>3, <3>1
      <4> QED BY <4>1, <4>2
    <3>2. CASE j # i
      <4>1. j < c <=> j < i BY <1>3, <3>2
      <4>2. j \in Range(b[e]) <=> j \in Range(a[e]) BY <1>5, <1>6, <3>2
      <4> QED BY <4>1, <4>2
    <3> QED BY <3>1, <3>2
  <2> QED BY <2>1, <2>2, <2>3
<1>12. Overdue[d] = <<>>
  <2>1. Listed({}) = <<>> BY ListedEmpty
  <2> QED BY <1>10, <2>1, Mapped
<1>13. Overdue' = Overdue
  BY <1>11 DEF Overdue
<1>14. Queue # <<>> /\ Head(Queue) = i /\ Queue' = Tail(Queue)
  BY <1>7, <1>9, QueueFrom DEF Queue
<1>15. Dest(Head(Queue)) = d BY <1>1, <1>14
<1> QED BY <1>1, <1>12, <1>13, <1>14, <1>15 DEF W!Transfer, Puts

\* An earlier message arrives after all, when none before it to the same host is overdue.
LEMMA LateStep ==
    ASSUME LinkInv, ToSelf, NEW i \in Ids, i < cur, i \notin Range(Arrivals[Dest(i)]),
           \A j \in Ids : j < i /\ Dest(j) = Dest(i) => j \in Range(Arrivals[Dest(i)]),
           Puts(i),
           cur' = cur
    PROVE  W!Late(Dest(i))
<1>0. PICK d \in Dests : d = Dest(i) BY IdFacts
<1>1. PICK a, b, c : d = Dest(i) /\ a = Arrivals /\ b = Arrivals' /\ c = cur
  BY <1>0
<1>2. a \in [Dests -> Seq(Ids)] BY <1>1, ArrivalsFacts
<1>3. i \in Nat /\ Ids \subseteq Nat /\ c \in Nat /\ i < c
  BY <1>1, IdFacts DEF LinkInv, TypeInv
<1>4. b = [a EXCEPT ![d] = Append(@, i)] BY <1>1 DEF Puts
<1>5. PICK u : u = Append(a[d], i) /\ Range(u) = Range(a[d]) \cup {i}
  BY <1>2, BufferFacts
<1>6. b[d] = u /\ \A e \in Dests : e # d => b[e] = a[e] BY <1>2, <1>4, <1>5
<1>7. /\ First' = IF c \in Ids /\ c \in Range(b[Dest(c)]) THEN c + 1 ELSE c
      /\ \A e \in Dests : Gone(e)' = {j \in Ids : Dest(j) = e /\ j < c /\ j \notin Range(b[e])}
  <2>1. b = Arrivals' /\ c = cur' BY <1>1
  <2>2. First' = IF c \in Ids /\ c \in Range(b[Dest(c)]) THEN c + 1 ELSE c
    BY <2>1, MappedNext
  <2>3. \A e \in Dests :
           Gone(e)' = {j \in Ids : Dest(j) = e /\ j < c /\ j \notin Range(b[e])}
    BY <2>1, MappedNext
  <2> QED BY <2>2, <2>3
<1>8. First' = First
  <2>1. ASSUME c \in Ids PROVE c \in Range(b[Dest(c)]) <=> c \in Range(a[Dest(c)])
    <3>1. Dest(c) \in Dests /\ c # i BY <1>3, <2>1, IdFacts
    <3> QED BY <1>5, <1>6, <3>1
  <2>2. First = IF c \in Ids /\ c \in Range(a[Dest(c)]) THEN c + 1 ELSE c BY <1>1, Mapped
  <2> QED BY <1>7, <2>1, <2>2
<1>9. Queue' = Queue BY <1>8 DEF Queue
<1>10. PICK G \in SUBSET Ids : /\ G = Gone(d)
                               /\ G = {j \in Ids : Dest(j) = d /\ j < c /\ j \notin Range(a[d])}
  BY <1>1, Mapped
<1>11. i \in G /\ \A j \in G : i <= j
  <2>1. i \in G BY <1>1, <1>3, <1>10
  <2>2. ASSUME NEW j \in G PROVE i <= j
    <3>1. j \in Ids /\ Dest(j) = d /\ j \notin Range(a[d]) BY <1>10
    <3>2. ~ (j < i) BY <1>1, <3>1
    <3>3. j \in Nat BY <1>3, <3>1
    <3> QED BY <1>3, <3>2, <3>3
  <2> QED BY <2>1, <2>2
<1>12. Gone(d)' = G \ {i}
  BY <1>5, <1>6, <1>7, <1>10
<1>13. \A e \in Dests : e # d => Gone(e)' = Gone(e)
  <2>1. \A e \in Dests : Gone(e) = {j \in Ids : Dest(j) = e /\ j < c /\ j \notin Range(a[e])}
    BY <1>1, Mapped
  <2> QED BY <1>6, <1>7, <2>1
<1>14. Overdue[d] = Listed(G) /\ Listed(G) # <<>> /\ Head(Listed(G)) = i
  BY <1>10, <1>11, ListedTail, Mapped
<1>15. Overdue' = [Overdue EXCEPT ![d] = Tail(@)]
  <2>1. Overdue'[d] = Tail(Overdue[d])
    <3>1. Tail(Listed(G)) = Listed(G \ {i}) BY <1>11, ListedTail
    <3>2. Overdue'[d] = Listed(Gone(d)') BY DEF Overdue
    <3> QED BY <1>12, <1>14, <3>1, <3>2
  <2>2. \A e \in Dests : e # d => Overdue'[e] = Overdue[e] BY <1>13 DEF Overdue
  <2>3. PICK o, p : o = Overdue /\ p = Overdue' BY Zenon
  <2>4. o = [e \in Dests |-> o[e]] /\ p = [e \in Dests |-> p[e]] BY <2>3 DEF Overdue
  <2>5. p = [o EXCEPT ![d] = Tail(@)] BY <2>1, <2>2, <2>3, <2>4
  <2> QED BY <2>3, <2>5
<1>16. W!Late(d) BY <1>1, <1>9, <1>14, <1>15 DEF W!Late, Puts
<1> QED BY <1>1, <1>16

\* The client is done with a message: it has arrived, or it is overdue.
LEMMA DoneStep ==
    ASSUME LinkInv, ToSelf, cur \in Ids, cur' = cur + 1, Arrivals' = Arrivals
    PROVE  W!Abandon \/ UNCHANGED <<Queue, Arrivals, Overdue>>
<1>0. PICK i \in Ids, d \in Dests : i = cur /\ d = Dest(i)
  <2>1. Dest(cur) \in Dests BY IdFacts
  <2> QED BY <2>1, Zenon
<1>1. PICK a : i = cur /\ d = Dest(i) /\ a = Arrivals BY <1>0
<1>2. /\ a \in [Dests -> Seq(Ids)]
      /\ \A e \in Dests : \A j \in Range(a[e]) : j \in Ids /\ Dest(j) = e /\ j <= i
  BY <1>1, ArrivalsFacts
<1>3. i \in Nat /\ Ids \subseteq Nat BY IdFacts
<1>4. /\ First' = IF i + 1 \in Ids /\ i + 1 \in Range(a[Dest(i + 1)]) THEN i + 2 ELSE i + 1
      /\ \A e \in Dests : Gone(e)' =
            {j \in Ids : Dest(j) = e /\ j < i + 1 /\ j \notin Range(a[e])}
  <2>1. (i + 1) + 1 = i + 2 BY <1>3
  <2>2. PICK c : c = cur' /\ c = i + 1 BY <1>1
  <2> QED BY <1>1, <2>1, <2>2, MappedNext
<1>5. First' = i + 1
  <2>1. ASSUME i + 1 \in Ids, i + 1 \in Range(a[Dest(i + 1)]) PROVE FALSE
    <3>1. Dest(i + 1) \in Dests BY <2>1, IdFacts
    <3>2. i + 1 <= i BY <1>2, <2>1, <3>1
    <3> QED BY <1>3, <3>2
  <2> QED BY <1>4, <2>1
<1>6. First = IF i \in Range(a[d]) THEN i + 1 ELSE i BY <1>1, Mapped
<1>7. \A e \in Dests : Gone(e) = {j \in Ids : Dest(j) = e /\ j < i /\ j \notin Range(a[e])}
  BY <1>1, Mapped
<1>8. \A j \in Ids : j < i + 1 <=> j < i \/ j = i BY <1>3
<1>9. \A e \in Dests : e # d => Gone(e)' = Gone(e) BY <1>1, <1>4, <1>7, <1>8
<1>10. CASE i \in Range(a[d])
  <2>1. Gone(d)' = Gone(d)
    <3>1. \A j \in Ids : Dest(j) = d =>
             (j < i + 1 /\ j \notin Range(a[d]) <=> j < i /\ j \notin Range(a[d]))
      BY <1>8, <1>10
    <3> QED BY <1>4, <1>7, <3>1
  <2>2. \A e \in Dests : Gone(e)' = Gone(e) BY <1>9, <2>1
  <2>3. Queue' = Queue BY <1>5, <1>6, <1>10 DEF Queue
  <2> QED BY <2>2, <2>3 DEF Overdue
<1>11. CASE i \notin Range(a[d])
  <2>1. PICK G \in SUBSET Ids : G = Gone(d) BY Mapped
  <2>2. Gone(d)' = G \cup {i} BY <1>1, <1>4, <1>7, <1>8, <1>11, <2>1
  <2>3. \A j \in G : j < i BY <1>7, <2>1
  <2>4. Queue # <<>> /\ Head(Queue) = i /\ Queue' = Tail(Queue)
    BY <1>5, <1>6, <1>11, QueueFrom DEF Queue
  <2>5. Overdue' = [Overdue EXCEPT ![d] = Append(@, i)]
    <3>1. Overdue'[d] = Append(Overdue[d], i)
      <4>1. Listed(G \cup {i}) = Append(Listed(G), i) BY <2>3, ListedAppend
      <4>2. Overdue'[d] = Listed(Gone(d)') BY DEF Overdue
      <4>3. Overdue[d] = Listed(G) BY <2>1, Mapped
      <4> QED BY <2>2, <4>1, <4>2, <4>3
    <3>2. \A e \in Dests : e # d => Overdue'[e] = Overdue[e] BY <1>9 DEF Overdue
    <3>3. PICK o, p : o = Overdue /\ p = Overdue' BY Zenon
    <3>4. o = [e \in Dests |-> o[e]] /\ p = [e \in Dests |-> p[e]] BY <3>3 DEF Overdue
    <3>5. p = [o EXCEPT ![d] = Append(@, i)] BY <3>1, <3>2, <3>3, <3>4
    <3> QED BY <3>3, <3>5
  <2>6. Dest(Head(Queue)) = d BY <1>1, <2>4
  <2> QED BY <1>1, <2>4, <2>5, <2>6 DEF W!Abandon
<1> QED BY <1>10, <1>11

\* Whether a datagram that is held is expected, and what is in the in queues, decide
\* what has arrived.
LEMMA SameArrivals ==
    ASSUME inq' = inq, held' = held, rcv_seq' = rcv_seq,
           \A d \in Peers : held[d] # None => seqno'[held[d]] = seqno[held[d]]
    PROVE  Arrivals' = Arrivals
<1>1. ASSUME NEW d \in Dests PROVE Reached(d)' = Reached(d)
  <2>1. ASSUME d \in Peers, held[d] # None PROVE Expected(d, held[d])' <=> Expected(d, held[d])
    BY <2>1 DEF Expected
  <2> QED BY <2>1 DEF Reached
<1> QED BY <1>1 DEF Arrivals

\* One host's part of Arrivals.
LEMMA OneArrival ==
    ASSUME NEW d \in Dests, NEW i \in Ids, Dest(i) = d,
           Reached(d)' = Append(Reached(d), i),
           \A e \in Dests : e # d => Reached(e)' = Reached(e)
    PROVE  Puts(i)
<1>1. PICK a, b : a = Arrivals /\ b = Arrivals' BY Zenon
<1>2. a = [e \in Dests |-> a[e]] /\ b = [e \in Dests |-> b[e]] BY <1>1 DEF Arrivals
<1>3. b[d] = Append(a[d], i) /\ \A e \in Dests : e # d => b[e] = a[e] BY <1>1 DEF Arrivals
<1>4. b = [a EXCEPT ![d] = Append(@, i)] BY <1>2, <1>3
<1> QED BY <1>1, <1>4 DEF Puts

\* The steps of the client thread.
LEMMA ClientWire ==
    ASSUME LinkInv, ToSelf, Client
    PROVE  W!Next \/ UNCHANGED <<Queue, Arrivals, Overdue>>
<1>1. /\ cur \in Nat \ {0} /\ seqno \in [Ids -> Nat] /\ held \in [Peers -> Ids \cup {None}]
      /\ inq \in [Dests -> Seq(Ids)] /\ Ids \subseteq Nat /\ None \notin Ids
      /\ Self \in Dests /\ Self \notin Peers
      /\ cpc # "idle" => cur \in Ids
  BY IdFacts DEF LinkInv, TypeInv
<1>2. ASSUME cur' = cur, inq' = inq, held' = held, rcv_seq' = rcv_seq, seqno' = seqno
      PROVE  UNCHANGED <<Queue, Arrivals, Overdue>>
  <2>1. Arrivals' = Arrivals BY <1>2, SameArrivals
  <2> QED BY <1>2, <2>1, Unmoved
<1>3. ASSUME cpc # "idle", cur' = cur + 1, inq' = inq, held' = held, rcv_seq' = rcv_seq,
             seqno' = seqno
      PROVE  W!Next \/ UNCHANGED <<Queue, Arrivals, Overdue>>
  <2>1. Arrivals' = Arrivals BY <1>3, SameArrivals
  <2> QED BY <1>1, <1>3, <2>1, DoneStep DEF W!Next
<1>4. CASE ClientTake
  <2>1. /\ cpc = "idle" /\ cur \in Ids /\ seqno' = [seqno EXCEPT ![cur] = snd_seq[Dest(cur)]]
        /\ cur' = cur /\ inq' = inq /\ held' = held /\ rcv_seq' = rcv_seq
    BY <1>4 DEF ClientTake, listenVars
  <2>2. ASSUME NEW d \in Peers, held[d] # None PROVE seqno'[held[d]] = seqno[held[d]]
    <3>1. PICK h \in Ids : h = held[d] BY <1>1, <2>2
    <3>2. Taken(h) BY <2>2, <3>1 DEF LinkInv, Datagrams
    <3>3. h # cur BY <1>1, <2>1, <3>2 DEF Taken
    <3> QED BY <1>1, <2>1, <3>1, <3>3
  <2>3. Arrivals' = Arrivals BY <2>1, <2>2, SameArrivals
  <2> QED BY <2>1, <2>3, Unmoved
<1>5. CASE SendSelf
  <2>1. PICK i \in Ids : i = cur /\ Dest(i) = Self
    BY <1>1, <1>5 DEF SendSelf
  <2>2. /\ inq' = [inq EXCEPT ![Self] = Append(@, i)] /\ cur' = i + 1
        /\ held' = held /\ rcv_seq' = rcv_seq /\ seqno' = seqno
    BY <1>5, <2>1 DEF SendSelf, ClientDone, listenVars
  <2>3. Reached(Self) = inq[Self] /\ Reached(Self)' = inq'[Self]
    BY <1>1 DEF Reached
  <2>4. Reached(Self)' = Append(Reached(Self), i) BY <1>1, <2>2, <2>3
  <2>5. ASSUME NEW e \in Dests, e # Self PROVE Reached(e)' = Reached(e)
    <3>1. inq'[e] = inq[e] BY <1>1, <2>2, <2>5
    <3>2. \A h : Expected(e, h)' <=> Expected(e, h) BY <2>2 DEF Expected
    <3> QED BY <2>2, <3>1, <3>2 DEF Reached
  <2>6. Puts(i) BY <1>1, <2>1, <2>4, <2>5, OneArrival
  <2>7. Range(Arrivals[Self]) = {j \in Ids : Dest(j) = Self /\ j < i}
    BY <1>1, <2>1, <2>3 DEF ToSelf, Arrivals
  <2>8. i \notin Range(Arrivals[Self]) BY <1>1, <2>7
  <2>9. \A j \in Ids : j < i /\ Dest(j) = Self => j \in Range(Arrivals[Self]) BY <2>7
  <2>10. W!Transfer BY <2>1, <2>2, <2>6, <2>8, <2>9, TransferStep
  <2> QED BY <2>10 DEF W!Next
<1>6. CASE SendTo BY <1>2, <1>6 DEF SendTo, listenVars
<1>7. CASE RecvAck
  <2>1. CASE Matches(Head(abuf)) BY <1>3, <1>7, <2>1 DEF RecvAck, ClientDone, listenVars
  <2>2. CASE ~ Matches(Head(abuf)) BY <1>2, <1>7, <2>2 DEF RecvAck, listenVars
  <2> QED BY <2>1, <2>2
<1>8. CASE Timeout
  <2>1. CASE TryAgain BY <1>2, <1>8, <2>1 DEF Timeout, listenVars
  <2>2. CASE ~ TryAgain BY <1>3, <1>8, <2>2 DEF Timeout, ClientDone, listenVars
  <2> QED BY <2>1, <2>2
<1> QED BY <1>4, <1>5, <1>6, <1>7, <1>8 DEF Client

\* The steps of the listen thread of a peer.
LEMMA ListenWire ==
    ASSUME LinkInv, ToSelf, NEW d \in Peers, Listen(d)
    PROVE  W!Next \/ UNCHANGED <<Queue, Arrivals, Overdue>>
<1>1. /\ cur \in Nat /\ seqno \in [Ids -> Nat] /\ held \in [Peers -> Ids \cup {None}]
      /\ rbuf \in [Peers -> Seq(Ids)] /\ rcv_seq \in [Peers -> Nat]
      /\ inq \in [Dests -> Seq(Ids)] /\ Ids \subseteq Nat /\ None \notin Ids
      /\ Peers \subseteq Dests
  BY IdFacts DEF LinkInv, TypeInv
<1>2. cur' = cur /\ seqno' = seqno
  BY DEF Listen, ListenAck, ListenEnqueue, ListenDrop, clientVars
<1>3. ASSUME Reached(d)' = Reached(d), \A e \in Dests : e # d => Reached(e)' = Reached(e)
      PROVE  UNCHANGED <<Queue, Arrivals, Overdue>>
  <2>1. Arrivals' = Arrivals BY <1>3 DEF Arrivals
  <2> QED BY <1>2, <2>1, Unmoved
<1>4. CASE ListenAck(d)
  <2>1. PICK i \in Ids : i = Head(rbuf[d]) /\ i \in Range(rbuf[d])
    <3>1. rbuf[d] \in Seq(Ids) /\ rbuf[d] # <<>> BY <1>1, <1>4 DEF ListenAck, LinkInv, TypeInv
    <3> QED BY <3>1, BufferFacts
  <2>2. /\ held[d] = None /\ held' = [held EXCEPT ![d] = i]
        /\ inq' = inq /\ rcv_seq' = rcv_seq
    BY <1>4, <2>1 DEF ListenAck
  <2>3. Taken(i) /\ Dest(i) = d BY <2>1 DEF LinkInv, Datagrams
  <2>4. ASSUME NEW e \in Dests, e # d PROVE Reached(e)' = Reached(e)
    <3>1. e \in Peers => held'[e] = held[e] BY <1>1, <2>2, <2>4
    <3>2. e \in Peers => (Expected(e, held[e])' <=> Expected(e, held[e]))
      BY <1>2, <2>2, <3>1 DEF Expected
    <3> QED BY <2>2, <3>1, <3>2 DEF Reached
  <2>5. Reached(d) = inq[d] BY <2>2 DEF Reached
  <2>6. held'[d] = i /\ i # None BY <1>1, <2>2
  <2>7. Expected(d, held[d])' <=> seqno[i] = rcv_seq[d] BY <1>2, <2>2, <2>6 DEF Expected
  <2>8. CASE seqno[i] # rcv_seq[d]
    <3>1. Reached(d)' = Reached(d) BY <2>2, <2>5, <2>7, <2>8 DEF Reached
    <3> QED BY <1>3, <2>4, <3>1
  <2>9. CASE seqno[i] = rcv_seq[d]
    <3>1. Reached(d)' = Append(Reached(d), i)
      BY <2>2, <2>5, <2>6, <2>7, <2>9 DEF Reached
    <3>2. Puts(i) BY <1>1, <2>3, <2>4, <3>1, OneArrival
    <3>3. Arrivals[d] = inq[d] BY <1>1, <2>5 DEF Arrivals
    <3>4. /\ i \notin Range(Arrivals[d])
          /\ \A j \in Ids : j < i /\ Dest(j) = d => j \in Range(Arrivals[d])
      BY <2>3, <2>9, <3>3, ExpectedNext
    <3>5. CASE i = cur
      <4>1. W!Transfer BY <1>2, <2>3, <3>2, <3>4, <3>5, TransferStep
      <4> QED BY <4>1 DEF W!Next
    <3>6. CASE i < cur
      <4>1. W!Late(d) BY <1>2, <2>3, <3>2, <3>4, <3>6, LateStep
      <4> QED BY <1>1, <4>1 DEF W!Next
    <3> QED BY <2>3, <3>5, <3>6 DEF Taken
  <2> QED BY <2>8, <2>9
<1>5. CASE ListenEnqueue(d)
  <2>1. PICK h \in Ids : h = held[d] BY <1>1, <1>5 DEF ListenEnqueue
  <2>2. /\ Expected(d, held[d]) /\ held[d] # None
        /\ rcv_seq' = [rcv_seq EXCEPT ![d] = @ + 1]
        /\ inq' = [inq EXCEPT ![d] = Append(@, h)]
        /\ held' = [held EXCEPT ![d] = None]
    BY <1>5, <2>1 DEF ListenEnqueue
  <2>3. Reached(d) = Append(inq[d], h) BY <2>1, <2>2 DEF Reached
  <2>4. inq'[d] = Append(inq[d], h) /\ held'[d] = None BY <1>1, <2>2
  <2>5. Reached(d)' = inq'[d] BY <2>4 DEF Reached
  <2>6. ASSUME NEW e \in Dests, e # d PROVE Reached(e)' = Reached(e)
    <3>1. inq'[e] = inq[e] /\ (e \in Peers => held'[e] = held[e] /\ rcv_seq'[e] = rcv_seq[e])
      BY <1>1, <2>2, <2>6
    <3>2. e \in Peers => (Expected(e, held[e])' <=> Expected(e, held[e]))
      BY <1>2, <3>1 DEF Expected
    <3> QED BY <3>1, <3>2 DEF Reached
  <2> QED BY <1>3, <2>3, <2>4, <2>5, <2>6
<1>6. CASE ListenDrop(d)
  <2>1. /\ ~ Expected(d, held[d]) /\ held[d] # None
        /\ held' = [held EXCEPT ![d] = None] /\ inq' = inq /\ rcv_seq' = rcv_seq
    BY <1>6 DEF ListenDrop
  <2>2. held'[d] = None BY <1>1, <2>1
  <2>3. Reached(d)' = Reached(d) BY <2>1, <2>2 DEF Reached
  <2>4. ASSUME NEW e \in Dests, e # d PROVE Reached(e)' = Reached(e)
    <3>1. e \in Peers => held'[e] = held[e] BY <1>1, <2>1, <2>4
    <3>2. e \in Peers => (Expected(e, held[e])' <=> Expected(e, held[e]))
      BY <1>2, <2>1, <3>1 DEF Expected
    <3> QED BY <2>1, <3>1, <3>2 DEF Reached
  <2> QED BY <1>3, <2>3, <2>4
<1> QED BY <1>4, <1>5, <1>6 DEF Listen

\* Every step of the link is one of Wire, or invisible.
LEMMA NextWire ==
    ASSUME LinkInv, ToSelf, [Next]_vars
    PROVE  [W!Next]_<<Queue, Arrivals, Overdue>>
<1>1. ASSUME UNCHANGED <<clientVars, listenVars, inq>>
      PROVE  UNCHANGED <<Queue, Arrivals, Overdue>>
  <2>1. /\ cur' = cur /\ seqno' = seqno /\ inq' = inq
        /\ held' = held /\ rcv_seq' = rcv_seq
    BY <1>1 DEF clientVars, listenVars
  <2>2. Arrivals' = Arrivals BY <2>1, SameArrivals
  <2> QED BY <2>1, <2>2, Unmoved
<1>2. ASSUME UNCHANGED clientVars, held' = held, rcv_seq' = rcv_seq, inq' = inq
      PROVE  UNCHANGED <<Queue, Arrivals, Overdue>>
  <2>1. cur' = cur /\ seqno' = seqno BY <1>2 DEF clientVars
  <2>2. Arrivals' = Arrivals BY <1>2, <2>1, SameArrivals
  <2> QED BY <2>1, <2>2, Unmoved
<1>3. CASE Network
  <2>1. UNCHANGED clientVars /\ held' = held /\ rcv_seq' = rcv_seq /\ inq' = inq
    BY <1>3 DEF Network, Lose, Arrive, AckArrive, listenVars
  <2> QED BY <1>2, <2>1
<1>4. CASE UNCHANGED vars BY <1>1, <1>4 DEF vars
<1>5. CASE Idle BY <1>4, <1>5 DEF Idle
<1>6. CASE Client BY <1>6, ClientWire
<1>7. ASSUME NEW d \in Peers, Listen(d) PROVE [W!Next]_<<Queue, Arrivals, Overdue>>
  BY <1>7, ListenWire
<1> QED BY <1>3, <1>4, <1>5, <1>6, <1>7 DEF Next

\* At the beginning all messages are in the out queue.
LEMMA InitWire == Init => W!Init
<1> SUFFICES ASSUME Init PROVE W!Init
  OBVIOUS
<1>1. /\ cur = 1 /\ held = [d \in Peers |-> None] /\ inq = [d \in Dests |-> <<>>]
  BY DEF Init
<1>2. \A d \in Dests : Reached(d) = <<>> BY <1>1 DEF Reached
<1>3. Arrivals = [d \in Dests |-> <<>>] BY <1>2 DEF Arrivals
<1>4. Range(<<>>) = {} BY DEF Range
<1>5. First = 1
  <2>1. 1 \in Ids => Arrivals[Dest(1)] = <<>> BY <1>3, IdFacts
  <2> QED BY <1>1, <1>4, <2>1, Mapped
<1>6. Queue = Messages
  <2>1. PICK n \in Nat : n = Len(Script) /\ Ids = 1 .. n BY LinkAssumption DEF Ids
  <2>2. Messages \in Seq(Ids) /\ Len(Messages) = n /\ \A i \in 1 .. n : Messages[i] = i
    BY <2>1 DEF Messages
  <2>3. /\ SubSeq(Messages, 1, n) \in Seq(Ids) /\ Len(SubSeq(Messages, 1, n)) = n
        /\ \A i \in 1 .. n : SubSeq(Messages, 1, n)[i] = Messages[i]
    <3>1. \A i \in 1 .. n : Messages[i] \in Ids BY <2>1, <2>2
    <3>2. /\ SubSeq(Messages, 1, n) \in Seq(Ids)
          /\ Len(SubSeq(Messages, 1, n)) = IF 1 <= n THEN n - 1 + 1 ELSE 0
          /\ \A i \in 1 .. n - 1 + 1 : SubSeq(Messages, 1, n)[i] = Messages[1 + i - 1]
      BY <3>1, SubSeqProperties
    <3>3. n - 1 + 1 = n /\ \A i \in 1 .. n : 1 + i - 1 = i OBVIOUS
    <3> QED BY <3>2, <3>3
  <2>4. SubSeq(Messages, 1, n) = Messages BY <2>2, <2>3, SeqEqual
  <2> QED BY <1>5, <2>1, <2>4 DEF Queue
<1>7. Overdue = [d \in Dests |-> <<>>]
  <2>1. \A i \in Ids : ~ (i < 1) BY IdFacts
  <2>2. \A d \in Dests : Gone(d) = {} BY <1>1, <2>1 DEF Gone
  <2>3. Listed({}) = <<>> BY ListedEmpty
  <2> QED BY <2>2, <2>3 DEF Overdue
<1> QED BY <1>3, <1>6, <1>7 DEF W!Init

\* client_thread and listen_thread implement Wire, whatever the network loses, repeats
\* or reorders: messages leave the out queue in order, every destination gets its
\* messages at most once each and in order, and a message reaches its destination
\* before the next one leaves, unless the client gives up on it or on an earlier one.
THEOREM LinkImplementsWire == Spec => WireSpec
<1>1. Init => W!Init BY InitWire
<1>2. Init => ToSelf BY InitSelf
<1>3. LinkInv /\ ToSelf /\ [Next]_vars => ToSelf' BY NextSelf
<1>4. LinkInv /\ ToSelf /\ [Next]_vars => [W!Next]_<<Queue, Arrivals, Overdue>> BY NextWire
<1> QED BY <1>1, <1>2, <1>3, <1>4, LinkInvariance, PTL DEF Spec, WireSpec, W!Spec
=============================================================================
