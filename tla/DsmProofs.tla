----------------------------- MODULE DsmProofs -----------------------------
(***************************************************************************)
(* For any number of hosts, locks, pages, words and notices per message,   *)
(* and for any programs: TypeOK is an invariant of Dsm; locks exclude, and *)
(* the queue of a lock's manager is in order; barriers separate.           *)
(***************************************************************************)
EXTENDS Dsm, FiniteSetTheorems, TLAPS

(***************************************************************************)
(* TypeOK is not inductive: sendwtnts reads the top of the lock stack,     *)
(* which is there only because unlocks are paired, and the second half of  *)
(* diffserver relies on the DIFF still being at the head of the queue.     *)
(***************************************************************************)
Pairing ==
    \A h \in Host :
        /\ Len(stack[h]) > 0 /\ stack[h][1].lockid = hidelock
        /\ InCall(h, "diffwait", "unlock") => Top(h).lockid = CallOf(h).lock
Patching == \A h \in Host : patching[h] # NoPage => Handles(h, "DIFF") /\ patching[h] \in Pages

IInv == TypeOK /\ Pairing /\ Patching

-----------------------------------------------------------------------------
(***************************************************************************)
(* Messages.                                                               *)
(***************************************************************************)
\* The operation of a message determines its type.
LEMMA MessageTypes ==
    ASSUME NEW m \in Message
    PROVE  /\ m.frompid \in Host /\ m.topid \in Host
           /\ m.op = "ACQ" => m.lock \in Locks /\ m.scope \in Int
           /\ m.op \in {"REL", "BARR", "WTNT"} =>
                 m.lock \in LockIds /\ m.scope \in Int /\ m.wtnts \in SUBSET Pages
           /\ m.op \in {"ACQGRANT", "BARRGRANT", "INVLD"} => m.lock \in LockIds /\ m.scope \in Int
           /\ m.op = "GETP" => m.page \in Pages
           /\ m.op = "GETPGRANT" => m.page \in Pages /\ m.data \in [Words -> Nat]
           /\ m.op = "DIFF" => m \in DiffMsg
BY DEF Message, SyncMsg, WtntMsg, GrantMsg, GetpMsg, GetpGrantMsg, DiffMsg, DiffGrantMsg

\* sending appends well-formed messages to a well-formed queue
LEMMA SendType ==
    ASSUME outq \in [Host -> Seq(Message)], NEW h \in Host, NEW msgs \in Seq(Message),
           Send(h, msgs)
    PROVE  outq' \in [Host -> Seq(Message)]
BY DEF Send

\* Taking the head of an in queue leaves a well-formed queue.
LEMMA ReceiveType ==
    ASSUME inq \in [Host -> Seq(Message)], NEW h \in Host, inq[h] # <<>>, Receive(h)
    PROVE  inq' \in [Host -> Seq(Message)]
BY DEF Receive

\* The request a handler works on is a well-formed message.
LEMMA ReqType ==
    ASSUME inq \in [Host -> Seq(Message)], NEW h \in Host, inq[h] # <<>>
    PROVE  Req(h) \in Message
BY DEF Req

\* Returning from a call leaves a well-formed rest of the program.
LEMMA ReturnType ==
    ASSUME prog \in [Host -> Seq(Call)], NEW h \in Host, prog[h] # <<>>, Return(h)
    PROVE  prog' \in [Host -> Seq(Call)]
BY DEF Return

\* What a program's current call refers to: a lock, the hidden lock or a word.
LEMMA CallType ==
    ASSUME prog \in [Host -> Seq(Call)], NEW h \in Host, prog[h] # <<>>
    PROVE  /\ CallOf(h) \in Call
           /\ CallOf(h).op \in {"read", "write"} => CallOf(h).word \in Words /\ AccessPage(h) \in Pages
           /\ CallOf(h).op \in {"lock", "unlock"} => CallOf(h).lock \in Locks
<1>1. CallOf(h) \in Call
  BY DEF CallOf
<1> QED BY <1>1, MemoryAssumption DEF Call, AccessPage

\* cutting a list into messages
LEMMA ChunkNumber == \A n \in Nat : NumChunks(n) \in Nat
<1> TAKE n \in Nat
<1>1. CASE n = 0 BY <1>1 DEF NumChunks
<1>2. CASE n # 0
  <2>1. n + MaxNotices - 1 \in Nat /\ MaxNotices \in Nat /\ MaxNotices > 0
    BY <1>2, MemoryAssumption
  <2>2. (n + MaxNotices - 1) \div MaxNotices \in Nat
    BY <2>1
  <2> QED BY <1>2, <2>2 DEF NumChunks
<1> QED BY <1>1, <1>2

\* Hosts are numbers, and lock % hostc is a host.
LEMMA HostFacts == Host \subseteq Nat /\ \A l \in LockIds : Manager(l) \in Host
<1>1. HostC \in Nat /\ HostC > 0 BY HostAssumption
<1>2. LockIds \subseteq Nat BY LockAssumption DEF LockIds, hidelock
<1> QED BY <1>1, <1>2 DEF Host, Manager

\* The hidden lock of barriers is no lock of the programs.
LEMMA HidelockFact == hidelock \in LockIds /\ hidelock \notin Locks /\ Locks \subseteq LockIds
BY LockAssumption DEF LockIds, hidelock

\* the initial state
LEMMA InitIInv == Init => IInv
<1> SUFFICES ASSUME Init PROVE IInv
  OBVIOUS
<1>1. TypeOK
  <2>1. MainType
    BY HidelockFact, ProgramAssumption DEF Init, MainType, Labels
  <2>2. WaitType
    BY DEF Init, WaitType
  <2>3. CacheType /\ StoreType /\ HomeType
    BY DEF Init, CacheType, StoreType, HomeType, CacheState
  <2>4. LocksType
    <3>1. \A l \in LockIds : locks[l].wtnts = {}
      BY DEF Init
    <3>2. IsFiniteSet({})
      BY FS_EmptySet
    <3>3. \A l \in LockIds : IsFiniteSet(locks[l].wtnts)
      BY <3>1, <3>2
    <3>4. locks \in [LockIds -> [acqs : Seq([pid : Host, scope : Int]), scope : Nat,
                                  wtnts : SUBSET Notice]]
      BY DEF Init
    <3> QED BY <3>3, <3>4 DEF LocksType
  <2>5. ScopeType
    BY DEF Init, ScopeType
  <2>6. NetType /\ GhostType
    BY DEF Init, NetType, GhostType
  <2> QED BY <2>1, <2>2, <2>3, <2>4, <2>5, <2>6 DEF TypeOK
<1>2. Pairing
  BY DEF Init, Pairing, InCall
<1>3. Patching
  BY DEF Init, Patching
<1> QED BY <1>1, <1>2, <1>3 DEF IInv

-----------------------------------------------------------------------------
(***************************************************************************)
(* What a step leaves alone.                                               *)
(***************************************************************************)
\* Each part of the type invariant depends only on its own variables.
LEMMA Frame ==
    ASSUME TypeOK
    PROVE  /\ UNCHANGED mainVars => MainType'
           /\ UNCHANGED wait => WaitType'
           /\ UNCHANGED cache => CacheType'
           /\ UNCHANGED <<store, twin>> => StoreType'
           /\ UNCHANGED home => HomeType'
           /\ UNCHANGED locks => LocksType'
           /\ UNCHANGED <<acqc, myscope, noclearlocks>> => ScopeType'
           /\ UNCHANGED <<patching, outq, inq>> => NetType'
           /\ UNCHANGED <<latest, atbarr>> => GhostType'
BY DEF TypeOK, mainVars, MainType, WaitType, CacheType, StoreType, HomeType, LocksType,
       ScopeType, NetType, GhostType

\* Pairing depends only on the application thread.
LEMMA PairingFrame == Pairing /\ UNCHANGED mainVars => Pairing'
BY DEF Pairing, mainVars, InCall, Top, CallOf

\* Patching depends only on the page being patched and the in queues.
LEMMA PatchingFrame == Patching /\ UNCHANGED <<patching, inq>> => Patching'
BY DEF Patching, Handles, Req

\* a handler of anything but a DIFF runs only when no page is being patched
LEMMA PatchingServed ==
    ASSUME TypeOK, Patching, NEW h \in Host, NEW op, op # "DIFF", Handles(h, op), Receive(h),
           UNCHANGED patching
    PROVE  Patching'
<1>1. inq \in [Host -> Seq(Message)] BY DEF TypeOK, NetType
<1>2. \A g \in Host \ {h} : inq'[g] = inq[g] BY <1>1 DEF Receive
<1>3. patching[h] = NoPage BY DEF Patching, Handles
<1> QED BY <1>2, <1>3 DEF Patching, Handles, Req

\* startinterval keeps the page states well-formed.
LEMMA StartIntervalType ==
    ASSUME TypeOK, NEW h \in Host, StartInterval(h), UNCHANGED store
    PROVE  CacheType' /\ StoreType' /\ HomeType'
<1>1. CacheType'
  BY DEF TypeOK, CacheType, StartInterval, CacheState
<1>2. StoreType'
  BY DEF TypeOK, StoreType, StartInterval
<1>3. HomeType'
  BY DEF TypeOK, HomeType, StartInterval
<1> QED BY <1>1, <1>2, <1>3

\* invalidate keeps the cache states well-formed.
LEMMA InvalidateType ==
    ASSUME TypeOK, NEW h \in Host, NEW list, Invalidate(h, list)
    PROVE  CacheType'
BY DEF TypeOK, CacheType, Invalidate, CacheState

\* Making a twin keeps the twins well-formed.
LEMMA TakeTwinType ==
    ASSUME TypeOK, NEW h \in Host, NEW p
    PROVE  TakeTwin(h, p) \in [Host -> [Words -> Nat]]
BY DEF TypeOK, StoreType, TakeTwin

\* An element of a sequence over E is in E.
LEMMA ElementType == ASSUME NEW E, NEW s \in Seq(E), NEW i \in 1 .. Len(s) PROVE s[i] \in E
OBVIOUS

\* Replacing an element of a sequence over E by one of E.
LEMMA ExceptType ==
    ASSUME NEW E, NEW s \in Seq(E), NEW i, NEW e \in E
    PROVE  [s EXCEPT ![i] = e] \in Seq(E) /\ Len([s EXCEPT ![i] = e]) = Len(s)
<1>1. \A j \in 1 .. Len(s) : [s EXCEPT ![i] = e][j] \in E
  OBVIOUS
<1>2. DOMAIN [s EXCEPT ![i] = e] = 1 .. Len(s) /\ Len(s) \in Nat
  OBVIOUS
<1>3. PICK t : t = [s EXCEPT ![i] = e]
  OBVIOUS
<1>4. t = [j \in 1 .. Len(s) |-> t[j]] /\ \A j \in 1 .. Len(s) : t[j] \in E
  BY <1>1, <1>2, <1>3
<1>5. t \in [1 .. Len(s) -> E]
  BY <1>4
<1>6. t \in Seq(E) /\ Len(t) = Len(s)
  BY <1>2, <1>5
<1> QED BY <1>3, <1>6

\* The head and tail of a nonempty sequence over E.
LEMMA HeadTailType ==
    ASSUME NEW E, NEW s \in Seq(E)
    PROVE  (s # <<>> => Head(s) \in E) /\ Tail(s) \in Seq(E)
<1>1. CASE s = <<>>
  BY <1>1
<1>2. CASE s # <<>>
  <2>1. Head(s) \in E BY <1>2
  <2>2. Tail(s) \in Seq(E) BY <1>2
  <2> QED BY <2>1, <2>2
<1> QED BY <1>1, <1>2

\* Appending an element of E to a sequence over E.
LEMMA AppendType ==
    ASSUME NEW E, NEW s \in Seq(E), NEW e \in E PROVE Append(s, e) \in Seq(E)
OBVIOUS

\* The lock stack of one host is a sequence of intervals.
LEMMA StackType ==
    ASSUME TypeOK, NEW h \in Host, NEW s \in Seq([lockid : LockIds, wtnts : SUBSET Pages]),
           stack' = [stack EXCEPT ![h] = s]
    PROVE  stack' \in [Host -> Seq([lockid : LockIds, wtnts : SUBSET Pages])]
<1> DEFINE E == [lockid : LockIds, wtnts : SUBSET Pages]
<1>1. stack \in [Host -> Seq(E)] BY DEF TypeOK, MainType
<1> HIDE DEF E
<1>2. stack' \in [Host -> Seq(E)]
  <2>1. s \in Seq(E) BY DEF E
  <2> QED BY <1>1, <2>1
<1> QED BY <1>2 DEF E

\* The top of a nonempty lock stack is an interval.
LEMMA TopType ==
    ASSUME IInv, NEW h \in Host
    PROVE  Top(h) \in [lockid : LockIds, wtnts : SUBSET Pages]
<1>1. stack[h] \in Seq([lockid : LockIds, wtnts : SUBSET Pages]) /\ Len(stack[h]) > 0
  BY DEF IInv, TypeOK, MainType, Pairing
<1>2. Len(stack[h]) \in 1 .. Len(stack[h])
  BY <1>1
<1>3. stack[h][Len(stack[h])] \in [lockid : LockIds, wtnts : SUBSET Pages]
  BY <1>1, <1>2, ElementType
<1> QED BY <1>3 DEF Top

\* Messages about the notices of an interval.
LEMMA SendWtntsType ==
    ASSUME IInv, NEW h \in Host, NEW op \in {"REL", "BARR"}, SendWtnts(h, op)
    PROVE  outq' \in [Host -> Seq(Message)]
<1> DEFINE l == Top(h).lockid
           n == NumChunks(Cardinality(Top(h).wtnts))
           m(i) == [op |-> IF i < n THEN "WTNT" ELSE op, frompid |-> h, topid |-> Manager(l),
                    lock |-> l, scope |-> myscope[h][l], wtnts |-> PageChunk(Top(h).wtnts, i)]
<1>1. Top(h) \in [lockid : LockIds, wtnts : SUBSET Pages]
  BY TopType
<1>2. n \in Nat
  <2>1. IsFiniteSet(Pages) /\ Top(h).wtnts \in SUBSET Pages BY <1>1, MemoryAssumption
  <2>2. IsFiniteSet(Top(h).wtnts) BY <2>1, FS_Subset
  <2>3. Cardinality(Top(h).wtnts) \in Nat BY <2>2, FS_CardinalityType
  <2> QED BY <2>3, ChunkNumber
<1>3. myscope[h][l] \in Int /\ Manager(l) \in Host /\ l \in LockIds
  BY <1>1, HostFacts DEF IInv, TypeOK, ScopeType
<1>4. \A i \in 1 .. n : PageChunk(Top(h).wtnts, i) \in SUBSET Pages
  BY <1>1 DEF PageChunk
<1>5. \A i \in 1 .. n : m(i) \in WtntMsg
  BY <1>3, <1>4 DEF WtntMsg
<1> HIDE DEF n
<1>6. [i \in 1 .. n |-> m(i)] \in Seq(Message)
  <2>1. \A i \in 1 .. n : m(i) \in Message BY <1>5 DEF Message
  <2> HIDE DEF m
  <2> QED BY <1>2, <2>1
<1>7. Send(h, [i \in 1 .. n |-> m(i)])
  BY DEF SendWtnts, n
<1>8. outq \in [Host -> Seq(Message)] BY DEF IInv, TypeOK, NetType
<1> HIDE DEF m
<1> QED BY <1>6, <1>7, <1>8, SendType

-----------------------------------------------------------------------------
(***************************************************************************)
(* The application thread.                                                 *)
(***************************************************************************)
\* ReadWord preserves the invariant.
LEMMA ReadWordInv == ASSUME IInv, NEW h \in Host, ReadWord(h) PROVE IInv'
<1>1. prog[h] # <<>> /\ pc[h] = "run" /\ UNCHANGED <<pc, stack>> /\ Return(h)
  BY DEF ReadWord, Accesses
<1>2. MainType'
  BY <1>1, ReturnType DEF IInv, TypeOK, MainType
<1>3. WaitType' /\ CacheType' /\ StoreType' /\ HomeType' /\ LocksType' /\ ScopeType'
      /\ NetType' /\ GhostType'
  BY Frame DEF IInv, ReadWord, memVars, synVars, netVars, ghostVars
<1>4. Pairing'
  BY <1>1 DEF IInv, TypeOK, MainType, Pairing, InCall, Top, CallOf, Return
<1>5. Patching'
  BY PatchingFrame DEF IInv, ReadWord, netVars
<1> QED BY <1>2, <1>3, <1>4, <1>5 DEF IInv, TypeOK

\* WriteWord preserves the invariant.
LEMMA WriteWordInv == ASSUME IInv, NEW h \in Host, WriteWord(h) PROVE IInv'
<1>1. prog[h] # <<>> /\ pc[h] = "run" /\ UNCHANGED <<pc, stack>> /\ Return(h)
  BY DEF WriteWord, Accesses
<1>2. MainType'
  BY <1>1, ReturnType DEF IInv, TypeOK, MainType
<1>3. WaitType' /\ CacheType' /\ HomeType' /\ LocksType' /\ ScopeType' /\ NetType'
  BY Frame DEF IInv, WriteWord, synVars, netVars
<1>4. StoreType' /\ GhostType'
  <2>1. CallOf(h).word \in Words
    BY CallType DEF IInv, TypeOK, MainType, WriteWord, Accesses
  <2>2. latest[CallOf(h).word] + 1 \in Nat
    BY <2>1 DEF IInv, TypeOK, GhostType
  <2> QED BY <2>1, <2>2 DEF IInv, TypeOK, StoreType, GhostType, WriteWord
<1>5. Pairing'
  BY <1>1 DEF IInv, TypeOK, MainType, Pairing, InCall, Top, CallOf, Return
<1>6. Patching'
  BY PatchingFrame DEF IInv, WriteWord, netVars
<1> QED BY <1>2, <1>3, <1>4, <1>5, <1>6 DEF IInv, TypeOK

\* SegvHome preserves the invariant.
LEMMA SegvHomeInv == ASSUME IInv, NEW h \in Host, SegvHome(h) PROVE IInv'
<1>1. MainType' /\ WaitType' /\ CacheType' /\ StoreType' /\ LocksType' /\ ScopeType'
      /\ NetType' /\ GhostType'
  BY Frame DEF IInv, SegvHome, synVars, netVars, ghostVars
<1>2. HomeType'
  BY DEF IInv, TypeOK, HomeType, SegvHome
<1>3. Pairing' /\ Patching'
  BY PairingFrame, PatchingFrame DEF IInv, SegvHome, netVars
<1> QED BY <1>1, <1>2, <1>3 DEF IInv, TypeOK

\* SegvFetch preserves the invariant.
LEMMA SegvFetchInv == ASSUME IInv, NEW h \in Host, SegvFetch(h) PROVE IInv'
<1>1. AccessPage(h) \in Pages
  BY CallType DEF IInv, TypeOK, MainType, SegvFetch, Accesses
<1>2. MainType'
  BY DEF IInv, TypeOK, MainType, SegvFetch, Goto, Labels
<1>3. WaitType'
  BY DEF IInv, TypeOK, WaitType, SegvFetch
<1>4. CacheType'
  BY DEF IInv, TypeOK, CacheType, SegvFetch, FetchedState, CacheState
<1>5. NetType'
  <2> DEFINE m == [op |-> "GETP", frompid |-> h, topid |-> HomeOf[AccessPage(h)],
                   page |-> AccessPage(h)]
  <2>1. m \in GetpMsg
    BY <1>1, MemoryAssumption DEF GetpMsg
  <2>2. <<m>> \in Seq(Message)
    BY <2>1 DEF Message
  <2>3. Send(h, <<m>>)
    BY DEF SegvFetch
  <2> HIDE DEF m
  <2>4. outq' \in [Host -> Seq(Message)]
    BY <2>2, <2>3, SendType DEF IInv, TypeOK, NetType
  <2> QED BY <2>4 DEF IInv, TypeOK, NetType, SegvFetch
<1>6. StoreType' /\ HomeType' /\ LocksType' /\ ScopeType' /\ GhostType'
  BY Frame DEF IInv, SegvFetch, synVars, ghostVars
<1>7. Pairing'
  BY DEF IInv, TypeOK, MainType, Pairing, InCall, Top, CallOf, SegvFetch, Goto
<1>8. Patching'
  BY PatchingFrame DEF IInv, SegvFetch
<1> QED BY <1>2, <1>3, <1>4, <1>5, <1>6, <1>7, <1>8 DEF IInv, TypeOK

\* SegvFetched preserves the invariant.
LEMMA SegvFetchedInv == ASSUME IInv, NEW h \in Host, SegvFetched(h) PROVE IInv'
<1>1. MainType'
  BY DEF IInv, TypeOK, MainType, SegvFetched, Goto, Labels
<1>2. StoreType'
  BY TakeTwinType DEF IInv, TypeOK, StoreType, SegvFetched
<1>3. WaitType' /\ CacheType' /\ HomeType' /\ LocksType' /\ ScopeType' /\ NetType' /\ GhostType'
  BY Frame DEF IInv, SegvFetched, synVars, netVars, ghostVars
<1>4. Pairing'
  BY DEF IInv, TypeOK, MainType, Pairing, InCall, Top, CallOf, SegvFetched, Goto
<1>5. Patching'
  BY PatchingFrame DEF IInv, SegvFetched, netVars
<1> QED BY <1>1, <1>2, <1>3, <1>4, <1>5 DEF IInv, TypeOK

\* SegvUpgrade preserves the invariant.
LEMMA SegvUpgradeInv == ASSUME IInv, NEW h \in Host, SegvUpgrade(h) PROVE IInv'
<1>1. MainType' /\ WaitType' /\ HomeType' /\ LocksType' /\ ScopeType' /\ NetType' /\ GhostType'
  BY Frame DEF IInv, SegvUpgrade, synVars, netVars, ghostVars
<1>2. CacheType'
  BY DEF IInv, TypeOK, CacheType, SegvUpgrade, CacheState
<1>3. StoreType'
  BY TakeTwinType DEF IInv, TypeOK, StoreType, SegvUpgrade
<1>4. Pairing' /\ Patching'
  BY PairingFrame, PatchingFrame DEF IInv, SegvUpgrade, netVars
<1> QED BY <1>1, <1>2, <1>3, <1>4 DEF IInv, TypeOK

\* EndInterval preserves the invariant.
LEMMA EndIntervalInv == ASSUME IInv, NEW h \in Host, EndInterval(h) PROVE IInv'
<1> DEFINE homes == {HomeOf[p] : p \in Dirty(h)}
<1>1. PICK dests \in [1 .. Cardinality(homes) -> homes] :
          /\ Send(h, [i \in DOMAIN dests |-> DiffTo(h, dests[i])])
          /\ wait' = [wait EXCEPT ![h].diff = Cardinality(DOMAIN dests)]
  BY DEF EndInterval
<1>2. Cardinality(homes) \in Nat
  <2>1. homes \in SUBSET Host
    BY MemoryAssumption DEF Dirty
  <2>2. HostC \in Nat
    BY HostAssumption
  <2>3. IsFiniteSet(Host)
    BY <2>2, FS_Interval DEF Host
  <2> HIDE DEF homes
  <2>4. IsFiniteSet(homes)
    BY <2>1, <2>3, FS_Subset
  <2> QED BY <2>4, FS_CardinalityType
<1>3. homes \subseteq Host
  BY MemoryAssumption DEF Dirty
<1>4. MainType'
  <2>1. pc' \in [Host -> Labels] /\ prog' \in [Host -> Seq(Call)]
    BY DEF IInv, TypeOK, MainType, EndInterval, Goto, Labels
  <2>2. Dirty(h) \cup SharedWrites(h) \in SUBSET Pages
    BY DEF Dirty, SharedWrites, HomePages
  <2>3. stack' \in [Host -> Seq([lockid : LockIds, wtnts : SUBSET Pages])]
    <3> DEFINE top == [Top(h) EXCEPT !.wtnts = @ \cup Dirty(h) \cup SharedWrites(h)]
    <3>1. top \in [lockid : LockIds, wtnts : SUBSET Pages]
      BY <2>2, TopType
    <3>2. stack' = [stack EXCEPT ![h] = [stack[h] EXCEPT ![Len(stack[h])] = top]]
      BY DEF EndInterval, Top
    <3>3. stack[h] \in Seq([lockid : LockIds, wtnts : SUBSET Pages])
      BY DEF IInv, TypeOK, MainType
    <3> HIDE DEF top
    <3>4. [stack[h] EXCEPT ![Len(stack[h])] = top]
              \in Seq([lockid : LockIds, wtnts : SUBSET Pages])
      BY <3>1, <3>3, ExceptType
    <3> QED BY <3>2, <3>4, StackType DEF IInv
  <2> QED BY <2>1, <2>3 DEF MainType
<1>5. WaitType'
  <2>1. Cardinality(DOMAIN dests) \in Int
    BY <1>2, FS_Interval
  <2> QED BY <1>1, <2>1 DEF IInv, TypeOK, WaitType
<1>6. HomeType'
  BY DEF IInv, TypeOK, HomeType, EndInterval
<1>7. NetType'
  <2> DEFINE ms == [i \in DOMAIN dests |-> DiffTo(h, dests[i])]
  <2>1. ASSUME NEW g \in Host PROVE DiffTo(h, g) \in Message
    <3>1. \A w \in Words : store[h][w] \in Nat
      BY DEF IInv, TypeOK, StoreType
    <3>2. DiffTo(h, g) \in DiffMsg
      BY <3>1 DEF DiffMsg, DiffTo, Dirty
    <3> QED BY <3>2 DEF Message
  <2>2. \A i \in DOMAIN dests : DiffTo(h, dests[i]) \in Message
    BY <1>3, <2>1
  <2> HIDE DEF homes
  <2>3. ms \in Seq(Message)
    BY <1>2, <2>2
  <2> HIDE DEF ms
  <2>4. outq' \in [Host -> Seq(Message)]
    <3>1. Send(h, ms) BY <1>1 DEF ms
    <3> QED BY <3>1, <2>3, SendType DEF IInv, TypeOK, NetType
  <2> QED BY <2>4 DEF IInv, TypeOK, NetType, EndInterval
<1>8. CacheType' /\ StoreType' /\ LocksType' /\ ScopeType' /\ GhostType'
  BY Frame DEF IInv, EndInterval, synVars, ghostVars
<1>9. Pairing'
  <2> SUFFICES ASSUME NEW g \in Host
               PROVE  /\ Len(stack'[g]) > 0 /\ stack'[g][1].lockid = hidelock
                      /\ InCall(g, "diffwait", "unlock")' => Top(g)'.lockid = CallOf(g)'.lock
    BY DEF Pairing
  <2>1. /\ Len(stack'[g]) = Len(stack[g])
        /\ \A i \in 1 .. Len(stack[g]) : stack'[g][i].lockid = stack[g][i].lockid
    BY DEF IInv, TypeOK, MainType, EndInterval
  <2>2. stack[g] \in Seq([lockid : LockIds, wtnts : SUBSET Pages]) /\ Len(stack[g]) > 0
    BY DEF IInv, TypeOK, MainType, Pairing
  <2>3. Top(g)'.lockid = Top(g).lockid
    BY <2>1, <2>2 DEF Top
  <2>4. CallOf(g)' = CallOf(g) /\ prog' = prog
    BY DEF EndInterval, CallOf
  <2>5. CASE g = h
    BY <2>1, <2>2, <2>3, <2>4, <2>5 DEF IInv, Pairing, InCall, EndInterval, Legal
  <2>6. CASE g # h
    <3>1. pc'[g] = pc[g]
      BY <2>6 DEF IInv, TypeOK, MainType, EndInterval, Goto
    <3> QED BY <2>1, <2>2, <2>3, <2>4, <3>1 DEF IInv, Pairing, InCall
  <2> QED BY <2>5, <2>6
<1>10. Patching'
  BY PatchingFrame DEF IInv, EndInterval
<1> QED BY <1>4, <1>5, <1>6, <1>7, <1>8, <1>9, <1>10 DEF IInv, TypeOK

\* Acquire preserves the invariant.
LEMMA AcquireInv == ASSUME IInv, NEW h \in Host, Acquire(h) PROVE IInv'
<1>1. CallOf(h).lock \in Locks
  BY CallType DEF IInv, TypeOK, MainType, Acquire, DiffsDone, InCall
<1>2. MainType'
  BY DEF IInv, TypeOK, MainType, Acquire, Goto, Labels
<1>3. WaitType'
  BY DEF IInv, TypeOK, WaitType, Acquire
<1>4. NetType'
  <2> DEFINE l == CallOf(h).lock
             m == [op |-> "ACQ", frompid |-> h, topid |-> Manager(l), lock |-> l,
                   scope |-> myscope[h][l]]
  <2>1. m \in SyncMsg
    BY <1>1, HidelockFact, HostFacts DEF IInv, TypeOK, ScopeType, SyncMsg
  <2>2. <<m>> \in Seq(Message)
    BY <2>1 DEF Message
  <2>3. Send(h, <<m>>)
    BY DEF Acquire
  <2> HIDE DEF m
  <2>4. outq' \in [Host -> Seq(Message)]
    BY <2>2, <2>3, SendType DEF IInv, TypeOK, NetType
  <2> QED BY <2>4 DEF IInv, TypeOK, NetType, Acquire
<1>5. CacheType' /\ StoreType' /\ HomeType' /\ LocksType' /\ ScopeType' /\ GhostType'
  BY Frame DEF IInv, Acquire, memVars, synVars, ghostVars
<1>6. Pairing'
  BY DEF IInv, TypeOK, MainType, Pairing, InCall, Top, CallOf, Acquire, Goto
<1>7. Patching'
  BY PatchingFrame DEF IInv, Acquire
<1> QED BY <1>2, <1>3, <1>4, <1>5, <1>6, <1>7 DEF IInv, TypeOK

\* Acquired preserves the invariant.
LEMMA AcquiredInv == ASSUME IInv, NEW h \in Host, Acquired(h) PROVE IInv'
<1>1. prog[h] # <<>> /\ Return(h) /\ Goto(h, "run") /\ CallOf(h).op = "lock" /\ StartInterval(h)
      /\ UNCHANGED store
  BY DEF Acquired, InCall
<1>2. CallOf(h).lock \in LockIds
  BY <1>1, CallType, HidelockFact DEF IInv, TypeOK, MainType
<1>3. MainType'
  <2>1. prog' \in [Host -> Seq(Call)] /\ pc' \in [Host -> Labels]
    BY <1>1, ReturnType DEF IInv, TypeOK, MainType, Goto, Labels
  <2>2. stack' \in [Host -> Seq([lockid : LockIds, wtnts : SUBSET Pages])]
    <3> DEFINE e == [lockid |-> CallOf(h).lock, wtnts |-> {}]
    <3>1. stack' = [stack EXCEPT ![h] = Append(stack[h], e)]
      BY DEF Acquired
    <3>2. e \in [lockid : LockIds, wtnts : SUBSET Pages]
      BY <1>2
    <3> HIDE DEF e
    <3>3. stack[h] \in Seq([lockid : LockIds, wtnts : SUBSET Pages])
      BY DEF IInv, TypeOK, MainType
    <3>4. Append(stack[h], e) \in Seq([lockid : LockIds, wtnts : SUBSET Pages])
      BY <3>2, <3>3, AppendType
    <3> QED BY <3>1, <3>4, StackType DEF IInv
  <2> QED BY <2>1, <2>2 DEF MainType
<1>4. CacheType' /\ StoreType' /\ HomeType'
  BY <1>1, StartIntervalType DEF IInv
<1>5. WaitType' /\ LocksType' /\ ScopeType' /\ NetType' /\ GhostType'
  BY Frame DEF IInv, Acquired, synVars, netVars, ghostVars
<1>6. Pairing'
  BY <1>1 DEF IInv, TypeOK, MainType, Pairing, InCall, Top, CallOf, Acquired, Goto, Return
<1>7. Patching'
  BY PatchingFrame DEF IInv, Acquired, netVars
<1> QED BY <1>3, <1>4, <1>5, <1>6, <1>7 DEF IInv, TypeOK

\* Release preserves the invariant.
LEMMA ReleaseInv == ASSUME IInv, NEW h \in Host, Release(h) PROVE IInv'
<1> DEFINE E == [lockid : LockIds, wtnts : SUBSET Pages]
           below == SubSeq(stack[h], 1, Len(stack[h]) - 1)
           n == Len(stack[h]) - 1
           e == [below[n] EXCEPT !.wtnts = @ \cup Top(h).wtnts]
<1>1. prog[h] # <<>> /\ Return(h) /\ Goto(h, "run") /\ InCall(h, "diffwait", "unlock")
      /\ StartInterval(h) /\ SendWtnts(h, "REL") /\ PopStack(h) /\ UNCHANGED store
  BY DEF Release, DiffsDone, InCall
<1>2. stack[h] \in Seq(E) /\ Len(stack[h]) > 0 /\ stack[h][1].lockid = hidelock
  BY DEF IInv, TypeOK, MainType, Pairing
<1>3. Len(stack[h]) > 1
  <2>1. Top(h).lockid # hidelock
    BY <1>1, CallType, HidelockFact DEF IInv, TypeOK, MainType, Pairing, InCall
  <2>2. Len(stack[h]) # 1
    BY <1>2, <2>1 DEF Top
  <2>3. Len(stack[h]) \in Nat /\ Len(stack[h]) # 0
    BY <1>2
  <2>4. \A k \in Nat : k # 0 /\ k # 1 => k > 1
    OBVIOUS
  <2> QED BY <2>2, <2>3, <2>4, Zenon
<1>4. below \in Seq(E) /\ Len(below) = n /\ n \in 1 .. n /\ n \in Nat /\ below[1] = stack[h][1]
  <2> HIDE DEF E
  <2> QED BY <1>2, <1>3
<1>5. below[n] \in E
  <2> HIDE DEF E, below, n
  <2> QED BY <1>4, ElementType
<1>6. e \in E /\ e.lockid = below[n].lockid
  BY <1>5, TopType
<1>7. stack' = [stack EXCEPT ![h] = [below EXCEPT ![n] = e]]
  BY <1>1, <1>4 DEF PopStack
<1>8. [below EXCEPT ![n] = e] \in Seq(E) /\ Len([below EXCEPT ![n] = e]) = n
  <2> HIDE DEF E, below, n, e
  <2> QED BY <1>4, <1>6, ExceptType
<1>9. MainType'
  <2>1. prog' \in [Host -> Seq(Call)] /\ pc' \in [Host -> Labels]
    BY <1>1, ReturnType DEF IInv, TypeOK, MainType, Goto, Labels
  <2>2. stack' \in [Host -> Seq(E)]
    BY <1>7, <1>8, StackType DEF IInv
  <2> QED BY <2>1, <2>2 DEF MainType
<1>10. CacheType' /\ StoreType' /\ HomeType'
  BY <1>1, StartIntervalType DEF IInv
<1>11. NetType'
  <2>1. outq' \in [Host -> Seq(Message)]
    BY <1>1, SendWtntsType
  <2> QED BY <2>1 DEF IInv, TypeOK, NetType, Release
<1>12. WaitType' /\ LocksType' /\ ScopeType' /\ GhostType'
  BY Frame DEF IInv, Release, synVars, ghostVars
<1>13. Pairing'
  <2> SUFFICES ASSUME NEW g \in Host
               PROVE  /\ Len(stack'[g]) > 0 /\ stack'[g][1].lockid = hidelock
                      /\ InCall(g, "diffwait", "unlock")' => Top(g)'.lockid = CallOf(g)'.lock
    BY DEF Pairing
  <2>1. CASE g = h
    <3>1. stack'[h] = [below EXCEPT ![n] = e]
      BY <1>7 DEF IInv, TypeOK, MainType
    <3>2. stack'[h][1].lockid = hidelock
      <4>1. CASE n = 1
        BY <1>2, <1>4, <1>6, <3>1, <4>1
      <4>2. CASE n # 1
        <5> HIDE DEF E, below, n, e
        <5>1. 1 \in DOMAIN below
          BY <1>4
        <5>2. [below EXCEPT ![n] = e][1] = below[1]
          BY <4>2, <5>1
        <5> QED BY <1>2, <1>4, <3>1, <5>2
      <4> QED BY <4>1, <4>2
    <3>3. pc'[h] = "run"
      BY <1>1 DEF Goto, IInv, TypeOK, MainType
    <3> HIDE DEF e, n, below
    <3> QED BY <1>4, <1>8, <2>1, <3>1, <3>2, <3>3 DEF InCall
  <2>2. CASE g # h
    <3>1. stack'[g] = stack[g] /\ pc'[g] = pc[g] /\ prog'[g] = prog[g]
      BY <1>1, <1>7, <2>2 DEF Goto, Return, IInv, TypeOK, MainType
    <3> QED BY <3>1 DEF IInv, Pairing, InCall, CallOf, Top
  <2> QED BY <2>1, <2>2
<1>14. Patching'
  BY PatchingFrame DEF IInv, Release
<1> QED BY <1>9, <1>10, <1>11, <1>12, <1>13, <1>14 DEF IInv, TypeOK

\* BarrierArrive preserves the invariant.
LEMMA BarrierArriveInv == ASSUME IInv, NEW h \in Host, BarrierArrive(h) PROVE IInv'
<1> DEFINE e == [Top(h) EXCEPT !.wtnts = {}]
<1>1. SendWtnts(h, "BARR") /\ Goto(h, "barrwait") /\ UNCHANGED prog
  BY DEF BarrierArrive
<1>2. stack' = [stack EXCEPT ![h] = [stack[h] EXCEPT ![Len(stack[h])] = e]]
  BY DEF BarrierArrive, Top
<1>3. e \in [lockid : LockIds, wtnts : SUBSET Pages] /\ e.lockid = Top(h).lockid
  BY TopType
<1>4. stack[h] \in Seq([lockid : LockIds, wtnts : SUBSET Pages]) /\ Len(stack[h]) > 0
      /\ stack[h][1].lockid = hidelock
  BY DEF IInv, TypeOK, MainType, Pairing
<1> HIDE DEF e
<1>5. /\ [stack[h] EXCEPT ![Len(stack[h])] = e] \in Seq([lockid : LockIds, wtnts : SUBSET Pages])
      /\ Len([stack[h] EXCEPT ![Len(stack[h])] = e]) = Len(stack[h])
  BY <1>3, <1>4, ExceptType
<1>6. MainType'
  <2>1. prog' \in [Host -> Seq(Call)] /\ pc' \in [Host -> Labels]
    BY <1>1 DEF IInv, TypeOK, MainType, Goto, Labels
  <2>2. stack' \in [Host -> Seq([lockid : LockIds, wtnts : SUBSET Pages])]
    BY <1>2, <1>5, StackType DEF IInv
  <2> QED BY <2>1, <2>2 DEF MainType
<1>7. WaitType'
  BY DEF IInv, TypeOK, WaitType, BarrierArrive
<1>8. NetType'
  <2>1. outq' \in [Host -> Seq(Message)]
    BY <1>1, SendWtntsType
  <2> QED BY <2>1 DEF IInv, TypeOK, NetType, BarrierArrive
<1>9. CacheType' /\ StoreType' /\ HomeType' /\ LocksType' /\ ScopeType' /\ GhostType'
  BY Frame DEF IInv, BarrierArrive, memVars, synVars, ghostVars
<1>10. Pairing'
  <2> SUFFICES ASSUME NEW g \in Host
               PROVE  /\ Len(stack'[g]) > 0 /\ stack'[g][1].lockid = hidelock
                      /\ InCall(g, "diffwait", "unlock")' => Top(g)'.lockid = CallOf(g)'.lock
    BY DEF Pairing
  <2>1. CASE g = h
    <3>1. stack'[h] = [stack[h] EXCEPT ![Len(stack[h])] = e] /\ pc'[h] = "barrwait"
      BY <1>1, <1>2 DEF IInv, TypeOK, MainType, Goto
    <3>2. stack'[h][1].lockid = hidelock
      <4>1. CASE Len(stack[h]) = 1
        BY <1>3, <1>4, <3>1, <4>1 DEF Top
      <4>2. CASE Len(stack[h]) # 1
        BY <1>4, <3>1, <4>2
      <4> QED BY <4>1, <4>2
    <3> QED BY <1>4, <1>5, <2>1, <3>1, <3>2 DEF InCall
  <2>2. CASE g # h
    <3>1. stack'[g] = stack[g] /\ pc'[g] = pc[g] /\ prog'[g] = prog[g]
      BY <1>1, <1>2, <2>2 DEF Goto, IInv, TypeOK, MainType
    <3> QED BY <3>1 DEF IInv, Pairing, InCall, CallOf, Top
  <2> QED BY <2>1, <2>2
<1>11. Patching'
  BY PatchingFrame DEF IInv, BarrierArrive
<1> QED BY <1>6, <1>7, <1>8, <1>9, <1>10, <1>11 DEF IInv, TypeOK

\* BarrierLeave preserves the invariant.
LEMMA BarrierLeaveInv == ASSUME IInv, NEW h \in Host, BarrierLeave(h) PROVE IInv'
<1>1. prog[h] # <<>> /\ Return(h) /\ Goto(h, "run") /\ StartInterval(h) /\ UNCHANGED <<stack, store>>
  BY DEF BarrierLeave, InCall
<1>2. MainType'
  BY <1>1, ReturnType DEF IInv, TypeOK, MainType, Goto, Labels
<1>3. CacheType' /\ StoreType' /\ HomeType'
  BY <1>1, StartIntervalType DEF IInv
<1>4. WaitType' /\ LocksType' /\ ScopeType' /\ NetType' /\ GhostType'
  BY Frame DEF IInv, BarrierLeave, synVars, netVars, ghostVars
<1>5. Pairing'
  BY <1>1 DEF IInv, TypeOK, MainType, Pairing, InCall, Top, CallOf, Goto, Return
<1>6. Patching'
  BY PatchingFrame DEF IInv, BarrierLeave, netVars
<1> QED BY <1>2, <1>3, <1>4, <1>5, <1>6 DEF IInv, TypeOK

\* Transfer preserves the invariant: every message is addressed to a host.
LEMMA TransferInv == ASSUME IInv, NEW h \in Host, Transfer(h) PROVE IInv'
<1> DEFINE m == Head(outq[h])
           d == m.topid
<1>1. outq \in [Host -> Seq(Message)] /\ inq \in [Host -> Seq(Message)] /\ outq[h] # <<>>
  BY DEF IInv, TypeOK, NetType, Transfer
<1>2. m \in Message
  BY <1>1
<1>3. d \in Host
  BY <1>2, MessageTypes
<1>4. inq' = [inq EXCEPT ![d] = Append(@, m)] /\ outq' = [outq EXCEPT ![h] = Tail(@)]
      /\ UNCHANGED patching
  BY DEF Transfer
<1> HIDE DEF m, d
<1>5. NetType'
  BY <1>1, <1>2, <1>3, <1>4 DEF IInv, TypeOK, NetType
<1>6. Patching'
  <2> SUFFICES ASSUME NEW g \in Host, patching[g] # NoPage
               PROVE  inq'[g] # <<>> /\ Head(inq'[g]) = Head(inq[g])
    BY <1>4 DEF IInv, Patching, Handles, Req
  <2>1. inq[g] \in Seq(Message) /\ inq[g] # <<>>
    BY <1>1 DEF IInv, Patching, Handles
  <2>2. CASE g = d
    <3>1. inq'[g] = Append(inq[g], m)
      BY <1>1, <1>3, <1>4, <2>2
    <3> QED BY <1>2, <2>1, <3>1
  <2>3. CASE g # d
    BY <1>1, <1>4, <2>1, <2>3
  <2> QED BY <2>2, <2>3
<1>7. MainType' /\ WaitType' /\ CacheType' /\ StoreType' /\ HomeType' /\ LocksType' /\ ScopeType'
      /\ GhostType'
  BY Frame DEF IInv, Transfer, memVars, synVars, ghostVars
<1>8. Pairing'
  BY PairingFrame DEF IInv, Transfer
<1> QED BY <1>5, <1>6, <1>7, <1>8 DEF IInv, TypeOK

-----------------------------------------------------------------------------
(***************************************************************************)
(* The server thread.                                                      *)
(***************************************************************************)
LockRec == [acqs : Seq([pid : Host, scope : Int]), scope : Nat, wtnts : SUBSET Notice]

\* The parts of a well-formed lock.
LEMMA LockType ==
    ASSUME LocksType, NEW l \in LockIds, NEW lk \in LockRec, IsFiniteSet(lk.wtnts),
           locks' = [locks EXCEPT ![l] = lk]
    PROVE  LocksType'
<1>1. locks \in [LockIds -> LockRec] /\ \A k \in LockIds : IsFiniteSet(locks[k].wtnts)
  BY DEF LocksType, LockRec
<1>2. locks' \in [LockIds -> LockRec]
  BY <1>1
<1>3. \A k \in LockIds : locks'[k] = IF k = l THEN lk ELSE locks[k]
  BY <1>1
<1>4. \A k \in LockIds : IsFiniteSet(locks'[k].wtnts)
  BY <1>1, <1>3
<1> QED BY <1>2, <1>4 DEF LocksType, LockRec

\* recording the notices of a message keeps the list finite
LEMMA RecordType ==
    ASSUME NEW lk \in LockRec, IsFiniteSet(lk.wtnts),
           NEW m, m.wtnts \in SUBSET Pages, m.frompid \in Host
    PROVE  RecordWtnts(lk, m) \in LockRec /\ IsFiniteSet(RecordWtnts(lk, m).wtnts)
<1> DEFINE Entry(p) == [page |-> p, scope |-> lk.scope,
                        from |-> IF \E n \in lk.wtnts : n.page = p THEN Maxhosts ELSE m.frompid]
           kept == {n \in lk.wtnts : n.page \notin m.wtnts}
           added == {Entry(p) : p \in m.wtnts}
<1>1. RecordWtnts(lk, m) = [lk EXCEPT !.wtnts = kept \cup added]
  BY DEF RecordWtnts, SaveWtnts
<1>2. IsFiniteSet(kept)
  <2>1. kept \in SUBSET lk.wtnts OBVIOUS
  <2> HIDE DEF kept
  <2> QED BY <2>1, FS_Subset
<1>3. IsFiniteSet(added)
  <2>1. IsFiniteSet(m.wtnts)
    BY MemoryAssumption, FS_Subset
  <2> DEFINE f == [p \in m.wtnts |-> Entry(p)]
  <2> HIDE DEF Entry
  <2>2. f \in Surjection(m.wtnts, added)
    BY DEF Surjection
  <2> HIDE DEF f, added
  <2> QED BY <2>1, <2>2, FS_Surjection
<1>4. kept \subseteq Notice /\ added \subseteq Notice
  <2>1. lk.scope \in Int /\ m.frompid \in Nat /\ Maxhosts \in Nat
    <3>1. lk.scope \in Nat BY DEF LockRec
    <3>2. m.frompid \in Nat BY HostFacts
    <3> QED BY <3>1, <3>2, HostAssumption
  <2>2. \A p \in m.wtnts : Entry(p) \in Notice
    BY <2>1 DEF Notice
  <2>3. kept \subseteq Notice
    BY DEF LockRec
  <2> HIDE DEF Entry
  <2> QED BY <2>2, <2>3
<1> HIDE DEF kept, added
<1>5. IsFiniteSet(kept \cup added)
  BY <1>2, <1>3, FS_Union
<1>6. RecordWtnts(lk, m).wtnts = kept \cup added
  BY <1>1 DEF LockRec
<1> QED BY <1>1, <1>4, <1>5, <1>6 DEF LockRec

GrantList == SUBSET [page : Pages, from : Nat]

\* the notices of a grant, and how many messages they take
LEMMA GrantListType ==
    ASSUME NEW list \in GrantList, IsFiniteSet(list)
    PROVE  /\ NumChunks(Cardinality(list)) \in Nat
           /\ \A i : NoticeChunk(list, i) \in GrantList
<1>1. Cardinality(list) \in Nat BY FS_CardinalityType
<1> QED BY <1>1, ChunkNumber DEF NoticeChunk, GrantList

\* Dropping the scope of the notices of a list leaves a finite list.
LEMMA ProjectionType ==
    ASSUME NEW N \in SUBSET Notice, IsFiniteSet(N)
    PROVE  LET list == {[page |-> n.page, from |-> n.from] : n \in N}
           IN  list \in GrantList /\ IsFiniteSet(list)
<1> DEFINE g(n) == [page |-> n.page, from |-> n.from]
           list == {g(n) : n \in N}
           f == [n \in N |-> g(n)]
<1>1. list \in GrantList
  BY DEF Notice, GrantList
<1>2. IsFiniteSet(list)
  <2> HIDE DEF g
  <2>1. f \in Surjection(N, list)
    BY DEF Surjection
  <2> HIDE DEF f, list
  <2> QED BY <2>1, FS_Surjection
<1> QED BY <1>1, <1>2

\* grantlock sends well-formed messages.
LEMMA GrantMsgsType ==
    ASSUME NEW h \in Host, NEW l \in LockIds, NEW lk \in LockRec, IsFiniteSet(lk.wtnts),
           NEW a \in [pid : Host, scope : Int]
    PROVE  GrantMsgs(h, l, lk, a) \in Seq(Message)
<1> DEFINE N == {m \in lk.wtnts : m.scope > a.scope /\ HomeOf[m.page] # a.pid}
           list == GrantNotices(lk, a)
           n == NumChunks(Cardinality(list))
           m(i) == [op |-> IF i < n THEN "INVLD" ELSE "ACQGRANT", frompid |-> h,
                    topid |-> a.pid, lock |-> l, scope |-> lk.scope,
                    wtnts |-> NoticeChunk(list, i)]
<1>1. N \in SUBSET Notice /\ IsFiniteSet(N)
  <2>1. N \in SUBSET lk.wtnts /\ lk.wtnts \in SUBSET Notice
    BY DEF LockRec
  <2> HIDE DEF N
  <2> QED BY <2>1, FS_Subset
<1>2. list = {[page |-> k.page, from |-> k.from] : k \in N}
  BY DEF GrantNotices
<1> HIDE DEF N, list
<1>3. list \in GrantList /\ IsFiniteSet(list)
  BY <1>1, <1>2, ProjectionType
<1>4. n \in Nat /\ \A i : NoticeChunk(list, i) \in GrantList
  BY <1>3, GrantListType
<1> HIDE DEF n
<1>5. \A i \in 1 .. n : m(i) \in GrantMsg
  BY <1>4 DEF GrantMsg, LockRec, GrantList
<1>6. \A i \in 1 .. n : m(i) \in Message
  BY <1>5 DEF Message
<1>7. GrantMsgs(h, l, lk, a) = [i \in 1 .. n |-> m(i)]
  BY DEF GrantMsgs, n, list
<1> HIDE DEF m
<1> QED BY <1>4, <1>6, <1>7

\* the shape every handler shares: take the head of the in queue
LEMMA ServedType ==
    ASSUME IInv, NEW h \in Host, NEW op, Handles(h, op)
    PROVE  /\ Req(h) \in Message /\ Req(h).op = op
           /\ Receive(h) => inq' \in [Host -> Seq(Message)]
BY ReqType, ReceiveType DEF IInv, TypeOK, NetType, Handles

\* The lock a request names is well-formed.
LEMMA LockTypeAt ==
    ASSUME IInv, NEW l \in LockIds
    PROVE  locks[l] \in LockRec /\ IsFiniteSet(locks[l].wtnts) /\ LocksType
BY DEF IInv, TypeOK, LocksType, LockRec

\* AcqServer preserves the invariant.
LEMMA AcqServerInv == ASSUME IInv, NEW h \in Host, AcqServer(h) PROVE IInv'
<1> DEFINE l == Req(h).lock
           a == [pid |-> Req(h).frompid, scope |-> Req(h).scope]
           lk == [locks[l] EXCEPT !.acqs = Append(@, a)]
<1>1. Handles(h, "ACQ") /\ Receive(h) /\ locks' = [locks EXCEPT ![l] = lk]
  BY DEF AcqServer
<1>2. l \in LockIds /\ a \in [pid : Host, scope : Int]
  BY <1>1, ServedType, MessageTypes, HidelockFact
<1>3. lk \in LockRec /\ lk.wtnts = locks[l].wtnts /\ IsFiniteSet(lk.wtnts)
  BY <1>2, LockTypeAt, AppendType DEF LockRec
<1>4. LocksType'
  <2> HIDE DEF l, lk
  <2> QED BY <1>1, <1>2, <1>3, LockType, LockTypeAt
<1>5. outq' \in [Host -> Seq(Message)]
  <2>1. CASE Len(lk.acqs) = 1
    <3>1. Send(h, GrantMsgs(h, l, lk, Head(lk.acqs)))
      BY <2>1 DEF AcqServer
    <3>2. Head(lk.acqs) \in [pid : Host, scope : Int]
      <4> HIDE DEF lk
      <4>1. lk.acqs \in Seq([pid : Host, scope : Int])
        BY <1>3 DEF LockRec
      <4>2. lk.acqs # <<>>
        BY <2>1
      <4> QED BY <4>1, <4>2, HeadTailType
    <3> HIDE DEF l, lk
    <3>3. GrantMsgs(h, l, lk, Head(lk.acqs)) \in Seq(Message)
      BY <1>2, <1>3, <3>2, GrantMsgsType
    <3> QED BY <3>1, <3>3, SendType DEF IInv, TypeOK, NetType
  <2>2. CASE Len(lk.acqs) # 1
    BY <2>2 DEF IInv, TypeOK, NetType, AcqServer
  <2> QED BY <2>1, <2>2
<1>6. NetType'
  <2>1. patching' = patching BY DEF AcqServer
  <2> QED BY <1>1, <1>5, <2>1, ServedType DEF IInv, TypeOK, NetType
<1>7. MainType' /\ WaitType' /\ CacheType' /\ StoreType' /\ HomeType' /\ ScopeType' /\ GhostType'
  BY Frame DEF IInv, AcqServer, memVars, ghostVars
<1>8. Pairing'
  BY PairingFrame DEF IInv, AcqServer
<1>9. Patching'
  <2>1. UNCHANGED patching BY DEF AcqServer
  <2> QED BY <1>1, <2>1, PatchingServed DEF IInv
<1> QED BY <1>4, <1>6, <1>7, <1>8, <1>9 DEF IInv, TypeOK

\* RelServer preserves the invariant.
LEMMA RelServerInv == ASSUME IInv, NEW h \in Host, RelServer(h) PROVE IInv'
<1> DEFINE l == Req(h).lock
           r == RecordWtnts(locks[l], Req(h))
           lk == [r EXCEPT !.scope = @ + 1, !.acqs = Tail(@)]
<1>1. Handles(h, "REL") /\ Receive(h) /\ locks' = [locks EXCEPT ![l] = lk]
  BY DEF RelServer, NextScope, Dequeued
<1>2. l \in LockIds /\ Req(h).wtnts \in SUBSET Pages /\ Req(h).frompid \in Host
  BY <1>1, ServedType, MessageTypes
<1>3. r \in LockRec /\ IsFiniteSet(r.wtnts)
  BY <1>2, LockTypeAt, RecordType
<1>4. lk \in LockRec /\ lk.wtnts = r.wtnts /\ IsFiniteSet(lk.wtnts)
  <2> HIDE DEF r
  <2>1. Tail(r.acqs) \in Seq([pid : Host, scope : Int])
    BY <1>3, HeadTailType DEF LockRec
  <2>2. lk \in LockRec
    <3> DEFINE r1 == [r EXCEPT !.scope = @ + 1]
    <3>1. r1 \in LockRec /\ r1.acqs = r.acqs
      BY <1>3 DEF LockRec
    <3> HIDE DEF r1
    <3>2. [r1 EXCEPT !.acqs = Tail(r.acqs)] \in LockRec
      BY <2>1, <3>1 DEF LockRec
    <3>3. lk = [r1 EXCEPT !.acqs = Tail(r1.acqs)]
      BY DEF r1
    <3> QED BY <3>1, <3>2, <3>3
  <2>3. lk.wtnts = r.wtnts
    BY <1>3 DEF LockRec
  <2> HIDE DEF lk
  <2> QED BY <1>3, <2>2, <2>3
<1>5. LocksType'
  <2> HIDE DEF l, lk
  <2> QED BY <1>1, <1>2, <1>4, LockType, LockTypeAt
<1>6. outq' \in [Host -> Seq(Message)]
  <2>1. CASE lk.acqs # <<>>
    <3>1. Send(h, GrantMsgs(h, l, lk, Head(lk.acqs)))
      BY <2>1 DEF RelServer, NextScope, Dequeued
    <3> HIDE DEF l, lk
    <3>2. Head(lk.acqs) \in [pid : Host, scope : Int]
      <4>1. lk.acqs \in Seq([pid : Host, scope : Int])
        BY <1>4 DEF LockRec
      <4> QED BY <2>1, <4>1, HeadTailType
    <3>3. GrantMsgs(h, l, lk, Head(lk.acqs)) \in Seq(Message)
      BY <1>2, <1>4, <3>2, GrantMsgsType
    <3> QED BY <3>1, <3>3, SendType DEF IInv, TypeOK, NetType
  <2>2. CASE lk.acqs = <<>>
    BY <2>2 DEF IInv, TypeOK, NetType, RelServer, NextScope, Dequeued
  <2> QED BY <2>1, <2>2
<1>7. UNCHANGED <<patching, acqc, myscope>> /\ noclearlocks' = [noclearlocks EXCEPT ![h] =
                 @ \/ UnsignedGreater(Req(h).scope, myscope[h][hidelock])]
  BY DEF RelServer
<1>8. NetType'
  BY <1>1, <1>6, <1>7, ServedType DEF IInv, TypeOK, NetType
<1>9. ScopeType'
  BY <1>7 DEF IInv, TypeOK, ScopeType, UnsignedGreater
<1>10. MainType' /\ WaitType' /\ CacheType' /\ StoreType' /\ HomeType' /\ GhostType'
  BY Frame DEF IInv, RelServer, memVars, ghostVars
<1>11. Pairing'
  BY PairingFrame DEF IInv, RelServer
<1>12. Patching'
  BY <1>1, <1>7, PatchingServed DEF IInv
<1> QED BY <1>5, <1>8, <1>9, <1>10, <1>11, <1>12 DEF IInv, TypeOK

\* WtntServer preserves the invariant.
LEMMA WtntServerInv == ASSUME IInv, NEW h \in Host, WtntServer(h) PROVE IInv'
<1> DEFINE l == Req(h).lock
           r == RecordWtnts(locks[l], Req(h))
<1>1. Handles(h, "WTNT") /\ Receive(h) /\ locks' = [locks EXCEPT ![l] = r]
      /\ UNCHANGED <<patching, outq>>
  BY DEF WtntServer
<1>2. l \in LockIds /\ Req(h).wtnts \in SUBSET Pages /\ Req(h).frompid \in Host
  BY <1>1, ServedType, MessageTypes
<1>3. r \in LockRec /\ IsFiniteSet(r.wtnts)
  BY <1>2, LockTypeAt, RecordType
<1>4. LocksType'
  <2> HIDE DEF l, r
  <2> QED BY <1>1, <1>2, <1>3, LockType, LockTypeAt
<1>5. NetType'
  BY <1>1, ServedType DEF IInv, TypeOK, NetType
<1>6. MainType' /\ WaitType' /\ CacheType' /\ StoreType' /\ HomeType' /\ ScopeType' /\ GhostType'
  BY Frame DEF IInv, WtntServer, memVars, ghostVars
<1>7. Pairing' /\ Patching'
  BY <1>1, PairingFrame, PatchingServed DEF IInv, WtntServer
<1> QED BY <1>4, <1>5, <1>6, <1>7 DEF IInv, TypeOK

\* InvServer preserves the invariant.
LEMMA InvServerInv == ASSUME IInv, NEW h \in Host, InvServer(h) PROVE IInv'
<1>1. Handles(h, "INVLD") /\ Receive(h) /\ UNCHANGED <<patching, outq>>
  BY DEF InvServer
<1>2. CacheType'
  BY InvalidateType DEF IInv, InvServer
<1>3. NetType'
  BY <1>1, ServedType DEF IInv, TypeOK, NetType
<1>4. MainType' /\ WaitType' /\ StoreType' /\ HomeType' /\ LocksType' /\ ScopeType' /\ GhostType'
  BY Frame DEF IInv, InvServer, synVars, ghostVars
<1>5. Pairing' /\ Patching'
  BY <1>1, PairingFrame, PatchingServed DEF IInv, InvServer
<1> QED BY <1>2, <1>3, <1>4, <1>5 DEF IInv, TypeOK

\* AcqGrantServer preserves the invariant.
LEMMA AcqGrantServerInv == ASSUME IInv, NEW h \in Host, AcqGrantServer(h) PROVE IInv'
<1>1. Handles(h, "ACQGRANT") /\ Receive(h) /\ UNCHANGED <<patching, outq>>
  BY DEF AcqGrantServer
<1>2. Req(h).lock \in LockIds /\ Req(h).scope \in Int
  BY <1>1, ServedType, MessageTypes
<1>3. CacheType'
  BY InvalidateType DEF IInv, AcqGrantServer
<1>4. ScopeType'
  BY <1>2 DEF IInv, TypeOK, ScopeType, AcqGrantServer
<1>5. WaitType'
  BY DEF IInv, TypeOK, WaitType, AcqGrantServer
<1>6. NetType'
  BY <1>1, ServedType DEF IInv, TypeOK, NetType
<1>7. MainType' /\ StoreType' /\ HomeType' /\ LocksType' /\ GhostType'
  BY Frame DEF IInv, AcqGrantServer, ghostVars
<1>8. Pairing' /\ Patching'
  BY <1>1, PairingFrame, PatchingServed DEF IInv, AcqGrantServer
<1> QED BY <1>3, <1>4, <1>5, <1>6, <1>7, <1>8 DEF IInv, TypeOK

\* grantbarr sends well-formed messages to hosts.
LEMMA BarrGrantMsgsType ==
    ASSUME NEW h \in Host, NEW lk \in LockRec, IsFiniteSet(lk.wtnts)
    PROVE  BarrGrantMsgs(h, lk) \in Seq(Message)
<1> DEFINE list == {[page |-> k.page, from |-> k.from] : k \in lk.wtnts}
           n == NumChunks(Cardinality(list))
           part(i) == (i - 1) \div HostC + 1
           m(i) == [op |-> IF part(i) < n THEN "INVLD" ELSE "BARRGRANT", frompid |-> h,
                    topid |-> (i - 1) % HostC, lock |-> hidelock, scope |-> lk.scope,
                    wtnts |-> NoticeChunk(list, part(i))]
<1>1. lk.wtnts \in SUBSET Notice /\ lk.scope \in Int
  BY DEF LockRec
<1>2. list \in GrantList /\ IsFiniteSet(list)
  BY <1>1, ProjectionType
<1> HIDE DEF list
<1>3. n \in Nat /\ \A i : NoticeChunk(list, i) \in GrantList
  BY <1>2, GrantListType
<1>4. BarrGrantMsgs(h, lk) = [i \in 1 .. n * HostC |-> m(i)]
  BY DEF BarrGrantMsgs, list
<1> HIDE DEF n, part
<1>5. HostC \in Nat /\ HostC > 0
  BY HostAssumption
<1>6. \A i \in 1 .. n * HostC : (i - 1) % HostC \in Host
  BY <1>3, <1>5 DEF Host
<1>7. \A i \in 1 .. n * HostC : m(i) \in GrantMsg
  BY <1>1, <1>3, <1>6, HidelockFact DEF GrantMsg, GrantList
<1>8. \A i \in 1 .. n * HostC : m(i) \in Message
  BY <1>7 DEF Message
<1> HIDE DEF m
<1>9. n * HostC \in Nat
  BY <1>3, <1>5
<1> QED BY <1>4, <1>8, <1>9

\* BarrServer preserves the invariant.
LEMMA BarrServerInv == ASSUME IInv, NEW h \in Host, BarrServer(h) PROVE IInv'
<1> DEFINE lk == RecordWtnts(locks[hidelock], Req(h))
           full == [lk EXCEPT !.scope = @ + 1]
           empty == [full EXCEPT !.wtnts = {}]
<1>1. Handles(h, "BARR") /\ Receive(h) /\ UNCHANGED <<patching, latest, myscope, noclearlocks>>
  BY DEF BarrServer
<1>2. Req(h).wtnts \in SUBSET Pages /\ Req(h).frompid \in Host
  BY <1>1, ServedType, MessageTypes
<1>3. lk \in LockRec /\ IsFiniteSet(lk.wtnts)
  BY <1>2, HidelockFact, LockTypeAt, RecordType
<1>4. full \in LockRec /\ IsFiniteSet(full.wtnts) /\ empty \in LockRec /\ IsFiniteSet(empty.wtnts)
  <2> HIDE DEF lk
  <2>1. full \in LockRec /\ full.wtnts = lk.wtnts
    BY <1>3 DEF LockRec
  <2> HIDE DEF full
  <2>2. empty \in LockRec /\ empty.wtnts = {}
    BY <2>1 DEF LockRec
  <2>3. IsFiniteSet({})
    BY FS_EmptySet
  <2> HIDE DEF empty
  <2> QED BY <1>3, <2>1, <2>2, <2>3
<1>5. outq \in [Host -> Seq(Message)] /\ acqc \in Nat /\ latest \in [Words -> Nat]
      /\ atbarr \in [Words -> Nat]
  BY DEF IInv, TypeOK, NetType, ScopeType, GhostType
<1>6. LocksType' /\ outq' \in [Host -> Seq(Message)] /\ acqc' \in Nat /\ atbarr' \in [Words -> Nat]
  <2>1. CASE acqc + 1 = HostC
    <3>1. Send(h, BarrGrantMsgs(h, full)) /\ locks' = [locks EXCEPT ![hidelock] = empty]
          /\ acqc' = 0 /\ atbarr' = latest
      BY <2>1 DEF BarrServer, LastArrival, NextScope
    <3> HIDE DEF full, empty
    <3>2. LocksType'
      BY <1>4, <3>1, HidelockFact, LockTypeAt, LockType
    <3>3. outq' \in [Host -> Seq(Message)]
      BY <1>4, <1>5, <3>1, BarrGrantMsgsType, SendType
    <3> QED BY <1>5, <3>1, <3>2, <3>3
  <2>2. CASE acqc + 1 # HostC
    <3>1. locks' = [locks EXCEPT ![hidelock] = lk] /\ acqc' = acqc + 1 /\ UNCHANGED <<outq, atbarr>>
      BY <2>2 DEF BarrServer, LastArrival
    <3> HIDE DEF lk
    <3>2. LocksType'
      BY <1>3, <3>1, HidelockFact, LockTypeAt, LockType
    <3> QED BY <1>5, <3>1, <3>2
  <2> QED BY <2>1, <2>2
<1>7. NetType' /\ ScopeType' /\ GhostType'
  BY <1>1, <1>6, ServedType DEF IInv, TypeOK, NetType, ScopeType, GhostType
<1>8. MainType' /\ WaitType' /\ CacheType' /\ StoreType' /\ HomeType'
  BY Frame DEF IInv, BarrServer, memVars
<1>9. Pairing' /\ Patching'
  BY <1>1, PairingFrame, PatchingServed DEF IInv, BarrServer
<1> QED BY <1>6, <1>7, <1>8, <1>9 DEF IInv, TypeOK

\* clearlocks keeps the locks well-formed.
LEMMA ClearLocksType ==
    ASSUME LocksType, NEW h \in Host, ClearLocks(h)
    PROVE  LocksType'
<1>1. locks \in [LockIds -> LockRec] /\ \A l \in LockIds : IsFiniteSet(locks[l].wtnts)
  BY DEF LocksType, LockRec
<1>2. \A l \in LockIds : [locks[l] EXCEPT !.wtnts = {}] \in LockRec
                          /\ [locks[l] EXCEPT !.wtnts = {}].wtnts = {}
  BY <1>1 DEF LockRec
<1>3. IsFiniteSet({})
  BY FS_EmptySet
<1>4. locks' = [l \in LockIds |-> IF l # hidelock /\ Manager(l) = h
                                   THEN [locks[l] EXCEPT !.wtnts = {}] ELSE locks[l]]
  BY DEF ClearLocks
<1>5. locks' \in [LockIds -> LockRec]
  BY <1>1, <1>2, <1>4
<1>6. \A l \in LockIds : IsFiniteSet(locks'[l].wtnts)
  BY <1>1, <1>2, <1>3, <1>4
<1> QED BY <1>5, <1>6 DEF LocksType, LockRec

\* BarrGrantServer preserves the invariant.
LEMMA BarrGrantServerInv == ASSUME IInv, NEW h \in Host, BarrGrantServer(h) PROVE IInv'
<1>1. Handles(h, "BARRGRANT") /\ Receive(h) /\ UNCHANGED <<patching, outq>>
  BY DEF BarrGrantServer
<1>2. Req(h).scope \in Int
  BY <1>1, ServedType, MessageTypes
<1>3. CacheType'
  BY InvalidateType DEF IInv, BarrGrantServer
<1>4. LocksType'
  <2>1. CASE noclearlocks[h]
    BY <2>1, Frame DEF IInv, BarrGrantServer
  <2>2. CASE ~noclearlocks[h]
    BY <2>2, ClearLocksType DEF IInv, TypeOK, BarrGrantServer
  <2> QED BY <2>1, <2>2
<1>5. ScopeType'
  BY <1>2 DEF IInv, TypeOK, ScopeType, BarrGrantServer
<1>6. WaitType'
  BY DEF IInv, TypeOK, WaitType, BarrGrantServer
<1>7. NetType'
  BY <1>1, ServedType DEF IInv, TypeOK, NetType
<1>8. MainType' /\ StoreType' /\ HomeType' /\ GhostType'
  BY Frame DEF IInv, BarrGrantServer, ghostVars
<1>9. Pairing' /\ Patching'
  BY <1>1, PairingFrame, PatchingServed DEF IInv, BarrGrantServer
<1> QED BY <1>3, <1>4, <1>5, <1>6, <1>7, <1>8, <1>9 DEF IInv, TypeOK

\* GetpServer preserves the invariant.
LEMMA GetpServerInv == ASSUME IInv, NEW h \in Host, GetpServer(h) PROVE IInv'
<1> DEFINE m == [op |-> "GETPGRANT", frompid |-> h, topid |-> Req(h).frompid, page |-> Req(h).page,
                 data |-> [w \in Words |-> IF w \in WordsOf(Req(h).page) THEN store[h][w] ELSE 0]]
<1>1. Handles(h, "GETP") /\ Receive(h) /\ UNCHANGED patching /\ Send(h, <<m>>)
  BY DEF GetpServer
<1>2. Req(h).page \in Pages /\ Req(h).frompid \in Host
  BY <1>1, ServedType, MessageTypes
<1>3. HomeType'
  BY <1>2 DEF IInv, TypeOK, HomeType, GetpServer
<1>4. NetType'
  <2>1. \A w \in Words : store[h][w] \in Nat
    BY DEF IInv, TypeOK, StoreType
  <2>2. m \in GetpGrantMsg
    BY <1>2, <2>1 DEF GetpGrantMsg
  <2>3. <<m>> \in Seq(Message)
    BY <2>2 DEF Message
  <2> HIDE DEF m
  <2>4. outq' \in [Host -> Seq(Message)]
    BY <1>1, <2>3, SendType DEF IInv, TypeOK, NetType
  <2> QED BY <1>1, <2>4, ServedType DEF IInv, TypeOK, NetType
<1>5. MainType' /\ WaitType' /\ CacheType' /\ StoreType' /\ LocksType' /\ ScopeType' /\ GhostType'
  BY Frame DEF IInv, GetpServer, synVars, ghostVars
<1>6. Pairing' /\ Patching'
  BY <1>1, PairingFrame, PatchingServed DEF IInv, GetpServer
<1> QED BY <1>3, <1>4, <1>5, <1>6 DEF IInv, TypeOK

\* GetpGrantServer preserves the invariant.
LEMMA GetpGrantServerInv == ASSUME IInv, NEW h \in Host, GetpGrantServer(h) PROVE IInv'
<1>1. Handles(h, "GETPGRANT") /\ Receive(h) /\ UNCHANGED <<patching, outq>>
  BY DEF GetpGrantServer
<1>2. Req(h).data \in [Words -> Nat]
  BY <1>1, ServedType, MessageTypes
<1>3. StoreType'
  BY <1>2 DEF IInv, TypeOK, StoreType, GetpGrantServer
<1>4. WaitType'
  BY DEF IInv, TypeOK, WaitType, GetpGrantServer
<1>5. NetType'
  BY <1>1, ServedType DEF IInv, TypeOK, NetType
<1>6. MainType' /\ CacheType' /\ HomeType' /\ LocksType' /\ ScopeType' /\ GhostType'
  BY Frame DEF IInv, GetpGrantServer, synVars, ghostVars
<1>7. Pairing' /\ Patching'
  BY <1>1, PairingFrame, PatchingServed DEF IInv, GetpGrantServer
<1> QED BY <1>3, <1>4, <1>5, <1>6, <1>7 DEF IInv, TypeOK

\* DiffServerOpen preserves the invariant.
LEMMA DiffServerOpenInv == ASSUME IInv, NEW h \in Host, DiffServerOpen(h) PROVE IInv'
<1>1. Handles(h, "DIFF") /\ UNCHANGED <<outq, inq>>
  BY DEF DiffServerOpen, netVars
<1>2. PICK p \in Req(h).pages : /\ patching' = [patching EXCEPT ![h] = p]
                                /\ home' = [home EXCEPT ![p].rw = @ \/ ~home[p].wtnt]
  BY DEF DiffServerOpen
<1>3. p \in Pages
  <2>1. Req(h) \in DiffMsg
    BY <1>1, ServedType, MessageTypes
  <2> QED BY <1>2, <2>1 DEF DiffMsg
<1>4. HomeType'
  BY <1>2, <1>3 DEF IInv, TypeOK, HomeType
<1>5. NetType'
  BY <1>1, <1>2, <1>3 DEF IInv, TypeOK, NetType
<1>6. MainType' /\ WaitType' /\ CacheType' /\ StoreType' /\ LocksType' /\ ScopeType' /\ GhostType'
  BY Frame DEF IInv, DiffServerOpen, synVars, ghostVars
<1>7. Pairing'
  BY PairingFrame DEF IInv, DiffServerOpen
<1>8. Patching'
  BY <1>1, <1>2, <1>3 DEF IInv, TypeOK, NetType, Patching, Handles, Req
<1> QED BY <1>4, <1>5, <1>6, <1>7, <1>8 DEF IInv, TypeOK

\* DiffServerPatch preserves the invariant.
LEMMA DiffServerPatchInv == ASSUME IInv, NEW h \in Host, DiffServerPatch(h) PROVE IInv'
<1> DEFINE p == patching[h]
           noted == home[p].wtnt \/ ~home[p].rw
           rest == Req(h).pages \ {p}
           m == [op |-> "DIFFGRANT", frompid |-> h, topid |-> Req(h).frompid]
<1>1. Handles(h, "DIFF") /\ p \in Pages
  BY DEF IInv, Patching, DiffServerPatch
<1>2. Req(h) \in DiffMsg /\ Req(h).frompid \in Host
  BY <1>1, ServedType, MessageTypes
<1>3. inq \in [Host -> Seq(Message)] /\ outq \in [Host -> Seq(Message)] /\ inq[h] # <<>>
  BY <1>1 DEF IInv, TypeOK, NetType, Handles
<1>4. StoreType'
  BY <1>2 DEF IInv, TypeOK, StoreType, DiffServerPatch, DiffMsg
<1>5. HomeType'
  BY <1>1 DEF IInv, TypeOK, HomeType, DiffServerPatch
<1>6. patching' = [patching EXCEPT ![h] = NoPage]
  BY DEF DiffServerPatch
<1>7. /\ inq' \in [Host -> Seq(Message)] /\ outq' \in [Host -> Seq(Message)]
      /\ \A g \in Host \ {h} : inq'[g] = inq[g]
  <2>1. CASE rest = {}
    <3>1. Receive(h) /\ Send(h, <<m>>)
      BY <2>1 DEF DiffServerPatch
    <3>2. m \in DiffGrantMsg
      BY <1>2 DEF DiffGrantMsg
    <3>3. <<m>> \in Seq(Message)
      BY <3>2 DEF Message
    <3> HIDE DEF m
    <3>4. outq' \in [Host -> Seq(Message)]
      BY <1>3, <3>1, <3>3, SendType
    <3>5. inq' \in [Host -> Seq(Message)]
      BY <1>3, <3>1, ReceiveType
    <3>6. \A g \in Host \ {h} : inq'[g] = inq[g]
      BY <1>3, <3>1 DEF Receive
    <3> QED BY <3>4, <3>5, <3>6
  <2>2. CASE rest # {}
    <3> DEFINE e == [Req(h) EXCEPT !.pages = rest]
    <3>1. inq[h][1] = Req(h)
      BY <1>3 DEF Req
    <3>2. inq' = [inq EXCEPT ![h] = [inq[h] EXCEPT ![1] = e]] /\ UNCHANGED outq
      BY <2>2, <3>1 DEF DiffServerPatch
    <3>3. e \in Message
      <4>1. e \in DiffMsg BY <1>2 DEF DiffMsg
      <4> QED BY <4>1 DEF Message
    <3> HIDE DEF e
    <3>4. [inq[h] EXCEPT ![1] = e] \in Seq(Message)
      BY <1>3, <3>3, ExceptType
    <3> QED BY <1>3, <3>2, <3>4
  <2> QED BY <2>1, <2>2
<1>8. NetType'
  BY <1>6, <1>7 DEF IInv, TypeOK, NetType
<1>9. MainType' /\ WaitType' /\ CacheType' /\ LocksType' /\ ScopeType' /\ GhostType'
  BY Frame DEF IInv, DiffServerPatch, synVars, ghostVars
<1>10. Pairing'
  BY PairingFrame DEF IInv, DiffServerPatch
<1>11. Patching'
  BY <1>6, <1>7 DEF IInv, TypeOK, NetType, Patching, Handles, Req
<1> QED BY <1>4, <1>5, <1>8, <1>9, <1>10, <1>11 DEF IInv, TypeOK

\* DiffGrantServer preserves the invariant.
LEMMA DiffGrantServerInv == ASSUME IInv, NEW h \in Host, DiffGrantServer(h) PROVE IInv'
<1>1. Handles(h, "DIFFGRANT") /\ Receive(h) /\ UNCHANGED <<patching, outq>>
  BY DEF DiffGrantServer
<1>2. WaitType'
  BY DEF IInv, TypeOK, WaitType, DiffGrantServer
<1>3. NetType'
  BY <1>1, ServedType DEF IInv, TypeOK, NetType
<1>4. MainType' /\ CacheType' /\ StoreType' /\ HomeType' /\ LocksType' /\ ScopeType' /\ GhostType'
  BY Frame DEF IInv, DiffGrantServer, memVars, synVars, ghostVars
<1>5. Pairing' /\ Patching'
  BY <1>1, PairingFrame, PatchingServed DEF IInv, DiffGrantServer
<1> QED BY <1>2, <1>3, <1>4, <1>5 DEF IInv, TypeOK

-----------------------------------------------------------------------------
\* Every step preserves the invariant.
LEMMA NextIInv == IInv /\ [Next]_vars => IInv'
<1> SUFFICES ASSUME IInv, [Next]_vars PROVE IInv'
  OBVIOUS
<1>1. ASSUME NEW h \in Host, MainThread(h) PROVE IInv'
  BY <1>1, ReadWordInv, WriteWordInv, SegvHomeInv, SegvFetchInv, SegvFetchedInv, SegvUpgradeInv,
     EndIntervalInv, AcquireInv, AcquiredInv, ReleaseInv, BarrierArriveInv, BarrierLeaveInv
  DEF MainThread
<1>2. ASSUME NEW h \in Host, ServerThread(h) PROVE IInv'
  BY <1>2, AcqServerInv, RelServerInv, WtntServerInv, InvServerInv, AcqGrantServerInv,
     BarrServerInv, BarrGrantServerInv, GetpServerInv, GetpGrantServerInv, DiffServerOpenInv,
     DiffServerPatchInv, DiffGrantServerInv
  DEF ServerThread
<1>3. CASE UNCHANGED vars
  <2>1. MainType' /\ WaitType' /\ CacheType' /\ StoreType' /\ HomeType' /\ LocksType'
        /\ ScopeType' /\ NetType' /\ GhostType'
    BY <1>3, Frame DEF IInv, vars, memVars, synVars, netVars, ghostVars
  <2>2. Pairing' /\ Patching'
    BY <1>3, PairingFrame, PatchingFrame DEF IInv, vars, netVars
  <2> QED BY <2>1, <2>2 DEF IInv, TypeOK
<1> QED BY <1>1, <1>2, <1>3, TransferInv DEF Next, Finished

\* The inductive invariant of the protocol.
THEOREM InductiveInvariance == Spec => []IInv
BY InitIInv, NextIInv, PTL DEF Spec

\* Type correctness of the protocol: whatever the programs, the number of
\* hosts and the interleaving of their threads, every handler finds at the
\* head of its queue a message of the shape it decodes, and a release or a
\* barrier always finds an interval on the lock stack.
THEOREM TypeCorrectness == Spec => []TypeOK
<1>1. IInv => TypeOK BY DEF IInv
<1> QED BY <1>1, InductiveInvariance, PTL

-----------------------------------------------------------------------------
(***************************************************************************)
(* jia_lock excludes, the manager's queues are as relserver asserts and    *)
(* jia_barrier separates, for any number of hosts and locks and for any    *)
(* programs.                                                               *)
(*                                                                         *)
(* The argument for locks follows the token of a lock.  It is at the       *)
(* manager while nobody is queued; otherwise the host at the head of the   *)
(* acquirers has it: as an ACQGRANT under way to it, as a grant received   *)
(* and not yet acted on, as the lock held, or as a REL under way back.  No *)
(* message overtakes another of the same host, so that the ACQ with which  *)
(* a host asks again never reaches the manager before its REL.             *)
(*                                                                         *)
(* The argument for barriers follows the count: acqc is the number of      *)
(* hosts that wait in jia_barrier, whose BARR has been served and to which *)
(* no BARRGRANT is under way.  When barrserver finds it at the number of   *)
(* hosts, every host therefore waits in the same barrier.                  *)
(***************************************************************************)

(***************************************************************************)
(* The invariant.                                                          *)
(***************************************************************************)
\* The messages in a queue, and the messages under way.
Elements(s) == {s[i] : i \in 1 .. Len(s)}
InFlight == UNION {Elements(outq[g]) \cup Elements(inq[g]) : g \in Host}

\* The messages that carry or ask for the token.
TokenOps == {"ACQ", "ACQGRANT", "REL"}

\* The messages of a barrier, and all whose order matters.
BarrOps == {"BARR", "BARRGRANT"}
TurnOps == {"ACQ", "ACQGRANT", "REL", "BARR", "BARRGRANT"}

\* m may be ahead of n: of the same host and lock, only a REL is ahead of an
\* ACQ, and an ACQGRANT is alone.
Before(m, n) ==
    m.frompid = n.frompid /\ m.topid = n.topid =>
        /\ m.op \in {"ACQ", "REL"} /\ n.op \in {"ACQ", "REL"} /\ m.lock = n.lock
               => m.op = "REL" /\ n.op = "ACQ"
        /\ ~(m.op = "ACQGRANT" /\ n.op = "ACQGRANT" /\ m.lock = n.lock)
        /\ ~(m.op \in BarrOps /\ n.op = m.op)

InOrder(s) == \A i, j \in 1 .. Len(s) : i < j => Before(s[i], s[j])

Order ==
    /\ \A g \in Host : InOrder(outq[g]) /\ InOrder(inq[g])
    /\ \A g, h \in Host : \A m \in Elements(inq[g]), n \in Elements(outq[h]) : Before(m, n)

\* Where messages come from and go to.
Route(m) ==
    /\ m.op \in TokenOps => m.lock \in Locks
    /\ m.op \in {"ACQ", "REL"} => m.topid = Manager(m.lock)
    /\ m.op = "ACQGRANT" => m.frompid = Manager(m.lock)
    /\ m.op = "BARR" => m.topid = Manager(hidelock)
    /\ m.op = "BARRGRANT" => m.frompid = Manager(hidelock)

Routing ==
    /\ \A g \in Host : \A m \in Elements(outq[g]) : m.frompid = g /\ Route(m)
    /\ \A g \in Host : \A m \in Elements(inq[g]) : m.topid = g /\ Route(m)

HasAcq(h, l) == \E m \in InFlight : m.op = "ACQ" /\ m.frompid = h /\ m.lock = l
HasRel(h, l) == \E m \in InFlight : m.op = "REL" /\ m.frompid = h /\ m.lock = l
HasGrant(h, l) == \E m \in InFlight : m.op = "ACQGRANT" /\ m.topid = h /\ m.lock = l
Waiting(h, l) == InCall(h, "acqwait", "lock") /\ CallOf(h).lock = l
AtHead(h, l) == locks[l].acqs # <<>> /\ locks[l].acqs[1].pid = h
Queued(h, l) == \E i \in 1 .. Len(locks[l].acqs) : locks[l].acqs[i].pid = h

\* Where the token of lock l is as far as host h is concerned.
Token(h, l) ==
    /\ HasAcq(h, l) => Waiting(h, l) /\ wait[h].acq
    /\ HasGrant(h, l) => Waiting(h, l) /\ wait[h].acq /\ AtHead(h, l) /\ ~HasRel(h, l)
    /\ Waiting(h, l) /\ ~wait[h].acq => AtHead(h, l) /\ ~HasRel(h, l)
    /\ Holds(h, l) => AtHead(h, l) /\ ~HasRel(h, l)
    /\ HasRel(h, l) => AtHead(h, l)
    /\ HasAcq(h, l) /\ Queued(h, l) => HasRel(h, l)
    /\ Queued(h, l) => Waiting(h, l) \/ Holds(h, l) \/ HasRel(h, l)

Tokens == \A h \in Host, l \in Locks : Token(h, l)

QueuedOnce ==
    \A l \in Locks : \A i, j \in 1 .. Len(locks[l].acqs) :
        locks[l].acqs[i].pid = locks[l].acqs[j].pid => i = j

\* The lock stack of a host: no lock twice, and the lock asked for is not on it.
Nesting ==
    \A h \in Host :
        /\ \A i, j \in 1 .. Len(stack[h]) : stack[h][i].lockid = stack[h][j].lockid => i = j
        /\ InCall(h, "diffwait", "lock") \/ InCall(h, "acqwait", "lock")
               => ~Holds(h, CallOf(h).lock)

LockInv == Routing /\ Order /\ Nesting /\ QueuedOnce /\ Tokens

-----------------------------------------------------------------------------
(***************************************************************************)
(* Queues.                                                                 *)
(***************************************************************************)
\* Sending puts messages behind those of a queue.
LEMMA ConcatQueue ==
    ASSUME NEW s \in Seq(Message), NEW t \in Seq(Message)
    PROVE  /\ Elements(s \o t) = Elements(s) \cup Elements(t)
           /\ InOrder(s) /\ InOrder(t) /\ (\A m \in Elements(s), n \in Elements(t) : Before(m, n))
                  => InOrder(s \o t)
<1>1. PICK k \in Nat : k = Len(s)
  OBVIOUS
<1>2. PICK u : u = s \o t /\ u \in Seq(Message)
  <2>1. s \o t \in Seq(Message)
    OBVIOUS
  <2> QED BY <2>1, Zenon
<1>3. /\ Len(u) = k + Len(t) /\ Len(t) \in Nat
      /\ \A i \in 1 .. k : u[i] = s[i]
      /\ \A i \in 1 .. Len(t) : u[k + i] = t[i]
  BY <1>1, <1>2
<1>4. ASSUME NEW i \in 1 .. Len(u)
      PROVE  \/ i \in 1 .. Len(s) /\ u[i] = s[i]
             \/ i - k \in 1 .. Len(t) /\ u[i] = t[i - k]
  <2>1. CASE i <= k
    BY <1>1, <1>3, <2>1
  <2>2. CASE i > k
    <3>1. i - k \in 1 .. Len(t) /\ i = k + (i - k)
      BY <1>1, <1>3, <2>2
    <3> QED BY <1>3, <3>1
  <2> QED BY <1>1, <2>1, <2>2
<1>5. Elements(u) \subseteq Elements(s) \cup Elements(t)
  BY <1>4 DEF Elements
<1>6. Elements(s) \subseteq Elements(u)
  <2>1. ASSUME NEW i \in 1 .. Len(s) PROVE s[i] \in Elements(u)
    <3>1. i \in 1 .. Len(u) /\ u[i] = s[i]
      BY <1>1, <1>3
    <3> QED BY <3>1 DEF Elements
  <2> QED BY <2>1 DEF Elements
<1>7. Elements(t) \subseteq Elements(u)
  <2>1. ASSUME NEW i \in 1 .. Len(t) PROVE t[i] \in Elements(u)
    <3>1. k + i \in 1 .. Len(u) /\ u[k + i] = t[i]
      BY <1>1, <1>3
    <3> QED BY <3>1 DEF Elements
  <2> QED BY <2>1 DEF Elements
<1>8. ASSUME InOrder(s), InOrder(t), \A m \in Elements(s), n \in Elements(t) : Before(m, n)
      PROVE  InOrder(u)
  <2> SUFFICES ASSUME NEW i \in 1 .. Len(u), NEW j \in 1 .. Len(u), i < j
               PROVE  Before(u[i], u[j])
    BY DEF InOrder
  <2>1. CASE j \in 1 .. Len(s) /\ u[j] = s[j]
    <3>1. i \in 1 .. Len(s) /\ u[i] = s[i]
      BY <1>1, <1>3, <2>1
    <3> QED BY <1>8, <2>1, <3>1 DEF InOrder
  <2>2. CASE j - k \in 1 .. Len(t) /\ u[j] = t[j - k]
    <3>1. CASE i \in 1 .. Len(s) /\ u[i] = s[i]
      <4>1. u[i] \in Elements(s) /\ u[j] \in Elements(t)
        BY <2>2, <3>1 DEF Elements
      <4> QED BY <1>8, <4>1
    <3>2. CASE i - k \in 1 .. Len(t) /\ u[i] = t[i - k]
      <4>1. i - k < j - k
        BY <1>1
      <4> QED BY <1>8, <2>2, <3>2, <4>1 DEF InOrder
    <3> QED BY <1>4, <3>1, <3>2
  <2> QED BY <1>4, <2>1, <2>2
<1> QED BY <1>2, <1>5, <1>6, <1>7, <1>8

\* Taking the head of a queue: what is left may come after it.
LEMMA TailQueue ==
    ASSUME NEW s \in Seq(Message), s # <<>>
    PROVE  /\ Head(s) = s[1] /\ Head(s) \in Message
           /\ Elements(s) = {Head(s)} \cup Elements(Tail(s))
           /\ InOrder(s) => InOrder(Tail(s)) /\ \A m \in Elements(Tail(s)) : Before(Head(s), m)
<1>1. PICK k \in Nat : k = Len(s) /\ k >= 1
  OBVIOUS
<1>2. PICK u : u = Tail(s) /\ u \in Seq(Message)
  <2>1. Tail(s) \in Seq(Message)
    OBVIOUS
  <2> QED BY <2>1, Zenon
<1>3. /\ Head(s) = s[1] /\ Head(s) \in Message /\ 1 \in 1 .. Len(s)
      /\ Len(u) = k - 1
      /\ \A i \in 1 .. k - 1 : u[i] = s[i + 1]
  BY <1>1, <1>2
<1>4. ASSUME NEW i \in 1 .. Len(u) PROVE i + 1 \in 1 .. Len(s) /\ u[i] = s[i + 1]
  BY <1>1, <1>3
<1>5. Elements(s) \subseteq {Head(s)} \cup Elements(u)
  <2>1. ASSUME NEW i \in 1 .. Len(s) PROVE s[i] = Head(s) \/ s[i] \in Elements(u)
    <3>1. CASE i = 1
      BY <1>3, <3>1
    <3>2. CASE i # 1
      <4>1. i - 1 \in 1 .. Len(u) /\ u[i - 1] = s[i]
        BY <1>1, <1>3, <3>2
      <4> QED BY <4>1 DEF Elements
    <3> QED BY <3>1, <3>2
  <2> QED BY <2>1 DEF Elements
<1>6. {Head(s)} \cup Elements(u) \subseteq Elements(s)
  BY <1>3, <1>4 DEF Elements
<1>7. ASSUME InOrder(s) PROVE InOrder(u) /\ \A m \in Elements(u) : Before(Head(s), m)
  <2>1. ASSUME NEW i \in 1 .. Len(u), NEW j \in 1 .. Len(u), i < j
        PROVE  Before(u[i], u[j])
    <3>1. i + 1 < j + 1
      BY <2>1
    <3> QED BY <1>4, <1>7, <3>1 DEF InOrder
  <2>2. ASSUME NEW i \in 1 .. Len(u) PROVE Before(s[1], u[i])
    <3>1. 1 < i + 1
      OBVIOUS
    <3> QED BY <1>3, <1>4, <1>7, <3>1 DEF InOrder
  <2> QED BY <1>3, <2>1, <2>2 DEF InOrder, Elements
<1> QED BY <1>2, <1>3, <1>5, <1>6, <1>7

\* Queues of no message and of one.
LEMMA ShortQueue ==
    ASSUME NEW m \in Message
    PROVE  /\ <<m>> \in Seq(Message) /\ Elements(<<m>>) = {m} /\ InOrder(<<m>>)
           /\ <<>> \in Seq(Message) /\ Elements(<<>>) = {} /\ InOrder(<<>>)
BY DEF Elements, InOrder

\* Messages that neither carry nor ask for the token go before and after any.
LEMMA DullBefore ==
    ASSUME NEW m, NEW n, m.op \notin TurnOps \/ n.op \notin TurnOps
    PROVE  Before(m, n)
BY DEF Before, TurnOps, BarrOps

-----------------------------------------------------------------------------
(***************************************************************************)
(* What a step does to the messages under way.                             *)
(***************************************************************************)
\* Messages host h may send: they say so, and take their turn.
Sendable(h, msgs) ==
    /\ msgs \in Seq(Message) /\ InOrder(msgs)
    /\ \A n \in Elements(msgs) : /\ n.frompid = h /\ Route(n)
                                 /\ \A m \in InFlight : Before(m, n)

\* A message in a queue is under way.
LEMMA QueuesInFlight ==
    ASSUME NEW g \in Host
    PROVE  Elements(outq[g]) \subseteq InFlight /\ Elements(inq[g]) \subseteq InFlight
BY DEF InFlight

\* Messages join the end of an out queue, the in queues change as they may.
LEMMA SendNet ==
    ASSUME TypeOK, Routing, Order, NEW h \in Host, NEW msgs, Sendable(h, msgs), Send(h, msgs)
    PROVE  /\ \A g \in Host : InOrder(outq'[g])
           /\ \A g \in Host : \A m \in Elements(outq'[g]) : m.frompid = g /\ Route(m)
           /\ \A g, f \in Host : \A m \in Elements(inq[g]), n \in Elements(outq'[f]) : Before(m, n)
           /\ \A g \in Host \ {h} : outq'[g] = outq[g]
           /\ Elements(outq'[h]) = Elements(outq[h]) \cup Elements(msgs)
<1>1. /\ outq \in [Host -> Seq(Message)] /\ msgs \in Seq(Message)
      /\ outq' = [outq EXCEPT ![h] = outq[h] \o msgs]
  BY DEF TypeOK, NetType, Send, Sendable
<1>2. outq'[h] = outq[h] \o msgs /\ outq[h] \in Seq(Message) /\ \A g \in Host \ {h} : outq'[g] = outq[g]
  BY <1>1
<1>3. Elements(outq'[h]) = Elements(outq[h]) \cup Elements(msgs)
  BY <1>1, <1>2, ConcatQueue
<1>4. InOrder(outq'[h])
  <2>1. \A m \in Elements(outq[h]), n \in Elements(msgs) : Before(m, n)
    BY QueuesInFlight DEF Sendable
  <2> QED BY <1>1, <1>2, <2>1, ConcatQueue DEF Order, Sendable
<1>5. \A g \in Host : \A m \in Elements(outq'[g]) : m.frompid = g /\ Route(m)
  BY <1>2, <1>3 DEF Routing, Sendable
<1>6. \A g, f \in Host : \A m \in Elements(inq[g]), n \in Elements(outq'[f]) : Before(m, n)
  BY <1>2, <1>3, QueuesInFlight DEF Order, Sendable
<1>7. \A g \in Host : InOrder(outq'[g])
  BY <1>2, <1>4 DEF Order
<1> QED BY <1>2, <1>3, <1>5, <1>6, <1>7

\* The head leaves an in queue.
LEMMA ReceiveNet ==
    ASSUME TypeOK, Routing, Order, NEW h \in Host, inq[h] # <<>>, Receive(h)
    PROVE  /\ \A g \in Host : InOrder(inq'[g]) /\ Elements(inq'[g]) \subseteq Elements(inq[g])
           /\ \A g \in Host \ {h} : inq'[g] = inq[g]
           /\ Req(h) \in Message /\ Req(h).topid = h /\ Route(Req(h)) /\ Req(h) \in InFlight
           /\ Elements(inq[h]) = {Req(h)} \cup Elements(inq'[h])
           /\ \A g \in Host : \A m \in Elements(inq'[g]) \cup Elements(outq[g]) : Before(Req(h), m)
<1>1. inq \in [Host -> Seq(Message)] /\ inq' = [inq EXCEPT ![h] = Tail(inq[h])]
  BY DEF TypeOK, NetType, Receive
<1>2. inq'[h] = Tail(inq[h]) /\ inq[h] \in Seq(Message) /\ \A g \in Host \ {h} : inq'[g] = inq[g]
  BY <1>1
<1>3. /\ Elements(inq[h]) = {Req(h)} \cup Elements(inq'[h]) /\ Req(h) \in Message
      /\ InOrder(inq'[h]) /\ \A m \in Elements(inq'[h]) : Before(Req(h), m)
  BY <1>2, TailQueue DEF Order, Req
<1>4. Req(h).topid = h /\ Route(Req(h)) /\ Req(h) \in InFlight
  BY <1>3, QueuesInFlight DEF Routing
<1>5. ASSUME NEW g \in Host, NEW m \in Elements(inq'[g]) PROVE Before(Req(h), m)
  <2>1. CASE g = h
    BY <1>3, <2>1
  <2>2. CASE g # h
    <3>1. m.topid = g
      BY <1>2, <2>2 DEF Routing
    <3> QED BY <1>4, <2>2, <3>1 DEF Before, BarrOps
  <2> QED BY <2>1, <2>2
<1>6. \A g \in Host : \A m \in Elements(outq[g]) : Before(Req(h), m)
  BY <1>3 DEF Order
<1>7. \A g \in Host : InOrder(inq'[g]) /\ Elements(inq'[g]) \subseteq Elements(inq[g])
  BY <1>2, <1>3 DEF Order
<1> QED BY <1>2, <1>3, <1>4, <1>5, <1>6, <1>7

\* A step of the application thread that sends.
LEMMA MainSends ==
    ASSUME TypeOK, Routing, Order, NEW h \in Host, NEW msgs, Sendable(h, msgs), Send(h, msgs),
           UNCHANGED inq
    PROVE  Routing' /\ Order' /\ InFlight' = InFlight \cup Elements(msgs)
<1>1. /\ \A g \in Host : InOrder(outq'[g])
      /\ \A g \in Host : \A m \in Elements(outq'[g]) : m.frompid = g /\ Route(m)
      /\ \A g, f \in Host : \A m \in Elements(inq[g]), n \in Elements(outq'[f]) : Before(m, n)
      /\ \A g \in Host \ {h} : outq'[g] = outq[g]
      /\ Elements(outq'[h]) = Elements(outq[h]) \cup Elements(msgs)
  BY SendNet
<1>2. Routing'
  BY <1>1 DEF Routing
<1>3. Order'
  BY <1>1 DEF Order
<1>4. InFlight' = InFlight \cup Elements(msgs)
  BY <1>1 DEF InFlight
<1> QED BY <1>2, <1>3, <1>4

\* A handler that takes the head of its in queue and sends.
LEMMA ServerSends ==
    ASSUME TypeOK, Routing, Order, NEW h \in Host, inq[h] # <<>>, Receive(h),
           NEW msgs, Sendable(h, msgs), Send(h, msgs)
    PROVE  /\ Routing' /\ Order'
           /\ \E rest : /\ InFlight = rest \cup {Req(h)}
                        /\ InFlight' = rest \cup Elements(msgs)
                        /\ \A m \in rest : Before(Req(h), m)
<1>1. /\ \A g \in Host : InOrder(outq'[g])
      /\ \A g \in Host : \A m \in Elements(outq'[g]) : m.frompid = g /\ Route(m)
      /\ \A g, f \in Host : \A m \in Elements(inq[g]), n \in Elements(outq'[f]) : Before(m, n)
      /\ \A g \in Host \ {h} : outq'[g] = outq[g]
      /\ Elements(outq'[h]) = Elements(outq[h]) \cup Elements(msgs)
  BY SendNet
<1>2. /\ \A g \in Host : InOrder(inq'[g]) /\ Elements(inq'[g]) \subseteq Elements(inq[g])
      /\ \A g \in Host \ {h} : inq'[g] = inq[g]
      /\ Elements(inq[h]) = {Req(h)} \cup Elements(inq'[h])
      /\ \A g \in Host : \A m \in Elements(inq'[g]) \cup Elements(outq[g]) : Before(Req(h), m)
  BY ReceiveNet
<1>3. Routing'
  BY <1>1, <1>2 DEF Routing
<1>4. Order'
  BY <1>1, <1>2 DEF Order
<1>5. PICK rest : rest = UNION {Elements(outq[g]) \cup Elements(inq'[g]) : g \in Host}
  OBVIOUS
<1>6. InFlight = rest \cup {Req(h)}
  BY <1>2, <1>5 DEF InFlight
<1>7. InFlight' = rest \cup Elements(msgs)
  BY <1>1, <1>5 DEF InFlight
<1>8. \A m \in rest : Before(Req(h), m)
  BY <1>2, <1>5
<1> QED BY <1>3, <1>4, <1>6, <1>7, <1>8

\* A handler that takes the head of its in queue and sends nothing.
LEMMA ServerTakes ==
    ASSUME TypeOK, Routing, Order, NEW h \in Host, inq[h] # <<>>, Receive(h), UNCHANGED outq
    PROVE  /\ Routing' /\ Order' /\ InFlight = InFlight' \cup {Req(h)}
           /\ \A m \in InFlight' : Before(Req(h), m)
<1>1. /\ \A g \in Host : InOrder(inq'[g]) /\ Elements(inq'[g]) \subseteq Elements(inq[g])
      /\ \A g \in Host \ {h} : inq'[g] = inq[g]
      /\ Elements(inq[h]) = {Req(h)} \cup Elements(inq'[h])
      /\ \A g \in Host : \A m \in Elements(inq'[g]) \cup Elements(outq[g]) : Before(Req(h), m)
  BY ReceiveNet
<1>2. Routing'
  BY <1>1 DEF Routing
<1>3. Order'
  BY <1>1 DEF Order
<1>4. InFlight = InFlight' \cup {Req(h)}
  BY <1>1 DEF InFlight
<1>5. \A m \in InFlight' : Before(Req(h), m)
  BY <1>1 DEF InFlight
<1> QED BY <1>2, <1>3, <1>4, <1>5

\* A message moves from an out queue to the in queue of its destination.
LEMMA TransferNet ==
    ASSUME TypeOK, Routing, Order, NEW h \in Host, Transfer(h)
    PROVE  Routing' /\ Order' /\ InFlight' = InFlight
<1>1. outq \in [Host -> Seq(Message)] /\ inq \in [Host -> Seq(Message)] /\ outq[h] # <<>>
  BY DEF TypeOK, NetType, Transfer
<1>2. PICK m \in Message : m = Head(outq[h])
  BY <1>1, TailQueue
<1>3. PICK d \in Host : d = m.topid
  BY MessageTypes
<1>4. /\ outq' = [outq EXCEPT ![h] = Tail(outq[h])]
      /\ inq' = [inq EXCEPT ![d] = Append(inq[d], m)]
  BY <1>2, <1>3 DEF Transfer
<1>5. /\ Elements(outq[h]) = {m} \cup Elements(outq'[h]) /\ InOrder(outq'[h])
      /\ \A n \in Elements(outq'[h]) : Before(m, n)
      /\ \A g \in Host \ {h} : outq'[g] = outq[g]
  BY <1>1, <1>2, <1>4, TailQueue DEF Order
<1>6. m.frompid = h /\ Route(m)
  BY <1>5 DEF Routing
<1>7. Elements(inq'[d]) = Elements(inq[d]) \cup {m} /\ InOrder(inq'[d])
  <2>1. inq'[d] = inq[d] \o <<m>> /\ inq[d] \in Seq(Message)
    BY <1>1, <1>4
  <2>2. <<m>> \in Seq(Message) /\ Elements(<<m>>) = {m} /\ InOrder(<<m>>)
    BY ShortQueue
  <2>3. \A n \in Elements(inq[d]), k \in Elements(<<m>>) : Before(n, k)
    BY <1>5, <2>2 DEF Order
  <2> QED BY <2>1, <2>2, <2>3, ConcatQueue DEF Order
<1>8. \A g \in Host \ {d} : inq'[g] = inq[g]
  BY <1>1, <1>4
<1>9. Routing'
  BY <1>3, <1>5, <1>6, <1>7, <1>8 DEF Routing
<1>10. ASSUME NEW f \in Host, NEW n \in Elements(outq'[f]) PROVE Before(m, n)
  <2>1. CASE f = h
    BY <1>5, <2>1
  <2>2. CASE f # h
    <3>1. n.frompid = f
      BY <1>5, <2>2 DEF Routing
    <3> QED BY <1>6, <2>2, <3>1 DEF Before, BarrOps
  <2> QED BY <2>1, <2>2
<1>11. Order'
  <2>1. \A g \in Host : InOrder(outq'[g]) /\ InOrder(inq'[g])
    BY <1>5, <1>7, <1>8 DEF Order
  <2>2. \A f \in Host : Elements(outq'[f]) \subseteq Elements(outq[f])
    BY <1>5
  <2>3. \A g \in Host : Elements(inq'[g]) \subseteq Elements(inq[g]) \cup {m}
    BY <1>7, <1>8
  <2>4. ASSUME NEW g \in Host, NEW f \in Host, NEW k \in Elements(inq'[g]),
               NEW n \in Elements(outq'[f])
        PROVE  Before(k, n)
    <3>1. CASE k = m
      BY <1>10, <3>1
    <3>2. CASE k # m
      <4>1. k \in Elements(inq[g]) /\ n \in Elements(outq[f])
        BY <2>2, <2>3, <3>2
      <4> QED BY <4>1 DEF Order
    <3> QED BY <3>1, <3>2
  <2> QED BY <2>1, <2>4 DEF Order
<1>12. InFlight' = InFlight
  <2>1. \A g \in Host : Elements(outq'[g]) \cup Elements(inq'[g]) \subseteq InFlight
    BY <1>5, <1>7, <1>8, QueuesInFlight
  <2>2. \A g \in Host : Elements(outq[g]) \cup Elements(inq[g])
                            \subseteq Elements(outq'[g]) \cup Elements(inq'[g]) \cup {m}
    BY <1>5, <1>7, <1>8
  <2>3. m \in Elements(inq'[d])
    BY <1>7
  <2> QED BY <2>1, <2>2, <2>3 DEF InFlight
<1> QED BY <1>9, <1>11, <1>12

\* The DIFF at the head of an in queue loses a page: nothing about locks changes.
LEMMA DiffNet ==
    ASSUME TypeOK, Routing, Order, NEW h \in Host, inq[h] # <<>>, Req(h).op = "DIFF",
           NEW e \in Message, e.op = "DIFF", e.topid = h,
           inq' = [inq EXCEPT ![h] = [inq[h] EXCEPT ![1] = e]], UNCHANGED outq
    PROVE  /\ Routing' /\ Order'
           /\ \A m \in InFlight \cup InFlight' :
                 m.op \in TurnOps => m \in InFlight /\ m \in InFlight'
<1>1. PICK s \in Seq(Message) : s = inq[h] /\ s # <<>>
  BY DEF TypeOK, NetType
<1>2. PICK t : t = [s EXCEPT ![1] = e] /\ t \in Seq(Message)
  BY ExceptType
<1>3. /\ inq'[h] = t /\ \A g \in Host \ {h} : inq'[g] = inq[g]
      /\ Len(t) = Len(s) /\ t[1] = e /\ s[1].op = "DIFF" /\ 1 \in 1 .. Len(s)
      /\ \A i \in 1 .. Len(s) : i # 1 => t[i] = s[i]
  BY <1>1, <1>2 DEF TypeOK, NetType, Req
<1>4. \A m \in Elements(t) : m = e \/ m \in Elements(s)
  BY <1>3 DEF Elements
<1>5. \A m \in Elements(s) : m.op = "DIFF" \/ m \in Elements(t)
  BY <1>3 DEF Elements
<1>6. \A n : Before(e, n) /\ Before(n, e)
  BY DEF Before, BarrOps
<1>7. Route(e) /\ e.op \notin TurnOps
  BY DEF Route, TurnOps, TokenOps, BarrOps
<1>8. InOrder(t)
  <2>1. InOrder(s)
    BY <1>1 DEF Order
  <2>2. ASSUME NEW i \in 1 .. Len(t), NEW j \in 1 .. Len(t), i < j
        PROVE  Before(t[i], t[j])
    <3>1. CASE i = 1
      BY <1>3, <1>6, <3>1
    <3>2. CASE i # 1
      <4>1. j # 1
        BY <1>1, <1>3, <2>2
      <4> QED BY <1>3, <2>1, <2>2, <3>2, <4>1 DEF InOrder
    <3> QED BY <3>1, <3>2
  <2> QED BY <2>2 DEF InOrder
<1>9. \A g \in Host : \A m \in Elements(inq'[g]) : (m = e /\ g = h) \/ m \in Elements(inq[g])
  BY <1>1, <1>3, <1>4
<1>10. Routing'
  BY <1>7, <1>9 DEF Routing
<1>11. Order'
  <2>1. \A g \in Host : InOrder(outq'[g]) /\ InOrder(inq'[g])
    BY <1>3, <1>8 DEF Order
  <2>2. \A g, f \in Host : \A m \in Elements(inq'[g]), n \in Elements(outq'[f]) : Before(m, n)
    BY <1>6, <1>9 DEF Order
  <2> QED BY <2>1, <2>2 DEF Order
<1>12. \A g \in Host : \A m \in Elements(inq[g]) : m.op = "DIFF" \/ m \in Elements(inq'[g])
  BY <1>1, <1>3, <1>5
<1>13. \A m \in InFlight' : m = e \/ m \in InFlight
  BY <1>9 DEF InFlight
<1>14. \A m \in InFlight : m.op = "DIFF" \/ m \in InFlight'
  BY <1>12 DEF InFlight
<1> QED BY <1>7, <1>10, <1>11, <1>13, <1>14 DEF TurnOps, TokenOps, BarrOps

-----------------------------------------------------------------------------
(***************************************************************************)
(* Steps that move no token.                                               *)
(***************************************************************************)
\* The same messages about locks, and about barriers, are under way.
SameTokens ==
    \A m \in InFlight \cup InFlight' : m.op \in TokenOps => m \in InFlight /\ m \in InFlight'
SameBarrs ==
    \A m \in InFlight \cup InFlight' : m.op \in BarrOps => m \in InFlight /\ m \in InFlight'

\* The hosts are in the same place as far as locks are concerned.
SameHosts ==
    \A g \in Host : /\ wait'[g].acq = wait[g].acq
                    /\ \A l \in Locks : /\ Waiting(g, l)' <=> Waiting(g, l)
                                        /\ Holds(g, l)' <=> Holds(g, l)

\* The managers' queues are the same.
SameQueues == \A l \in Locks : locks'[l].acqs = locks[l].acqs

\* What is under way depends on the messages about locks only.
LEMMA MessagesFrame ==
    ASSUME SameTokens
    PROVE  \A g \in Host, l \in Locks :
              /\ HasAcq(g, l)' <=> HasAcq(g, l)
              /\ HasRel(g, l)' <=> HasRel(g, l)
              /\ HasGrant(g, l)' <=> HasGrant(g, l)
<1> TAKE g \in Host, l \in Locks
<1>1. HasAcq(g, l)' <=> HasAcq(g, l)
  BY DEF SameTokens, HasAcq, TokenOps
<1>2. HasRel(g, l)' <=> HasRel(g, l)
  BY DEF SameTokens, HasRel, TokenOps
<1>3. HasGrant(g, l)' <=> HasGrant(g, l)
  BY DEF SameTokens, HasGrant, TokenOps
<1> QED BY <1>1, <1>2, <1>3

\* What the queues say depends on the queues only.
LEMMA QueuesFrame ==
    ASSUME NEW l \in Locks, locks'[l].acqs = locks[l].acqs
    PROVE  \A g \in Host : (AtHead(g, l)' <=> AtHead(g, l)) /\ (Queued(g, l)' <=> Queued(g, l))
BY DEF AtHead, Queued

\* Such a step leaves every token where it is.
LEMMA DullStep ==
    ASSUME Tokens, QueuedOnce, SameTokens, SameHosts, SameQueues
    PROVE  Tokens' /\ QueuedOnce'
<1>1. QueuedOnce'
  BY DEF QueuedOnce, SameQueues
<1>2. ASSUME NEW g \in Host, NEW l \in Locks PROVE Token(g, l)'
  <2>1. /\ HasAcq(g, l)' <=> HasAcq(g, l)
        /\ HasRel(g, l)' <=> HasRel(g, l)
        /\ HasGrant(g, l)' <=> HasGrant(g, l)
    BY MessagesFrame
  <2>2. (AtHead(g, l)' <=> AtHead(g, l)) /\ (Queued(g, l)' <=> Queued(g, l))
    BY QueuesFrame DEF SameQueues
  <2>3. /\ Waiting(g, l)' <=> Waiting(g, l)
        /\ Holds(g, l)' <=> Holds(g, l)
        /\ wait'[g].acq = wait[g].acq
    BY DEF SameHosts
  <2>4. Token(g, l)
    BY DEF Tokens
  <2> QED BY <2>1, <2>2, <2>3, <2>4 DEF Token
<1> QED BY <1>1, <1>2 DEF Tokens

\* A handler leaves the application thread where it is.
LEMMA ServerFrame ==
    ASSUME Nesting, UNCHANGED mainVars
    PROVE  /\ Nesting'
           /\ \A g \in Host, l \in Locks : /\ Waiting(g, l)' <=> Waiting(g, l)
                                           /\ Holds(g, l)' <=> Holds(g, l)
BY DEF Nesting, mainVars, InCall, CallOf, Holds, Waiting

\* An application thread outside jia_lock moves on with the same locks.
LEMMA MainFrame ==
    ASSUME TypeOK, Nesting, NEW h \in Host, pc[h] # "acqwait", pc'[h] # "acqwait",
           \A g \in Host \ {h} : pc'[g] = pc[g] /\ prog'[g] = prog[g] /\ stack'[g] = stack[g],
           Len(stack'[h]) = Len(stack[h]),
           \A i \in 1 .. Len(stack[h]) : stack'[h][i].lockid = stack[h][i].lockid,
           InCall(h, "diffwait", "lock")' => ~Holds(h, CallOf(h)'.lock)
    PROVE  /\ Nesting'
           /\ \A g \in Host, l \in Locks : /\ Waiting(g, l)' <=> Waiting(g, l)
                                           /\ Holds(g, l)' <=> Holds(g, l)
<1>1. \A g \in Host : \A l : Holds(g, l)' <=> Holds(g, l)
  BY DEF Holds
<1>2. \A g \in Host : \A l : Waiting(g, l)' <=> Waiting(g, l)
  BY DEF Waiting, InCall, CallOf
<1>3. ASSUME NEW g \in Host
      PROVE  /\ \A i, j \in 1 .. Len(stack'[g]) : stack'[g][i].lockid = stack'[g][j].lockid => i = j
             /\ InCall(g, "diffwait", "lock")' \/ InCall(g, "acqwait", "lock")'
                    => ~Holds(g, CallOf(g)'.lock)
  <2>1. CASE g = h
    BY <2>1 DEF Nesting, InCall
  <2>2. CASE g # h
    BY <2>2 DEF Nesting, InCall, CallOf
  <2> QED BY <2>1, <2>2
<1>4. Nesting'
  BY <1>1, <1>3 DEF Nesting
<1> QED BY <1>1, <1>2, <1>4

\* Messages that are not about locks may be sent at any time.
LEMMA DullSendable ==
    ASSUME NEW h \in Host, NEW msgs \in Seq(Message),
           \A n \in Elements(msgs) : n.frompid = h /\ n.op \notin TurnOps
    PROVE  Sendable(h, msgs)
<1>1. ASSUME NEW i \in 1 .. Len(msgs), NEW j \in 1 .. Len(msgs) PROVE Before(msgs[i], msgs[j])
  <2>1. msgs[i] \in Elements(msgs)
    BY DEF Elements
  <2> QED BY <2>1, DullBefore
<1>2. InOrder(msgs)
  BY <1>1 DEF InOrder
<1>3. \A n \in Elements(msgs) : Route(n)
  BY DEF Route, TurnOps, TokenOps, BarrOps
<1>4. \A n \in Elements(msgs), m \in InFlight : Before(m, n)
  BY DullBefore
<1> QED BY <1>2, <1>3, <1>4 DEF Sendable

\* A step that touches no queue.
LEMMA QuietNet ==
    ASSUME Routing, Order, UNCHANGED netVars
    PROVE  Routing' /\ Order' /\ SameTokens /\ SameBarrs
<1>1. InFlight' = InFlight
  BY DEF InFlight, netVars
<1> QED BY <1>1 DEF Routing, Order, netVars, SameTokens, SameBarrs

\* The application thread sends messages that are not about locks.
LEMMA DullSends ==
    ASSUME TypeOK, Routing, Order, NEW h \in Host, NEW msgs \in Seq(Message),
           \A n \in Elements(msgs) : n.frompid = h /\ n.op \notin TurnOps,
           Send(h, msgs), UNCHANGED inq
    PROVE  Routing' /\ Order' /\ SameTokens /\ SameBarrs
<1>1. Sendable(h, msgs)
  BY DullSendable
<1>2. Routing' /\ Order' /\ InFlight' = InFlight \cup Elements(msgs)
  BY <1>1, MainSends
<1> QED BY <1>2 DEF SameTokens, SameBarrs, TokenOps, BarrOps, TurnOps

\* A handler takes a message that is not about locks and sends such messages.
LEMMA DullServes ==
    ASSUME TypeOK, Routing, Order, NEW h \in Host, inq[h] # <<>>, Req(h).op \notin TurnOps,
           Receive(h), NEW msgs \in Seq(Message),
           \A n \in Elements(msgs) : n.frompid = h /\ n.op \notin TurnOps, Send(h, msgs)
    PROVE  Routing' /\ Order' /\ SameTokens /\ SameBarrs
<1>1. Sendable(h, msgs)
  BY DullSendable
<1>2. PICK rest : /\ Routing' /\ Order' /\ InFlight = rest \cup {Req(h)}
                  /\ InFlight' = rest \cup Elements(msgs)
  BY <1>1, ServerSends
<1> QED BY <1>2 DEF SameTokens, SameBarrs, TokenOps, BarrOps, TurnOps

\* A handler takes a message that is not about locks and sends nothing.
LEMMA DullTakes ==
    ASSUME TypeOK, Routing, Order, NEW h \in Host, inq[h] # <<>>, Req(h).op \notin TurnOps,
           Receive(h), UNCHANGED outq
    PROVE  Routing' /\ Order' /\ SameTokens /\ SameBarrs
<1>1. Routing' /\ Order' /\ InFlight = InFlight' \cup {Req(h)}
  BY ServerTakes
<1> QED BY <1>1 DEF SameTokens, SameBarrs, TokenOps, BarrOps, TurnOps

\* A list cut into messages takes at least one.
LEMMA ChunkPositive == \A n \in Nat : NumChunks(n) \in Nat /\ NumChunks(n) >= 1
<1> TAKE n \in Nat
<1>1. CASE n = 0
  BY <1>1 DEF NumChunks
<1>2. CASE n # 0
  <2>1. PICK d \in Nat : d = MaxNotices /\ d > 0
    BY MemoryAssumption
  <2>2. PICK x \in Nat : x = n + d - 1 /\ x >= d
    BY <1>2, <2>1
  <2>3. x \div d >= 1
    <3>1. x \div d \in Int /\ x = d * (x \div d) + (x % d) /\ x % d \in 0 .. d - 1
      BY <2>1
    <3>2. PICK q \in Int, r \in 0 .. d - 1 : q = x \div d /\ x = d * q + r
      BY <3>1
    <3>3. CASE q <= 0
      <4>1. d * q <= 0
        BY <2>1, <3>3
      <4> QED BY <2>1, <2>2, <3>2, <4>1
    <3> QED BY <3>2, <3>3
  <2> QED BY <1>2, <2>1, <2>2, <2>3, ChunkNumber DEF NumChunks
<1> QED BY <1>1, <1>2

\* sendwtnts sends WTNT messages and one message op last, all to the manager of
\* the lock on top of the stack.
LEMMA WtntsSent ==
    ASSUME IInv, NEW h \in Host, NEW op \in {"REL", "BARR"}, SendWtnts(h, op)
    PROVE  \E msgs \in Seq(Message) :
              /\ Send(h, msgs) /\ Len(msgs) >= 1 /\ msgs[Len(msgs)].op = op
              /\ \A i \in 1 .. Len(msgs) :
                    /\ msgs[i].frompid = h /\ msgs[i].lock = Top(h).lockid
                    /\ msgs[i].topid = Manager(Top(h).lockid)
                    /\ i < Len(msgs) => msgs[i].op = "WTNT"
<1> DEFINE l == Top(h).lockid
           n == NumChunks(Cardinality(Top(h).wtnts))
           m(i) == [op |-> IF i < n THEN "WTNT" ELSE op, frompid |-> h, topid |-> Manager(l),
                    lock |-> l, scope |-> myscope[h][l], wtnts |-> PageChunk(Top(h).wtnts, i)]
<1>1. Top(h) \in [lockid : LockIds, wtnts : SUBSET Pages]
  BY TopType
<1>2. n \in Nat /\ n >= 1
  <2>1. IsFiniteSet(Pages) /\ Top(h).wtnts \in SUBSET Pages BY <1>1, MemoryAssumption
  <2>2. IsFiniteSet(Top(h).wtnts) BY <2>1, FS_Subset
  <2>3. Cardinality(Top(h).wtnts) \in Nat BY <2>2, FS_CardinalityType
  <2> QED BY <2>3, ChunkPositive
<1>3. myscope[h][l] \in Int /\ Manager(l) \in Host /\ l \in LockIds
  BY <1>1, HostFacts DEF IInv, TypeOK, ScopeType
<1>4. \A i \in 1 .. n : PageChunk(Top(h).wtnts, i) \in SUBSET Pages
  BY <1>1 DEF PageChunk
<1>5. \A i \in 1 .. n : m(i) \in WtntMsg
  BY <1>3, <1>4 DEF WtntMsg
<1>6. \A i \in 1 .. n : /\ m(i).frompid = h /\ m(i).lock = l /\ m(i).topid = Manager(l)
                        /\ i < n => m(i).op = "WTNT"
                        /\ i = n => m(i).op = op
  BY <1>2
<1>7. Send(h, [i \in 1 .. n |-> m(i)])
  BY DEF SendWtnts
<1> HIDE DEF n
<1>8. \A i \in 1 .. n : m(i) \in Message BY <1>5 DEF Message
<1> HIDE DEF m
<1>9. PICK msgs : msgs = [i \in 1 .. n |-> m(i)]
  OBVIOUS
<1>10. msgs \in Seq(Message) /\ Len(msgs) = n /\ \A i \in 1 .. n : msgs[i] = m(i)
  BY <1>2, <1>8, <1>9
<1>11. n \in 1 .. n
  BY <1>2
<1> QED BY <1>2, <1>6, <1>7, <1>9, <1>10, <1>11

-----------------------------------------------------------------------------
(***************************************************************************)
(* The application thread outside the calls that move tokens.              *)
(***************************************************************************)
\* Memory accesses and page faults that need no message.
LEMMA AccessLock ==
    ASSUME IInv, LockInv, NEW h \in Host,
           ReadWord(h) \/ WriteWord(h) \/ SegvHome(h) \/ SegvFetched(h) \/ SegvUpgrade(h)
    PROVE  LockInv' /\ SameBarrs
<1>1. /\ pc[h] \in {"run", "getpwait"} /\ pc'[h] = "run"
      /\ \A g \in Host \ {h} : pc'[g] = pc[g] /\ prog'[g] = prog[g]
      /\ UNCHANGED <<stack, wait, locks, netVars>>
  BY DEF IInv, TypeOK, MainType, ReadWord, WriteWord, SegvHome, SegvFetched, SegvUpgrade, Accesses,
         Return, Goto, mainVars, synVars
<1>2. Routing' /\ Order' /\ SameTokens /\ SameBarrs
  BY <1>1, QuietNet DEF LockInv
<1>3. ~InCall(h, "diffwait", "lock")'
  BY <1>1 DEF InCall
<1>4. Nesting' /\ SameHosts
  BY <1>1, <1>3, MainFrame DEF IInv, LockInv, SameHosts
<1>5. Tokens' /\ QueuedOnce'
  BY <1>1, <1>2, <1>4, DullStep DEF LockInv, SameQueues
<1> QED BY <1>2, <1>4, <1>5 DEF LockInv

\* A page fault that asks the home for the page.
LEMMA SegvFetchLock == ASSUME IInv, LockInv, NEW h \in Host, SegvFetch(h) PROVE LockInv' /\ SameBarrs
<1>1. /\ pc[h] = "run" /\ pc'[h] = "getpwait" /\ UNCHANGED <<prog, stack, locks, inq>>
      /\ \A g \in Host \ {h} : pc'[g] = pc[g]
      /\ \A g \in Host : wait'[g].acq = wait[g].acq
  BY DEF IInv, TypeOK, MainType, WaitType, SegvFetch, Accesses, Goto, synVars
<1>2. Routing' /\ Order' /\ SameTokens /\ SameBarrs
  <2>1. AccessPage(h) \in Pages
    BY CallType DEF IInv, TypeOK, MainType, SegvFetch, Accesses
  <2>2. PICK m : m = [op |-> "GETP", frompid |-> h, topid |-> HomeOf[AccessPage(h)],
                      page |-> AccessPage(h)]
    OBVIOUS
  <2>3. m \in Message /\ m.op \notin TurnOps /\ m.frompid = h
    BY <2>1, <2>2, MemoryAssumption DEF Message, GetpMsg, TurnOps
  <2>4. Send(h, <<m>>)
    BY <2>2 DEF SegvFetch
  <2>5. <<m>> \in Seq(Message) /\ Elements(<<m>>) = {m}
    BY <2>3, ShortQueue
  <2> QED BY <1>1, <2>3, <2>4, <2>5, DullSends DEF IInv, LockInv
<1>3. ~InCall(h, "diffwait", "lock")'
  BY <1>1 DEF InCall
<1>4. Nesting' /\ SameHosts
  BY <1>1, <1>3, MainFrame DEF IInv, LockInv, SameHosts
<1>5. Tokens' /\ QueuedOnce'
  BY <1>1, <1>2, <1>4, DullStep DEF LockInv, SameQueues
<1> QED BY <1>2, <1>4, <1>5 DEF LockInv

\* endinterval: the lock a program asks for is not one it holds.
LEMMA EndIntervalLock == ASSUME IInv, LockInv, NEW h \in Host, EndInterval(h) PROVE LockInv' /\ SameBarrs
<1> DEFINE homes == {HomeOf[p] : p \in Dirty(h)}
<1>1. PICK dests \in [1 .. Cardinality(homes) -> homes] :
          /\ Send(h, [i \in DOMAIN dests |-> DiffTo(h, dests[i])])
          /\ wait' = [wait EXCEPT ![h].diff = Cardinality(DOMAIN dests)]
  BY DEF EndInterval
<1>2. /\ pc[h] = "run" /\ pc'[h] = "diffwait" /\ UNCHANGED <<prog, locks, inq>>
      /\ \A g \in Host \ {h} : pc'[g] = pc[g] /\ stack'[g] = stack[g]
      /\ \A g \in Host : wait'[g].acq = wait[g].acq
      /\ Len(stack'[h]) = Len(stack[h])
      /\ \A i \in 1 .. Len(stack[h]) : stack'[h][i].lockid = stack[h][i].lockid
  BY <1>1 DEF IInv, TypeOK, MainType, WaitType, EndInterval, Goto, synVars
<1>3. Routing' /\ Order' /\ SameTokens /\ SameBarrs
  <2>1. Cardinality(homes) \in Nat
    <3>1. homes \in SUBSET Host
      BY MemoryAssumption DEF Dirty
    <3>2. IsFiniteSet(Host)
      BY HostAssumption, FS_Interval DEF Host
    <3> HIDE DEF homes
    <3> QED BY <3>1, <3>2, FS_Subset, FS_CardinalityType
  <2>2. homes \subseteq Host
    BY MemoryAssumption DEF Dirty
  <2>3. ASSUME NEW g \in Host
        PROVE  DiffTo(h, g) \in Message /\ DiffTo(h, g).op = "DIFF" /\ DiffTo(h, g).frompid = h
    <3>1. \A w \in Words : store[h][w] \in Nat
      BY DEF IInv, TypeOK, StoreType
    <3>2. DiffTo(h, g) \in DiffMsg
      BY <3>1 DEF DiffMsg, DiffTo, Dirty
    <3> QED BY <3>2 DEF Message, DiffTo
  <2> HIDE DEF homes
  <2>4. PICK ms : ms = [i \in DOMAIN dests |-> DiffTo(h, dests[i])]
    OBVIOUS
  <2>5. ms \in Seq(Message) /\ \A i \in 1 .. Len(ms) : ms[i].op = "DIFF" /\ ms[i].frompid = h
    BY <2>1, <2>2, <2>3, <2>4
  <2>6. \A n \in Elements(ms) : n.frompid = h /\ n.op \notin TurnOps
    BY <2>5 DEF Elements, TurnOps
  <2> QED BY <1>1, <1>2, <2>4, <2>5, <2>6, DullSends DEF IInv, LockInv
<1>4. InCall(h, "diffwait", "lock")' => ~Holds(h, CallOf(h)'.lock)
  BY <1>2 DEF InCall, CallOf, EndInterval, Legal
<1>5. Nesting' /\ SameHosts
  BY <1>2, <1>4, MainFrame DEF IInv, LockInv, SameHosts
<1>6. Tokens' /\ QueuedOnce'
  BY <1>2, <1>3, <1>5, DullStep DEF LockInv, SameQueues
<1> QED BY <1>3, <1>5, <1>6 DEF LockInv

\* Leaving a barrier.
LEMMA BarrierLeaveLock == ASSUME IInv, LockInv, NEW h \in Host, BarrierLeave(h) PROVE LockInv' /\ SameBarrs
<1>1. /\ pc[h] = "barrwait" /\ pc'[h] = "run"
      /\ \A g \in Host \ {h} : pc'[g] = pc[g] /\ prog'[g] = prog[g]
      /\ UNCHANGED <<stack, wait, locks, netVars>>
  BY DEF IInv, TypeOK, MainType, BarrierLeave, InCall, Return, Goto, synVars
<1>2. Routing' /\ Order' /\ SameTokens /\ SameBarrs
  BY <1>1, QuietNet DEF LockInv
<1>3. ~InCall(h, "diffwait", "lock")'
  BY <1>1 DEF InCall
<1>4. Nesting' /\ SameHosts
  BY <1>1, <1>3, MainFrame DEF IInv, LockInv, SameHosts
<1>5. Tokens' /\ QueuedOnce'
  BY <1>1, <1>2, <1>4, DullStep DEF LockInv, SameQueues
<1> QED BY <1>2, <1>4, <1>5 DEF LockInv

-----------------------------------------------------------------------------
(***************************************************************************)
(* The network and the handlers of other messages.                         *)
(***************************************************************************)
\* What the steps below have in common.
LEMMA DullServer ==
    ASSUME LockInv, UNCHANGED mainVars, Routing', Order', SameTokens,
           \A g \in Host : wait'[g].acq = wait[g].acq,
           \A l \in Locks : locks'[l].acqs = locks[l].acqs
    PROVE  LockInv'
<1>1. Nesting' /\ SameHosts
  BY ServerFrame DEF LockInv, SameHosts
<1>2. Tokens' /\ QueuedOnce'
  BY <1>1, DullStep DEF LockInv, SameQueues
<1> QED BY <1>1, <1>2 DEF LockInv

\* The network.
LEMMA TransferLock == ASSUME IInv, LockInv, NEW h \in Host, Transfer(h) PROVE LockInv' /\ SameBarrs
<1>1. Routing' /\ Order' /\ InFlight' = InFlight
  BY TransferNet DEF IInv, LockInv
<1>2. SameTokens /\ SameBarrs
  BY <1>1 DEF SameTokens, SameBarrs
<1>3. UNCHANGED <<mainVars, wait, locks>>
  BY DEF Transfer, synVars
<1> QED BY <1>1, <1>2, <1>3, DullServer

\* Recording write notices leaves the queues alone.
LEMMA RecordKeepsQueue ==
    ASSUME NEW lk \in LockRec, NEW m
    PROVE  RecordWtnts(lk, m).acqs = lk.acqs
BY DEF RecordWtnts, LockRec

\* wtntserver.
LEMMA WtntServerLock == ASSUME IInv, LockInv, NEW h \in Host, WtntServer(h) PROVE LockInv' /\ SameBarrs
<1>1. /\ Handles(h, "WTNT") /\ Receive(h) /\ UNCHANGED <<mainVars, wait, outq>>
      /\ locks' = [locks EXCEPT ![Req(h).lock] = RecordWtnts(locks[Req(h).lock], Req(h))]
  BY DEF WtntServer
<1>2. Req(h).lock \in LockIds
  BY <1>1, ServedType, MessageTypes
<1>3. Routing' /\ Order' /\ SameTokens /\ SameBarrs
  BY <1>1, DullTakes DEF IInv, LockInv, Handles, TurnOps
<1>4. ASSUME NEW l \in Locks PROVE locks'[l].acqs = locks[l].acqs
  <2>1. l \in LockIds /\ locks \in [LockIds -> LockRec]
    BY HidelockFact DEF IInv, TypeOK, LocksType, LockRec
  <2>2. CASE l = Req(h).lock
    <3>1. locks'[l] = RecordWtnts(locks[l], Req(h)) /\ locks[l] \in LockRec
      BY <1>1, <2>1, <2>2
    <3> QED BY <3>1, RecordKeepsQueue
  <2>3. CASE l # Req(h).lock
    BY <1>1, <2>1, <2>3
  <2> QED BY <2>2, <2>3
<1> QED BY <1>1, <1>3, <1>4, DullServer

\* invserver, getpgrantserver and diffgrantserver.
LEMMA TakingServerLock ==
    ASSUME IInv, LockInv, NEW h \in Host, InvServer(h) \/ GetpGrantServer(h) \/ DiffGrantServer(h)
    PROVE  LockInv' /\ SameBarrs
<1>1. /\ inq[h] # <<>> /\ Req(h).op \in {"INVLD", "GETPGRANT", "DIFFGRANT"} /\ Receive(h)
      /\ UNCHANGED <<mainVars, locks, outq>>
  BY DEF InvServer, GetpGrantServer, DiffGrantServer, Handles, synVars
<1>2. \A g \in Host : wait'[g].acq = wait[g].acq
  BY DEF IInv, TypeOK, WaitType, InvServer, GetpGrantServer, DiffGrantServer
<1>3. Routing' /\ Order' /\ SameTokens /\ SameBarrs
  BY <1>1, DullTakes DEF IInv, LockInv, TurnOps
<1> QED BY <1>1, <1>2, <1>3, DullServer

\* getpserver.
LEMMA GetpServerLock == ASSUME IInv, LockInv, NEW h \in Host, GetpServer(h) PROVE LockInv' /\ SameBarrs
<1>1. inq[h] # <<>> /\ Req(h).op = "GETP" /\ Receive(h) /\ UNCHANGED <<mainVars, wait, locks>>
  BY DEF GetpServer, Handles, synVars
<1>2. PICK m : m = [op |-> "GETPGRANT", frompid |-> h, topid |-> Req(h).frompid,
                    page |-> Req(h).page,
                    data |-> [w \in Words |-> IF w \in WordsOf(Req(h).page) THEN store[h][w] ELSE 0]]
  OBVIOUS
<1>3. Send(h, <<m>>)
  BY <1>2 DEF GetpServer
<1>4. m \in Message /\ m.frompid = h /\ m.op \notin TurnOps
  <2>1. Req(h).page \in Pages /\ Req(h).frompid \in Host
    BY <1>1, ServedType, MessageTypes DEF Handles
  <2>2. \A w \in Words : store[h][w] \in Nat
    BY DEF IInv, TypeOK, StoreType
  <2>3. m \in GetpGrantMsg
    BY <1>2, <2>1, <2>2 DEF GetpGrantMsg
  <2> QED BY <1>2, <2>3 DEF Message, TurnOps
<1>5. <<m>> \in Seq(Message) /\ Elements(<<m>>) = {m}
  BY <1>4, ShortQueue
<1>6. Routing' /\ Order' /\ SameTokens /\ SameBarrs
  BY <1>1, <1>3, <1>4, <1>5, DullServes DEF IInv, LockInv, TurnOps
<1> QED BY <1>1, <1>6, DullServer

\* diffserver, before the copy.
LEMMA DiffServerOpenLock == ASSUME IInv, LockInv, NEW h \in Host, DiffServerOpen(h) PROVE LockInv' /\ SameBarrs
<1>1. UNCHANGED <<mainVars, wait, locks, netVars>>
  BY DEF DiffServerOpen, synVars
<1>2. Routing' /\ Order' /\ SameTokens /\ SameBarrs
  BY <1>1, QuietNet DEF LockInv
<1> QED BY <1>1, <1>2, DullServer

\* diffserver, the copy and after.
LEMMA DiffServerPatchLock == ASSUME IInv, LockInv, NEW h \in Host, DiffServerPatch(h) PROVE LockInv' /\ SameBarrs
<1> DEFINE rest == Req(h).pages \ {patching[h]}
<1>1. inq[h] # <<>> /\ Req(h).op = "DIFF" /\ UNCHANGED <<mainVars, wait, locks>>
  BY DEF IInv, Patching, DiffServerPatch, Handles, synVars
<1>2. Req(h) \in DiffMsg /\ Req(h).frompid \in Host
  BY <1>1, ServedType, MessageTypes DEF Handles
<1>3. Routing' /\ Order' /\ SameTokens /\ SameBarrs
  <2>1. CASE rest = {}
    <3>1. PICK m : m = [op |-> "DIFFGRANT", frompid |-> h, topid |-> Req(h).frompid]
      OBVIOUS
    <3>2. Receive(h) /\ Send(h, <<m>>)
      BY <2>1, <3>1 DEF DiffServerPatch
    <3>3. m \in Message /\ m.frompid = h /\ m.op \notin TurnOps
      BY <1>2, <3>1 DEF Message, DiffGrantMsg, TurnOps
    <3>4. <<m>> \in Seq(Message) /\ Elements(<<m>>) = {m}
      BY <3>3, ShortQueue
    <3> QED BY <1>1, <3>2, <3>3, <3>4, DullServes DEF IInv, LockInv, TurnOps
  <2>2. CASE rest # {}
    <3>1. PICK e : e = [Req(h) EXCEPT !.pages = rest]
      OBVIOUS
    <3>2. inq[h][1] = Req(h) /\ Req(h) \in Elements(inq[h])
      BY <1>1, TailQueue DEF IInv, TypeOK, NetType, Req
    <3>3. inq' = [inq EXCEPT ![h] = [inq[h] EXCEPT ![1] = e]] /\ UNCHANGED outq
      BY <2>2, <3>1, <3>2 DEF DiffServerPatch
    <3>4. e \in Message /\ e.op = "DIFF" /\ e.topid = h
      <4>1. e \in DiffMsg /\ e.topid = Req(h).topid
        BY <1>2, <3>1 DEF DiffMsg
      <4>2. Req(h).topid = h
        BY <3>2 DEF LockInv, Routing
      <4> QED BY <4>1, <4>2 DEF Message, DiffMsg
    <3> QED BY <1>1, <3>3, <3>4, DiffNet
             DEF IInv, LockInv, SameTokens, SameBarrs, TokenOps, BarrOps, TurnOps
  <2> QED BY <2>1, <2>2
<1> QED BY <1>1, <1>3, DullServer

-----------------------------------------------------------------------------
(***************************************************************************)
(* jia_lock and jia_unlock.                                                *)
(***************************************************************************)
\* jia_lock asks: the host has no other request under way, and if it is still
\* in the queue then its REL is ahead.
LEMMA AcquireLock == ASSUME IInv, LockInv, NEW h \in Host, Acquire(h) PROVE LockInv' /\ SameBarrs
<1>1. PICK l \in Locks : l = CallOf(h).lock
  BY CallType DEF IInv, TypeOK, MainType, Acquire, DiffsDone, InCall
<1>2. PICK m : m = [op |-> "ACQ", frompid |-> h, topid |-> Manager(l), lock |-> l,
                    scope |-> myscope[h][l]]
  OBVIOUS
<1>3. /\ InCall(h, "diffwait", "lock") /\ UNCHANGED <<prog, stack, locks, inq>>
      /\ pc' = [pc EXCEPT ![h] = "acqwait"] /\ Send(h, <<m>>)
      /\ wait' = [wait EXCEPT ![h].acq = TRUE]
  BY <1>1, <1>2 DEF Acquire, DiffsDone, Goto, synVars
<1>4. m \in Message /\ m.op = "ACQ" /\ m.frompid = h /\ m.topid = Manager(l) /\ m.lock = l
  <2>1. m \in SyncMsg
    BY <1>2, HidelockFact, HostFacts DEF IInv, TypeOK, ScopeType, SyncMsg
  <2> QED BY <1>2, <2>1 DEF Message
<1>5. /\ ~InCall(h, "acqwait", "lock") /\ InCall(h, "acqwait", "lock")'
      /\ CallOf(h)' = CallOf(h)
      /\ wait'[h].acq = TRUE
      /\ \A g \in Host \ {h} : pc'[g] = pc[g] /\ wait'[g] = wait[g]
  BY <1>3 DEF IInv, TypeOK, MainType, WaitType, InCall, CallOf
<1>6. Sendable(h, <<m>>)
  <2>1. ~HasAcq(h, l)
    BY <1>5 DEF LockInv, Tokens, Token, Waiting
  <2>2. \A k \in InFlight : Before(k, m)
    BY <1>4, <2>1 DEF Before, BarrOps, HasAcq
  <2>3. Route(m)
    BY <1>4 DEF Route
  <2> QED BY <1>4, <2>2, <2>3, ShortQueue DEF Sendable
<1>7. Routing' /\ Order' /\ InFlight' = InFlight \cup {m}
  <2>1. Elements(<<m>>) = {m}
    BY <1>4, ShortQueue
  <2> QED BY <1>3, <1>6, <2>1, MainSends DEF IInv, LockInv
<1>8. \A g \in Host, k \in Locks : /\ HasAcq(g, k)' <=> HasAcq(g, k) \/ (g = h /\ k = l)
                                   /\ HasRel(g, k)' <=> HasRel(g, k)
                                   /\ HasGrant(g, k)' <=> HasGrant(g, k)
  BY <1>4, <1>7 DEF HasAcq, HasRel, HasGrant
<1>9. /\ \A g \in Host, k \in Locks : Holds(g, k)' <=> Holds(g, k)
      /\ ~Holds(h, l)
  BY <1>1, <1>3 DEF Holds, LockInv, Nesting
<1>10. Nesting'
  <2>1. \A g \in Host \ {h} : \A op : /\ InCall(g, "diffwait", op)' <=> InCall(g, "diffwait", op)
                                      /\ InCall(g, "acqwait", op)' <=> InCall(g, "acqwait", op)
                                      /\ CallOf(g)' = CallOf(g)
    BY <1>3, <1>5 DEF InCall, CallOf
  <2>2. \A g \in Host : stack'[g] = stack[g]
    BY <1>3
  <2> QED BY <1>1, <1>3, <1>5, <1>9, <2>1, <2>2 DEF LockInv, Nesting, Holds
<1>11. QueuedOnce'
  BY <1>3 DEF LockInv, QueuedOnce
<1>12. ASSUME NEW g \in Host, NEW k \in Locks PROVE Token(g, k)'
  <2>1. (AtHead(g, k)' <=> AtHead(g, k)) /\ (Queued(g, k)' <=> Queued(g, k))
    BY <1>3, QueuesFrame
  <2>2. Token(g, k)
    BY DEF LockInv, Tokens
  <2>3. CASE g = h
    <3>1. ~Waiting(g, k) /\ (Waiting(g, k)' <=> k = l)
      BY <1>1, <1>5, <2>3 DEF Waiting
    <3> QED BY <1>5, <1>8, <1>9, <2>1, <2>2, <2>3, <3>1 DEF Token
  <2>4. CASE g # h
    <3>1. Waiting(g, k)' <=> Waiting(g, k)
      BY <1>3, <1>5, <2>4 DEF Waiting, InCall, CallOf
    <3> QED BY <1>5, <1>8, <1>9, <2>1, <2>2, <2>4, <3>1 DEF Token
  <2> QED BY <2>3, <2>4
<1>13. SameBarrs
  BY <1>4, <1>7 DEF SameBarrs, BarrOps
<1> QED BY <1>7, <1>10, <1>11, <1>12, <1>13 DEF LockInv, Tokens

\* jia_lock returns: the grant becomes the lock held.
LEMMA AcquiredLock == ASSUME IInv, LockInv, NEW h \in Host, Acquired(h) PROVE LockInv' /\ SameBarrs
<1>1. PICK l \in Locks : l = CallOf(h).lock
  BY CallType DEF IInv, TypeOK, MainType, Acquired, InCall
<1>2. /\ InCall(h, "acqwait", "lock") /\ ~wait[h].acq
      /\ UNCHANGED <<wait, locks, netVars>>
      /\ pc'[h] = "run"
      /\ \A g \in Host \ {h} : pc'[g] = pc[g] /\ prog'[g] = prog[g] /\ stack'[g] = stack[g]
      /\ stack' = [stack EXCEPT ![h] = Append(stack[h], [lockid |-> l, wtnts |-> {}])]
  BY <1>1 DEF IInv, TypeOK, MainType, Acquired, AcqDone, Return, Goto, synVars
<1>3. Waiting(h, l) /\ ~Holds(h, l)
  BY <1>1, <1>2 DEF Waiting, LockInv, Nesting
<1>4. Routing' /\ Order' /\ SameTokens /\ SameBarrs
  BY <1>2, QuietNet DEF LockInv
<1>5. PICK s : /\ s = stack[h] /\ s \in Seq([lockid : LockIds, wtnts : SUBSET Pages])
               /\ Len(s) \in Nat
  <2>1. stack[h] \in Seq([lockid : LockIds, wtnts : SUBSET Pages])
    BY DEF IInv, TypeOK, MainType
  <2>2. Len(stack[h]) \in Nat
    BY <2>1
  <2> QED BY <2>1, <2>2, Zenon
<1>6. /\ Len(stack'[h]) = Len(s) + 1 /\ stack'[h][Len(s) + 1].lockid = l
      /\ \A i \in 1 .. Len(s) : stack'[h][i] = s[i]
  BY <1>2, <1>5 DEF IInv, TypeOK, MainType
<1>7. \A k \in Locks : Holds(h, k)' <=> Holds(h, k) \/ k = l
  <2>1. 1 .. Len(s) + 1 = (1 .. Len(s)) \cup {Len(s) + 1}
    BY <1>5
  <2> QED BY <1>5, <1>6, <2>1 DEF Holds
<1>8. \A g \in Host \ {h} : \A k : (Holds(g, k)' <=> Holds(g, k)) /\ (Waiting(g, k)' <=> Waiting(g, k))
  BY <1>2 DEF Holds, Waiting, InCall, CallOf
<1>9. Nesting'
  <2>1. ASSUME NEW i \in 1 .. Len(stack'[h]), NEW j \in 1 .. Len(stack'[h]),
               stack'[h][i].lockid = stack'[h][j].lockid
        PROVE  i = j
    <3>1. \A k \in 1 .. Len(s) : s[k].lockid # l
      BY <1>3, <1>5 DEF Holds
    <3>2. \A k \in 1 .. Len(stack'[h]) : k \in 1 .. Len(s) \/ k = Len(s) + 1
      BY <1>5, <1>6
    <3>3. \A a, b \in 1 .. Len(s) : s[a].lockid = s[b].lockid => a = b
      BY <1>5 DEF LockInv, Nesting
    <3> QED BY <1>6, <2>1, <3>1, <3>2, <3>3
  <2>2. ~InCall(h, "diffwait", "lock")' /\ ~InCall(h, "acqwait", "lock")'
    BY <1>2 DEF InCall
  <2>3. ASSUME NEW g \in Host \ {h}
        PROVE  /\ \A i, j \in 1 .. Len(stack'[g]) : stack'[g][i].lockid = stack'[g][j].lockid => i = j
               /\ InCall(g, "diffwait", "lock")' \/ InCall(g, "acqwait", "lock")'
                      => ~Holds(g, CallOf(g)'.lock)
    BY <1>2 DEF LockInv, Nesting, InCall, CallOf
  <2>4. \A g \in Host \ {h} : \A k : Holds(g, k)' <=> Holds(g, k)
    BY <1>8
  <2> QED BY <2>1, <2>2, <2>3, <2>4 DEF Nesting
<1>10. QueuedOnce'
  BY <1>2 DEF LockInv, QueuedOnce
<1>11. ASSUME NEW g \in Host, NEW k \in Locks PROVE Token(g, k)'
  <2>1. /\ HasAcq(g, k)' <=> HasAcq(g, k)
        /\ HasRel(g, k)' <=> HasRel(g, k)
        /\ HasGrant(g, k)' <=> HasGrant(g, k)
    BY <1>4, MessagesFrame
  <2>2. (AtHead(g, k)' <=> AtHead(g, k)) /\ (Queued(g, k)' <=> Queued(g, k))
    BY <1>2, QueuesFrame
  <2>3. Token(g, k) /\ wait'[g].acq = wait[g].acq
    BY <1>2 DEF LockInv, Tokens
  <2>4. CASE g = h
    <3>1. ~Waiting(g, k)' /\ (Waiting(g, k) <=> k = l)
      BY <1>1, <1>2, <2>4 DEF Waiting, InCall
    <3> QED BY <1>2, <1>7, <2>1, <2>2, <2>3, <2>4, <3>1 DEF Token
  <2>5. CASE g # h
    BY <1>8, <2>1, <2>2, <2>3, <2>5 DEF Token
  <2> QED BY <2>4, <2>5
<1> QED BY <1>4, <1>9, <1>10, <1>11 DEF LockInv, Tokens

\* jia_unlock: the lock held becomes a REL, behind everything the host has sent.
LEMMA ReleaseLock == ASSUME IInv, LockInv, NEW h \in Host, Release(h) PROVE LockInv' /\ SameBarrs
<1>1. PICK l \in Locks : l = CallOf(h).lock
  BY CallType DEF IInv, TypeOK, MainType, Release, DiffsDone, InCall
<1>2. /\ InCall(h, "diffwait", "unlock") /\ UNCHANGED <<wait, locks, inq>>
      /\ pc'[h] = "run" /\ SendWtnts(h, "REL") /\ PopStack(h)
      /\ \A g \in Host \ {h} : pc'[g] = pc[g] /\ prog'[g] = prog[g] /\ stack'[g] = stack[g]
  BY DEF IInv, TypeOK, MainType, Release, DiffsDone, Return, Goto, PopStack, synVars
<1>3. PICK s : /\ s = stack[h] /\ s \in Seq([lockid : LockIds, wtnts : SUBSET Pages])
               /\ Len(s) \in Nat
  <2>1. stack[h] \in Seq([lockid : LockIds, wtnts : SUBSET Pages])
    BY DEF IInv, TypeOK, MainType
  <2>2. Len(stack[h]) \in Nat
    BY <2>1
  <2> QED BY <2>1, <2>2, Zenon
<1>4. Len(s) > 1 /\ s[Len(s)].lockid = l /\ Top(h).lockid = l
  <2>1. Top(h).lockid = l
    BY <1>1, <1>2 DEF IInv, Pairing
  <2>2. Len(s) > 0 /\ s[1].lockid = hidelock
    BY <1>3 DEF IInv, Pairing
  <2>3. l # hidelock
    BY HidelockFact
  <2> QED BY <1>3, <2>1, <2>2, <2>3 DEF Top
<1>5. /\ Len(stack'[h]) = Len(s) - 1
      /\ \A i \in 1 .. Len(s) - 1 : stack'[h][i].lockid = s[i].lockid
  <2> DEFINE E == [lockid : LockIds, wtnts : SUBSET Pages]
  <2>1. PICK t : t = SubSeq(s, 1, Len(s) - 1)
    OBVIOUS
  <2>2. t \in Seq(E) /\ Len(t) = Len(s) - 1 /\ \A i \in 1 .. Len(s) - 1 : t[i] = s[i]
    <3> HIDE DEF E
    <3>1. s \in Seq(E)
      BY <1>3 DEF E
    <3> QED BY <1>3, <1>4, <2>1, <3>1
  <2>3. t[Len(t)] \in E /\ Top(h) \in E
    <3>1. Len(t) \in 1 .. Len(t)
      BY <1>3, <1>4, <2>2
    <3> QED BY <2>2, <3>1, ElementType, TopType
  <2>4. PICK e : /\ e = [t[Len(t)] EXCEPT !.wtnts = @ \cup Top(h).wtnts]
                 /\ e \in E /\ e.lockid = t[Len(t)].lockid
    <3>1. [t[Len(t)] EXCEPT !.wtnts = @ \cup Top(h).wtnts] \in E
      BY <2>3
    <3>2. [t[Len(t)] EXCEPT !.wtnts = @ \cup Top(h).wtnts].lockid = t[Len(t)].lockid
      BY <2>3
    <3> QED BY <3>1, <3>2, Zenon
  <2>5. stack'[h] = [t EXCEPT ![Len(t)] = e]
    BY <1>2, <1>3, <2>1, <2>4 DEF PopStack, IInv, TypeOK, MainType
  <2>6. Len(stack'[h]) = Len(t)
    <3> HIDE DEF E
    <3> QED BY <2>2, <2>4, <2>5, ExceptType
  <2>7. \A i \in 1 .. Len(t) : [t EXCEPT ![Len(t)] = e][i] = IF i = Len(t) THEN e ELSE t[i]
    <3> HIDE DEF E
    <3> QED BY <2>2
  <2>8. \A i \in 1 .. Len(t) : stack'[h][i].lockid = t[i].lockid
    BY <2>4, <2>5, <2>7
  <2> QED BY <2>2, <2>6, <2>8
<1>6. \A i, j \in 1 .. Len(s) : s[i].lockid = s[j].lockid => i = j
  BY <1>3 DEF LockInv, Nesting
<1>7. Holds(h, l) /\ \A k \in Locks : Holds(h, k)' <=> Holds(h, k) /\ k # l
  <2>1. Holds(h, l)
    BY <1>3, <1>4 DEF Holds
  <2>2. ASSUME NEW k \in Locks, NEW i \in 1 .. Len(s), s[i].lockid = k, k # l
        PROVE  Holds(h, k)'
    <3>1. i \in 1 .. Len(s) - 1
      BY <1>3, <1>4, <2>2
    <3> QED BY <1>5, <2>2, <3>1 DEF Holds
  <2>3. ASSUME NEW k \in Locks, NEW i \in 1 .. Len(stack'[h]), stack'[h][i].lockid = k
        PROVE  Holds(h, k) /\ k # l
    <3>1. i \in 1 .. Len(s) /\ i # Len(s) /\ Len(s) \in 1 .. Len(s) /\ s[i].lockid = k
      BY <1>3, <1>4, <1>5, <2>3
    <3> QED BY <1>3, <1>4, <1>6, <3>1 DEF Holds
  <2> QED BY <1>3, <2>1, <2>2, <2>3 DEF Holds
<1>8. \A k : ~Waiting(h, k) /\ ~Waiting(h, k)'
  BY <1>2 DEF Waiting, InCall
<1>9. PICK msgs \in Seq(Message) :
              /\ Send(h, msgs) /\ Len(msgs) >= 1 /\ msgs[Len(msgs)].op = "REL"
              /\ \A i \in 1 .. Len(msgs) :
                    /\ msgs[i].frompid = h /\ msgs[i].lock = l /\ msgs[i].topid = Manager(l)
                    /\ i < Len(msgs) => msgs[i].op = "WTNT"
  BY <1>2, <1>4, WtntsSent
<1>10. /\ \A n \in Elements(msgs) : /\ n.frompid = h /\ n.lock = l /\ n.topid = Manager(l)
                                    /\ n.op \in {"WTNT", "REL"}
       /\ \E n \in Elements(msgs) : n.op = "REL"
  <2>1. \A i \in 1 .. Len(msgs) : msgs[i].op \in {"WTNT", "REL"}
    BY <1>9
  <2>2. Len(msgs) \in 1 .. Len(msgs)
    BY <1>9
  <2> QED BY <1>9, <2>1, <2>2 DEF Elements
<1>11. Sendable(h, msgs)
  <2>1. ~HasAcq(h, l) /\ ~HasRel(h, l)
    BY <1>7, <1>8 DEF LockInv, Tokens, Token
  <2>2. \A n \in Elements(msgs), m \in InFlight : Before(m, n)
    BY <1>10, <2>1 DEF Before, BarrOps, HasAcq, HasRel
  <2>3. \A n \in Elements(msgs) : Route(n)
    BY <1>10 DEF Route
  <2>4. InOrder(msgs)
    BY <1>9 DEF InOrder, Before, BarrOps
  <2> QED BY <1>10, <2>2, <2>3, <2>4 DEF Sendable
<1>12. Routing' /\ Order' /\ InFlight' = InFlight \cup Elements(msgs)
  BY <1>2, <1>9, <1>11, MainSends DEF IInv, LockInv
<1>13. \A g \in Host, k \in Locks : /\ HasAcq(g, k)' <=> HasAcq(g, k)
                                    /\ HasRel(g, k)' <=> HasRel(g, k) \/ (g = h /\ k = l)
                                    /\ HasGrant(g, k)' <=> HasGrant(g, k)
  BY <1>10, <1>12 DEF HasAcq, HasRel, HasGrant
<1>14. \A g \in Host \ {h} : \A k : (Holds(g, k)' <=> Holds(g, k)) /\ (Waiting(g, k)' <=> Waiting(g, k))
  BY <1>2 DEF Holds, Waiting, InCall, CallOf
<1>15. Nesting'
  <2>1. ASSUME NEW i \in 1 .. Len(stack'[h]), NEW j \in 1 .. Len(stack'[h]),
               stack'[h][i].lockid = stack'[h][j].lockid
        PROVE  i = j
    <3>1. i \in 1 .. Len(s) - 1 /\ j \in 1 .. Len(s) - 1 /\ i \in 1 .. Len(s) /\ j \in 1 .. Len(s)
      BY <1>3, <1>5
    <3> QED BY <1>5, <1>6, <2>1, <3>1
  <2>2. ~InCall(h, "diffwait", "lock")' /\ ~InCall(h, "acqwait", "lock")'
    BY <1>2 DEF InCall
  <2>3. ASSUME NEW g \in Host \ {h}
        PROVE  /\ \A i, j \in 1 .. Len(stack'[g]) : stack'[g][i].lockid = stack'[g][j].lockid => i = j
               /\ InCall(g, "diffwait", "lock")' \/ InCall(g, "acqwait", "lock")'
                      => ~Holds(g, CallOf(g)'.lock)
    BY <1>2 DEF LockInv, Nesting, InCall, CallOf
  <2> QED BY <1>14, <2>1, <2>2, <2>3 DEF Nesting
<1>16. QueuedOnce'
  BY <1>2 DEF LockInv, QueuedOnce
<1>17. ASSUME NEW g \in Host, NEW k \in Locks PROVE Token(g, k)'
  <2>1. (AtHead(g, k)' <=> AtHead(g, k)) /\ (Queued(g, k)' <=> Queued(g, k))
    BY <1>2, QueuesFrame
  <2>2. Token(g, k) /\ wait'[g].acq = wait[g].acq
    BY <1>2 DEF LockInv, Tokens
  <2>3. CASE g = h
    BY <1>7, <1>8, <1>13, <2>1, <2>2, <2>3 DEF Token
  <2>4. CASE g # h
    BY <1>13, <1>14, <2>1, <2>2, <2>4 DEF Token
  <2> QED BY <2>3, <2>4
<1>18. SameBarrs
  BY <1>10, <1>12 DEF SameBarrs, BarrOps
<1> QED BY <1>12, <1>15, <1>16, <1>17, <1>18 DEF LockInv, Tokens

-----------------------------------------------------------------------------
(***************************************************************************)
(* acqserver, relserver and acqgrantserver.                                *)
(***************************************************************************)
\* grantlock sends INVLD messages and one ACQGRANT last, all to the acquirer.
LEMMA GrantsSendable ==
    ASSUME Routing, NEW h \in Host, NEW l \in Locks, h = Manager(l), NEW lk \in LockRec,
           IsFiniteSet(lk.wtnts), NEW a \in [pid : Host, scope : Int], ~HasGrant(a.pid, l)
    PROVE  /\ Sendable(h, GrantMsgs(h, l, lk, a))
           /\ \A n \in Elements(GrantMsgs(h, l, lk, a)) :
                 n.op \in {"INVLD", "ACQGRANT"} /\ n.topid = a.pid /\ n.lock = l
<1>1. PICK msgs \in Seq(Message) : msgs = GrantMsgs(h, l, lk, a)
  BY GrantMsgsType, HidelockFact
<1>2. PICK k : k = NumChunks(Cardinality(GrantNotices(lk, a)))
  OBVIOUS
<1>3. /\ DOMAIN msgs = 1 .. k
      /\ \A i \in 1 .. k : /\ msgs[i].frompid = h /\ msgs[i].topid = a.pid /\ msgs[i].lock = l
                           /\ msgs[i].op = IF i < k THEN "INVLD" ELSE "ACQGRANT"
  BY <1>1, <1>2 DEF GrantMsgs
<1>4. DOMAIN msgs = 1 .. Len(msgs) /\ Len(msgs) \in Nat
  OBVIOUS
<1>5. \A i \in 1 .. Len(msgs) : /\ msgs[i].frompid = h /\ msgs[i].topid = a.pid /\ msgs[i].lock = l
                                /\ msgs[i].op \in {"INVLD", "ACQGRANT"}
  BY <1>3, <1>4
<1>6. \A n \in Elements(msgs) : /\ n.frompid = h /\ n.topid = a.pid /\ n.lock = l
                                /\ n.op \in {"INVLD", "ACQGRANT"}
  BY <1>5 DEF Elements
<1>7. ASSUME NEW i \in 1 .. Len(msgs), NEW j \in 1 .. Len(msgs), i < j
      PROVE  Before(msgs[i], msgs[j])
  <2>1. k \in Nat
    <3>1. lk.wtnts \in SUBSET Notice
      BY DEF LockRec
    <3>2. PICK N : N = {m \in lk.wtnts : m.scope > a.scope /\ HomeOf[m.page] # a.pid}
      OBVIOUS
    <3>3. N \in SUBSET lk.wtnts
      BY <3>2
    <3>4. N \in SUBSET Notice /\ IsFiniteSet(N)
      BY <3>1, <3>3, FS_Subset
    <3>5. GrantNotices(lk, a) \in GrantList /\ IsFiniteSet(GrantNotices(lk, a))
      BY <3>2, <3>4, ProjectionType DEF GrantNotices
    <3> QED BY <1>2, <3>5, GrantListType
  <2>2. i \in 1 .. k /\ j \in 1 .. k
    BY <1>3, <1>4
  <2>3. i < k
    BY <1>7, <2>1, <2>2
  <2>4. msgs[i].op = "INVLD"
    BY <1>3, <2>2, <2>3
  <2> QED BY <2>4 DEF Before, BarrOps
<1>8. InOrder(msgs)
  BY <1>7 DEF InOrder
<1>9. \A n \in Elements(msgs) : Route(n)
  BY <1>6 DEF Route
<1>10. \A n \in Elements(msgs), m \in InFlight : Before(m, n)
  BY <1>6 DEF Before, BarrOps, HasGrant
<1> QED BY <1>1, <1>6, <1>8, <1>9, <1>10 DEF Sendable

\* acqgrantserver: the grant under way becomes a grant received.
LEMMA AcqGrantServerLock == ASSUME IInv, LockInv, NEW h \in Host, AcqGrantServer(h) PROVE LockInv' /\ SameBarrs
<1>1. /\ inq[h] # <<>> /\ Req(h).op = "ACQGRANT" /\ Receive(h) /\ UNCHANGED <<mainVars, locks, outq>>
      /\ wait'[h].acq = FALSE
      /\ \A g \in Host \ {h} : wait'[g].acq = wait[g].acq
  BY DEF AcqGrantServer, Handles, IInv, TypeOK, WaitType
<1>2. /\ Routing' /\ Order' /\ InFlight = InFlight' \cup {Req(h)}
      /\ \A m \in InFlight' : Before(Req(h), m)
  BY <1>1, ServerTakes DEF IInv, LockInv
<1>3. PICK l \in Locks : l = Req(h).lock /\ Req(h).topid = h /\ Req(h).frompid = Manager(l)
  BY <1>1, ReceiveNet DEF IInv, LockInv, Route, TokenOps
<1>4. \A m \in InFlight' : m.op = "ACQGRANT" => m.frompid = Manager(m.lock)
  <2>1. \A g \in Host : \A m \in Elements(outq'[g]) \cup Elements(inq'[g]) : Route(m)
    BY <1>2 DEF Routing
  <2> QED BY <2>1 DEF InFlight, Route
<1>5. HasGrant(h, l) /\ ~HasGrant(h, l)'
  <2>1. HasGrant(h, l)
    BY <1>1, <1>2, <1>3 DEF HasGrant
  <2>2. ASSUME NEW m \in InFlight', m.op = "ACQGRANT", m.topid = h, m.lock = l PROVE FALSE
    BY <1>1, <1>2, <1>3, <1>4, <2>2 DEF Before, BarrOps
  <2> QED BY <2>1, <2>2 DEF HasGrant
<1>6. \A g \in Host, k \in Locks : /\ HasAcq(g, k)' <=> HasAcq(g, k)
                                   /\ HasRel(g, k)' <=> HasRel(g, k)
                                   /\ HasGrant(g, k)' => HasGrant(g, k)
  BY <1>1, <1>2 DEF HasAcq, HasRel, HasGrant
<1>7. Waiting(h, l) /\ AtHead(h, l) /\ ~HasRel(h, l)
  BY <1>5 DEF LockInv, Tokens, Token
<1>8. Queued(h, l)
  <2>1. 1 \in 1 .. Len(locks[l].acqs)
    BY <1>7, HidelockFact DEF AtHead, IInv, TypeOK, LocksType
  <2> QED BY <1>7, <2>1 DEF AtHead, Queued
<1>9. ~HasAcq(h, l)
  BY <1>7, <1>8 DEF LockInv, Tokens, Token
<1>10. /\ Nesting'
       /\ \A g \in Host, k \in Locks : /\ Waiting(g, k)' <=> Waiting(g, k)
                                       /\ Holds(g, k)' <=> Holds(g, k)
  BY <1>1, ServerFrame DEF LockInv
<1>11. QueuedOnce'
  BY <1>1 DEF LockInv, QueuedOnce
<1>12. ASSUME NEW g \in Host, NEW k \in Locks PROVE Token(g, k)'
  <2>1. (AtHead(g, k)' <=> AtHead(g, k)) /\ (Queued(g, k)' <=> Queued(g, k))
    BY <1>1, QueuesFrame
  <2>2. Token(g, k)
    BY DEF LockInv, Tokens
  <2>3. CASE g = h /\ k = l
    BY <1>1, <1>5, <1>6, <1>7, <1>9, <1>10, <2>1, <2>2, <2>3 DEF Token
  <2>4. CASE g = h /\ k # l
    <3>1. ~Waiting(g, k)
      BY <1>7, <2>4 DEF Waiting
    <3> QED BY <1>6, <1>10, <2>1, <2>2, <3>1 DEF Token
  <2>5. CASE g # h
    BY <1>1, <1>6, <1>10, <2>1, <2>2, <2>5 DEF Token
  <2> QED BY <2>3, <2>4, <2>5
<1>13. SameBarrs
  BY <1>1, <1>2 DEF SameBarrs, BarrOps
<1> QED BY <1>2, <1>10, <1>11, <1>12, <1>13 DEF LockInv, Tokens

\* acqserver: a host that asks is not in the queue; the first in it is granted
\* the lock at once.
LEMMA AcqServerLock == ASSUME IInv, LockInv, NEW h \in Host, AcqServer(h) PROVE LockInv' /\ SameBarrs
<1>1. inq[h] # <<>> /\ Req(h).op = "ACQ" /\ Receive(h) /\ UNCHANGED <<mainVars, wait>>
  BY DEF AcqServer, Handles
<1>2. /\ Req(h) \in Message /\ Req(h).topid = h /\ Route(Req(h)) /\ Req(h) \in InFlight
  BY <1>1, ReceiveNet DEF IInv, LockInv
<1>3. PICK l \in Locks, g \in Host : l = Req(h).lock /\ g = Req(h).frompid /\ h = Manager(l)
  BY <1>1, <1>2, MessageTypes DEF Route, TokenOps
<1>4. PICK q \in Seq([pid : Host, scope : Int]) : q = locks[l].acqs
  BY HidelockFact DEF IInv, TypeOK, LocksType
<1>5. PICK a \in [pid : Host, scope : Int] : a = [pid |-> g, scope |-> Req(h).scope]
  BY <1>1, <1>2, <1>3, MessageTypes
<1>6. PICK lk : /\ lk = [locks[l] EXCEPT !.acqs = Append(q, a)]
                /\ lk \in LockRec /\ IsFiniteSet(lk.wtnts) /\ lk.acqs = Append(q, a)
  <2>1. locks[l] \in LockRec /\ IsFiniteSet(locks[l].wtnts)
    BY HidelockFact, LockTypeAt
  <2>2. PICK t : t = Append(q, a) /\ t \in Seq([pid : Host, scope : Int])
    BY AppendType
  <2>3. [locks[l] EXCEPT !.acqs = t] \in LockRec
    BY <2>1, <2>2 DEF LockRec
  <2>4. [locks[l] EXCEPT !.acqs = t].wtnts = locks[l].wtnts /\ [locks[l] EXCEPT !.acqs = t].acqs = t
    BY <2>1 DEF LockRec
  <2>5. PICK x : x = [locks[l] EXCEPT !.acqs = t]
    OBVIOUS
  <2>6. x \in LockRec /\ IsFiniteSet(x.wtnts) /\ x.acqs = t
    BY <2>1, <2>3, <2>4, <2>5
  <2> QED BY <2>2, <2>5, <2>6
<1>7. /\ locks' = [locks EXCEPT ![l] = lk]
      /\ IF Len(lk.acqs) = 1 THEN Send(h, GrantMsgs(h, l, lk, Head(lk.acqs))) ELSE UNCHANGED outq
  BY <1>3, <1>4, <1>5, <1>6 DEF AcqServer
<1>8. /\ Len(lk.acqs) = Len(q) + 1 /\ lk.acqs[Len(q) + 1] = a /\ Len(q) \in Nat
      /\ \A i \in 1 .. Len(q) : lk.acqs[i] = q[i]
      /\ Len(lk.acqs) = 1 => q = <<>> /\ Head(lk.acqs) = a
  <2>1. Len(q) = 0 => q = <<>>
    OBVIOUS
  <2> QED BY <1>6, <2>1
<1>9. HasAcq(g, l)
  BY <1>1, <1>2, <1>3 DEF HasAcq
<1>10. q = <<>> => ~HasGrant(g, l)
  BY <1>4 DEF LockInv, Tokens, Token, AtHead
<1>11. PICK rest, sent :
          /\ Routing' /\ Order' /\ InFlight = rest \cup {Req(h)} /\ InFlight' = rest \cup sent
          /\ \A m \in rest : Before(Req(h), m)
          /\ \A n \in sent : /\ n.op \in {"INVLD", "ACQGRANT"} /\ n.topid = g /\ n.lock = l
                             /\ q = <<>>
  <2>1. CASE Len(lk.acqs) = 1
    <3>1. PICK msgs : msgs = GrantMsgs(h, l, lk, a)
      OBVIOUS
    <3>2. Send(h, msgs) /\ q = <<>> /\ ~HasGrant(a.pid, l) /\ a.pid = g
      BY <1>5, <1>7, <1>8, <1>10, <2>1, <3>1
    <3>3. /\ Sendable(h, msgs)
          /\ \A n \in Elements(msgs) : n.op \in {"INVLD", "ACQGRANT"} /\ n.topid = a.pid /\ n.lock = l
      <4>1. Routing /\ h = Manager(l) /\ lk \in LockRec /\ IsFiniteSet(lk.wtnts) /\ ~HasGrant(a.pid, l)
        BY <1>3, <1>6, <3>2 DEF LockInv
      <4> QED BY <3>1, <4>1, GrantsSendable
    <3>4. PICK rest : /\ Routing' /\ Order' /\ InFlight = rest \cup {Req(h)}
                      /\ InFlight' = rest \cup Elements(msgs)
                      /\ \A m \in rest : Before(Req(h), m)
      BY <1>1, <3>2, <3>3, ServerSends DEF IInv, LockInv
    <3> QED BY <3>2, <3>3, <3>4
  <2>2. CASE Len(lk.acqs) # 1
    <3>1. UNCHANGED outq
      BY <1>7, <2>2
    <3>2. /\ Routing' /\ Order' /\ InFlight = InFlight' \cup {Req(h)}
          /\ \A m \in InFlight' : Before(Req(h), m)
      BY <1>1, <3>1, ServerTakes DEF IInv, LockInv
    <3>3. PICK x, none : x = InFlight' /\ none = {}
      OBVIOUS
    <3>4. InFlight' = x \cup none /\ \A n \in none : FALSE
      BY <3>3
    <3> QED BY <3>2, <3>3, <3>4, Zenon
  <2> QED BY <2>1, <2>2
<1>12. ~HasRel(g, l) /\ ~HasAcq(g, l)'
  <2>1. \A m \in InFlight : m.op \in {"ACQ", "REL"} => m.topid = Manager(m.lock)
    <3>1. \A f \in Host : \A m \in Elements(outq[f]) \cup Elements(inq[f]) : Route(m)
      BY DEF LockInv, Routing
    <3> QED BY <3>1 DEF InFlight, Route
  <2>2. \A m \in rest : ~(m.op \in {"ACQ", "REL"} /\ m.frompid = g /\ m.lock = l)
    BY <1>1, <1>2, <1>3, <1>11, <2>1 DEF Before, BarrOps
  <2> QED BY <1>1, <1>11, <2>2 DEF HasRel, HasAcq
<1>13. ~Queued(g, l)
  BY <1>9, <1>12 DEF LockInv, Tokens, Token
<1>14. /\ \A f \in Host, k \in Locks : /\ HasAcq(f, k)' => HasAcq(f, k)
                                       /\ HasRel(f, k)' <=> HasRel(f, k)
                                       /\ HasGrant(f, k)' => \/ HasGrant(f, k)
                                                             \/ f = g /\ k = l /\ q = <<>>
  BY <1>1, <1>11 DEF HasAcq, HasRel, HasGrant
<1>15. /\ Nesting'
       /\ \A f \in Host, k \in Locks : /\ Waiting(f, k)' <=> Waiting(f, k)
                                       /\ Holds(f, k)' <=> Holds(f, k)
  BY <1>1, ServerFrame DEF LockInv
<1>16. locks'[l].acqs = lk.acqs /\ \A k \in Locks \ {l} : locks'[k] = locks[k]
  BY <1>7, HidelockFact DEF IInv, TypeOK, LocksType
<1>17. QueuedOnce'
  <2>1. ASSUME NEW i \in 1 .. Len(lk.acqs), NEW j \in 1 .. Len(lk.acqs),
               lk.acqs[i].pid = lk.acqs[j].pid
        PROVE  i = j
    <3>1. \A k \in 1 .. Len(q) : q[k].pid # a.pid
      BY <1>4, <1>5, <1>13 DEF Queued
    <3>2. \A k \in 1 .. Len(lk.acqs) : k \in 1 .. Len(q) \/ k = Len(q) + 1
      BY <1>8
    <3>3. \A b, c \in 1 .. Len(q) : q[b].pid = q[c].pid => b = c
      BY <1>4 DEF LockInv, QueuedOnce
    <3>4. CASE i \in 1 .. Len(q) /\ j \in 1 .. Len(q)
      BY <1>8, <2>1, <3>3, <3>4
    <3>5. CASE i = Len(q) + 1 /\ j \in 1 .. Len(q)
      BY <1>8, <2>1, <3>1, <3>5
    <3>6. CASE i \in 1 .. Len(q) /\ j = Len(q) + 1
      BY <1>8, <2>1, <3>1, <3>6
    <3> QED BY <3>2, <3>4, <3>5, <3>6
  <2> QED BY <1>16, <2>1 DEF LockInv, QueuedOnce
<1>18. ASSUME NEW f \in Host, NEW k \in Locks PROVE Token(f, k)'
  <2>1. Token(f, k) /\ wait'[f].acq = wait[f].acq
    BY <1>1 DEF LockInv, Tokens
  <2>2. CASE k # l
    <3>1. (AtHead(f, k)' <=> AtHead(f, k)) /\ (Queued(f, k)' <=> Queued(f, k))
      BY <1>16, <2>2, QueuesFrame
    <3> QED BY <1>14, <1>15, <2>1, <2>2, <3>1 DEF Token
  <2>3. CASE k = l
    <3>1. AtHead(f, l) => AtHead(f, l)'
      <4>1. q # <<>> => 1 \in 1 .. Len(q) /\ lk.acqs # <<>>
        BY <1>6
      <4> QED BY <1>4, <1>8, <1>16, <4>1 DEF AtHead
    <3>2. Queued(f, l)' => Queued(f, l) \/ f = g
      <4>1. \A i \in 1 .. Len(lk.acqs) : i \in 1 .. Len(q) \/ i = Len(q) + 1
        BY <1>8
      <4>2. \A i \in 1 .. Len(q) : lk.acqs[i] = q[i]
        BY <1>8
      <4>3. lk.acqs[Len(q) + 1].pid = g
        BY <1>5, <1>8
      <4>4. ASSUME NEW i \in 1 .. Len(lk.acqs), lk.acqs[i].pid = f PROVE Queued(f, l) \/ f = g
        <5>1. CASE i \in 1 .. Len(q)
          BY <1>4, <4>2, <4>4, <5>1, Zenon DEF Queued
        <5>2. CASE i = Len(q) + 1
          BY <4>3, <4>4, <5>2, Zenon
        <5> QED BY <4>1, <5>1, <5>2, Zenon
      <4> QED BY <1>16, <4>4, Zenon DEF Queued
    <3>3. q = <<>> => AtHead(g, l)'
      <4>1. q = <<>> => lk.acqs[1] = a /\ lk.acqs # <<>>
        BY <1>6
      <4> QED BY <1>5, <1>16, <4>1 DEF AtHead
    <3>4. CASE f = g
      <4>1. Waiting(g, l) /\ wait[g].acq
        BY <1>9 DEF LockInv, Tokens, Token
      <4> QED BY <1>12, <1>14, <1>15, <2>1, <2>3, <3>1, <3>2, <3>3, <3>4, <4>1 DEF Token
    <3>5. CASE f # g
      BY <1>14, <1>15, <2>1, <2>3, <3>1, <3>2, <3>5 DEF Token
    <3> QED BY <3>4, <3>5
  <2> QED BY <2>2, <2>3
<1>19. SameBarrs
  BY <1>1, <1>11 DEF SameBarrs, BarrOps
<1> QED BY <1>11, <1>15, <1>17, <1>18, <1>19 DEF LockInv, Tokens

\* relserver: the release comes from the head of the queue, and the host that
\* is granted the lock next is waiting for it.
LEMMA RelServerLock == ASSUME IInv, LockInv, NEW h \in Host, RelServer(h) PROVE LockInv' /\ SameBarrs
<1>1. inq[h] # <<>> /\ Req(h).op = "REL" /\ Receive(h) /\ UNCHANGED <<mainVars, wait>>
  BY DEF RelServer, Handles
<1>2. /\ Req(h) \in Message /\ Req(h).topid = h /\ Route(Req(h)) /\ Req(h) \in InFlight
  BY <1>1, ReceiveNet DEF IInv, LockInv
<1>3. PICK l \in Locks, g \in Host : l = Req(h).lock /\ g = Req(h).frompid /\ h = Manager(l)
  BY <1>1, <1>2, MessageTypes DEF Route, TokenOps
<1>4. PICK q \in Seq([pid : Host, scope : Int]) : q = locks[l].acqs
  BY HidelockFact DEF IInv, TypeOK, LocksType
<1>5. HasRel(g, l)
  BY <1>1, <1>2, <1>3 DEF HasRel
<1>6. q # <<>> /\ q[1].pid = g
  BY <1>4, <1>5 DEF LockInv, Tokens, Token, AtHead
<1>7. PICK lk : /\ lk = [RecordWtnts(locks[l], Req(h)) EXCEPT !.scope = NextScope(@),
                                                            !.acqs = Dequeued(@)]
                /\ lk \in LockRec /\ IsFiniteSet(lk.wtnts) /\ lk.acqs = Tail(q)
  <2>1. Req(h).wtnts \in SUBSET Pages /\ l \in LockIds
    BY <1>1, <1>2, MessageTypes, HidelockFact
  <2>2. PICK r : /\ r = RecordWtnts(locks[l], Req(h)) /\ r \in LockRec /\ IsFiniteSet(r.wtnts)
                 /\ r.acqs = q
    <3>1. locks[l] \in LockRec /\ IsFiniteSet(locks[l].wtnts)
      BY <2>1, LockTypeAt
    <3>2. RecordWtnts(locks[l], Req(h)) \in LockRec /\ IsFiniteSet(RecordWtnts(locks[l], Req(h)).wtnts)
      BY <1>3, <2>1, <3>1, RecordType
    <3>3. RecordWtnts(locks[l], Req(h)).acqs = q
      BY <1>4, <3>1, RecordKeepsQueue
    <3> QED BY <3>2, <3>3, Zenon
  <2>3. PICK s : s = r.scope + 1 /\ s \in Nat
    BY <2>2 DEF LockRec
  <2>4. PICK t : t = Tail(q) /\ t \in Seq([pid : Host, scope : Int])
    BY HeadTailType
  <2>5. PICK x : x = [r EXCEPT !.scope = s, !.acqs = t]
    OBVIOUS
  <2>6. x = [RecordWtnts(locks[l], Req(h)) EXCEPT !.scope = NextScope(@), !.acqs = Dequeued(@)]
    BY <2>2, <2>3, <2>4, <2>5 DEF NextScope, Dequeued, LockRec
  <2>7. x \in LockRec /\ x.wtnts = r.wtnts /\ x.acqs = t
    BY <2>2, <2>3, <2>4, <2>5 DEF LockRec
  <2>8. IsFiniteSet(x.wtnts)
    BY <2>2, <2>7
  <2> QED BY <2>4, <2>6, <2>7, <2>8, Zenon
<1>8. /\ locks' = [locks EXCEPT ![l] = lk]
      /\ IF lk.acqs # <<>> THEN Send(h, GrantMsgs(h, l, lk, Head(lk.acqs))) ELSE UNCHANGED outq
  BY <1>3, <1>7 DEF RelServer
<1>9. PICK t : /\ t = lk.acqs /\ t \in Seq([pid : Host, scope : Int]) /\ Len(t) = Len(q) - 1
               /\ Len(q) \in Nat /\ Len(q) >= 1 /\ \A i \in 1 .. Len(t) : t[i] = q[i + 1]
  <2>1. PICK t : t = Tail(q) /\ t \in Seq([pid : Host, scope : Int])
    BY HeadTailType
  <2>2. Len(t) = Len(q) - 1 /\ Len(q) \in Nat /\ Len(q) >= 1 /\ \A i \in 1 .. Len(t) : t[i] = q[i + 1]
    BY <1>6, <2>1
  <2> QED BY <1>7, <2>1, <2>2, Zenon
<1>10. \A i, j \in 1 .. Len(q) : q[i].pid = q[j].pid => i = j
  BY <1>4 DEF LockInv, QueuedOnce
<1>11. \A f \in Host : f # g => ~AtHead(f, l)
  BY <1>4, <1>6 DEF AtHead
<1>12. \A f \in Host : /\ ~HasGrant(f, l) /\ ~Holds(f, l)
                       /\ Waiting(f, l) => wait[f].acq
                       /\ f # g => ~HasRel(f, l)
  BY <1>5, <1>11 DEF LockInv, Tokens, Token
<1>13. PICK rest, sent :
          /\ Routing' /\ Order' /\ InFlight = rest \cup {Req(h)} /\ InFlight' = rest \cup sent
          /\ \A m \in rest : Before(Req(h), m)
          /\ \A n \in sent : /\ n.op \in {"INVLD", "ACQGRANT"} /\ n.lock = l
                             /\ t # <<>> /\ n.topid = t[1].pid
  <2>1. CASE lk.acqs # <<>>
    <3>1. PICK a \in [pid : Host, scope : Int] : a = Head(lk.acqs) /\ a = t[1] /\ t # <<>>
      <4>1. t # <<>> /\ Head(t) = t[1]
        BY <1>9, <2>1
      <4>2. Head(t) \in [pid : Host, scope : Int]
        BY <1>9, <4>1, HeadTailType
      <4> QED BY <1>9, <4>1, <4>2, Zenon
    <3>2. PICK msgs : msgs = GrantMsgs(h, l, lk, a)
      OBVIOUS
    <3>3. Send(h, msgs) /\ a.pid \in Host
      BY <1>8, <2>1, <3>1, <3>2
    <3>4. /\ Sendable(h, msgs)
          /\ \A n \in Elements(msgs) : n.op \in {"INVLD", "ACQGRANT"} /\ n.topid = a.pid /\ n.lock = l
      <4>1. /\ Routing /\ h = Manager(l) /\ lk \in LockRec /\ IsFiniteSet(lk.wtnts)
            /\ ~HasGrant(a.pid, l)
        BY <1>3, <1>7, <1>12, <3>3 DEF LockInv
      <4> QED BY <3>2, <4>1, GrantsSendable
    <3>5. PICK rest : /\ Routing' /\ Order' /\ InFlight = rest \cup {Req(h)}
                      /\ InFlight' = rest \cup Elements(msgs)
                      /\ \A m \in rest : Before(Req(h), m)
      BY <1>1, <3>3, <3>4, ServerSends DEF IInv, LockInv
    <3> QED BY <3>1, <3>4, <3>5
  <2>2. CASE lk.acqs = <<>>
    <3>1. UNCHANGED outq
      BY <1>8, <2>2
    <3>2. /\ Routing' /\ Order' /\ InFlight = InFlight' \cup {Req(h)}
          /\ \A m \in InFlight' : Before(Req(h), m)
      BY <1>1, <3>1, ServerTakes DEF IInv, LockInv
    <3>3. PICK x, none : x = InFlight' /\ none = {}
      OBVIOUS
    <3>4. InFlight' = x \cup none /\ \A n \in none : FALSE
      BY <3>3
    <3> QED BY <3>2, <3>3, <3>4, Zenon
  <2> QED BY <2>1, <2>2
<1>14. ~HasRel(g, l)'
  <2>1. \A m \in InFlight : m.op = "REL" => m.topid = Manager(m.lock)
    <3>1. \A f \in Host : \A m \in Elements(outq[f]) \cup Elements(inq[f]) : Route(m)
      BY DEF LockInv, Routing
    <3> QED BY <3>1 DEF InFlight, Route
  <2>2. \A m \in rest : ~(m.op = "REL" /\ m.frompid = g /\ m.lock = l)
    BY <1>1, <1>2, <1>3, <1>13, <2>1 DEF Before, BarrOps
  <2> QED BY <1>13, <2>2 DEF HasRel
<1>15. \A f \in Host, k \in Locks : /\ HasAcq(f, k)' => HasAcq(f, k)
                                    /\ HasRel(f, k)' => HasRel(f, k)
                                    /\ f # g \/ k # l => (HasRel(f, k)' <=> HasRel(f, k))
                                    /\ HasGrant(f, k)' => \/ HasGrant(f, k)
                                                          \/ k = l /\ t # <<>> /\ f = t[1].pid
  <2>1. \A f \in Host, k \in Locks : /\ HasAcq(f, k)' => HasAcq(f, k)
                                     /\ HasRel(f, k)' => HasRel(f, k)
    BY <1>13 DEF HasAcq, HasRel
  <2>2. \A f \in Host, k \in Locks : f # g \/ k # l => (HasRel(f, k)' <=> HasRel(f, k))
    BY <1>3, <1>13 DEF HasRel
  <2>3. \A f \in Host, k \in Locks : HasGrant(f, k)' => \/ HasGrant(f, k)
                                                        \/ k = l /\ t # <<>> /\ f = t[1].pid
    BY <1>13 DEF HasGrant
  <2> QED BY <2>1, <2>2, <2>3
<1>16. /\ Nesting'
       /\ \A f \in Host, k \in Locks : /\ Waiting(f, k)' <=> Waiting(f, k)
                                       /\ Holds(f, k)' <=> Holds(f, k)
  BY <1>1, ServerFrame DEF LockInv
<1>17. locks'[l].acqs = t /\ \A k \in Locks \ {l} : locks'[k] = locks[k]
  BY <1>8, <1>9, HidelockFact DEF IInv, TypeOK, LocksType
<1>18. \A i \in 1 .. Len(t) : i + 1 \in 1 .. Len(q) /\ 1 \in 1 .. Len(q) /\ i + 1 # 1 /\ t[i] = q[i + 1]
  BY <1>9
<1>19. QueuedOnce'
  <2>1. ASSUME NEW i \in 1 .. Len(t), NEW j \in 1 .. Len(t), t[i].pid = t[j].pid PROVE i = j
    <3>1. PICK b \in 1 .. Len(q) : b = i + 1 /\ t[i] = q[b]
      BY <1>18
    <3>2. PICK c \in 1 .. Len(q) : c = j + 1 /\ t[j] = q[c]
      BY <1>18
    <3>3. b = c
      BY <1>10, <2>1, <3>1, <3>2
    <3> QED BY <3>1, <3>2, <3>3
  <2> QED BY <1>17, <2>1 DEF LockInv, QueuedOnce
<1>20. \A f \in Host : Queued(f, l)' => Queued(f, l) /\ f # g
  <2> SUFFICES ASSUME NEW f \in Host, NEW i \in 1 .. Len(t), t[i].pid = f
               PROVE  Queued(f, l) /\ f # g
    BY <1>17 DEF Queued
  <2>1. PICK b \in 1 .. Len(q) : b = i + 1 /\ t[i] = q[b] /\ b # 1 /\ 1 \in 1 .. Len(q)
    BY <1>18
  <2> QED BY <1>4, <1>6, <1>10, <2>1 DEF Queued
<1>21. \A f \in Host : t # <<>> /\ f = t[1].pid => AtHead(f, l)' /\ Queued(f, l)'
  <2>1. t # <<>> => 1 \in 1 .. Len(t)
    BY <1>9
  <2> QED BY <1>17, <2>1 DEF AtHead, Queued
<1>22. ASSUME NEW f \in Host, NEW k \in Locks PROVE Token(f, k)'
  <2>1. Token(f, k) /\ wait'[f].acq = wait[f].acq
    BY <1>1 DEF LockInv, Tokens
  <2>2. CASE k # l
    <3>1. (AtHead(f, k)' <=> AtHead(f, k)) /\ (Queued(f, k)' <=> Queued(f, k))
      BY <1>17, <2>2, QueuesFrame
    <3> QED BY <1>15, <1>16, <2>1, <2>2, <3>1 DEF Token
  <2>3. CASE k = l /\ f = g
    <3>1. ~HasGrant(g, l)' /\ ~Queued(g, l)'
      BY <1>12, <1>15, <1>20, <1>21
    <3> QED BY <1>12, <1>14, <1>15, <1>16, <2>1, <2>3, <3>1 DEF Token
  <2>4. CASE k = l /\ f # g
    <3>1. HasGrant(f, l)' => AtHead(f, l)' /\ Queued(f, l)
      BY <1>12, <1>15, <1>20, <1>21
    <3>2. Queued(f, l)' => Queued(f, l)
      BY <1>20
    <3> QED BY <1>12, <1>15, <1>16, <2>1, <2>4, <3>1, <3>2 DEF Token
  <2> QED BY <2>2, <2>3, <2>4
<1>23. SameBarrs
  BY <1>1, <1>13 DEF SameBarrs, BarrOps
<1> QED BY <1>13, <1>16, <1>19, <1>22, <1>23 DEF LockInv, Tokens

-----------------------------------------------------------------------------
\* At the start nothing is under way and nobody is queued.
LEMMA InitLockInv == Init => LockInv
<1> SUFFICES ASSUME Init PROVE LockInv
  OBVIOUS
<1>1. \A g \in Host : /\ outq[g] = <<>> /\ inq[g] = <<>> /\ pc[g] = "run"
                      /\ stack[g] = <<[lockid |-> hidelock, wtnts |-> {}]>>
  BY DEF Init
<1>2. \A g \in Host : Elements(outq[g]) = {} /\ Elements(inq[g]) = {}
  BY <1>1 DEF Elements
<1>3. InFlight = {}
  BY <1>2 DEF InFlight
<1>4. \A l \in Locks : locks[l].acqs = <<>>
  BY HidelockFact DEF Init
<1>5. Routing
  BY <1>2 DEF Routing
<1>6. Order
  BY <1>1, <1>2 DEF Order, InOrder
<1>7. Nesting
  BY <1>1 DEF Nesting, InCall
<1>8. QueuedOnce
  BY <1>4 DEF QueuedOnce
<1>9. \A h \in Host, l \in Locks : ~Holds(h, l) /\ ~Waiting(h, l)
  BY <1>1, HidelockFact DEF Holds, Waiting, InCall
<1>10. \A h \in Host, l \in Locks : ~HasAcq(h, l) /\ ~HasRel(h, l) /\ ~HasGrant(h, l)
  BY <1>3 DEF HasAcq, HasRel, HasGrant
<1>11. \A h \in Host, l \in Locks : ~Queued(h, l)
  BY <1>4 DEF Queued
<1>12. Tokens
  BY <1>9, <1>10, <1>11 DEF Tokens, Token
<1> QED BY <1>5, <1>6, <1>7, <1>8, <1>12 DEF LockInv

-----------------------------------------------------------------------------
(***************************************************************************)
(* Barriers.  A host that has arrived is in one of three places: its BARR  *)
(* is under way, or it is counted in acqc, or its BARRGRANT is under way.  *)
(* The BARR that makes the count complete finds every host counted, so     *)
(* that the grants release all hosts at once.                              *)
(***************************************************************************)
HasBarr(h) == \E m \in InFlight : m.op = "BARR" /\ m.frompid = h
HasBarrGrant(h) == \E m \in InFlight : m.op = "BARRGRANT" /\ m.topid = h
Arrived(h) == pc[h] = "barrwait" /\ wait[h].barr

AtBarrier(h) ==
    /\ InCall(h, "diffwait", "barrier") => Len(stack[h]) = 1
    /\ pc[h] = "barrwait" => InCall(h, "barrwait", "barrier")
    /\ HasBarr(h) => Arrived(h) /\ ~HasBarrGrant(h)
    /\ HasBarrGrant(h) => Arrived(h)

\* The hosts acqc counts.
Counted == {h \in Host : Arrived(h) /\ ~HasBarr(h) /\ ~HasBarrGrant(h)}

BarrInv == (\A h \in Host : AtBarrier(h)) /\ acqc = Cardinality(Counted)

\* The barrier a host is in has been granted.
Released(h) == pc[h] = "barrwait" /\ (HasBarrGrant(h) \/ ~wait[h].barr)

\* The barriers that still have to be granted to a host: all hosts agree on
\* them when their programs have equally many.
Due(h) == BarriersLeft(h) - (IF Released(h) THEN 1 ELSE 0)
Even == \A g, h \in Host : Due(g) = Due(h)

\* Quotient and remainder of a number cut at a multiple.
LEMMA DivExact ==
    ASSUME NEW H \in Nat, H > 0, NEW k \in Nat, NEW g \in 0 .. H - 1
    PROVE  (H * k + g) \div H = k /\ (H * k + g) % H = g
<1>1. PICK a \in Nat : a = H * k + g
  <2>1. H * k \in Nat
    OBVIOUS
  <2> QED BY <2>1
<1>2. PICK q \in Int, r \in 0 .. H - 1 : q = a \div H /\ r = a % H /\ a = H * q + r
  <2>1. a \div H \in Int /\ a % H \in 0 .. H - 1 /\ a = H * (a \div H) + (a % H)
    OBVIOUS
  <2> QED BY <2>1
<1>3. PICK x \in Int : x = H * (q - k) /\ x = g - r
  BY <1>1, <1>2
<1>4. CASE q > k
  <2>1. PICK d \in Nat : q - k = d + 1
    BY <1>2, <1>4
  <2>2. H * (q - k) = H * d + H /\ H * d >= 0
    BY <2>1
  <2> QED BY <1>3, <2>2
<1>5. CASE q < k
  <2>1. PICK d \in Nat : k - q = d + 1 /\ q - k = - (d + 1)
    BY <1>2, <1>5
  <2>2. H * (q - k) = - (H * d) - H /\ H * d >= 0
    BY <2>1
  <2> QED BY <1>3, <2>2
<1>6. CASE q = k
  BY <1>1, <1>2, <1>6
<1> QED BY <1>4, <1>5, <1>6

\* A number below n rounds is in one of the rounds 0 to n - 1, and round and
\* remainder determine it.
LEMMA DivBelow ==
    ASSUME NEW H \in Nat, H > 0, NEW n \in Nat, NEW a \in Nat, a < n * H
    PROVE  a \div H < n /\ a \div H \in Int /\ a % H \in 0 .. H - 1
           /\ a = H * (a \div H) + (a % H)
<1>1. a \div H \in Int /\ a % H \in 0 .. H - 1 /\ a = H * (a \div H) + (a % H)
  OBVIOUS
<1>2. PICK q \in Int, r \in 0 .. H - 1 : q = a \div H /\ a = H * q + r
  BY <1>1
<1>3. CASE q >= n
  <2>1. PICK d \in Nat : q = n + d
    BY <1>2, <1>3
  <2>2. H * q = n * H + H * d /\ H * d >= 0 /\ n * H \in Nat
    BY <2>1
  <2> QED BY <1>2, <2>2
<1> QED BY <1>1, <1>2, <1>3

\* How many calls op a program has.
CallsOf(s, x) == Cardinality({i \in 1 .. Len(s) : s[i].op = x})

\* Dropping the first call of a program.
LEMMA CallsTail ==
    ASSUME NEW E, NEW s \in Seq(E), s # <<>>, NEW x
    PROVE  /\ CallsOf(s, x) \in Nat /\ CallsOf(Tail(s), x) \in Nat
           /\ CallsOf(s, x) = IF Head(s).op = x THEN CallsOf(Tail(s), x) + 1 ELSE CallsOf(Tail(s), x)
<1>1. PICK n \in Nat : n = Len(s) /\ n >= 1
  OBVIOUS
<1>2. PICK t : t = Tail(s)
  OBVIOUS
<1>3. /\ Head(s) = s[1] /\ Len(t) = n - 1
      /\ \A i \in 1 .. n - 1 : t[i] = s[i + 1]
  BY <1>1, <1>2
<1> DEFINE S == {i \in 1 .. n : s[i].op = x}
           U == {i \in 2 .. n : s[i].op = x}
           T == {i \in 1 .. n - 1 : t[i].op = x}
           f == [i \in T |-> i + 1]
<1>4. IsFiniteSet(S) /\ IsFiniteSet(U) /\ IsFiniteSet(T)
  <2>1. IsFiniteSet(1 .. n) /\ S \subseteq 1 .. n /\ U \subseteq 1 .. n /\ T \subseteq 1 .. n
    BY FS_Interval
  <2> QED BY <2>1, FS_Subset
<1>5. f \in Bijection(T, U)
  <2>1. \A i \in T : i + 1 \in U
    BY <1>1, <1>3
  <2>2. \A j \in U : j - 1 \in T /\ f[j - 1] = j
    BY <1>1, <1>3
  <2>3. \A i, j \in T : f[i] = f[j] => i = j
    OBVIOUS
  <2>4. f \in [T -> U]
    BY <2>1
  <2>5. \A j \in U : \E i \in T : f[i] = j
    BY <2>2
  <2> HIDE DEF T, U, f
  <2> QED BY <2>3, <2>4, <2>5 DEF Bijection, Injection, Surjection, IsInjective
<1>6. Cardinality(U) = Cardinality(T)
  <2> HIDE DEF T, U, f
  <2>1. ExistsBijection(T, U)
    BY <1>5 DEF ExistsBijection
  <2> QED BY <1>4, <2>1, FS_Bijection
<1>7. S = IF s[1].op = x THEN U \cup {1} ELSE U
  BY <1>1
<1>8. 1 \notin U
  OBVIOUS
<1>9. Cardinality(S) = IF s[1].op = x THEN Cardinality(U) + 1 ELSE Cardinality(U)
  <2> HIDE DEF S, U
  <2> QED BY <1>4, <1>7, <1>8, FS_AddElement
<1>10. Cardinality(S) \in Nat /\ Cardinality(T) \in Nat
  <2> HIDE DEF S, T
  <2> QED BY <1>4, FS_CardinalityType
<1>11. CallsOf(s, x) = Cardinality(S) /\ CallsOf(t, x) = Cardinality(T)
  BY <1>1, <1>3 DEF CallsOf
<1> HIDE DEF S, T, U, f
<1> QED BY <1>2, <1>3, <1>6, <1>9, <1>10, <1>11

\* What is under way about barriers depends on their messages only.
LEMMA BarrsFrame ==
    ASSUME SameBarrs
    PROVE  \A g \in Host : /\ HasBarr(g)' <=> HasBarr(g)
                           /\ HasBarrGrant(g)' <=> HasBarrGrant(g)
<1> TAKE g \in Host
<1>1. HasBarr(g)' <=> HasBarr(g)
  BY DEF SameBarrs, HasBarr, BarrOps
<1>2. HasBarrGrant(g)' <=> HasBarrGrant(g)
  BY DEF SameBarrs, HasBarrGrant, BarrOps
<1> QED BY <1>1, <1>2

\* A step in which no host arrives, is counted, is granted or leaves.
LEMMA BarrFrame ==
    ASSUME BarrInv, SameBarrs, acqc' = acqc,
           \A g \in Host : /\ wait'[g].barr = wait[g].barr
                           /\ pc'[g] = "barrwait" <=> pc[g] = "barrwait"
                           /\ InCall(g, "barrwait", "barrier") => InCall(g, "barrwait", "barrier")'
                           /\ InCall(g, "diffwait", "barrier")' => Len(stack'[g]) = 1
    PROVE  /\ BarrInv'
           /\ \A g \in Host : BarriersLeft(g)' = BarriersLeft(g) => Due(g)' = Due(g)
<1>1. \A g \in Host : /\ HasBarr(g)' <=> HasBarr(g)
                      /\ HasBarrGrant(g)' <=> HasBarrGrant(g)
  BY BarrsFrame
<1>2. \A g \in Host : Arrived(g)' <=> Arrived(g)
  BY DEF Arrived
<1>3. Counted' = Counted
  BY <1>1, <1>2 DEF Counted
<1>4. \A g \in Host : AtBarrier(g)'
  BY <1>1, <1>2 DEF BarrInv, AtBarrier
<1>5. \A g \in Host : Released(g)' <=> Released(g)
  BY <1>1 DEF Released
<1>6. \A g \in Host : BarriersLeft(g)' = BarriersLeft(g) => Due(g)' = Due(g)
  BY <1>5 DEF Due
<1> QED BY <1>3, <1>4, <1>6 DEF BarrInv

\* A handler that has nothing to do with barriers.
LEMMA ServerBarr ==
    ASSUME BarrInv, SameBarrs, UNCHANGED <<mainVars, acqc>>,
           \A g \in Host : wait'[g].barr = wait[g].barr
    PROVE  BarrInv' /\ \A g \in Host : Due(g)' = Due(g)
<1>1. \A g \in Host : /\ pc'[g] = "barrwait" <=> pc[g] = "barrwait"
                      /\ InCall(g, "barrwait", "barrier") => InCall(g, "barrwait", "barrier")'
                      /\ InCall(g, "diffwait", "barrier")' => Len(stack'[g]) = 1
  BY DEF mainVars, InCall, CallOf, BarrInv, AtBarrier
<1>2. \A g \in Host : BarriersLeft(g)' = BarriersLeft(g)
  BY DEF mainVars, BarriersLeft
<1> QED BY <1>1, <1>2, BarrFrame

\* A step of the application thread outside jia_barrier.
LEMMA MainBarr ==
    ASSUME BarrInv, SameBarrs, UNCHANGED acqc, NEW h \in Host,
           pc[h] # "barrwait", pc'[h] # "barrwait",
           \A g \in Host : wait'[g].barr = wait[g].barr,
           \A g \in Host \ {h} : pc'[g] = pc[g] /\ prog'[g] = prog[g] /\ stack'[g] = stack[g],
           InCall(h, "diffwait", "barrier")' => Len(stack'[h]) = 1,
           BarriersLeft(h)' = BarriersLeft(h)
    PROVE  BarrInv' /\ \A g \in Host : Due(g)' = Due(g)
<1>1. \A g \in Host : /\ pc'[g] = "barrwait" <=> pc[g] = "barrwait"
                      /\ InCall(g, "barrwait", "barrier") => InCall(g, "barrwait", "barrier")'
                      /\ InCall(g, "diffwait", "barrier")' => Len(stack'[g]) = 1
  BY DEF InCall, CallOf, BarrInv, AtBarrier
<1>2. \A g \in Host : BarriersLeft(g)' = BarriersLeft(g)
  BY ZenonT(40) DEF BarriersLeft
<1> QED BY <1>1, <1>2, BarrFrame

\* A program has finitely many barriers.
LEMMA LeftType == ASSUME TypeOK PROVE \A h \in Host : BarriersLeft(h) \in Nat
<1> TAKE h \in Host
<1>1. PICK n \in Nat : n = Len(prog[h])
  BY DEF TypeOK, MainType
<1>2. PICK S : S = {i \in 1 .. n : prog[h][i].op = "barrier"}
  OBVIOUS
<1>3. IsFiniteSet(1 .. n) /\ S \subseteq 1 .. n
  BY <1>2, FS_Interval
<1>4. Cardinality(S) \in Nat
  BY <1>3, FS_Subset, FS_CardinalityType
<1> QED BY <1>1, <1>2, <1>4 DEF BarriersLeft

\* Returning from a call.
LEMMA ReturnLeft ==
    ASSUME TypeOK, NEW h \in Host, prog[h] # <<>>, Return(h)
    PROVE  /\ BarriersLeft(h) \in Nat /\ BarriersLeft(h)' \in Nat
           /\ BarriersLeft(h) = IF CallOf(h).op = "barrier" THEN BarriersLeft(h)' + 1
                                                            ELSE BarriersLeft(h)'
<1>1. prog[h] \in Seq(Call) /\ prog'[h] = Tail(prog[h])
  BY DEF TypeOK, MainType, Return
<1>2. BarriersLeft(h) = CallsOf(prog[h], "barrier")
  BY DEF BarriersLeft, CallsOf
<1>3. BarriersLeft(h)' = CallsOf(Tail(prog[h]), "barrier")
  BY <1>1 DEF BarriersLeft, CallsOf
<1> QED BY <1>1, <1>2, <1>3, CallsTail DEF CallOf
-----------------------------------------------------------------------------
(***************************************************************************)
(* The steps outside jia_barrier.                                          *)
(***************************************************************************)
SyncInv == LockInv /\ BarrInv
SameDue == \A g \in Host : Due(g)' = Due(g)

\* Memory accesses and page faults that need no message.
LEMMA AccessBarr ==
    ASSUME IInv, SyncInv, NEW h \in Host,
           ReadWord(h) \/ WriteWord(h) \/ SegvHome(h) \/ SegvFetched(h) \/ SegvUpgrade(h)
    PROVE  SyncInv' /\ SameDue
<1>1. LockInv' /\ SameBarrs
  BY AccessLock DEF SyncInv
<1>2. /\ pc[h] # "barrwait" /\ pc'[h] = "run" /\ UNCHANGED <<acqc, wait>>
      /\ \A g \in Host \ {h} : pc'[g] = pc[g] /\ prog'[g] = prog[g] /\ stack'[g] = stack[g]
  BY DEF IInv, TypeOK, MainType, ReadWord, WriteWord, SegvHome, SegvFetched, SegvUpgrade, Accesses,
         Return, Goto, mainVars, synVars
<1>3. BarriersLeft(h)' = BarriersLeft(h)
  <2>1. CASE ReadWord(h) \/ WriteWord(h)
    <3>1. Return(h) /\ prog[h] # <<>> /\ CallOf(h).op # "barrier"
      BY <2>1 DEF ReadWord, WriteWord, Accesses
    <3> QED BY <3>1, ReturnLeft DEF IInv
  <2>2. CASE SegvHome(h) \/ SegvFetched(h) \/ SegvUpgrade(h)
    <3>1. UNCHANGED prog
      BY <2>2 DEF SegvHome, SegvFetched, SegvUpgrade, mainVars
    <3> QED BY <3>1 DEF BarriersLeft
  <2> QED BY <2>1, <2>2
<1>4. ~InCall(h, "diffwait", "barrier")'
  BY <1>2 DEF InCall
<1> QED BY <1>1, <1>2, <1>3, <1>4, MainBarr DEF SyncInv, SameDue

\* A page fault that asks the home for the page, and jia_lock asking.
LEMMA AskBarr ==
    ASSUME IInv, SyncInv, NEW h \in Host, SegvFetch(h) \/ Acquire(h)
    PROVE  SyncInv' /\ SameDue
<1>1. LockInv' /\ SameBarrs
  BY SegvFetchLock, AcquireLock DEF SyncInv
<1>2. /\ pc[h] # "barrwait" /\ pc'[h] \in {"getpwait", "acqwait"} /\ UNCHANGED <<acqc, prog, stack>>
      /\ \A g \in Host \ {h} : pc'[g] = pc[g]
      /\ \A g \in Host : wait'[g].barr = wait[g].barr
  <2>1. CASE SegvFetch(h)
    BY <2>1 DEF IInv, TypeOK, MainType, WaitType, SegvFetch, Accesses, Goto, synVars
  <2>2. CASE Acquire(h)
    BY <2>2 DEF IInv, TypeOK, MainType, WaitType, Acquire, DiffsDone, InCall, Goto, synVars
  <2> QED BY <2>1, <2>2
<1>3. BarriersLeft(h)' = BarriersLeft(h)
  BY <1>2 DEF BarriersLeft
<1>4. ~InCall(h, "diffwait", "barrier")'
  BY <1>2 DEF InCall
<1> QED BY <1>1, <1>2, <1>3, <1>4, MainBarr DEF SyncInv, SameDue

\* endinterval: a program that calls jia_barrier holds no lock.
LEMMA EndIntervalBarr ==
    ASSUME IInv, SyncInv, NEW h \in Host, EndInterval(h)
    PROVE  SyncInv' /\ SameDue
<1>1. LockInv' /\ SameBarrs
  BY EndIntervalLock DEF SyncInv
<1>2. /\ pc[h] = "run" /\ pc'[h] = "diffwait" /\ UNCHANGED <<acqc, prog>>
      /\ \A g \in Host \ {h} : pc'[g] = pc[g] /\ stack'[g] = stack[g]
      /\ \A g \in Host : wait'[g].barr = wait[g].barr
      /\ Len(stack'[h]) = Len(stack[h])
  BY DEF IInv, TypeOK, MainType, WaitType, EndInterval, Goto, synVars
<1>3. BarriersLeft(h)' = BarriersLeft(h)
  BY <1>2 DEF BarriersLeft
<1>4. InCall(h, "diffwait", "barrier")' => Len(stack'[h]) = 1
  BY <1>2 DEF InCall, CallOf, EndInterval, Legal
<1> QED BY <1>1, <1>2, <1>3, <1>4, MainBarr DEF SyncInv, SameDue

\* jia_lock and jia_unlock return.
LEMMA ReturnBarr ==
    ASSUME IInv, SyncInv, NEW h \in Host, Acquired(h) \/ Release(h)
    PROVE  SyncInv' /\ SameDue
<1>1. LockInv' /\ SameBarrs
  BY AcquiredLock, ReleaseLock DEF SyncInv
<1>2. /\ pc[h] # "barrwait" /\ pc'[h] = "run" /\ UNCHANGED <<acqc, wait>>
      /\ \A g \in Host \ {h} : pc'[g] = pc[g] /\ prog'[g] = prog[g] /\ stack'[g] = stack[g]
      /\ Return(h) /\ prog[h] # <<>> /\ CallOf(h).op # "barrier"
  BY DEF IInv, TypeOK, MainType, Acquired, Release, PopStack, DiffsDone, InCall, Return, Goto, synVars
<1>3. BarriersLeft(h)' = BarriersLeft(h)
  BY <1>2, ReturnLeft DEF IInv
<1>4. ~InCall(h, "diffwait", "barrier")'
  BY <1>2 DEF InCall
<1> QED BY <1>1, <1>2, <1>3, <1>4, MainBarr DEF SyncInv, SameDue

\* The network and the handlers of other messages.
LEMMA OtherBarr ==
    ASSUME IInv, SyncInv, NEW h \in Host,
           \/ Transfer(h) \/ AcqServer(h) \/ RelServer(h) \/ WtntServer(h) \/ InvServer(h)
           \/ AcqGrantServer(h) \/ GetpServer(h) \/ GetpGrantServer(h)
           \/ DiffServerOpen(h) \/ DiffServerPatch(h) \/ DiffGrantServer(h)
    PROVE  SyncInv' /\ SameDue
<1>1. LockInv' /\ SameBarrs
  BY TransferLock, AcqServerLock, RelServerLock, WtntServerLock, TakingServerLock,
     AcqGrantServerLock, GetpServerLock, DiffServerOpenLock, DiffServerPatchLock
  DEF SyncInv
<1>2. UNCHANGED <<mainVars, acqc>>
  BY DEF Transfer, AcqServer, RelServer, WtntServer, InvServer, AcqGrantServer, GetpServer,
         GetpGrantServer, DiffServerOpen, DiffServerPatch, DiffGrantServer, synVars
<1>3. \A g \in Host : wait'[g].barr = wait[g].barr
  <2>1. CASE AcqGrantServer(h)
    BY <2>1 DEF IInv, TypeOK, WaitType, AcqGrantServer
  <2>2. CASE GetpGrantServer(h)
    BY <2>2 DEF IInv, TypeOK, WaitType, GetpGrantServer
  <2>3. CASE DiffGrantServer(h)
    BY <2>3 DEF IInv, TypeOK, WaitType, DiffGrantServer
  <2>4. CASE UNCHANGED wait
    BY <2>4
  <2> QED BY <2>1, <2>2, <2>3, <2>4
          DEF Transfer, AcqServer, RelServer, WtntServer, InvServer, GetpServer, DiffServerOpen,
              DiffServerPatch
<1> QED BY <1>1, <1>2, <1>3, ServerBarr DEF SyncInv, SameDue
-----------------------------------------------------------------------------
(***************************************************************************)
(* jia_barrier, barrserver and barrgrantserver.                            *)
(***************************************************************************)
\* Leaving a barrier that has been granted.
LEMMA BarrierLeaveBarr ==
    ASSUME IInv, SyncInv, NEW h \in Host, BarrierLeave(h)
    PROVE  SyncInv' /\ SameDue
<1>1. LockInv' /\ SameBarrs
  BY BarrierLeaveLock DEF SyncInv
<1>2. /\ InCall(h, "barrwait", "barrier") /\ ~wait[h].barr /\ pc'[h] = "run"
      /\ Return(h) /\ UNCHANGED <<stack, wait, acqc>>
      /\ \A g \in Host \ {h} : pc'[g] = pc[g] /\ prog'[g] = prog[g]
  BY DEF IInv, TypeOK, MainType, BarrierLeave, Return, Goto, synVars
<1>3. \A g \in Host : /\ HasBarr(g)' <=> HasBarr(g)
                      /\ HasBarrGrant(g)' <=> HasBarrGrant(g)
  BY <1>1, BarrsFrame
<1>4. \A g \in Host : Arrived(g)' <=> Arrived(g)
  BY <1>2 DEF Arrived
<1>5. Counted' = Counted
  BY <1>3, <1>4 DEF Counted
<1>6. \A g \in Host : AtBarrier(g)'
  <2>1. ~InCall(h, "diffwait", "barrier")' /\ pc'[h] # "barrwait"
    BY <1>2 DEF InCall
  <2>2. \A g \in Host \ {h} : \A l : InCall(g, l, "barrier")' <=> InCall(g, l, "barrier")
    BY <1>2 DEF InCall, CallOf
  <2> QED BY <1>2, <1>3, <1>4, <2>1, <2>2 DEF SyncInv, BarrInv, AtBarrier
<1>7. ASSUME NEW g \in Host PROVE Due(g)' = Due(g)
  <2>1. CASE g = h
    <3>1. /\ BarriersLeft(h) \in Nat /\ BarriersLeft(h)' \in Nat
          /\ BarriersLeft(h) = BarriersLeft(h)' + 1
      BY <1>2, ReturnLeft DEF IInv, InCall
    <3>2. Released(h) /\ ~Released(h)'
      BY <1>2 DEF Released, InCall
    <3> QED BY <2>1, <3>1, <3>2 DEF Due
  <2>2. CASE g # h
    <3>1. BarriersLeft(g)' = BarriersLeft(g)
      BY <1>2, <2>2 DEF BarriersLeft
    <3>2. Released(g)' <=> Released(g)
      BY <1>2, <1>3, <2>2 DEF Released
    <3> QED BY <3>1, <3>2 DEF Due
  <2> QED BY <2>1, <2>2
<1> QED BY <1>1, <1>2, <1>5, <1>6, <1>7 DEF SyncInv, BarrInv, SameDue

\* Arriving at a barrier: the host has no other BARR under way.
LEMMA BarrierArriveBarr ==
    ASSUME IInv, SyncInv, NEW h \in Host, BarrierArrive(h)
    PROVE  SyncInv' /\ SameDue
<1>1. /\ InCall(h, "diffwait", "barrier") /\ pc'[h] = "barrwait" /\ UNCHANGED <<prog, locks, inq, acqc>>
      /\ SendWtnts(h, "BARR") /\ wait'[h].barr = TRUE
      /\ \A g \in Host \ {h} : pc'[g] = pc[g] /\ stack'[g] = stack[g] /\ wait'[g] = wait[g]
      /\ \A g \in Host : wait'[g].acq = wait[g].acq
      /\ Len(stack'[h]) = Len(stack[h])
      /\ \A i \in 1 .. Len(stack[h]) : stack'[h][i].lockid = stack[h][i].lockid
  BY DEF IInv, TypeOK, MainType, WaitType, BarrierArrive, DiffsDone, Goto, synVars
<1>2. ~Arrived(h) /\ ~HasBarr(h) /\ ~HasBarrGrant(h)
  <2>1. ~Arrived(h)
    BY <1>1 DEF Arrived, InCall
  <2> QED BY <2>1 DEF SyncInv, BarrInv, AtBarrier
<1>3. Top(h).lockid = hidelock
  <2>1. Len(stack[h]) = 1
    BY <1>1 DEF SyncInv, BarrInv, AtBarrier
  <2> QED BY <2>1 DEF Top, IInv, Pairing
<1>4. PICK msgs \in Seq(Message) :
              /\ Send(h, msgs) /\ Len(msgs) >= 1 /\ msgs[Len(msgs)].op = "BARR"
              /\ \A i \in 1 .. Len(msgs) :
                    /\ msgs[i].frompid = h /\ msgs[i].topid = Manager(hidelock)
                    /\ i < Len(msgs) => msgs[i].op = "WTNT"
  BY <1>1, <1>3, WtntsSent
<1>5. /\ \A n \in Elements(msgs) : /\ n.frompid = h /\ n.topid = Manager(hidelock)
                                   /\ n.op \in {"WTNT", "BARR"}
      /\ \E n \in Elements(msgs) : n.op = "BARR"
  <2>1. \A i \in 1 .. Len(msgs) : msgs[i].op \in {"WTNT", "BARR"}
    BY <1>4
  <2>2. Len(msgs) \in 1 .. Len(msgs)
    BY <1>4
  <2> QED BY <1>4, <2>1, <2>2 DEF Elements
<1>6. Sendable(h, msgs)
  <2>1. \A n \in Elements(msgs), m \in InFlight : Before(m, n)
    BY <1>2, <1>5 DEF Before, BarrOps, HasBarr
  <2>2. \A n \in Elements(msgs) : Route(n)
    BY <1>5 DEF Route, TokenOps
  <2>3. InOrder(msgs)
    BY <1>4 DEF InOrder, Before, BarrOps
  <2> QED BY <1>5, <2>1, <2>2, <2>3 DEF Sendable
<1>7. Routing' /\ Order' /\ InFlight' = InFlight \cup Elements(msgs)
  BY <1>1, <1>4, <1>6, MainSends DEF IInv, SyncInv, LockInv
<1>8. LockInv'
  <2>1. SameTokens
    BY <1>5, <1>7 DEF SameTokens, TokenOps
  <2>2. pc[h] # "acqwait" /\ ~InCall(h, "diffwait", "lock")'
    BY <1>1 DEF InCall
  <2>3. Nesting' /\ SameHosts
    BY <1>1, <2>2, MainFrame DEF IInv, SyncInv, LockInv, SameHosts
  <2>4. Tokens' /\ QueuedOnce'
    BY <1>1, <2>1, <2>3, DullStep DEF SyncInv, LockInv, SameQueues
  <2> QED BY <1>7, <2>3, <2>4 DEF LockInv
<1>9. \A g \in Host : /\ HasBarr(g)' <=> HasBarr(g) \/ g = h
                      /\ HasBarrGrant(g)' <=> HasBarrGrant(g)
                      /\ g # h => (Arrived(g)' <=> Arrived(g))
  BY <1>1, <1>5, <1>7 DEF HasBarr, HasBarrGrant, Arrived
<1>10. Arrived(h)'
  BY <1>1 DEF Arrived
<1>11. Counted' = Counted
  BY <1>2, <1>9 DEF Counted
<1>12. \A g \in Host : AtBarrier(g)'
  <2>1. ~InCall(h, "diffwait", "barrier")' /\ InCall(h, "barrwait", "barrier")'
    BY <1>1 DEF InCall, CallOf
  <2>2. \A g \in Host \ {h} : \A l : InCall(g, l, "barrier")' <=> InCall(g, l, "barrier")
    BY <1>1 DEF InCall, CallOf
  <2> QED BY <1>1, <1>2, <1>9, <1>10, <2>1, <2>2 DEF SyncInv, BarrInv, AtBarrier
<1>13. ASSUME NEW g \in Host PROVE Due(g)' = Due(g)
  <2>1. BarriersLeft(g)' = BarriersLeft(g)
    BY <1>1 DEF BarriersLeft
  <2>2. Released(g)' <=> Released(g)
    BY <1>1, <1>2, <1>9 DEF Released, InCall
  <2> QED BY <2>1, <2>2 DEF Due
<1> QED BY <1>1, <1>8, <1>11, <1>12, <1>13 DEF SyncInv, BarrInv, SameDue

\* A message of a barrier that is taken was the only one: a BARR of its
\* sender, a BARRGRANT to its receiver.
LEMMA BarrAlone ==
    ASSUME Routing, NEW h \in Host, NEW e, e \in InFlight, e.op \in BarrOps,
           NEW rest, rest \subseteq InFlight, \A m \in rest : Before(e, m)
    PROVE  /\ e.op = "BARR" => \A m \in rest : ~(m.op = "BARR" /\ m.frompid = e.frompid)
           /\ e.op = "BARRGRANT" => \A m \in rest : ~(m.op = "BARRGRANT" /\ m.topid = e.topid)
<1>1. \A m \in InFlight : Route(m)
  BY DEF Routing, InFlight
<1> QED BY <1>1 DEF Before, BarrOps, Route

\* barrgrantserver: the grant under way becomes a grant received.
LEMMA BarrGrantServerBarr ==
    ASSUME IInv, SyncInv, NEW h \in Host, BarrGrantServer(h)
    PROVE  SyncInv' /\ SameDue
<1>1. /\ inq[h] # <<>> /\ Req(h).op = "BARRGRANT" /\ Receive(h) /\ UNCHANGED <<mainVars, outq, acqc>>
      /\ \A g \in Host : wait'[g].acq = wait[g].acq
      /\ wait'[h].barr = FALSE /\ \A g \in Host \ {h} : wait'[g].barr = wait[g].barr
  BY DEF BarrGrantServer, Handles, IInv, TypeOK, WaitType
<1>2. \A l \in Locks : locks'[l].acqs = locks[l].acqs
  <2>1. locks \in [LockIds -> LockRec] /\ Locks \subseteq LockIds
    BY HidelockFact DEF IInv, TypeOK, LocksType, LockRec
  <2>2. UNCHANGED locks \/ ClearLocks(h)
    BY DEF BarrGrantServer
  <2> QED BY <2>1, <2>2 DEF ClearLocks, LockRec
<1>3. /\ Routing' /\ Order' /\ InFlight = InFlight' \cup {Req(h)}
      /\ \A m \in InFlight' : Before(Req(h), m)
  BY <1>1, ServerTakes DEF IInv, SyncInv, LockInv
<1>4. Req(h).topid = h
  BY <1>1, ReceiveNet DEF IInv, SyncInv, LockInv
<1>5. LockInv'
  <2>1. SameTokens
    BY <1>1, <1>3 DEF SameTokens, TokenOps
  <2> QED BY <1>1, <1>2, <1>3, <2>1, DullServer DEF SyncInv
<1>6. HasBarrGrant(h) /\ ~HasBarrGrant(h)'
  <2>1. HasBarrGrant(h)
    BY <1>1, <1>3, <1>4 DEF HasBarrGrant
  <2>2. \A m \in InFlight' : ~(m.op = "BARRGRANT" /\ m.topid = h)
    <3>1. Req(h) \in InFlight /\ Req(h).op \in BarrOps /\ InFlight' \subseteq InFlight
      BY <1>1, <1>3 DEF BarrOps
    <3> QED BY <1>1, <1>3, <1>4, <3>1, BarrAlone DEF SyncInv, LockInv
  <2> QED BY <2>1, <2>2 DEF HasBarrGrant
<1>7. \A g \in Host : /\ HasBarr(g)' <=> HasBarr(g)
                      /\ g # h => (HasBarrGrant(g)' <=> HasBarrGrant(g))
  BY <1>1, <1>3, <1>4 DEF HasBarr, HasBarrGrant
<1>8. /\ Arrived(h) /\ ~HasBarr(h) /\ ~Arrived(h)'
      /\ \A g \in Host \ {h} : Arrived(g)' <=> Arrived(g)
  <2>1. Arrived(h) /\ ~HasBarr(h)
    BY <1>6 DEF SyncInv, BarrInv, AtBarrier
  <2> QED BY <1>1, <2>1 DEF Arrived, mainVars
<1>9. Counted' = Counted
  BY <1>6, <1>7, <1>8 DEF Counted
<1>10. \A g \in Host : AtBarrier(g)'
  <2>1. \A g \in Host : /\ \A l : InCall(g, l, "barrier")' <=> InCall(g, l, "barrier")
                        /\ stack'[g] = stack[g] /\ pc'[g] = pc[g]
    BY <1>1 DEF InCall, CallOf, mainVars
  <2> QED BY <1>6, <1>7, <1>8, <2>1 DEF SyncInv, BarrInv, AtBarrier
<1>11. ASSUME NEW g \in Host PROVE Due(g)' = Due(g)
  <2>1. BarriersLeft(g)' = BarriersLeft(g)
    BY <1>1 DEF BarriersLeft, mainVars
  <2>2. Released(g)' <=> Released(g)
    BY <1>1, <1>6, <1>7 DEF Released, mainVars
  <2> QED BY <2>1, <2>2 DEF Due
<1> QED BY <1>1, <1>5, <1>9, <1>10, <1>11 DEF SyncInv, BarrInv, SameDue

\* The last of n rounds over the hosts begins after n - 1 whole ones.
LEMMA LastChunk ==
    ASSUME NEW n \in Nat, n >= 1, NEW H \in Nat
    PROVE  \E T \in Nat, k \in Nat : /\ T = n * H /\ k = n - 1 /\ ~(k + 1 < n)
                                    /\ H * k \in Nat /\ H * k + H = T
<1>1. n * H \in Nat /\ n - 1 \in Nat /\ H * (n - 1) \in Nat
  OBVIOUS
<1>2. H * (n - 1) + H = n * H /\ ~(n - 1 + 1 < n)
  OBVIOUS
<1> QED BY <1>1, <1>2, Zenon

\* grantbarr sends every host INVLD messages and one BARRGRANT.
LEMMA BarrGrantsSendable ==
    ASSUME NEW h \in Host, h = Manager(hidelock), NEW lk \in LockRec, IsFiniteSet(lk.wtnts),
           \A g \in Host : ~HasBarrGrant(g)
    PROVE  /\ Sendable(h, BarrGrantMsgs(h, lk))
           /\ \A n \in Elements(BarrGrantMsgs(h, lk)) : n.op \in {"INVLD", "BARRGRANT"}
           /\ \A g \in Host : \E n \in Elements(BarrGrantMsgs(h, lk)) :
                 n.op = "BARRGRANT" /\ n.topid = g
<1>2. PICK N \in Nat : N >= 1 /\ N = NumChunks(Cardinality({[page |-> k.page, from |-> k.from] :
                                                            k \in lk.wtnts}))
  <2>1. lk.wtnts \in SUBSET Notice
    BY DEF LockRec
  <2>2. PICK list : list = {[page |-> k.page, from |-> k.from] : k \in lk.wtnts}
    OBVIOUS
  <2>3. IsFiniteSet(list)
    BY <2>1, <2>2, ProjectionType
  <2>4. Cardinality(list) \in Nat
    BY <2>3, FS_CardinalityType
  <2> QED BY <2>2, <2>4, ChunkPositive
<1>3. HostC \in Nat /\ HostC > 0 /\ Host = 0 .. HostC - 1
  BY HostAssumption DEF Host
<1>5. PICK T \in Nat, k \in Nat : /\ T = N * HostC /\ k = N - 1 /\ ~(k + 1 < N)
                                    /\ HostC * k \in Nat /\ HostC * k + HostC = T
  BY <1>2, <1>3, LastChunk
<1>1. PICK msgs \in Seq(Message) : msgs = BarrGrantMsgs(h, lk)
  BY BarrGrantMsgsType
<1>4. /\ DOMAIN msgs = 1 .. N * HostC
      /\ \A i \in 1 .. N * HostC :
            /\ msgs[i].frompid = h /\ msgs[i].topid = (i - 1) % HostC
            /\ msgs[i].op = IF (i - 1) \div HostC + 1 < N THEN "INVLD" ELSE "BARRGRANT"
  BY <1>1, <1>2 DEF BarrGrantMsgs
<1>6. 1 .. Len(msgs) = 1 .. T
  BY <1>4, <1>5
<1>7. ASSUME NEW i \in 1 .. T, NEW j \in 1 .. T, msgs[i].op = "BARRGRANT",
             msgs[j].op = "BARRGRANT", msgs[i].topid = msgs[j].topid
      PROVE  i = j
  <2>1. PICK a \in Nat, b \in Nat : a = i - 1 /\ b = j - 1 /\ a < N * HostC /\ b < N * HostC
    BY <1>5
  <2>2. /\ a \div HostC \in Int /\ a \div HostC < N /\ a = HostC * (a \div HostC) + (a % HostC)
        /\ b \div HostC \in Int /\ b \div HostC < N /\ b = HostC * (b \div HostC) + (b % HostC)
    BY <1>2, <1>3, <2>1, DivBelow
  <2>3. ~(a \div HostC + 1 < N) /\ ~(b \div HostC + 1 < N) /\ a % HostC = b % HostC
    BY <1>4, <1>5, <1>7, <2>1
  <2>4. a \div HostC = b \div HostC
    BY <1>2, <2>2, <2>3
  <2>5. a = b
    BY <2>2, <2>3, <2>4, Zenon
  <2> QED BY <2>1, <2>5
<1>8. ASSUME NEW g \in Host
      PROVE  \E i \in 1 .. T : msgs[i].op = "BARRGRANT" /\ msgs[i].topid = g
  <2>2. PICK a \in Nat : a = HostC * k + g /\ a + 1 <= T
    BY <1>3, <1>5
  <2>3. a \div HostC = k /\ a % HostC = g
    BY <1>3, <2>2, DivExact
  <2>4. PICK i \in 1 .. T : i = a + 1 /\ i - 1 = a
    BY <2>2
  <2>5. msgs[i].topid = a % HostC /\ msgs[i].op = IF a \div HostC + 1 < N THEN "INVLD" ELSE "BARRGRANT"
    BY <1>4, <1>5, <2>4
  <2> QED BY <1>5, <2>3, <2>5
<1>9. \A i \in 1 .. T : msgs[i].frompid = h /\ msgs[i].op \in {"INVLD", "BARRGRANT"}
  BY <1>4, <1>5
<1>10. \A n \in Elements(msgs) : n.frompid = h /\ n.op \in {"INVLD", "BARRGRANT"} /\ n \in Message
  BY <1>6, <1>9 DEF Elements
<1>11. \A g \in Host : \E n \in Elements(msgs) : n.op = "BARRGRANT" /\ n.topid = g
  BY <1>6, <1>8 DEF Elements
<1>12. InOrder(msgs)
  <2> SUFFICES ASSUME NEW i \in 1 .. Len(msgs), NEW j \in 1 .. Len(msgs), i < j
               PROVE  Before(msgs[i], msgs[j])
    BY DEF InOrder
  <2>1. i \in 1 .. T /\ j \in 1 .. T /\ i # j
    BY <1>6
  <2>2. ~(msgs[i].op = "BARRGRANT" /\ msgs[j].op = "BARRGRANT" /\ msgs[i].topid = msgs[j].topid)
    BY <1>7, <2>1
  <2> QED BY <1>9, <2>1, <2>2 DEF Before, BarrOps
<1>13. \A n \in Elements(msgs) : Route(n)
  BY <1>10 DEF Route, TokenOps
<1>14. ASSUME NEW n \in Elements(msgs), NEW m \in InFlight PROVE Before(m, n)
  <2>1. n.topid \in Host
    BY <1>10, MessageTypes
  <2> QED BY <1>10, <2>1 DEF Before, BarrOps, HasBarrGrant
<1> QED BY <1>1, <1>10, <1>11, <1>12, <1>13, <1>14 DEF Sendable

\* barrserver: the host is counted; if it is the last, all hosts have been and
\* all are granted.
LEMMA BarrServerBarr ==
    ASSUME IInv, SyncInv, NEW h \in Host, BarrServer(h)
    PROVE  SyncInv' /\ (Even => Even')
<1>1. /\ inq[h] # <<>> /\ Req(h).op = "BARR" /\ Receive(h) /\ UNCHANGED <<mainVars, wait>>
      /\ \A l \in Locks : locks'[l] = locks[l]
  BY HidelockFact DEF BarrServer, Handles, IInv, TypeOK, LocksType
<1>2. PICK g \in Host : g = Req(h).frompid /\ h = Manager(hidelock) /\ Req(h) \in InFlight
  <2>1. Req(h) \in Message /\ Req(h).topid = h /\ Route(Req(h)) /\ Req(h) \in InFlight
    BY <1>1, ReceiveNet DEF IInv, SyncInv, LockInv
  <2> QED BY <1>1, <2>1, MessageTypes DEF Route
<1>3. HasBarr(g) /\ Arrived(g) /\ ~HasBarrGrant(g) /\ g \notin Counted
  <2>1. HasBarr(g)
    BY <1>1, <1>2 DEF HasBarr
  <2> QED BY <2>1 DEF SyncInv, BarrInv, AtBarrier, Counted
<1>4. /\ IsFiniteSet(Host) /\ Cardinality(Host) = HostC
      /\ IsFiniteSet(Counted) /\ Counted \subseteq Host
      /\ IsFiniteSet(Counted \cup {g}) /\ Cardinality(Counted \cup {g}) = acqc + 1
  <2>1. IsFiniteSet(Host) /\ Cardinality(Host) = HostC
    <3>1. 0 \in Int /\ HostC - 1 \in Int /\ ~(0 > HostC - 1) /\ HostC - 1 - 0 + 1 = HostC
      BY HostAssumption
    <3>2. IsFiniteSet(0 .. HostC - 1) /\ Cardinality(0 .. HostC - 1) = HostC - 1 - 0 + 1
      BY <3>1, FS_Interval
    <3> QED BY <3>1, <3>2 DEF Host
  <2>2. Counted \subseteq Host
    BY DEF Counted
  <2>3. IsFiniteSet(Counted)
    BY <2>1, <2>2, FS_Subset
  <2>4. IsFiniteSet(Counted \cup {g}) /\ Cardinality(Counted \cup {g}) = Cardinality(Counted) + 1
    BY <1>3, <2>3, FS_AddElement
  <2> QED BY <2>1, <2>2, <2>3, <2>4 DEF SyncInv, BarrInv
<1>5. /\ \A f \in Host : /\ \A l : InCall(f, l, "barrier")' <=> InCall(f, l, "barrier")
                         /\ stack'[f] = stack[f] /\ pc'[f] = pc[f]
                         /\ Arrived(f)' <=> Arrived(f)
                         /\ BarriersLeft(f)' = BarriersLeft(f)
  BY <1>1 DEF InCall, CallOf, Arrived, BarriersLeft, mainVars
<1>6. CASE ~LastArrival
  <2>1. UNCHANGED outq /\ acqc' = acqc + 1
    BY <1>6 DEF BarrServer
  <2>2. /\ Routing' /\ Order' /\ InFlight = InFlight' \cup {Req(h)}
        /\ \A m \in InFlight' : Before(Req(h), m)
    BY <1>1, <2>1, ServerTakes DEF IInv, SyncInv, LockInv
  <2>3. LockInv'
    <3>1. SameTokens
      BY <1>1, <2>2 DEF SameTokens, TokenOps
    <3> QED BY <1>1, <2>2, <3>1, DullServer DEF SyncInv
  <2>4. ~HasBarr(g)'
    <3>1. Req(h).op \in BarrOps /\ InFlight' \subseteq InFlight
      BY <1>1, <2>2 DEF BarrOps
    <3>2. \A m \in InFlight' : ~(m.op = "BARR" /\ m.frompid = g)
      BY <1>1, <1>2, <2>2, <3>1, BarrAlone DEF SyncInv, LockInv
    <3> QED BY <3>2 DEF HasBarr
  <2>5. \A f \in Host : /\ f # g => (HasBarr(f)' <=> HasBarr(f))
                        /\ HasBarrGrant(f)' <=> HasBarrGrant(f)
    BY <1>1, <1>2, <2>2 DEF HasBarr, HasBarrGrant
  <2>6. Counted' = Counted \cup {g}
    BY <1>3, <1>5, <2>4, <2>5 DEF Counted
  <2>7. \A f \in Host : AtBarrier(f)'
    BY <1>5, <2>4, <2>5 DEF SyncInv, BarrInv, AtBarrier
  <2>8. \A f \in Host : Due(f)' = Due(f)
    <3>1. \A f \in Host : Released(f)' <=> Released(f)
      BY <1>1, <1>5, <2>5 DEF Released
    <3> QED BY <1>5, <3>1 DEF Due
  <2> QED BY <1>4, <2>1, <2>3, <2>6, <2>7, <2>8 DEF SyncInv, BarrInv, Even
<1>7. CASE LastArrival
  <2>1. Counted \cup {g} = Host
    BY <1>4, <1>7, FS_Subset DEF LastArrival
  <2>2. \A f \in Host : Arrived(f) /\ ~HasBarrGrant(f) /\ (f # g => ~HasBarr(f))
    BY <1>3, <2>1 DEF Counted
  <2>3. PICK full : full \in LockRec /\ IsFiniteSet(full.wtnts) /\ Send(h, BarrGrantMsgs(h, full))
    <3>1. Req(h).wtnts \in SUBSET Pages /\ Req(h).frompid \in Host
      BY <1>1, ServedType, MessageTypes DEF Handles
    <3>2. PICK lk : lk = RecordWtnts(locks[hidelock], Req(h)) /\ lk \in LockRec /\ IsFiniteSet(lk.wtnts)
      BY <3>1, HidelockFact, LockTypeAt, RecordType
    <3>3. PICK full : full = [lk EXCEPT !.scope = NextScope(@)]
      OBVIOUS
    <3>4. full \in LockRec /\ full.wtnts = lk.wtnts
      BY <3>2, <3>3 DEF LockRec, NextScope
    <3>5. Send(h, BarrGrantMsgs(h, full))
      BY <1>7, <3>2, <3>3 DEF BarrServer
    <3> QED BY <3>2, <3>4, <3>5
  <2>4. PICK msgs : msgs = BarrGrantMsgs(h, full)
    OBVIOUS
  <2>5. /\ Sendable(h, msgs) /\ Send(h, msgs)
        /\ \A n \in Elements(msgs) : n.op \in {"INVLD", "BARRGRANT"}
        /\ \A f \in Host : \E n \in Elements(msgs) : n.op = "BARRGRANT" /\ n.topid = f
    BY <1>2, <2>2, <2>3, <2>4, BarrGrantsSendable
  <2>6. PICK rest : /\ Routing' /\ Order' /\ InFlight = rest \cup {Req(h)}
                    /\ InFlight' = rest \cup Elements(msgs)
                    /\ \A m \in rest : Before(Req(h), m)
    BY <1>1, <2>5, ServerSends DEF IInv, SyncInv, LockInv
  <2>7. LockInv'
    <3>1. SameTokens
      BY <1>1, <2>5, <2>6 DEF SameTokens, TokenOps
    <3> QED BY <1>1, <2>6, <3>1, DullServer DEF SyncInv
  <2>8. \A f \in Host : ~HasBarr(f)' /\ HasBarrGrant(f)'
    <3>1. Req(h).op \in BarrOps /\ rest \subseteq InFlight
      BY <1>1, <2>6 DEF BarrOps
    <3>2. \A m \in rest : ~(m.op = "BARR" /\ m.frompid = g)
      BY <1>1, <1>2, <2>6, <3>1, BarrAlone DEF SyncInv, LockInv
    <3>3. \A f \in Host : ~HasBarr(f)'
      BY <2>2, <2>5, <2>6, <3>1, <3>2 DEF HasBarr
    <3>4. \A f \in Host : HasBarrGrant(f)'
      BY <2>5, <2>6 DEF HasBarrGrant
    <3> QED BY <3>3, <3>4
  <2>9. Counted' = {} /\ acqc' = 0
    BY <1>7, <2>8 DEF Counted, BarrServer
  <2>10. \A f \in Host : AtBarrier(f)'
    BY <1>5, <2>2, <2>8 DEF SyncInv, BarrInv, AtBarrier
  <2>11. \A f \in Host : BarriersLeft(f)' = BarriersLeft(f) /\ ~Released(f) /\ Released(f)'
    BY <1>5, <2>2, <2>8 DEF Released, Arrived
  <2>12. Even => Even'
    <3>1. \A f \in Host : Due(f) = BarriersLeft(f) - 0 /\ Due(f)' = BarriersLeft(f) - 1
      BY <2>11 DEF Due
    <3>2. \A f \in Host : BarriersLeft(f) \in Nat
      BY LeftType DEF IInv
    <3> QED BY <3>1, <3>2 DEF Even
  <2> QED BY <2>7, <2>9, <2>10, <2>12, FS_EmptySet DEF SyncInv, BarrInv
<1> QED BY <1>6, <1>7
(***************************************************************************)
(* The theorems.                                                           *)
(***************************************************************************)
\* Initially no host is in a call, no message is under way and acqc is 0.
LEMMA InitSyncInv == Init => SyncInv /\ \A g \in Host : ~Released(g)
<1> SUFFICES ASSUME Init PROVE BarrInv /\ \A g \in Host : ~Released(g)
  BY InitLockInv DEF SyncInv
<1>1. \A g \in Host : outq[g] = <<>> /\ inq[g] = <<>> /\ pc[g] = "run"
  BY DEF Init
<1>2. \A g \in Host : Elements(outq[g]) = {} /\ Elements(inq[g]) = {}
  BY <1>1 DEF Elements
<1>3. InFlight = {}
  BY <1>2 DEF InFlight
<1>4. Counted = {} /\ acqc = 0
  BY <1>1 DEF Counted, Arrived, Init
<1>5. \A g \in Host : AtBarrier(g)
  BY <1>1, <1>3 DEF AtBarrier, InCall, HasBarr, HasBarrGrant
<1> QED BY <1>1, <1>4, <1>5, FS_EmptySet DEF BarrInv, Released

\* Every step preserves the invariant, and what all hosts agree on.
LEMMA NextSyncInv == IInv /\ SyncInv /\ [Next]_vars => SyncInv' /\ (Even => Even')
<1> SUFFICES ASSUME IInv, SyncInv, [Next]_vars PROVE SyncInv' /\ (Even => Even')
  OBVIOUS
<1>1. SameDue => (Even => Even')
  BY DEF SameDue, Even
<1>2. ASSUME NEW h \in Host, MainThread(h) PROVE SyncInv' /\ SameDue
  BY <1>2, AccessBarr, AskBarr, EndIntervalBarr, ReturnBarr, BarrierArriveBarr, BarrierLeaveBarr
  DEF MainThread
<1>3. ASSUME NEW h \in Host, ServerThread(h) PROVE SyncInv' /\ (Even => Even')
  BY <1>1, <1>3, OtherBarr, BarrServerBarr, BarrGrantServerBarr DEF ServerThread
<1>4. ASSUME NEW h \in Host, Transfer(h) PROVE SyncInv' /\ SameDue
  BY <1>4, OtherBarr
<1>5. CASE UNCHANGED vars
  <2>1. UNCHANGED <<mainVars, wait, locks, netVars, acqc>>
    BY <1>5 DEF vars, synVars
  <2>2. Routing' /\ Order' /\ SameTokens /\ SameBarrs
    BY <2>1, QuietNet DEF SyncInv, LockInv
  <2>3. LockInv'
    BY <2>1, <2>2, DullServer DEF SyncInv
  <2>4. BarrInv' /\ SameDue
    BY <2>1, <2>2, ServerBarr DEF SyncInv, SameDue
  <2> QED BY <1>1, <2>3, <2>4 DEF SyncInv
<1> QED BY <1>1, <1>2, <1>3, <1>4, <1>5 DEF Next, Finished

\* The token of every lock is where jia_lock, jia_unlock and the lock handlers
\* expect it, and barrserver counts in acqc exactly the hosts that wait and have
\* not been granted: the invariant holds in every reachable state.
THEOREM SyncInvariance == Spec => []SyncInv
BY InductiveInvariance, InitSyncInv, NextSyncInv, PTL DEF Spec

\* jia_lock excludes (jia_lock, acqserver, relserver, acqgrantserver): no two
\* hosts are inside critical sections of one lock, for any number of hosts and
\* locks, any programs and any interleaving.
THEOREM LocksExclude == Spec => []MutualExclusion
<1>1. SyncInv => MutualExclusion
  <2> SUFFICES ASSUME LockInv, NEW l \in Locks, NEW g \in Host, NEW h \in Host,
                      Holds(g, l), Holds(h, l)
               PROVE  g = h
    BY DEF MutualExclusion, SyncInv
  <2>1. AtHead(g, l) /\ AtHead(h, l)
    BY DEF LockInv, Tokens, Token
  <2> QED BY <2>1 DEF AtHead
<1> QED BY <1>1, SyncInvariance, PTL

\* relserver's assertion holds whenever it is evaluated, and acqs never holds a
\* host twice, so that its Maxhosts entries are enough.
THEOREM QueuesOfManagers == Spec => []ManagerQueues
<1>1. IInv /\ SyncInv => ManagerQueues
  <2> SUFFICES ASSUME IInv, LockInv PROVE ManagerQueues
    BY DEF SyncInv
  <2>1. ASSUME NEW h \in Host, Handles(h, "REL")
        PROVE  LET q == locks[Req(h).lock].acqs IN q # <<>> /\ Head(q).pid = Req(h).frompid
    <3>1. inq[h] # <<>> /\ inq[h] \in Seq(Message) /\ Req(h).op = "REL"
      BY <2>1 DEF Handles, IInv, TypeOK, NetType
    <3>2. Req(h) \in Message /\ Req(h) \in Elements(inq[h])
      BY <3>1, TailQueue DEF Req
    <3>3. PICK l \in Locks, g \in Host : l = Req(h).lock /\ g = Req(h).frompid
      BY <3>1, <3>2, MessageTypes DEF LockInv, Routing, Route, TokenOps
    <3>4. HasRel(g, l)
      BY <3>1, <3>2, <3>3, QueuesInFlight DEF HasRel
    <3>5. AtHead(g, l)
      BY <3>4 DEF LockInv, Tokens, Token
    <3>6. locks[l].acqs \in Seq([pid : Host, scope : Int])
      BY HidelockFact DEF IInv, TypeOK, LocksType
    <3> QED BY <3>3, <3>5, <3>6 DEF AtHead
  <2>2. QueuedOnce
    BY DEF LockInv
  <2> QED BY <2>1, <2>2 DEF ManagerQueues, QueuedOnce
<1> QED BY <1>1, InductiveInvariance, SyncInvariance, PTL

\* jia_barrier separates (jia_barrier, barrserver, barrgrantserver): when all
\* programs make equally many barrier calls, as an application that is to end
\* must, no host is past a barrier before every other has arrived at it, and no
\* two hosts are ever more than one barrier apart.
THEOREM BarriersSeparate ==
    Spec /\ (\A g, h \in Host : BarriersLeft(g) = BarriersLeft(h)) => []BarrierSeparation
<1>1. Init /\ (\A g, h \in Host : BarriersLeft(g) = BarriersLeft(h)) => Even
  BY InitSyncInv DEF Even, Due
<1>2. IInv /\ SyncInv /\ Even => BarrierSeparation
  <2> SUFFICES ASSUME IInv, SyncInv, Even, NEW g \in Host, NEW h \in Host,
                      BarriersLeft(g) < BarriersLeft(h)
               PROVE  BarriersLeft(h) = BarriersLeft(g) + 1 /\ InCall(h, "barrwait", "barrier")
    BY DEF BarrierSeparation
  <2>1. PICK a \in Nat, b \in Nat : a = BarriersLeft(g) /\ b = BarriersLeft(h) /\ a < b
    BY LeftType DEF IInv
  <2>2. a - (IF Released(g) THEN 1 ELSE 0) = b - (IF Released(h) THEN 1 ELSE 0)
    BY <2>1 DEF Even, Due
  <2>3. b = a + 1 /\ Released(h)
    BY <2>1, <2>2
  <2>4. InCall(h, "barrwait", "barrier")
    BY <2>3 DEF Released, SyncInv, BarrInv, AtBarrier
  <2> QED BY <2>1, <2>3, <2>4
<1> QED BY <1>1, <1>2, InductiveInvariance, SyncInvariance, NextSyncInv, PTL DEF Spec
=============================================================================
