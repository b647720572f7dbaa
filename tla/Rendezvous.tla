----------------------------- MODULE Rendezvous -----------------------------
(***************************************************************************)
(* The calls in which hosts wait for each other without touching shared    *)
(* pages: jia_wait, the statistics collection that ends jia_exit (after a  *)
(* jia_wait), jia_loadbalance, and condition variables.  The application   *)
(* thread of a host sets a flag, sends a request and spins; the server     *)
(* thread of the manager counts or queues the requests and answers; the    *)
(* server thread of the caller clears the flag.  Host 0 manages the first  *)
(* three, host cv % hostc a condition variable.                            *)
(*                                                                         *)
(* Measured times, powers and statistics are abstracted to the number of   *)
(* the call they belong to.  A host that returns from jia_exit ends, and   *)
(* its other threads with it.                                              *)
(***************************************************************************)
EXTENDS Integers, Sequences, FiniteSets

CONSTANTS HostC,      \* system_setting.hostc
          Cvs,        \* condition variables the programs use
          Programs    \* the programs the hosts may run

Host == 0 .. HostC - 1
Master == 0
Call == [op : {"wait", "load", "exit"}] \cup [op : {"setcv", "resetcv", "waitcv"}, cv : Cvs]

ASSUME RendezvousAssumption ==
    /\ HostC \in Nat \ {0, 1}
    /\ Cvs \subseteq Nat
    /\ Programs \subseteq [Host -> Seq(Call)]

VARIABLES
    prog,         \* calls the application thread still has to make
    pc,           \* "run", the call it spins in, or "ended"
    flag,         \* waitwait, loadwait, waitstat and cvwait
    calls,        \* jia_loadbalance and jia_exit calls made: what is measured
    waitcounter, loadcnt, statcnt,   \* at the master
    times,        \* loadstat[].time at the master
    power,        \* loadstat[].power at each host
    allstats,     \* at the master
    condvars,     \* value and waits of each variable at its manager
    outq, inq

mainVars == <<prog, pc, calls>>
masterVars == <<waitcounter, loadcnt, statcnt, times, allstats>>
vars == <<mainVars, flag, masterVars, power, condvars, outq, inq>>

Flags == {"wait", "load", "exit", "waitcv"}

Init ==
    /\ prog \in Programs
    /\ pc = [h \in Host |-> "run"]
    /\ flag = [h \in Host |-> [f \in Flags |-> FALSE]]
    /\ calls = [h \in Host |-> 0]
    /\ waitcounter = 0 /\ loadcnt = 0 /\ statcnt = 0
    /\ times = [h \in Host |-> 0]
    /\ power = [h \in Host |-> [g \in Host |-> 0]]
    /\ allstats = [h \in Host |-> 0]
    /\ condvars = [c \in Cvs |-> [value |-> 0, waits |-> <<>>]]
    /\ outq = [h \in Host |-> <<>>]
    /\ inq = [h \in Host |-> <<>>]

-----------------------------------------------------------------------------
(***************************************************************************)
(* The application thread.                                                 *)
(***************************************************************************)
Send(h, msgs) == outq' = [outq EXCEPT ![h] = @ \o msgs]
CallOf(h) == Head(prog[h])
Calls(h, op) == pc[h] = "run" /\ prog[h] # <<>> /\ CallOf(h).op = op
Manager(cv) == cv % HostC

\* The flag is set before the request leaves.
Request(h, op, m) ==
    /\ flag' = [flag EXCEPT ![h][op] = TRUE]
    /\ Send(h, <<m>>)
    /\ pc' = [pc EXCEPT ![h] = op]

jia_wait(h) ==
    /\ Calls(h, "wait")
    /\ Request(h, "wait", [op |-> "WAIT", frompid |-> h, topid |-> Master])
    /\ UNCHANGED <<prog, calls, masterVars, power, condvars, inq>>

jia_loadbalance(h) ==
    /\ Calls(h, "load")
    /\ calls' = [calls EXCEPT ![h] = @ + 1]
    /\ Request(h, "load", [op |-> "LOADREQ", frompid |-> h, topid |-> Master,
                           time |-> calls[h] + 1])
    /\ UNCHANGED <<prog, masterVars, power, condvars, inq>>

\* jia_exit after its jia_wait.
jia_exit(h) ==
    /\ Calls(h, "exit")
    /\ calls' = [calls EXCEPT ![h] = @ + 1]
    /\ Request(h, "exit", [op |-> "STAT", frompid |-> h, topid |-> Master,
                           stat |-> calls[h] + 1])
    /\ UNCHANGED <<prog, masterVars, power, condvars, inq>>

jia_waitcv(h) ==
    /\ Calls(h, "waitcv")
    /\ Request(h, "waitcv", [op |-> "WAITCV", frompid |-> h, topid |-> Manager(CallOf(h).cv),
                             cv |-> CallOf(h).cv])
    /\ UNCHANGED <<prog, calls, masterVars, power, condvars, inq>>

\* jia_setcv and jia_resetcv do not wait.
Post(h, op, request) ==
    /\ Calls(h, op)
    /\ Send(h, <<[op |-> request, frompid |-> h, topid |-> Manager(CallOf(h).cv),
                  cv |-> CallOf(h).cv]>>)
    /\ prog' = [prog EXCEPT ![h] = Tail(@)]
    /\ UNCHANGED <<pc, calls, flag, masterVars, power, condvars, inq>>

jia_setcv(h) == Post(h, "setcv", "SETCV")
jia_resetcv(h) == Post(h, "resetcv", "RESETCV")

\* A step of a busy-wait loop.
Spin(h) == pc[h] \in Flags /\ flag[h][pc[h]] /\ UNCHANGED vars

\* The spin on a flag ends and the call returns; the process ends with
\* jia_exit.
Leave(h) ==
    /\ prog' = [prog EXCEPT ![h] = Tail(@)]
    /\ pc' = [pc EXCEPT ![h] = IF @ = "exit" THEN "ended" ELSE "run"]
    /\ UNCHANGED <<calls, flag, masterVars, power, condvars, outq, inq>>

Released(h) == pc[h] \in Flags /\ ~flag[h][pc[h]] /\ Leave(h)

\* EXIT_TIMEOUT_SEC: any host but the master stops waiting for the master's
\* answer.  Five seconds are enough for the client thread to deliver what is in
\* the out queue.
ExitTimeout(h) ==
    /\ pc[h] = "exit" /\ flag[h]["exit"] /\ h # Master /\ outq[h] = <<>>
    /\ Leave(h)

-----------------------------------------------------------------------------
(***************************************************************************)
(* The client thread: stop-and-wait.  What is addressed to a process that  *)
(* has ended is given up.                                                  *)
(***************************************************************************)
Transfer(h) ==
    /\ pc[h] # "ended" /\ outq[h] # <<>>
    /\ outq' = [outq EXCEPT ![h] = Tail(@)]
    /\ inq' = IF pc[Head(outq[h]).topid] = "ended" THEN inq
              ELSE [inq EXCEPT ![Head(outq[h]).topid] = Append(@, Head(outq[h]))]
    /\ UNCHANGED <<mainVars, flag, masterVars, power, condvars>>

-----------------------------------------------------------------------------
(***************************************************************************)
(* The server thread.                                                      *)
(***************************************************************************)
Req(h) == Head(inq[h])
Handles(h, op) ==
    /\ pc[h] # "ended" /\ inq[h] # <<>> /\ Req(h).op = op
    /\ inq' = [inq EXCEPT ![h] = Tail(@)]

\* broadcast: hosts 0, 1, ... in turn.
Broadcast(m) == [i \in 1 .. HostC |-> [m EXCEPT !.topid = i - 1]]
\* Faulty variant: statserver answers in the order of broadcast.
AnswerStatForward(m) == Broadcast(m)
\* statserver answers the master last.
AnswerStat(m) == [i \in 1 .. HostC |-> [m EXCEPT !.topid = HostC - i]]

\* Faulty variant: one request is not waited for.
AllHereEarly(counter) == counter + 1 >= HostC - 1

\* The request is the last of its round.
AllHere(counter) == counter + 1 = HostC

waitserver(h) ==
    /\ Handles(h, "WAIT")
    /\ IF AllHere(waitcounter)
       THEN /\ waitcounter' = 0
            /\ Send(h, Broadcast([op |-> "WAITGRANT", frompid |-> h, topid |-> h]))
       ELSE waitcounter' = waitcounter + 1 /\ UNCHANGED outq
    /\ UNCHANGED <<mainVars, flag, loadcnt, statcnt, times, allstats, power, condvars>>

\* jia_newload keeps the powers when the times hardly differ, and computes
\* them from the times of all hosts otherwise.
jia_newload(h, t) == {power[h], t}

loadserver(h) ==
    /\ Handles(h, "LOADREQ")
    /\ times' = [times EXCEPT ![Req(h).frompid] = Req(h).time]
    /\ IF AllHere(loadcnt)
       THEN /\ loadcnt' = 0
            /\ \E p \in jia_newload(h, times') :
                  /\ power' = [power EXCEPT ![h] = p]
                  /\ Send(h, Broadcast([op |-> "LOADGRANT", frompid |-> h, topid |-> h,
                                        power |-> p]))
       ELSE loadcnt' = loadcnt + 1 /\ UNCHANGED <<outq, power>>
    /\ UNCHANGED <<mainVars, flag, waitcounter, statcnt, allstats, condvars>>

statserver(h) ==
    /\ Handles(h, "STAT")
    /\ allstats' = [allstats EXCEPT ![Req(h).frompid] = Req(h).stat]
    /\ IF AllHere(statcnt)
       THEN /\ statcnt' = 0
            /\ Send(h, AnswerStat([op |-> "STATGRANT", frompid |-> h, topid |-> h]))
       ELSE statcnt' = statcnt + 1 /\ UNCHANGED outq
    /\ UNCHANGED <<mainVars, flag, waitcounter, loadcnt, times, power, condvars>>

\* The caller's side of an answer.
Clear(h, f) == flag' = [flag EXCEPT ![h][f] = FALSE]

waitgrantserver(h) ==
    /\ Handles(h, "WAITGRANT") /\ Clear(h, "wait")
    /\ UNCHANGED <<mainVars, masterVars, power, condvars, outq>>

\* Faulty variant: the powers of the answer are not taken over.
loadgrantserverDeaf(h) ==
    /\ Handles(h, "LOADGRANT") /\ Clear(h, "load")
    /\ UNCHANGED <<mainVars, masterVars, power, condvars, outq>>

loadgrantserver(h) ==
    /\ Handles(h, "LOADGRANT") /\ Clear(h, "load")
    /\ power' = [power EXCEPT ![h] = Req(h).power]
    /\ UNCHANGED <<mainVars, masterVars, condvars, outq>>

statgrantserver(h) ==
    /\ Handles(h, "STATGRANT") /\ Clear(h, "exit")
    /\ UNCHANGED <<mainVars, masterVars, power, condvars, outq>>

cvgrantserver(h) ==
    /\ Handles(h, "CVGRANT") /\ Clear(h, "waitcv")
    /\ UNCHANGED <<mainVars, masterVars, power, condvars, outq>>

\* grantcondv for every waiting host.
GrantAll(h, cv, waits) ==
    Send(h, [i \in 1 .. Len(waits) |->
               [op |-> "CVGRANT", frompid |-> h, topid |-> waits[i], cv |-> cv]])

\* Faulty variant: the waiting hosts stay in the list.
WaitsLeftKept(waits) == waits

\* waitc = 0
WaitsLeft(waits) == <<>>

setcvserver(h) ==
    /\ Handles(h, "SETCV")
    /\ LET cv == Req(h).cv
           waits == condvars[cv].waits
       IN  /\ condvars' = [condvars EXCEPT ![cv] = [value |-> 1, waits |-> WaitsLeft(waits)]]
           /\ GrantAll(h, cv, waits)
    /\ UNCHANGED <<mainVars, flag, masterVars, power>>

resetcvserver(h) ==
    /\ Handles(h, "RESETCV")
    /\ condvars' = [condvars EXCEPT ![Req(h).cv].value = 0]
    /\ UNCHANGED <<mainVars, flag, masterVars, power, outq>>

\* Faulty variant: a wait on a variable that is already set is queued.
IsSetNever(cv) == FALSE

IsSet(cv) == condvars[cv].value = 1

waitcvserver(h) ==
    /\ Handles(h, "WAITCV")
    /\ LET cv == Req(h).cv
           waits == Append(condvars[cv].waits, Req(h).frompid)
       IN  IF IsSet(cv)
           THEN /\ condvars' = [condvars EXCEPT ![cv].waits = WaitsLeft(waits)]
                /\ GrantAll(h, cv, waits)
           ELSE /\ condvars' = [condvars EXCEPT ![cv].waits = waits]
                /\ UNCHANGED outq
    /\ UNCHANGED <<mainVars, flag, masterVars, power>>

-----------------------------------------------------------------------------
MainThread(h) ==
    \/ jia_wait(h) \/ jia_loadbalance(h) \/ jia_exit(h)
    \/ jia_waitcv(h) \/ jia_setcv(h) \/ jia_resetcv(h)
    \/ Released(h)

ServerThread(h) ==
    \/ waitserver(h) \/ loadserver(h) \/ statserver(h)
    \/ waitgrantserver(h) \/ loadgrantserver(h) \/ statgrantserver(h) \/ cvgrantserver(h)
    \/ setcvserver(h) \/ resetcvserver(h) \/ waitcvserver(h)

Finished == (\A h \in Host : prog[h] = <<>>) /\ UNCHANGED vars

Next ==
    \/ \E h \in Host : MainThread(h) \/ Spin(h) \/ ExitTimeout(h) \/ ServerThread(h) \/ Transfer(h)
    \/ Finished

Spec == Init /\ [][Next]_vars

\* The threads of a host keep running.  Nothing is assumed of the timeout.
FairSpec == Spec /\ \A h \in Host : /\ WF_vars(MainThread(h))
                                    /\ WF_vars(ServerThread(h))
                                    /\ WF_vars(Transfer(h))

-----------------------------------------------------------------------------
CallsLeft(h, op) == Cardinality({i \in 1 .. Len(prog[h]) : prog[h][i].op = op})

\* jia_wait makes "all processors ... wait altogether before going ahead": a
\* host is past a jia_wait only if every other host is in it.
WaitSeparation ==
    \A g, h \in Host : CallsLeft(g, "wait") < CallsLeft(h, "wait") =>
        /\ CallsLeft(h, "wait") = CallsLeft(g, "wait") + 1
        /\ pc[h] = "wait"

\* The hosts divide the work the same way: outside jia_loadbalance, hosts that
\* have made as many of these calls have the same powers, computed from times
\* of one and the same round.
LoadAgreement ==
    \A g, h \in Host :
        pc[g] # "load" /\ pc[h] # "load" /\ CallsLeft(g, "load") = CallsLeft(h, "load") =>
            /\ power[g] = power[h]
            /\ \A i, j \in Host : power[g][i] = power[g][j]

WaitsFor == [WAITGRANT |-> "wait", LOADGRANT |-> "load", STATGRANT |-> "exit",
             CVGRANT |-> "waitcv"]
InTransit == UNION {{outq[h][i] : i \in 1 .. Len(outq[h])}
                    \cup {inq[h][i] : i \in 1 .. Len(inq[h])} : h \in Host}

\* Every answer under way is waited for: it never clears the flag of a later
\* call.  (A host that has stopped waiting in jia_exit has ended.)
GrantsAwaited ==
    \A m \in InTransit : m.op \in DOMAIN WaitsFor =>
        \/ pc[m.topid] = "ended"
        \/ /\ pc[m.topid] = WaitsFor[m.op] /\ flag[m.topid][WaitsFor[m.op]]
           /\ m.op = "CVGRANT" => CallOf(m.topid).cv = m.cv

\* When the master leaves jia_exit it has the statistics of every host, and
\* every host that still waits for the master's answer has it in its in queue:
\* the master's end leaves nobody behind.
MasterEndsLast ==
    pc[Master] = "ended" =>
        /\ allstats = calls
        /\ \A h \in Host : pc[h] = "exit" /\ flag[h]["exit"] =>
              \E i \in 1 .. Len(inq[h]) : inq[h][i].op = "STATGRANT"

\* Every program in which each waited-for variable is set ends: no wake-up and
\* no answer is lost.
AllEnd == <>(\A h \in Host : prog[h] = <<>>)
=============================================================================
