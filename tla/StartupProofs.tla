---------------------------- MODULE StartupProofs ----------------------------
(***************************************************************************)
(* What comes up of a program, for any deployment, any number of hosts and *)
(* any commands that fail.                                                 *)
(*                                                                         *)
(* Only the user's process has the program to copy, so a slave that takes  *)
(* itself for the master ends at its first copy, or has nobody to start.   *)
(* The user's process starts the hosts of its list in turn, behind the     *)
(* last copy, each with the port it has drawn; if the list is right, the   *)
(* place in the list at which a process was started is the id it takes.    *)
(***************************************************************************)
EXTENDS Startup, SequenceTheorems, TLAPS

(***************************************************************************)
(* The invariant.                                                          *)
(***************************************************************************)
\* What .jiaconf and .jiahosts can be, and the processes that read them.
Confs == {sc.conf, sc.old.conf}
Lists == Seq(DOMAIN sc.route)
Files == [conf : Confs, hosts : Lists, dir : BOOLEAN, prog : {NoFile, "old", "new"}]
Pids == {0} \cup {get_id(m, list) : m \in Machines, list \in Lists}
Comms == {"udp"} \cup {CommType(c) : c \in Confs}
Pcs == {"setting", "creat", "mkdir", "conf", "prog", "port", "start", "bind", "run", "exit"}
Processes ==
    [mach : Machines, here : BOOLEAN, arg : Nat, pc : Pcs, pid : Pids, list : Lists,
     comm : Comms, port : Nat, i : Nat \ {0}]

TypeInv ==
    /\ sc \in Scenarios
    /\ disk \in [Machines -> Files]
    /\ procs \in Seq(Processes) /\ Len(procs) >= 1

\* A list is cut to Maxhosts, and a process has the id that the list it has
\* read gives to its machine.
Settled(p) ==
    /\ Len(p.list) <= Maxhosts
    /\ p.pc \notin {"setting", "exit"} => p.pid = get_id(p.mach, p.list)

\* The first n hosts of the user's list, but for the first, have the program.
Given(n) ==
    \A j \in 2 .. n : j \in DOMAIN procs[1].list =>
        disk[sc.route[procs[1].list[j]]].prog = "new"

\* The steps of the master.
Masters == {"mkdir", "conf", "prog", "port", "start"}

\* The user's process starts others only after all copies.
UserInv ==
    LET p == procs[1]
    IN /\ p.mach = sc.user
       /\ p.pc \in Masters => p.pid = 0 /\ p.list # <<>>
       /\ p.pc \in {"conf", "prog"} => p.i <= Len(p.list) /\ Given(p.i)
       /\ p.pc = "prog" => p.i < Len(p.list)
       /\ p.pc \in {"port", "start"} => Given(Len(p.list))
       /\ Len(procs) > 1 => /\ p.pc \in {"start", "bind", "run", "exit"} /\ p.pid = 0
                            /\ p.pid = get_id(p.mach, p.list)
                            /\ Given(Len(p.list))

\* A slave that acts as the master comes to its first copy at most, unless it
\* has nobody to start; another one has the port of the user's process.
Slave(p) ==
    /\ ~p.here /\ p.arg = procs[1].port
    /\ p.pc \in Masters => p.pid = 0
    /\ p.pc \in {"conf", "prog"} => p.i = 1
    /\ p.pc \in {"port", "start"} => Len(p.list) <= 1
    /\ p.pc \in {"bind", "run"} /\ p.pid # 0 => p.port = p.arg

\* The place of the machine of process k in the user's list.
Index(k) == get_id(procs[k].mach, procs[1].list)

\* The slaves are at different places of a right list, those that the loop
\* of startprocs has been at.
Placed ==
    Right(procs[1].list) =>
        \A k \in 2 .. Len(procs) :
            /\ Index(k) \in 1 .. Len(procs[1].list) - 1
            /\ sc.route[procs[1].list[Index(k) + 1]] = procs[k].mach
            /\ procs[1].pc = "start" => Index(k) < procs[1].i
            /\ \A j \in 2 .. Len(procs) : j # k => Index(j) # Index(k)

StartInv ==
    /\ TypeInv
    /\ \A k \in DOMAIN procs : Settled(procs[k])
    /\ UserInv
    /\ \A k \in 2 .. Len(procs) : Slave(procs[k])
    /\ Placed

-----------------------------------------------------------------------------
(***************************************************************************)
(* Steps in general.                                                       *)
(***************************************************************************)
\* The types of what the invariant is about.
LEMMA Typed ==
    ASSUME TypeInv
    PROVE  /\ Len(procs) \in Nat /\ DOMAIN procs = 1 .. Len(procs) /\ 1 \in DOMAIN procs
           /\ \A k \in DOMAIN procs : procs[k] \in Processes
           /\ sc.user \in Machines
           /\ \A ad \in DOMAIN sc.route : sc.route[ad] \in Machines
           /\ \A list \in Lists : /\ Len(list) \in Nat /\ DOMAIN list = 1 .. Len(list)
                                  /\ \A j \in 1 .. Len(list) : sc.route[list[j]] \in Machines
<1>1. /\ Len(procs) \in Nat /\ DOMAIN procs = 1 .. Len(procs) /\ 1 \in DOMAIN procs
      /\ \A k \in DOMAIN procs : procs[k] \in Processes
  BY DEF TypeInv
<1>2. PICK r : r = sc.route OBVIOUS
<1>3. sc.user \in Machines /\ r \in [DOMAIN r -> Machines]
  BY <1>2, ScenarioAssumption DEF TypeInv
<1>4. \A ad \in DOMAIN r : r[ad] \in Machines BY <1>3
<1>5. ASSUME NEW list \in Seq(DOMAIN r)
      PROVE  /\ Len(list) \in Nat /\ DOMAIN list = 1 .. Len(list)
             /\ \A j \in 1 .. Len(list) : r[list[j]] \in Machines
  <2>1. Len(list) \in Nat /\ DOMAIN list = 1 .. Len(list) OBVIOUS
  <2>2. \A j \in 1 .. Len(list) : list[j] \in DOMAIN r OBVIOUS
  <2> QED BY <1>4, <2>1, <2>2
<1> QED BY <1>1, <1>2, <1>3, <1>4, <1>5 DEF Lists

\* What the deployment determines does not change.
LEMMA Same ==
    ASSUME sc' = sc
    PROVE  /\ Files' = Files /\ Lists' = Lists /\ Processes' = Processes
           /\ \A m, list : get_id(m, list)' = get_id(m, list)
           /\ \A list : Right(list)' = Right(list)
           /\ \A p : Settled(p)' = Settled(p)
<1>1. ASSUME NEW m, NEW list PROVE Own(m, list)' = Own(m, list)
  BY DEF Own
<1>2. ASSUME NEW m, NEW list PROVE get_id(m, list)' = get_id(m, list)
  BY <1>1 DEF get_id
<1>3. Lists' = Lists /\ Confs' = Confs BY DEF Lists, Confs
<1>4. Files' = Files /\ Processes' = Processes
  <2>1. Pids' = Pids BY <1>2, <1>3 DEF Pids
  <2>2. Comms' = Comms BY <1>3 DEF Comms
  <2> QED BY <1>3, <2>1, <2>2 DEF Files, Processes
<1>5. \A list : Right(list)' = Right(list) BY <1>1, <1>2 DEF Right
<1>6. \A p : Settled(p)' = Settled(p) BY <1>2 DEF Settled
<1> QED BY <1>2, <1>3, <1>4, <1>5, <1>6

\* The files change, but no program that has been copied.
Kept == /\ sc' = sc
        /\ disk' \in [Machines -> Files]
        /\ \A m \in Machines : disk[m].prog = "new" => disk'[m].prog = "new"

\* Process k becomes r.
Becomes(k, r) == /\ k \in DOMAIN procs /\ r \in Processes
                 /\ procs' = [procs EXCEPT ![k] = r]

\* The processes after a step of one.
LEMMA BecomesFacts ==
    ASSUME TypeInv, Kept, NEW k, NEW r, Becomes(k, r)
    PROVE  /\ TypeInv' /\ Len(procs') = Len(procs) /\ DOMAIN procs' = DOMAIN procs
           /\ procs'[k] = r
           /\ \A j \in DOMAIN procs : j # k => procs'[j] = procs[j]
<1>1. PICK s : s = procs OBVIOUS
<1>2. PICK S : S = Processes OBVIOUS
<1>3. s \in Seq(S) /\ Len(s) >= 1 /\ r \in S /\ k \in DOMAIN s /\ procs' = [s EXCEPT ![k] = r]
  BY <1>1, <1>2 DEF TypeInv, Becomes
<1>4. /\ [s EXCEPT ![k] = r] \in Seq(S) /\ Len([s EXCEPT ![k] = r]) = Len(s)
      /\ DOMAIN [s EXCEPT ![k] = r] = DOMAIN s /\ [s EXCEPT ![k] = r][k] = r
      /\ \A j \in DOMAIN s : j # k => [s EXCEPT ![k] = r][j] = s[j]
  BY <1>3
<1>5. Files' = Files /\ Processes' = Processes BY Same DEF Kept
<1>6. TypeInv' BY <1>2, <1>3, <1>4, <1>5 DEF TypeInv, Kept
<1> QED BY <1>1, <1>3, <1>4, <1>6

\* What has been given stays given.
LEMMA GivenKept ==
    ASSUME TypeInv, Kept, NEW n, Given(n), procs'[1].list = procs[1].list
    PROVE  \A j \in 2 .. n : j \in DOMAIN procs'[1].list =>
               disk'[sc'.route[procs'[1].list[j]]].prog = "new"
<1>1. procs[1] \in Processes BY Typed
<1>2. PICK l : l = procs[1].list OBVIOUS
<1>3. l \in Lists BY <1>1, <1>2 DEF Processes
<1>4. \A j \in DOMAIN l : sc.route[l[j]] \in Machines BY <1>3, Typed
<1> QED BY <1>2, <1>4 DEF Given, Kept

\* The machines of the slaves stay where they are.
LEMMA PlacedKept ==
    ASSUME TypeInv, Placed, sc' = sc, Len(procs') = Len(procs), procs'[1].i \in Nat,
           \A j \in 2 .. Len(procs) : procs'[j].mach = procs[j].mach,
           Len(procs) > 1 =>
               /\ procs'[1].list = procs[1].list
               /\ procs'[1].pc = "start" => procs[1].pc = "start" /\ procs[1].i <= procs'[1].i
    PROVE  Placed'
<1>1. CASE Len(procs) > 1
  <2> SUFFICES ASSUME Right(procs[1].list)',
                      NEW k \in 2 .. Len(procs)
               PROVE  /\ Index(k)' \in 1 .. Len(procs'[1].list) - 1
                      /\ sc'.route[procs'[1].list[Index(k)' + 1]] = procs'[k].mach
                      /\ procs'[1].pc = "start" => Index(k)' < procs'[1].i
                      /\ \A j \in 2 .. Len(procs) : j # k => Index(j)' # Index(k)'
    BY DEF Placed
  <2>1. PICK l : l = procs[1].list OBVIOUS
  <2>2. Right(l) /\ procs'[1].list = l BY <1>1, <2>1, Same
  <2>3. \A j \in 2 .. Len(procs) : Index(j)' = Index(j)
    BY <2>1, <2>2, Same DEF Index
  <2>4. /\ Index(k) \in 1 .. Len(l) - 1
        /\ sc.route[l[Index(k) + 1]] = procs[k].mach
        /\ procs[1].pc = "start" => Index(k) < procs[1].i
        /\ \A j \in 2 .. Len(procs) : j # k => Index(j) # Index(k)
    BY <2>1, <2>2 DEF Placed
  <2>5. procs'[1].pc = "start" => Index(k) < procs'[1].i
    <3>1. Len(l) \in Nat /\ procs[1].i \in Nat
      BY <2>1, Typed DEF Processes
    <3>2. 1 \in DOMAIN procs BY Typed
    <3> SUFFICES ASSUME procs'[1].pc = "start" PROVE Index(k) < procs'[1].i OBVIOUS
    <3>3. procs[1].pc = "start" /\ procs[1].i <= procs'[1].i BY <1>1
    <3> QED BY <2>4, <3>1, <3>3
  <2> QED BY <2>2, <2>3, <2>4, <2>5
<1>2. CASE ~ (Len(procs) > 1)
  BY <1>2, Typed DEF Placed
<1> QED BY <1>1, <1>2

\* A slave makes a step.
LEMMA SlaveMoves ==
    ASSUME StartInv, Kept, NEW k \in 2 .. Len(procs), NEW r, Becomes(k, r),
           r.mach = procs[k].mach, Settled(r), Slave(r)
    PROVE  StartInv'
<1>1. /\ TypeInv /\ UserInv /\ Placed /\ sc' = sc
      /\ \A j \in DOMAIN procs : Settled(procs[j])
      /\ \A j \in 2 .. Len(procs) : Slave(procs[j])
  BY DEF StartInv, Kept
<1>2. /\ TypeInv' /\ Len(procs') = Len(procs) /\ DOMAIN procs' = DOMAIN procs
      /\ procs'[k] = r /\ procs'[1] = procs[1]
      /\ \A j \in DOMAIN procs : j # k => procs'[j] = procs[j]
      /\ Len(procs) \in Nat /\ DOMAIN procs = 1 .. Len(procs)
  BY <1>1, BecomesFacts, Typed
<1>3. ASSUME NEW j \in DOMAIN procs' PROVE Settled(procs[j])'
  <2>1. Settled(procs'[j]) BY <1>1, <1>2
  <2> QED BY <1>1, <2>1, Same
<1>4. ASSUME NEW n, Given(n) PROVE Given(n)'
  BY <1>1, <1>2, <1>4, GivenKept DEF Given
<1>5. UserInv'
  BY <1>1, <1>2, <1>4, Same DEF UserInv
<1>6. ASSUME NEW j \in 2 .. Len(procs') PROVE Slave(procs[j])'
  <2>1. Slave(procs'[j]) BY <1>1, <1>2
  <2> QED BY <1>2, <2>1 DEF Slave
<1>7. Placed'
  <2>1. procs'[1].i \in Nat BY <1>1, <1>2, Typed DEF Processes
  <2>2. \A j \in 2 .. Len(procs) : procs'[j].mach = procs[j].mach BY <1>2
  <2> QED BY <1>1, <1>2, <2>1, <2>2, PlacedKept
<1> QED BY <1>2, <1>3, <1>5, <1>6, <1>7 DEF StartInv

\* The user's process makes a step.
LEMMA UserMoves ==
    ASSUME StartInv, Kept, NEW r, Becomes(1, r), Settled(r), UserInv',
           Len(procs) > 1 =>
               /\ r.list = procs[1].list /\ r.port = procs[1].port
               /\ r.pc = "start" => procs[1].pc = "start" /\ procs[1].i <= r.i
    PROVE  StartInv'
<1>1. /\ TypeInv /\ Placed /\ sc' = sc
      /\ \A j \in DOMAIN procs : Settled(procs[j])
      /\ \A j \in 2 .. Len(procs) : Slave(procs[j])
  BY DEF StartInv, Kept
<1>2. /\ TypeInv' /\ Len(procs') = Len(procs) /\ DOMAIN procs' = DOMAIN procs
      /\ procs'[1] = r
      /\ \A j \in DOMAIN procs : j # 1 => procs'[j] = procs[j]
      /\ Len(procs) \in Nat /\ DOMAIN procs = 1 .. Len(procs)
  BY <1>1, BecomesFacts, Typed
<1>3. ASSUME NEW j \in DOMAIN procs' PROVE Settled(procs[j])'
  <2>1. Settled(procs'[j]) BY <1>1, <1>2
  <2> QED BY <1>1, <2>1, Same
<1>4. ASSUME NEW j \in 2 .. Len(procs') PROVE Slave(procs[j])'
  <2>1. Slave(procs'[j]) /\ procs'[1].port = procs[1].port BY <1>1, <1>2
  <2> QED BY <2>1 DEF Slave
<1>5. Placed'
  <2>1. r.i \in Nat BY DEF Becomes, Processes
  <2>2. \A j \in 2 .. Len(procs) : procs'[j].mach = procs[j].mach BY <1>2
  <2> QED BY <1>1, <1>2, <2>1, <2>2, PlacedKept
<1> QED BY <1>2, <1>3, <1>4, <1>5 DEF StartInv

-----------------------------------------------------------------------------
(***************************************************************************)
(* What the steps change.                                                  *)
(***************************************************************************)
\* p at step pc with its loop variable at i.
Moved(p, pc, i) == [p EXCEPT !.pc = pc, !.i = i]

\* The rest of the process stays as it is.
LEMMA Fields ==
    ASSUME NEW p \in Processes, NEW pc \in Pcs, NEW i \in Nat \ {0}
    PROVE  LET r == Moved(p, pc, i)
           IN /\ r \in Processes /\ r.pc = pc /\ r.i = i
              /\ r.mach = p.mach /\ r.here = p.here /\ r.arg = p.arg /\ r.pid = p.pid
              /\ r.list = p.list /\ r.comm = p.comm /\ r.port = p.port
BY DEF Processes, Moved

\* Goto in terms of the process.
LEMMA GotoBecomes ==
    ASSUME TypeInv, NEW k \in DOMAIN procs, NEW pc \in Pcs, NEW i \in Nat \ {0},
           Goto(k, pc, i)
    PROVE  Becomes(k, Moved(procs[k], pc, i))
<1>1. procs[k] \in Processes BY Typed
<1>2. Moved(procs[k], pc, i) \in Processes BY <1>1, Fields
<1>3. procs' = [procs EXCEPT ![k] = Moved(procs[k], pc, i)]
  BY <1>1 DEF Goto, Moved, TypeInv
<1> QED BY <1>2, <1>3 DEF Becomes

\* A process that only goes on keeps its id and its list.
LEMMA GoesOn ==
    ASSUME NEW p, NEW pc \in Pcs, NEW i \in Nat \ {0}, p \in Processes, Settled(p),
           p.pc \notin {"setting", "exit"} \/ pc = "exit"
    PROVE  Settled(Moved(p, pc, i))
BY Fields DEF Settled

\* The host the loops of the master are at.
LEMMA PeerFacts ==
    ASSUME TypeInv, NEW k \in DOMAIN procs, More(k)
    PROVE  Peer(k) \in Machines /\ procs[k].i + 1 \in DOMAIN procs[k].list
<1>1. procs[k] \in Processes BY Typed
<1>2. PICK p : p = procs[k] OBVIOUS
<1>3. p.i \in Nat \ {0} /\ p.list \in Lists BY <1>1, <1>2 DEF Processes
<1>4. p.i + 1 \in 1 .. Len(p.list)
  BY <1>2, <1>3, Typed DEF More
<1> QED BY <1>2, <1>3, <1>4, Typed DEF Peer

\* Steps that change no file.
LEMMA KeptSame ==
    ASSUME TypeInv, sc' = sc, disk' = disk
    PROVE  Kept
BY Same DEF Kept, TypeInv

\* Steps that change the files of one machine, not the program.
LEMMA KeptOther ==
    ASSUME TypeInv, sc' = sc, NEW m \in Machines, NEW f \in Files, f.prog = disk[m].prog,
           disk' = [disk EXCEPT ![m] = f]
    PROVE  Kept
BY DEF Kept, TypeInv

\* Steps that copy the program.
LEMMA KeptProg ==
    ASSUME TypeInv, sc' = sc, NEW m \in Machines,
           disk' = [disk EXCEPT ![m].prog = "new"]
    PROVE  Kept /\ disk'[m].prog = "new"
BY DEF Kept, TypeInv, Files

\* The copies that a process has made, as long as it has the same list.
LEMMA GivenNext ==
    ASSUME TypeInv, Kept, NEW r, Becomes(1, r), r.list = procs[1].list,
           NEW n, Given(n)
    PROVE  Given(n)'
<1>1. procs'[1].list = procs[1].list BY BecomesFacts
<1> QED BY <1>1, GivenKept DEF Given

-----------------------------------------------------------------------------
(***************************************************************************)
(* The steps of a process.                                                 *)
(***************************************************************************)
\* A slave goes on: what it takes to keep the invariant.
LEMMA SlaveGoes ==
    ASSUME StartInv, Kept, NEW k \in 2 .. Len(procs), NEW pc \in Pcs, NEW i \in Nat \ {0},
           Goto(k, pc, i),
           procs[k].pc \notin {"setting", "exit"} \/ pc = "exit",
           Slave(Moved(procs[k], pc, i))
    PROVE  StartInv'
<1>1. TypeInv /\ k \in DOMAIN procs /\ procs[k] \in Processes /\ Settled(procs[k])
  <2>1. TypeInv BY DEF StartInv
  <2>2. k \in DOMAIN procs BY <2>1, Typed
  <2> QED BY <2>1, <2>2, Typed DEF StartInv
<1>2. PICK r : r = Moved(procs[k], pc, i) OBVIOUS
<1>3. Becomes(k, r) BY <1>1, <1>2, GotoBecomes
<1>4. Settled(r) BY <1>1, <1>2, GoesOn
<1>5. r.mach = procs[k].mach BY <1>1, <1>2, Fields
<1> QED BY <1>2, <1>3, <1>4, <1>5, SlaveMoves

\* The user's process goes on.
LEMMA UserGoes ==
    ASSUME StartInv, Kept, NEW pc \in Pcs, NEW i \in Nat \ {0},
           Goto(1, pc, i),
           procs[1].pc \notin {"setting", "exit"} \/ pc = "exit",
           pc \in Masters => procs[1].pid = 0 /\ procs[1].list # <<>>,
           pc \in {"conf", "prog"} => i <= Len(procs[1].list) /\ Given(i)',
           pc = "prog" => i < Len(procs[1].list),
           pc \in {"port", "start"} => Given(Len(procs[1].list)),
           Len(procs) > 1 => /\ pc \in {"start", "bind", "run", "exit"}
                             /\ pc = "start" => procs[1].pc = "start" /\ procs[1].i <= i
    PROVE  StartInv'
<1>1. TypeInv /\ 1 \in DOMAIN procs /\ procs[1] \in Processes /\ Settled(procs[1]) /\ UserInv
  <2>1. TypeInv BY DEF StartInv
  <2>2. 1 \in DOMAIN procs BY <2>1, Typed
  <2> QED BY <2>1, <2>2, Typed DEF StartInv
<1>2. PICK r : r = Moved(procs[1], pc, i) OBVIOUS
<1>3. Becomes(1, r) BY <1>1, <1>2, GotoBecomes
<1>4. Settled(r) BY <1>1, <1>2, GoesOn
<1>5. /\ r.mach = procs[1].mach /\ r.list = procs[1].list /\ r.port = procs[1].port
      /\ r.pid = procs[1].pid /\ r.pc = pc /\ r.i = i
  BY <1>1, <1>2, Fields
<1>6. procs'[1] = r /\ Len(procs') = Len(procs) /\ sc' = sc
  BY <1>1, <1>3, BecomesFacts DEF Kept
<1>7. \A n : Given(n) => Given(n)'
  BY <1>1, <1>3, <1>5, GivenNext
<1>8. get_id(r.mach, r.list)' = get_id(procs[1].mach, procs[1].list)
  BY <1>5, <1>6, Same
<1>9. UserInv'
  <2>1. procs[1].mach = sc.user BY <1>1 DEF UserInv
  <2>2. Len(procs) > 1 => /\ procs[1].pid = 0
                          /\ procs[1].pid = get_id(procs[1].mach, procs[1].list)
                          /\ Given(Len(procs[1].list))
    BY <1>1 DEF UserInv
  <2>3. Len(procs) > 1 => procs'[1].pid = get_id(procs[1].mach, procs[1].list)'
    BY <1>5, <1>6, <1>8, <2>2
  <2>4. PICK n : n = Len(procs[1].list) OBVIOUS
  <2>5. Given(n) => Given(Len(procs[1].list))'
    BY <1>5, <1>6, <1>7, <2>4 DEF Given
  <2>6. pc \in {"conf", "prog"} => Given(procs[1].i)'
    BY <1>5, <1>6 DEF Given
  <2> QED BY <1>5, <1>6, <2>1, <2>2, <2>3, <2>4, <2>5, <2>6 DEF UserInv
<1> QED BY <1>2, <1>3, <1>4, <1>5, <1>9, UserMoves

\* What is known of a process before its step.
LEMMA Before ==
    ASSUME StartInv, NEW k \in DOMAIN procs
    PROVE  /\ TypeInv /\ procs[k] \in Processes /\ Settled(procs[k])
           /\ k = 1 \/ (k \in 2 .. Len(procs) /\ Slave(procs[k]))
           /\ procs[k].list \in Lists /\ Len(procs[k].list) \in Nat /\ procs[k].i \in Nat \ {0}
<1>1. TypeInv /\ procs[k] \in Processes /\ Settled(procs[k])
      /\ DOMAIN procs = 1 .. Len(procs) /\ Len(procs) \in Nat
  BY Typed DEF StartInv
<1>2. k = 1 \/ (k \in 2 .. Len(procs) /\ Slave(procs[k])) BY <1>1 DEF StartInv
<1>3. procs[k].list \in Lists /\ procs[k].i \in Nat \ {0} BY <1>1 DEF Processes
<1> QED BY <1>1, <1>2, <1>3, Typed

\* A process may end at any time.
LEMMA ExitInv ==
    ASSUME StartInv, Kept, NEW k \in DOMAIN procs, Goto(k, "exit", 1)
    PROVE  StartInv'
<1>1. /\ procs[k] \in Processes
      /\ k = 1 \/ (k \in 2 .. Len(procs) /\ Slave(procs[k]))
  BY Before
<1>2. "exit" \in Pcs /\ "exit" \notin Masters /\ 1 \in Nat \ {0} BY DEF Pcs, Masters
<1>3. CASE k = 1
  BY <1>2, <1>3, UserGoes DEF Masters
<1>4. CASE k \in 2 .. Len(procs) /\ Slave(procs[k])
  <2>1. PICK r : r = Moved(procs[k], "exit", 1) OBVIOUS
  <2>2. r.pc = "exit" /\ r.here = procs[k].here /\ r.arg = procs[k].arg
    BY <1>1, <1>2, <2>1, Fields
  <2>3. Slave(r) BY <1>4, <2>2 DEF Slave, Masters
  <2> QED BY <1>2, <1>4, <2>1, <2>3, SlaveGoes
<1> QED BY <1>1, <1>3, <1>4

\* get_hosts returns a list of at most Maxhosts hosts.
LEMMA HostsRead ==
    ASSUME TypeInv, NEW m \in Machines
    PROVE  get_hosts(m) \in Lists /\ Len(get_hosts(m)) <= Maxhosts
<1>1. PICK D, s : D = DOMAIN sc.route /\ s = disk[m].hosts OBVIOUS
<1>2. s \in Seq(D) BY <1>1 DEF TypeInv, Files, Lists
<1>3. PICK n \in Nat : n = (IF Len(s) < Maxhosts THEN Len(s) ELSE Maxhosts)
  BY <1>2, MaxhostsAssumption
<1>4. n <= Len(s) /\ n <= Maxhosts BY <1>2, <1>3, MaxhostsAssumption
<1>5. \A j \in 1 .. n : s[j] \in D BY <1>2, <1>4
<1>6. SubSeq(s, 1, n) \in Seq(D) /\ Len(SubSeq(s, 1, n)) = IF 1 <= n THEN n - 1 + 1 ELSE 0
  BY <1>5, SubSeqProperties
<1>7. Len(SubSeq(s, 1, n)) = n BY <1>6
<1> QED BY <1>1, <1>3, <1>4, <1>6, <1>7 DEF get_hosts, Lists

\* init_setting takes the id that the list gives to the machine.
LEMMA InitSettingInv ==
    ASSUME StartInv, NEW k \in DOMAIN procs, init_setting(k)
    PROVE  StartInv'
<1>1. /\ TypeInv /\ procs[k] \in Processes /\ Settled(procs[k])
      /\ k = 1 \/ (k \in 2 .. Len(procs) /\ Slave(procs[k]))
      /\ UserInv /\ procs[k].pc = "setting"
  BY Before DEF StartInv, init_setting, At
<1>2. Kept BY <1>1, KeptSame DEF init_setting
<1>3. CASE Goto(k, "exit", 1) BY <1>2, <1>3, ExitInv
<1>4. CASE ~ Goto(k, "exit", 1)
  <2>1. PICK p, m, l, id, c, r :
          /\ p = procs[k] /\ m = p.mach /\ l = get_hosts(m) /\ id = get_id(m, l)
          /\ c = (IF Len(l) = 1 /\ CommType(disk[m].conf) = "rdma"
                  THEN "udp" ELSE CommType(disk[m].conf))
          /\ r = [p EXCEPT !.pc = "creat", !.list = l, !.pid = id, !.comm = c]
    OBVIOUS
  <2>2. m \in Machines BY <1>1, <2>1 DEF Processes
  <2>3. l \in Lists /\ Len(l) <= Maxhosts BY <1>1, <2>1, <2>2, HostsRead
  <2>4. id \in Pids BY <2>1, <2>2, <2>3 DEF Pids
  <2>5. c \in Comms
    <3>1. disk[m].conf \in Confs BY <1>1, <2>2 DEF TypeInv, Files
    <3> QED BY <2>1, <3>1 DEF Comms
  <2>6. /\ r \in Processes /\ r.pc = "creat" /\ r.list = l /\ r.pid = id /\ r.mach = m
        /\ r.here = p.here /\ r.arg = p.arg /\ r.port = p.port
    <3>1. p \in Processes /\ "creat" \in Pcs BY <1>1, <2>1 DEF Pcs
    <3>2. r = [p EXCEPT !.pc = "creat", !.list = l, !.pid = id, !.comm = c] /\ m = p.mach
      BY <2>1
    <3> QED BY <2>3, <2>4, <2>5, <3>1, <3>2 DEF Processes
  <2>7. procs' = [procs EXCEPT ![k] = r]
    <3>1. procs' = [procs EXCEPT ![k].pc = "creat", ![k].list = l, ![k].pid = id, ![k].comm = c]
      BY <1>4, <2>1 DEF init_setting
    <3> QED BY <1>1, <2>1, <3>1 DEF TypeInv
  <2>8. Becomes(k, r) BY <2>6, <2>7 DEF Becomes
  <2>9. Settled(r) BY <2>1, <2>3, <2>6 DEF Settled
  <2>10. CASE k = 1
    <3>1. ~ (Len(procs) > 1) /\ p.mach = sc.user BY <1>1, <2>1, <2>10 DEF UserInv
    <3>2. procs'[1] = r /\ Len(procs') = Len(procs) /\ sc' = sc
      BY <1>1, <1>2, <2>8, <2>10, BecomesFacts DEF Kept
    <3>3. UserInv' BY <2>1, <2>6, <3>1, <3>2 DEF UserInv, Masters
    <3> QED BY <1>2, <2>8, <2>9, <2>10, <3>1, <3>3, UserMoves
  <2>11. CASE k \in 2 .. Len(procs) /\ Slave(procs[k])
    <3>1. Slave(r) BY <2>1, <2>6, <2>11 DEF Slave, Masters
    <3> QED BY <1>2, <2>1, <2>6, <2>8, <2>9, <2>11, <3>1, SlaveMoves
  <2> QED BY <1>1, <2>10, <2>11
<1> QED BY <1>3, <1>4

\* jiacreat: a master has id 0 and a list; a slave takes the port of -P.
LEMMA JiacreatInv ==
    ASSUME StartInv, NEW k \in DOMAIN procs, jiacreat(k)
    PROVE  StartInv'
<1>1. /\ TypeInv /\ procs[k] \in Processes /\ Settled(procs[k])
      /\ k = 1 \/ (k \in 2 .. Len(procs) /\ Slave(procs[k]))
      /\ UserInv /\ procs[k].pc = "creat"
  BY Before DEF StartInv, jiacreat, At
<1>2. Kept BY <1>1, KeptSame DEF jiacreat
<1>3. CASE Goto(k, "exit", 1) BY <1>2, <1>3, ExitInv
<1>4. CASE procs[k].list # <<>> /\ procs[k].pid = 0 /\ Goto(k, "mkdir", 1)
  <2>1. "mkdir" \in Pcs /\ 1 \in Nat \ {0} BY DEF Pcs
  <2>2. CASE k = 1
    <3>1. ~ (Len(procs) > 1) BY <1>1, <2>2 DEF UserInv
    <3> QED BY <1>1, <1>2, <1>4, <2>1, <2>2, <3>1, UserGoes
  <2>3. CASE k \in 2 .. Len(procs) /\ Slave(procs[k])
    <3>1. PICK r : r = Moved(procs[k], "mkdir", 1) OBVIOUS
    <3>2. r.pc = "mkdir" /\ r.here = procs[k].here /\ r.arg = procs[k].arg /\ r.pid = 0
      BY <1>1, <1>4, <2>1, <3>1, Fields
    <3>3. Slave(r) BY <2>3, <3>2 DEF Slave
    <3> QED BY <1>1, <1>2, <1>4, <2>1, <2>3, <3>1, <3>3, SlaveGoes
  <2> QED BY <1>1, <2>2, <2>3
<1>5. CASE procs' = [procs EXCEPT ![k].pc = "bind", ![k].port = procs[k].arg]
  <2>1. PICK p, r : p = procs[k] /\ r = [p EXCEPT !.pc = "bind", !.port = p.arg] OBVIOUS
  <2>2. /\ r \in Processes /\ r.pc = "bind" /\ r.list = p.list /\ r.pid = p.pid
        /\ r.mach = p.mach /\ r.here = p.here /\ r.arg = p.arg /\ r.port = p.arg
    BY <1>1, <2>1 DEF Processes, Pcs
  <2>3. procs' = [procs EXCEPT ![k] = r] BY <1>1, <1>5, <2>1 DEF TypeInv
  <2>4. Becomes(k, r) BY <2>2, <2>3 DEF Becomes
  <2>5. Settled(r) BY <1>1, <2>1, <2>2 DEF Settled
  <2>6. CASE k = 1
    <3>1. ~ (Len(procs) > 1) /\ p.mach = sc.user BY <1>1, <2>1, <2>6 DEF UserInv
    <3>2. procs'[1] = r /\ Len(procs') = Len(procs) /\ sc' = sc
      BY <1>1, <1>2, <2>4, <2>6, BecomesFacts DEF Kept
    <3>3. UserInv' BY <2>2, <3>1, <3>2 DEF UserInv, Masters
    <3> QED BY <1>2, <2>4, <2>5, <2>6, <3>1, <3>3, UserMoves
  <2>7. CASE k \in 2 .. Len(procs) /\ Slave(procs[k])
    <3>1. Slave(r) BY <2>1, <2>2, <2>7 DEF Slave, Masters
    <3> QED BY <1>2, <2>1, <2>2, <2>4, <2>5, <2>7, <3>1, SlaveMoves
  <2> QED BY <1>1, <2>6, <2>7
<1> QED BY <1>3, <1>4, <1>5 DEF jiacreat

\* createdir touches no program, and no copies have been made.
LEMMA CreatedirInv ==
    ASSUME StartInv, NEW k \in DOMAIN procs, createdir(k)
    PROVE  StartInv'
<1>1. /\ TypeInv /\ procs[k] \in Processes /\ Settled(procs[k])
      /\ k = 1 \/ (k \in 2 .. Len(procs) /\ Slave(procs[k]))
      /\ UserInv /\ procs[k].pc = "mkdir"
      /\ procs[k].list \in Lists /\ Len(procs[k].list) \in Nat /\ procs[k].i \in Nat \ {0}
  BY Before DEF StartInv, createdir, At
<1>2. Kept
  <2>1. CASE disk' = disk BY <1>1, <2>1, KeptSame DEF createdir
  <2>2. CASE More(k) /\ disk' = [disk EXCEPT ![Peer(k)].dir = TRUE]
    <3>1. PICK m, f : m = Peer(k) /\ f = [disk[m] EXCEPT !.dir = TRUE] OBVIOUS
    <3>2. m \in Machines BY <1>1, <2>2, <3>1, PeerFacts
    <3>3. f \in Files /\ f.prog = disk[m].prog BY <1>1, <3>1, <3>2 DEF TypeInv, Files
    <3>4. disk' = [disk EXCEPT ![m] = f] BY <1>1, <2>2, <3>1 DEF TypeInv
    <3> QED BY <1>1, <3>2, <3>3, <3>4, KeptOther DEF createdir
  <2> QED BY <2>1, <2>2 DEF createdir
<1>3. \/ Goto(k, "mkdir", procs[k].i + 1)
      \/ Goto(k, "conf", 1)
  BY DEF createdir
<1>4. PICK pc \in {"mkdir", "conf"}, i \in Nat \ {0} :
          Goto(k, pc, i) /\ (pc = "conf" => i = 1)
  <2>1. procs[k].i + 1 \in Nat \ {0} /\ 1 \in Nat \ {0} BY <1>1
  <2> QED BY <1>3, <2>1
<1>5. pc \in Pcs BY <1>4 DEF Pcs
<1>6. CASE k = 1
  <2>1. ~ (Len(procs) > 1) /\ procs[1].pid = 0 /\ procs[1].list # <<>>
    BY <1>1, <1>6 DEF UserInv, Masters
  <2>2. 1 <= Len(procs[1].list) BY <1>1, <1>6, <2>1, EmptySeq
  <2>3. Given(1)' BY DEF Given
  <2> QED BY <1>1, <1>2, <1>4, <1>5, <1>6, <2>1, <2>2, <2>3, UserGoes
<1>7. CASE k \in 2 .. Len(procs) /\ Slave(procs[k])
  <2>1. PICK r : r = Moved(procs[k], pc, i) OBVIOUS
  <2>2. /\ r.pc = pc /\ r.i = i /\ r.here = procs[k].here /\ r.arg = procs[k].arg
        /\ r.pid = procs[k].pid
    BY <1>1, <1>5, <2>1, Fields
  <2>3. Slave(r) BY <1>1, <1>4, <1>7, <2>2 DEF Slave, Masters
  <2> QED BY <1>1, <1>2, <1>4, <1>5, <1>7, <2>1, <2>3, SlaveGoes
<1> QED BY <1>1, <1>6, <1>7

\* The first scp touches no program; the loop ends behind the last host.
LEMMA CopyConfInv ==
    ASSUME StartInv, NEW k \in DOMAIN procs, CopyConf(k)
    PROVE  StartInv'
<1>1. /\ TypeInv /\ procs[k] \in Processes /\ Settled(procs[k])
      /\ k = 1 \/ (k \in 2 .. Len(procs) /\ Slave(procs[k]))
      /\ UserInv /\ procs[k].pc = "conf" /\ sc' = sc
      /\ procs[k].list \in Lists /\ Len(procs[k].list) \in Nat /\ procs[k].i \in Nat \ {0}
  BY Before DEF StartInv, CopyConf, At
<1>2. Kept
  <2>1. CASE disk' = disk BY <1>1, <2>1, KeptSame
  <2>2. CASE More(k) /\ disk' # disk
    <3>1. PICK m, h, c, f, g :
             /\ m = Peer(k) /\ h = disk[procs[k].mach].hosts /\ c = disk[procs[k].mach].conf
             /\ f = [disk[m] EXCEPT !.hosts = h] /\ g = [f EXCEPT !.conf = c]
      OBVIOUS
    <3>2. m \in Machines /\ procs[k].mach \in Machines
      BY <1>1, <2>2, <3>1, PeerFacts DEF Processes
    <3>3. h \in Lists /\ c \in Confs /\ disk[m] \in Files
      BY <1>1, <3>1, <3>2 DEF TypeInv, Files
    <3>4. /\ f \in Files /\ f.prog = disk[m].prog
          /\ g \in Files /\ g.prog = disk[m].prog
      BY <3>1, <3>3 DEF Files
    <3>5. disk' = [disk EXCEPT ![m] = f] \/ disk' = [disk EXCEPT ![m] = g]
      <4>1. PICK e : e = [disk EXCEPT ![m].hosts = h] OBVIOUS
      <4>2. disk' = e \/ disk' = [e EXCEPT ![m].conf = c]
        BY <2>2, <3>1, <4>1 DEF CopyConf
      <4>3. e = [disk EXCEPT ![m] = f] BY <1>1, <3>1, <3>2, <4>1 DEF TypeInv
      <4>4. [e EXCEPT ![m].conf = c] = [disk EXCEPT ![m] = g]
        BY <1>1, <3>1, <3>2, <4>3 DEF TypeInv
      <4> QED BY <4>2, <4>3, <4>4
    <3> QED BY <1>1, <3>2, <3>4, <3>5, KeptOther
  <2> QED BY <2>1, <2>2 DEF CopyConf
<1>3. CASE More(k) /\ Goto(k, "prog", procs[k].i)
  <2>1. PICK pc, i : pc = "prog" /\ i = procs[k].i OBVIOUS
  <2>2. pc \in Pcs /\ i \in Nat \ {0} /\ i < Len(procs[k].list)
    BY <1>1, <1>3, <2>1 DEF Pcs, More
  <2>3. CASE k = 1
    <3>1. ~ (Len(procs) > 1) /\ procs[1].pid = 0 /\ procs[1].list # <<>> /\ Given(i)
      BY <1>1, <2>1, <2>3 DEF UserInv, Masters
    <3>2. Given(i)'
      <4>1. PICK r : r = Moved(procs[1], pc, i) OBVIOUS
      <4>2. Becomes(1, r) /\ r.list = procs[1].list
        BY <1>1, <1>3, <2>1, <2>2, <2>3, <4>1, GotoBecomes, Fields
      <4> QED BY <1>1, <1>2, <3>1, <4>2, GivenNext
    <3>3. i <= Len(procs[1].list) BY <1>1, <2>2, <2>3
    <3> QED BY <1>1, <1>2, <1>3, <2>1, <2>2, <2>3, <3>1, <3>2, <3>3, UserGoes
  <2>4. CASE k \in 2 .. Len(procs) /\ Slave(procs[k])
    <3>1. PICK r : r = Moved(procs[k], pc, i) OBVIOUS
    <3>2. /\ r.pc = pc /\ r.i = i /\ r.here = procs[k].here /\ r.arg = procs[k].arg
          /\ r.pid = procs[k].pid
      BY <1>1, <2>2, <3>1, Fields
    <3>3. Slave(r) BY <1>1, <2>1, <2>4, <3>2 DEF Slave, Masters
    <3> QED BY <1>1, <1>2, <1>3, <2>1, <2>2, <2>4, <3>1, <3>3, SlaveGoes
  <2> QED BY <1>1, <2>3, <2>4
<1>4. CASE ~ More(k) /\ Goto(k, "port", 1)
  <2>1. PICK pc : pc = "port" OBVIOUS
  <2>2. pc \in Pcs /\ 1 \in Nat \ {0} /\ ~ (procs[k].i < Len(procs[k].list))
    BY <1>1, <1>4, <2>1 DEF Pcs, More
  <2>3. CASE k = 1
    <3>1. /\ ~ (Len(procs) > 1) /\ procs[1].pid = 0 /\ procs[1].list # <<>>
          /\ procs[1].i <= Len(procs[1].list) /\ Given(procs[1].i)
      BY <1>1, <2>3 DEF UserInv, Masters
    <3>2. procs[1].i = Len(procs[1].list) BY <1>1, <2>2, <2>3, <3>1
    <3>3. Given(Len(procs[1].list)) BY <3>1, <3>2
    <3> QED BY <1>1, <1>2, <1>4, <2>1, <2>2, <2>3, <3>1, <3>3, UserGoes
  <2>4. CASE k \in 2 .. Len(procs) /\ Slave(procs[k])
    <3>1. PICK r : r = Moved(procs[k], pc, 1) OBVIOUS
    <3>2. /\ r.pc = pc /\ r.i = 1 /\ r.here = procs[k].here /\ r.arg = procs[k].arg
          /\ r.pid = procs[k].pid /\ r.list = procs[k].list
      BY <1>1, <2>2, <3>1, Fields
    <3>3. procs[k].i = 1 BY <1>1, <2>4 DEF Slave
    <3>4. Len(r.list) <= 1 BY <1>1, <2>2, <3>2, <3>3
    <3>5. Slave(r) BY <1>1, <2>1, <2>4, <3>2, <3>4 DEF Slave, Masters
    <3> QED BY <1>1, <1>2, <1>4, <2>1, <2>2, <2>4, <3>1, <3>5, SlaveGoes
  <2> QED BY <1>1, <2>3, <2>4
<1> QED BY <1>3, <1>4 DEF CopyConf

\* The second scp: one more host has the program, or the process ends.
LEMMA CopyProgInv ==
    ASSUME StartInv, NEW k \in DOMAIN procs, CopyProg(k)
    PROVE  StartInv'
<1>1. /\ TypeInv /\ procs[k] \in Processes /\ Settled(procs[k])
      /\ k = 1 \/ (k \in 2 .. Len(procs) /\ Slave(procs[k]))
      /\ UserInv /\ procs[k].pc = "prog" /\ sc' = sc
      /\ procs[k].list \in Lists /\ Len(procs[k].list) \in Nat /\ procs[k].i \in Nat \ {0}
  BY Before DEF StartInv, CopyProg, At
<1>2. CASE Goto(k, "exit", 1) /\ disk' = disk
  <2>1. Kept BY <1>1, <1>2, KeptSame
  <2> QED BY <1>2, <2>1, ExitInv
<1>3. CASE /\ procs[k].here /\ disk' = [disk EXCEPT ![Peer(k)].prog = "new"]
           /\ Goto(k, "conf", procs[k].i + 1)
  <2>1. k = 1 /\ More(1) BY <1>1, <1>3 DEF Slave, UserInv, More
  <2>2. PICK m, i, n : m = Peer(k) /\ i = procs[k].i /\ n = i + 1 OBVIOUS
  <2>3. /\ m \in Machines /\ n \in DOMAIN procs[k].list /\ n \in Nat \ {0} /\ i \in Nat
        /\ "conf" \in Pcs /\ n <= Len(procs[1].list)
    <3>1. m \in Machines /\ n \in DOMAIN procs[k].list BY <1>1, <2>1, <2>2, PeerFacts
    <3>2. n <= Len(procs[1].list) BY <1>1, <2>1, <3>1, Typed
    <3> QED BY <1>1, <2>2, <3>1, <3>2 DEF Pcs
  <2>4. Kept /\ disk'[m].prog = "new"
    BY <1>1, <1>3, <2>2, <2>3, KeptProg
  <2>5. /\ ~ (Len(procs) > 1) /\ procs[1].pid = 0 /\ procs[1].list # <<>>
        /\ Given(i)
    BY <1>1, <2>1, <2>2 DEF UserInv, Masters
  <2>6. Given(n)'
    <3>1. PICK r : r = Moved(procs[1], "conf", n) OBVIOUS
    <3>2. Becomes(1, r) /\ r.list = procs[1].list
      BY <1>1, <1>3, <2>1, <2>2, <2>3, <3>1, GotoBecomes, Fields
    <3>3. Given(i)' BY <1>1, <2>4, <2>5, <3>2, GivenNext
    <3>4. procs'[1].list = procs[1].list BY <1>1, <2>4, <3>2, BecomesFacts
    <3>5. disk'[sc'.route[procs'[1].list[n]]].prog = "new"
      BY <1>1, <2>1, <2>2, <2>4, <3>4 DEF Peer
    <3>6. \A j \in 2 .. n : j \in 2 .. i \/ j = n BY <2>2, <2>3
    <3> QED BY <3>3, <3>5, <3>6 DEF Given
  <2> QED BY <1>1, <1>3, <2>1, <2>2, <2>3, <2>4, <2>5, <2>6, UserGoes
<1> QED BY <1>2, <1>3 DEF CopyProg

\* startprocs draws the port.
LEMMA DrawPortInv ==
    ASSUME StartInv, NEW k \in DOMAIN procs, DrawPort(k)
    PROVE  StartInv'
<1>1. /\ TypeInv /\ procs[k] \in Processes /\ Settled(procs[k])
      /\ k = 1 \/ (k \in 2 .. Len(procs) /\ Slave(procs[k]))
      /\ UserInv /\ procs[k].pc = "port"
  BY Before DEF StartInv, DrawPort, At
<1>2. Kept BY <1>1, KeptSame DEF DrawPort
<1>3. PICK port \in Ports :
          procs' = [procs EXCEPT ![k].pc = "start", ![k].port = port, ![k].i = 1]
  BY DEF DrawPort
<1>4. PICK p, r : p = procs[k] /\ r = [p EXCEPT !.pc = "start", !.port = port, !.i = 1]
  OBVIOUS
<1>5. /\ r \in Processes /\ r.pc = "start" /\ r.list = p.list /\ r.pid = p.pid
      /\ r.mach = p.mach /\ r.here = p.here /\ r.arg = p.arg /\ r.i = 1
  <2>1. port \in Nat BY PortsAssumption
  <2>2. p \in Processes BY <1>1, <1>4
  <2>3. "start" \in Pcs /\ 1 \in Nat \ {0} BY DEF Pcs
  <2>4. PICK q \in Nat : q = port BY <2>1
  <2>5. PICK s : s = [p EXCEPT !.pc = "start", !.port = q, !.i = 1] OBVIOUS
  <2>6. /\ s \in Processes /\ s.pc = "start" /\ s.list = p.list /\ s.pid = p.pid
        /\ s.mach = p.mach /\ s.here = p.here /\ s.arg = p.arg /\ s.i = 1
    BY <2>2, <2>3, <2>5 DEF Processes
  <2> QED BY <1>4, <2>4, <2>5, <2>6
<1>6. procs' = [procs EXCEPT ![k] = r] BY <1>1, <1>3, <1>4 DEF TypeInv
<1>7. Becomes(k, r) BY <1>5, <1>6 DEF Becomes
<1>8. Settled(r) BY <1>1, <1>4, <1>5 DEF Settled
<1>9. CASE k = 1
  <2>1. /\ ~ (Len(procs) > 1) /\ p.mach = sc.user /\ p.pid = 0 /\ p.list # <<>>
        /\ Given(Len(p.list))
    BY <1>1, <1>4, <1>9 DEF UserInv, Masters
  <2>2. procs'[1] = r /\ Len(procs') = Len(procs) /\ sc' = sc
    BY <1>1, <1>2, <1>7, <1>9, BecomesFacts DEF Kept
  <2>3. PICK n : n = Len(p.list) OBVIOUS
  <2>4. Given(n)' BY <1>1, <1>2, <1>4, <1>5, <1>7, <1>9, <2>1, <2>3, GivenNext
  <2>5. Given(Len(procs[1].list))' BY <1>5, <2>2, <2>3, <2>4 DEF Given
  <2>6. UserInv' BY <1>5, <2>1, <2>2, <2>5 DEF UserInv
  <2> QED BY <1>2, <1>7, <1>8, <1>9, <2>1, <2>6, UserMoves
<1>10. CASE k \in 2 .. Len(procs) /\ Slave(procs[k])
  <2>1. Slave(r) BY <1>1, <1>4, <1>5, <1>10 DEF Slave, Masters
  <2> QED BY <1>2, <1>4, <1>5, <1>7, <1>8, <1>10, <2>1, SlaveMoves
<1> QED BY <1>1, <1>9, <1>10

\* The sockets are bound, or the process ends.
LEMMA InitCommInv ==
    ASSUME StartInv, NEW k \in DOMAIN procs, init_comm(k)
    PROVE  StartInv'
<1>1. /\ TypeInv /\ procs[k] \in Processes /\ Settled(procs[k])
      /\ k = 1 \/ (k \in 2 .. Len(procs) /\ Slave(procs[k]))
      /\ UserInv /\ procs[k].pc = "bind"
  BY Before DEF StartInv, init_comm, At
<1>2. Kept BY <1>1, KeptSame DEF init_comm
<1>3. CASE Goto(k, "exit", 1) BY <1>2, <1>3, ExitInv
<1>4. CASE Goto(k, "run", 1)
  <2>1. "run" \in Pcs /\ 1 \in Nat \ {0} BY DEF Pcs
  <2>2. CASE k = 1
    BY <1>1, <1>2, <1>4, <2>1, <2>2, UserGoes DEF Masters
  <2>3. CASE k \in 2 .. Len(procs) /\ Slave(procs[k])
    <3>1. PICK r : r = Moved(procs[k], "run", 1) OBVIOUS
    <3>2. /\ r.pc = "run" /\ r.here = procs[k].here /\ r.arg = procs[k].arg
          /\ r.pid = procs[k].pid /\ r.port = procs[k].port
      BY <1>1, <2>1, <3>1, Fields
    <3>3. Slave(r) BY <1>1, <2>3, <3>2 DEF Slave, Masters
    <3> QED BY <1>1, <1>2, <1>4, <2>1, <2>3, <3>1, <3>3, SlaveGoes
  <2> QED BY <1>1, <2>2, <2>3
<1> QED BY <1>3, <1>4 DEF init_comm

\* The user's process starts the next host of its list.
LEMMA StartNextHost ==
    ASSUME StartInv, At(1, "start"), More(1), sc' = sc, disk' = disk,
           procs' = Append([procs EXCEPT ![1].i = @ + 1], Process(Peer(1), FALSE, procs[1].port))
    PROVE  StartInv'
<1>1. /\ TypeInv /\ procs[1] \in Processes /\ Settled(procs[1]) /\ UserInv /\ Placed
      /\ procs[1].pc = "start"
      /\ procs[1].list \in Lists /\ Len(procs[1].list) \in Nat /\ procs[1].i \in Nat \ {0}
      /\ DOMAIN procs = 1 .. Len(procs) /\ Len(procs) \in Nat /\ Len(procs) >= 1
      /\ \A j \in DOMAIN procs : Settled(procs[j])
      /\ \A j \in 2 .. Len(procs) : Slave(procs[j])
  BY Before, Typed DEF StartInv, At, TypeInv
<1>2. PICK p, l, i, m, n, r, new :
         /\ p = procs[1] /\ l = p.list /\ i = p.i /\ m = Peer(1) /\ n = Len(procs)
         /\ r = Moved(p, "start", i + 1) /\ new = Process(m, FALSE, p.port)
  OBVIOUS
<1>3. /\ m \in Machines /\ m = sc.route[l[i + 1]] /\ i + 1 \in 1 .. Len(l) /\ i \in 1 .. Len(l) - 1
      /\ n \in Nat /\ n >= 1
  <2>1. m \in Machines /\ i + 1 \in DOMAIN l BY <1>1, <1>2, PeerFacts, Typed
  <2>2. DOMAIN l = 1 .. Len(l) BY <1>1, <1>2, Typed
  <2>3. i \in Nat /\ i >= 1 /\ Len(l) \in Nat /\ n \in Nat /\ n >= 1 BY <1>1, <1>2
  <2>4. i + 1 \in 1 .. Len(l) /\ i \in 1 .. Len(l) - 1 BY <2>1, <2>2, <2>3
  <2>5. m = sc.route[l[i + 1]] BY <1>2 DEF Peer
  <2> QED BY <2>1, <2>3, <2>4, <2>5
<1>4. /\ r \in Processes /\ r.pc = "start" /\ r.i = i + 1 /\ r.list = l /\ r.pid = p.pid
      /\ r.mach = p.mach /\ r.port = p.port
  <2>1. "start" \in Pcs /\ i + 1 \in Nat \ {0} BY <1>3 DEF Pcs
  <2> QED BY <1>1, <1>2, <2>1, Fields
<1>5. /\ new \in Processes /\ new.pc = "setting" /\ new.mach = m /\ ~new.here
      /\ new.arg = p.port /\ new.list = <<>>
  <2>1. <<>> \in Lists /\ 0 \in Pids /\ "udp" \in Comms /\ "setting" \in Pcs
    BY DEF Lists, Pids, Comms, Pcs
  <2>2. p.port \in Nat BY <1>1, <1>2 DEF Processes
  <2> QED BY <1>2, <1>3, <2>1, <2>2 DEF Process, Processes
<1>6. /\ procs' \in Seq(Processes) /\ Len(procs') = n + 1
      /\ procs'[1] = r /\ procs'[n + 1] = new
      /\ \A j \in 2 .. n : procs'[j] = procs[j]
  <2>1. PICK s, S : s = [procs EXCEPT ![1] = r] /\ S = Processes OBVIOUS
  <2>2. s \in Seq(S) /\ Len(s) = n /\ s[1] = r /\ \A j \in 2 .. n : s[j] = procs[j]
    BY <1>1, <1>2, <1>4, <2>1 DEF TypeInv
  <2>3. procs' = Append(s, new)
    <3>1. [procs EXCEPT ![1].i = @ + 1] = s
      BY <1>1, <1>2, <2>1 DEF TypeInv, Moved
    <3> QED BY <1>2, <3>1
  <2>4. new \in S BY <1>5, <2>1
  <2>5. PICK t : t = Append(s, new) OBVIOUS
  <2>6. t \in Seq(S) /\ Len(t) = n + 1 /\ t[n + 1] = new /\ \A j \in 1 .. n : t[j] = s[j]
    BY <1>3, <2>2, <2>4, <2>5, AppendProperties
  <2>7. 1 \in 1 .. n /\ \A j \in 2 .. n : j \in 1 .. n BY <1>3
  <2> QED BY <2>1, <2>2, <2>3, <2>5, <2>6, <2>7
<1>7. TypeInv'
  <2>1. Files' = Files /\ Processes' = Processes BY Same
  <2>2. Len(procs') >= 1 BY <1>3, <1>6
  <2> QED BY <1>1, <1>6, <2>1, <2>2 DEF TypeInv
<1>8. ASSUME NEW j \in DOMAIN procs' PROVE Settled(procs[j])'
  <2>1. j = 1 \/ j \in 2 .. n \/ j = n + 1 BY <1>3, <1>6
  <2>2. Settled(r) BY <1>1, <1>2, <1>4 DEF Settled
  <2>3. Settled(new) BY <1>5, MaxhostsAssumption DEF Settled
  <2>4. ASSUME NEW k \in 2 .. n PROVE Settled(procs[k])
    <3>1. k \in DOMAIN procs BY <1>1, <1>2
    <3> QED BY <1>1, <3>1
  <2>5. PICK q : q = procs'[j] OBVIOUS
  <2>6. q = r \/ q = new \/ \E k \in 2 .. n : q = procs[k] BY <1>6, <2>1, <2>5
  <2>7. Settled(q) BY <2>2, <2>3, <2>4, <2>6
  <2> QED BY <2>5, <2>7, Same
<1>9. UserInv'
  <2>1. p.mach = sc.user /\ p.pid = 0 /\ l # <<>> BY <1>1, <1>2 DEF UserInv, Masters
  <2>2. p.pid = get_id(p.mach, l) BY <1>1, <1>2 DEF Settled
  <2>3. get_id(procs[1].mach, procs[1].list)' = get_id(p.mach, l) BY <1>4, <1>6, Same
  <2>4. Given(Len(l)) BY <1>1, <1>2 DEF UserInv
  <2>5. Given(Len(procs[1].list))'
    <3>1. procs'[1].list = l /\ procs[1].list = l BY <1>2, <1>4, <1>6
    <3> QED BY <2>4, <3>1 DEF Given
  <2> QED BY <1>4, <1>6, <2>1, <2>2, <2>3, <2>5 DEF UserInv
<1>10. ASSUME NEW j \in 2 .. Len(procs') PROVE Slave(procs[j])'
  <2>1. j \in 2 .. n \/ j = n + 1 BY <1>3, <1>6
  <2>2. procs'[1].port = p.port BY <1>4, <1>6
  <2>3. CASE j \in 2 .. n
    <3>1. Slave(procs[j]) /\ procs'[j] = procs[j] BY <1>1, <1>2, <1>6, <2>3
    <3> QED BY <1>2, <2>2, <3>1 DEF Slave
  <2>4. CASE j = n + 1
    BY <1>5, <1>6, <2>2, <2>4 DEF Slave, Masters
  <2> QED BY <2>1, <2>3, <2>4
<1>11. Placed'
  <2> SUFFICES ASSUME Right(procs[1].list)', NEW j \in 2 .. n + 1
               PROVE  /\ Index(j)' \in 1 .. Len(procs'[1].list) - 1
                      /\ sc'.route[procs'[1].list[Index(j)' + 1]] = procs'[j].mach
                      /\ procs'[1].pc = "start" => Index(j)' < procs'[1].i
                      /\ \A k \in 2 .. n + 1 : k # j => Index(k)' # Index(j)'
    BY <1>6 DEF Placed
  <2>1. Right(l) BY <1>4, <1>6, Same
  <2>2. ASSUME NEW k \in 2 .. n PROVE Index(k)' = Index(k)
    <3>1. PICK a : a = procs[k].mach OBVIOUS
    <3>2. procs'[k].mach = a /\ procs'[1].list = l BY <1>4, <1>6, <3>1
    <3> QED BY <1>2, <3>1, <3>2, Same DEF Index
  <2>3. Index(n + 1)' = i
    <3>1. get_id(m, l) = i
      <4>1. i \in 0 .. Len(l) - 1 BY <1>1, <1>2, <1>3
      <4> QED BY <1>3, <2>1, <4>1 DEF Right
    <3>2. procs'[n + 1].mach = m /\ procs'[1].list = l BY <1>4, <1>5, <1>6
    <3>3. Index(n + 1)' = get_id(m, l)' BY <3>2 DEF Index
    <3>4. get_id(m, l)' = get_id(m, l) BY Same
    <3> QED BY <3>1, <3>3, <3>4
  <2>4. \A k \in 2 .. n : /\ Index(k) \in 1 .. Len(l) - 1
                          /\ sc.route[l[Index(k) + 1]] = procs[k].mach
                          /\ Index(k) < i
                          /\ \A h \in 2 .. n : h # k => Index(h) # Index(k)
    BY <1>1, <1>2, <2>1 DEF Placed
  <2>5. procs'[1].list = l /\ procs'[1].i = i + 1 /\ i \in Int /\ Len(l) \in Int
    BY <1>1, <1>2, <1>4, <1>6
  <2>6. CASE j = n + 1
    <3>1. \A k \in 2 .. n + 1 : k # j => k \in 2 .. n BY <1>3, <2>6
    <3>2. \A k \in 2 .. n : Index(k)' # i BY <2>2, <2>4, <2>5
    <3>3. sc.route[l[i + 1]] = new.mach BY <1>3, <1>5
    <3>4. Index(j)' = i /\ procs'[j] = new BY <1>6, <2>3, <2>6
    <3>5. i < i + 1 BY <2>5
    <3>6. \A k \in 2 .. n + 1 : k # j => Index(k)' # Index(j)' BY <3>1, <3>2, <3>4
    <3> QED BY <1>3, <2>5, <3>3, <3>4, <3>5, <3>6
  <2>7. CASE j \in 2 .. n
    <3>1. \A k \in 2 .. n + 1 : k \in 2 .. n \/ k = n + 1 BY <1>3
    <3>2. Index(j)' = Index(j) /\ procs'[j] = procs[j] BY <1>6, <2>2, <2>7
    <3>3. PICK x : x = Index(j) OBVIOUS
    <3>4. /\ x \in 1 .. Len(l) - 1 /\ sc.route[l[x + 1]] = procs[j].mach /\ x < i
          /\ \A h \in 2 .. n : h # j => Index(h) # x
      BY <2>4, <2>7, <3>3
    <3>5. \A k \in 2 .. n + 1 : k # j => Index(k)' # x
      BY <2>2, <2>3, <2>5, <3>1, <3>4
    <3>6. x < i + 1 BY <2>5, <3>4
    <3> QED BY <2>5, <3>2, <3>3, <3>4, <3>5, <3>6
  <2>8. j \in 2 .. n \/ j = n + 1 BY <1>3
  <2> QED BY <2>6, <2>7, <2>8
<1> QED BY <1>7, <1>8, <1>9, <1>10, <1>11 DEF StartInv

\* startprocs: only the user's process has somebody to start.
LEMMA StartprocsInv ==
    ASSUME StartInv, NEW k \in DOMAIN procs, startprocs(k)
    PROVE  StartInv'
<1>1. /\ TypeInv /\ procs[k] \in Processes /\ Settled(procs[k])
      /\ k = 1 \/ (k \in 2 .. Len(procs) /\ Slave(procs[k]))
      /\ UserInv /\ procs[k].pc = "start"
      /\ procs[k].list \in Lists /\ Len(procs[k].list) \in Nat /\ procs[k].i \in Nat \ {0}
  BY Before DEF StartInv, startprocs, At
<1>2. Kept BY <1>1, KeptSame DEF startprocs
<1>3. More(k) => k = 1 BY <1>1 DEF More, Slave
<1>4. CASE /\ More(k)
           /\ procs' = Append([procs EXCEPT ![k].i = @ + 1],
                              Process(Peer(k), FALSE, procs[k].port))
  BY <1>3, <1>4, StartNextHost DEF startprocs
<1>5. CASE More(k) /\ Goto(k, "start", procs[k].i + 1)
  <2>1. "start" \in Pcs /\ procs[k].i + 1 \in Nat \ {0} BY <1>1 DEF Pcs
  <2>2. procs[1].pid = 0 /\ procs[1].list # <<>> /\ Given(Len(procs[1].list))
    BY <1>1, <1>3, <1>5 DEF UserInv, Masters
  <2>3. procs[1].i <= procs[1].i + 1 BY <1>1, <1>3, <1>5
  <2> QED BY <1>1, <1>2, <1>3, <1>5, <2>1, <2>2, <2>3, UserGoes
<1>6. CASE Goto(k, "bind", 1)
  <2>1. "bind" \in Pcs /\ 1 \in Nat \ {0} BY DEF Pcs
  <2>2. CASE k = 1
    BY <1>1, <1>2, <1>6, <2>1, <2>2, UserGoes DEF Masters
  <2>3. CASE k \in 2 .. Len(procs) /\ Slave(procs[k])
    <3>1. PICK r : r = Moved(procs[k], "bind", 1) OBVIOUS
    <3>2. /\ r.pc = "bind" /\ r.here = procs[k].here /\ r.arg = procs[k].arg
          /\ r.pid = procs[k].pid
      BY <1>1, <2>1, <3>1, Fields
    <3>3. Slave(r) BY <1>1, <2>3, <3>2 DEF Slave, Masters
    <3> QED BY <1>1, <1>2, <1>6, <2>1, <2>3, <3>1, <3>3, SlaveGoes
  <2> QED BY <1>1, <2>2, <2>3
<1> QED BY <1>4, <1>5, <1>6 DEF startprocs

\* The user's process alone.
LEMMA InitStart == Init => StartInv
<1> SUFFICES ASSUME Init PROVE StartInv
  OBVIOUS
<1>1. sc \in Scenarios /\ sc.user \in Machines /\ sc.hosts \in Lists
      /\ sc.old \in [conf : {sc.old.conf}, hosts : Lists, dir : BOOLEAN, prog : {NoFile, "old"}]
  BY ScenarioAssumption DEF Init, Lists
<1>2. disk \in [Machines -> Files]
  <2>1. PICK f, u : /\ f = [conf |-> sc.conf, hosts |-> sc.hosts, dir |-> FALSE, prog |-> "new"]
                    /\ u = sc.user
    OBVIOUS
  <2>2. f \in Files BY <1>1, <2>1 DEF Files, Confs
  <2>3. sc.old \in Files BY <1>1 DEF Files, Confs
  <2>4. disk = [m \in Machines |-> IF m = u THEN f ELSE sc.old] BY <2>1 DEF Init
  <2> QED BY <2>2, <2>3, <2>4
<1>3. PICK p : p = Process(sc.user, TRUE, 0) OBVIOUS
<1>4. /\ p \in Processes /\ p.pc = "setting" /\ p.mach = sc.user /\ p.list = <<>>
  <2>1. <<>> \in Lists /\ 0 \in Pids /\ "udp" \in Comms /\ "setting" \in Pcs
    BY DEF Lists, Pids, Comms, Pcs
  <2> QED BY <1>1, <1>3, <2>1 DEF Process, Processes
<1>5. procs = <<p>> BY <1>3 DEF Init
<1>6. procs \in Seq(Processes) /\ Len(procs) = 1 /\ procs[1] = p /\ DOMAIN procs = {1}
  BY <1>4, <1>5
<1>7. TypeInv BY <1>1, <1>2, <1>6 DEF TypeInv
<1>8. Settled(p) BY <1>4, MaxhostsAssumption DEF Settled
<1>9. UserInv BY <1>4, <1>6 DEF UserInv, Masters
<1>10. 2 .. Len(procs) = {} BY <1>6
<1>11. Placed BY <1>10 DEF Placed
<1> QED BY <1>6, <1>7, <1>8, <1>9, <1>10, <1>11 DEF StartInv

\* Every step keeps the invariant.
LEMMA NextStart == StartInv /\ [Next]_vars => StartInv'
<1> SUFFICES ASSUME StartInv, [Next]_vars PROVE StartInv'
  OBVIOUS
<1>1. CASE Next
  <2>1. PICK k \in DOMAIN procs : Step(k) BY <1>1 DEF Next
  <2> QED BY <2>1, InitSettingInv, JiacreatInv, CreatedirInv, CopyConfInv, CopyProgInv,
             DrawPortInv, StartprocsInv, InitCommInv DEF Step
<1>2. CASE UNCHANGED vars
  <2>1. sc' = sc /\ disk' = disk /\ procs' = procs BY <1>2 DEF vars
  <2>2. TypeInv' BY <2>1, Same DEF StartInv, TypeInv
  <2>3. ASSUME NEW k \in DOMAIN procs' PROVE Settled(procs[k])'
    <3>1. Settled(procs'[k]) BY <2>1 DEF StartInv
    <3> QED BY <2>1, <3>1, Same
  <2>4. ASSUME NEW n PROVE Given(n)' = Given(n) BY <2>1 DEF Given
  <2>5. UserInv'
    <3>1. UserInv BY DEF StartInv
    <3>2. get_id(procs[1].mach, procs[1].list)' = get_id(procs[1].mach, procs[1].list)
      BY <2>1, Same
    <3>3. Given(procs[1].i)' = Given(procs[1].i) BY <2>1 DEF Given
    <3>4. Given(Len(procs[1].list))' = Given(Len(procs[1].list)) BY <2>1 DEF Given
    <3> QED BY <2>1, <3>1, <3>2, <3>3, <3>4 DEF UserInv
  <2>6. ASSUME NEW k \in 2 .. Len(procs') PROVE Slave(procs[k])'
    <3>1. Slave(procs[k]) BY <2>1 DEF StartInv
    <3> QED BY <2>1, <3>1 DEF Slave
  <2>7. Placed'
    <3>1. TypeInv /\ Placed BY DEF StartInv
    <3>2. procs[1] \in Processes BY <3>1, Typed
    <3>3. procs'[1].i \in Nat /\ procs[1].i <= procs'[1].i BY <2>1, <3>2 DEF Processes
    <3> QED BY <2>1, <3>1, <3>3, PlacedKept
  <2> QED BY <2>2, <2>3, <2>5, <2>6, <2>7 DEF StartInv
<1> QED BY <1>1, <1>2

\* The invariant of the start, for any deployment, number of hosts and failures.
THEOREM StartInvariance == Spec => []StartInv
<1> QED BY InitStart, NextStart, PTL DEF Spec

\* copyfiles ends the program (local_assert) before a slave is started without
\* it or with an old one: when any slave runs, every host has the program.
THEOREM ProgramEverywhere == Spec => []StartedComplete
<1>1. StartInv => StartedComplete
  <2> SUFFICES ASSUME StartInv, NEW k \in DOMAIN procs \ {1},
                      NEW j \in 2 .. Len(procs[1].list)
               PROVE  disk[sc.route[procs[1].list[j]]].prog = "new"
    BY DEF StartedComplete
  <2>1. /\ DOMAIN procs = 1 .. Len(procs) /\ Len(procs) \in Nat
        /\ procs[1].list \in Lists
    <3>1. TypeInv BY DEF StartInv
    <3>2. 1 \in DOMAIN procs BY <3>1, Typed
    <3> QED BY <3>1, <3>2, Typed, Before
  <2>2. Len(procs) > 1 BY <2>1
  <2>3. Given(Len(procs[1].list)) BY <2>2 DEF StartInv, UserInv
  <2>4. j \in DOMAIN procs[1].list BY <2>1
  <2> QED BY <2>3, <2>4 DEF Given
<1> QED BY <1>1, StartInvariance, PTL

\* A process that came up with the user's list, when there are others.
LEMMA UpFacts ==
    ASSUME StartInv, NEW k \in Cluster, Len(procs) > 1, Right(procs[1].list),
           Own(sc.user, procs[1].list) # {}
    PROVE  LET l == procs[1].list
               a == procs[k]
           IN /\ a.pid \in 0 .. Len(l) - 1 /\ Len(l) \in Nat /\ Len(l) <= Maxhosts
              /\ sc.route[l[a.pid + 1]] = a.mach
              /\ a.port = procs[1].port /\ a.port \in Nat
              /\ a.list = l
              /\ k = 1 => a.pid = 0
              /\ k # 1 => a.pid = Index(k) /\ k \in 2 .. Len(procs) /\ a.pid >= 1
<1>1. /\ TypeInv /\ k \in DOMAIN procs /\ procs[k].pc = "run" /\ procs[k].list = procs[1].list
      /\ 1 \in DOMAIN procs
  BY Typed DEF Cluster, Up, StartInv
<1>2. /\ procs[k] \in Processes /\ procs[1] \in Processes
      /\ Settled(procs[k])
      /\ k = 1 \/ (k \in 2 .. Len(procs) /\ Slave(procs[k]))
      /\ procs[1].list \in Lists /\ Len(procs[1].list) \in Nat
  BY <1>1, Before
<1>3. PICK a, l : a = procs[k] /\ l = procs[1].list OBVIOUS
<1>4. a.pid = get_id(a.mach, l) /\ Len(l) <= Maxhosts BY <1>1, <1>2, <1>3 DEF Settled
<1>5. a.port \in Nat BY <1>2, <1>3 DEF Processes
<1>6. CASE k = 1
  <2>1. a.pid = 0 /\ a.mach = sc.user BY <1>3, <1>6 DEF StartInv, UserInv
  <2>2. l # <<>> BY <1>3 DEF Right
  <2>3. Len(l) >= 1 BY <1>2, <1>3, <2>2, EmptySeq DEF Lists
  <2>4. sc.user \in Machines BY <1>1, Typed
  <2>5. sc.route[l[a.pid + 1]] = a.mach
    <3>1. Right(l) /\ Own(sc.user, l) # {} BY <1>3
    <3>2. get_id(sc.user, l) = a.pid BY <1>4, <2>1
    <3>3. sc.route[l[get_id(sc.user, l) + 1]] = sc.user BY <2>4, <3>1, Zenon DEF Right
    <3> QED BY <2>1, <3>2, <3>3
  <2> QED BY <1>1, <1>2, <1>3, <1>4, <1>5, <1>6, <2>1, <2>3, <2>5
<1>7. CASE k \in 2 .. Len(procs) /\ Slave(procs[k])
  <2>1. a.pid = Index(k) BY <1>3, <1>4 DEF Index
  <2>2. Index(k) \in 1 .. Len(l) - 1 /\ sc.route[l[Index(k) + 1]] = a.mach
    BY <1>3, <1>7 DEF StartInv, Placed
  <2>3. a.pid # 0 /\ a.pid >= 1 /\ a.pid \in 0 .. Len(l) - 1 BY <1>2, <1>3, <2>1, <2>2
  <2>4. a.port = procs[1].port BY <1>1, <1>3, <1>7, <2>3 DEF Slave
  <2>5. k # 1 BY <1>7
  <2> QED BY <1>1, <1>2, <1>3, <1>4, <1>5, <1>7, <2>1, <2>2, <2>3, <2>4, <2>5
<1> QED BY <1>2, <1>6, <1>7

\* Hosts that come up with the same right list have different ids, and each
\* expects the datagrams and connections of the others where they send them.
THEOREM HostsConnected == Spec => []Connected
<1>1. StartInv => Connected
  <2> SUFFICES ASSUME StartInv, NEW p \in Cluster, NEW q \in Cluster, p # q,
                      Right(procs[p].list), Own(sc.user, procs[p].list) # {},
                      procs[p].comm = procs[q].comm
               PROVE  LET a == procs[p]
                          b == procs[q]
                          to == sc.route[a.list[b.pid + 1]]
                      IN /\ a.pid # b.pid /\ to = b.mach
                         /\ a.comm = "udp" => /\ a.port + a.pid = Sockets(b)[a.pid]
                                              /\ ack_port(a) = ack_port(b)
                         /\ a.comm = "rdma" => a.port + b.pid = Sockets(b)[0]
    BY DEF Connected
  <2>1. PICK a, b, l : a = procs[p] /\ b = procs[q] /\ l = procs[1].list OBVIOUS
  <2>2. a.list = l /\ b.list = l BY <2>1 DEF Cluster
  <2>3. Len(procs) > 1
    <3>1. DOMAIN procs = 1 .. Len(procs) /\ Len(procs) \in Nat BY Typed DEF StartInv
    <3> QED BY <3>1 DEF Cluster, Up
  <2>4. Right(l) /\ Own(sc.user, l) # {} BY <2>1, <2>2
  <2>5. /\ a.pid \in 0 .. Len(l) - 1 /\ b.pid \in 0 .. Len(l) - 1
        /\ Len(l) \in Nat /\ Len(l) <= Maxhosts
        /\ sc.route[l[b.pid + 1]] = b.mach
        /\ a.port = b.port /\ b.port \in Nat
        /\ p = 1 => a.pid = 0
        /\ q = 1 => b.pid = 0
        /\ p # 1 => a.pid = Index(p) /\ p \in 2 .. Len(procs) /\ a.pid >= 1
        /\ q # 1 => b.pid = Index(q) /\ q \in 2 .. Len(procs) /\ b.pid >= 1
    BY <2>1, <2>3, <2>4, UpFacts
  <2>6. a.pid # b.pid
    <3>1. CASE p = 1 \/ q = 1 BY <2>5, <3>1
    <3>2. CASE p # 1 /\ q # 1
      <4>1. Index(q) # Index(p) BY <2>1, <2>4, <2>5, <3>2 DEF StartInv, Placed
      <4> QED BY <2>5, <3>2, <4>1
    <3> QED BY <3>1, <3>2
  <2>7. ASSUME a.comm = "udp"
        PROVE  a.port + a.pid = Sockets(b)[a.pid] /\ ack_port(a) = ack_port(b)
    <3>1. b.comm = "udp" BY <2>1, <2>7
    <3>2. a.pid \in 0 .. Maxhosts /\ a.pid < Maxhosts BY <2>5, MaxhostsAssumption
    <3>3. Sockets(b)[a.pid] = b.port + a.pid BY <3>1, <3>2 DEF Sockets, rcv_port
    <3> QED BY <2>5, <3>3 DEF ack_port
  <2>8. ASSUME a.comm = "rdma" PROVE a.port + b.pid = Sockets(b)[0]
    <3>1. b.comm = "rdma" BY <2>1, <2>8
    <3>2. Sockets(b)[0] = b.port + b.pid BY <3>1 DEF Sockets
    <3> QED BY <2>5, <3>2
  <2> QED BY <2>1, <2>2, <2>5, <2>6, <2>7, <2>8
<1> QED BY <1>1, StartInvariance, PTL
=============================================================================
