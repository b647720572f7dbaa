------------------------------ MODULE Startup ------------------------------
(***************************************************************************)
(* How a program comes up on its hosts.  The user starts it on a machine;  *)
(* every process reads .jiaconf and .jiahosts where it runs and takes as   *)
(* its id the place of its own address in the list (get_id).  Host 0, or   *)
(* who takes itself for it, creates a directory on every other host,       *)
(* copies the two files and the program there, draws a port and starts the *)
(* program with -P port (jiacreat).  Then each process binds its sockets   *)
(* and runs; nobody waits for anybody (barrier0 is compiled out on Linux). *)
(***************************************************************************)
EXTENDS Integers, Sequences, FiniteSets, Functions, SequencesExt

CONSTANTS Machines,
          Scenarios,    \* deployments, see Init
          Maxhosts,
          Ports,        \* outcomes of 10000 + getpid() % 20000
          MaxFailures,  \* bound: commands (ssh, scp) that fail
          NoFile        \* no such file

ASSUME MaxhostsAssumption == Maxhosts \in Nat \ {0}
ASSUME PortsAssumption == Ports \subseteq Nat \ {0}

\* The addresses of the lists lead to machines of the deployment.
ASSUME ScenarioAssumption ==
    \A s \in Scenarios :
        /\ s.user \in Machines
        /\ s.route \in [DOMAIN s.route -> Machines]
        /\ s.hosts \in Seq(DOMAIN s.route)
        /\ s.old \in [conf : {s.old.conf}, hosts : Seq(DOMAIN s.route),
                      dir : BOOLEAN, prog : {NoFile, "old"}]

VARIABLES
    sc,     \* the deployment: user (where the program is started), hosts and
            \* conf (the user's files), old (what slaves had before), route
            \* (address -> machine), ifs (machine -> its addresses in the
            \* order of getifaddrs), busy (<<machine, port>> of other
            \* programs), args (the program has arguments)
    disk,   \* machine -> the files in the home directory
    procs,  \* the processes in the order they were started
    lost    \* commands that failed

vars == <<sc, disk, procs, lost>>

-----------------------------------------------------------------------------
(* Settings *)

\* get_options counts an unknown option off the number of options it goes
\* through, so it skips as many options at the end of the file.
Processed(conf) ==
    {i \in DOMAIN conf :
        i <= Len(conf) - Cardinality({j \in 1 .. i - 1 : conf[j] = "unknown"})}

\* The last comm_type it comes to, udp if there is none.
CommType(conf) ==
    LET given == {i \in Processed(conf) : conf[i] \in {"tcp", "udp", "rdma"}}
    IN IF given = {} THEN "udp"
       ELSE conf[CHOOSE i \in given : \A j \in given : j <= i]

\* The hosts of the list that have address ad, counted from 0.
Places(list, ad) == {i \in 0 .. Len(list) - 1 : list[i + 1] = ad}

\* Which of the machine's addresses are listed.
Own(mach, list) == {n \in DOMAIN sc.ifs[mach] : Places(list, sc.ifs[mach][n]) # {}}

\* The first place of the first of them; jia_pid stays 0 when there is none
\* (jia_init ignores what init_setting returns).
get_id(mach, list) ==
    IF Own(mach, list) = {} THEN 0 ELSE Min(Places(list, sc.ifs[mach][Min(Own(mach, list))]))

\* A process: here, whether its working directory holds the program (only
\* where the user started it); arg, the port of -P, 0 without; i, the loop
\* variable of createdir, copyfiles and startprocs.
Process(mach, here, arg) ==
    [mach |-> mach, here |-> here, arg |-> arg, pc |-> "setting", pid |-> 0,
     list |-> <<>>, comm |-> "udp", port |-> 0, i |-> 1]

Init ==
    /\ sc \in Scenarios
    /\ disk = [m \in Machines |->
                 IF m = sc.user
                 THEN [conf |-> sc.conf, hosts |-> sc.hosts, dir |-> FALSE, prog |-> "new"]
                 ELSE sc.old]
    /\ procs = <<Process(sc.user, TRUE, 0)>>
    /\ lost = 0

At(k, pc) == k \in DOMAIN procs /\ procs[k].pc = pc
Peer(k) == sc.route[procs[k].list[procs[k].i + 1]]
More(k) == procs[k].i < Len(procs[k].list)

\* Process k goes to pc, with the loop variable at i.
Goto(k, pc, i) == procs' = [procs EXCEPT ![k].pc = pc, ![k].i = i]

\* A command fails.
Fail == lost < MaxFailures /\ lost' = lost + 1

\* Hosts past Maxhosts are not read.
get_hosts(m) ==
    SubSeq(disk[m].hosts, 1,
           IF Len(disk[m].hosts) < Maxhosts THEN Len(disk[m].hosts) ELSE Maxhosts)

\* init_setting: without .jiaconf the process ends, without .jiahosts it has
\* no hosts; rdma on a single host becomes udp.
init_setting(k) ==
    /\ At(k, "setting")
    /\ LET m == procs[k].mach
           list == get_hosts(m)
       IN IF disk[m].conf = NoFile
          THEN Goto(k, "exit", 1)
          ELSE procs' = [procs EXCEPT
                 ![k].pc = "creat", ![k].list = list, ![k].pid = get_id(m, list),
                 ![k].comm = IF Len(list) = 1 /\ CommType(disk[m].conf) = "rdma"
                             THEN "udp" ELSE CommType(disk[m].conf)]
    /\ UNCHANGED <<sc, disk, lost>>

-----------------------------------------------------------------------------
(* jiacreat *)

\* Faulty variant: the slaves draw a port of their own.
jiacreatOwnPort(k) ==
    /\ At(k, "creat")
    /\ \/ procs[k].list = <<>> /\ Goto(k, "exit", 1)
       \/ procs[k].list # <<>> /\ procs[k].pid = 0 /\ Goto(k, "mkdir", 1)
       \/ /\ procs[k].list # <<>> /\ procs[k].pid # 0
          /\ \E p \in Ports : procs' = [procs EXCEPT ![k].pc = "bind", ![k].port = p]
    /\ UNCHANGED <<sc, disk, lost>>

\* Without hosts the process ends; id 0 is the master; the others take the
\* port of -P.
jiacreat(k) ==
    /\ At(k, "creat")
    /\ \/ procs[k].list = <<>> /\ Goto(k, "exit", 1)
       \/ procs[k].list # <<>> /\ procs[k].pid = 0 /\ Goto(k, "mkdir", 1)
       \/ /\ procs[k].list # <<>> /\ procs[k].pid # 0
          /\ procs' = [procs EXCEPT ![k].pc = "bind", ![k].port = procs[k].arg]
    /\ UNCHANGED <<sc, disk, lost>>

\* createdir: the result of the command is not looked at.
createdir(k) ==
    /\ At(k, "mkdir") /\ UNCHANGED sc
    /\ IF More(k)
       THEN /\ Goto(k, "mkdir", procs[k].i + 1)
            /\ \/ disk' = [disk EXCEPT ![Peer(k)].dir = TRUE] /\ UNCHANGED lost
               \/ Fail /\ UNCHANGED disk
       ELSE Goto(k, "conf", 1) /\ UNCHANGED <<disk, lost>>

\* copyfiles, first scp: .jiahosts and then .jiaconf; its result is
\* overwritten by that of the second scp.
CopyConf(k) ==
    /\ At(k, "conf") /\ UNCHANGED sc
    /\ LET here == disk[procs[k].mach]
           Copied == [disk EXCEPT ![Peer(k)].hosts = here.hosts]
       IN IF More(k)
          THEN /\ Goto(k, "prog", procs[k].i)
               /\ \/ /\ disk' = [Copied EXCEPT ![Peer(k)].conf = here.conf]
                     /\ UNCHANGED lost
                  \/ disk' \in {disk, Copied} /\ Fail
          ELSE /\ Goto(k, "port", 1)
               /\ UNCHANGED <<disk, lost>>

\* Faulty variant: the second scp is not looked at either.
CopyProgUnchecked(k) ==
    /\ At(k, "prog") /\ UNCHANGED sc
    /\ Goto(k, "conf", procs[k].i + 1)
    /\ IF procs[k].here /\ disk[Peer(k)].dir
       THEN disk' = [disk EXCEPT ![Peer(k)].prog = "new"] /\ UNCHANGED lost
       ELSE UNCHANGED <<disk, lost>>

\* copyfiles, second scp: the program, taken from the working directory; if
\* that fails local_assert ends the process.
CopyProg(k) ==
    /\ At(k, "prog") /\ UNCHANGED sc
    /\ LET Can == procs[k].here /\ disk[Peer(k)].dir
       IN \/ /\ Can
             /\ disk' = [disk EXCEPT ![Peer(k)].prog = "new"]
             /\ Goto(k, "conf", procs[k].i + 1) /\ UNCHANGED lost
          \/ /\ ~Can
             /\ Goto(k, "exit", 1) /\ UNCHANGED <<disk, lost>>
          \/ /\ Can /\ Fail
             /\ Goto(k, "exit", 1) /\ UNCHANGED disk

\* startprocs draws the port ...
DrawPort(k) ==
    /\ At(k, "port")
    /\ \E p \in Ports :
          procs' = [procs EXCEPT ![k].pc = "start", ![k].port = p, ![k].i = 1]
    /\ UNCHANGED <<sc, disk, lost>>

\* ... and runs ssh for each host without looking at the result.  Arguments of
\* the program come before it in the command, so with any the other host runs
\* the first argument instead of the program.
startprocs(k) ==
    /\ At(k, "start") /\ UNCHANGED <<sc, disk>>
    /\ IF More(k)
       THEN \/ /\ ~sc.args /\ disk[Peer(k)].prog # NoFile
               /\ procs' = Append([procs EXCEPT ![k].i = @ + 1],
                                  Process(Peer(k), FALSE, procs[k].port))
               /\ UNCHANGED lost
            \/ /\ sc.args
               /\ Goto(k, "start", procs[k].i + 1) /\ UNCHANGED lost
            \/ /\ ~sc.args /\ Fail
               /\ Goto(k, "start", procs[k].i + 1)
       ELSE Goto(k, "bind", 1) /\ UNCHANGED lost

-----------------------------------------------------------------------------
(* init_udp_comm and init_rdma_comm *)

\* The port at which the datagrams of host i are expected, the one to which
\* acknowledgements go.
rcv_port(pr, i) == pr.port + i

\* Faulty variant: the port for acknowledgements is one of the others.
ack_portInside(pr) == pr.port + Maxhosts - 1

ack_port(pr) == pr.port + Maxhosts

\* The sockets a process binds: for rdma only the listener's.
Sockets(pr) ==
    CASE pr.comm = "udp" ->
           [i \in 0 .. Maxhosts |-> IF i < Maxhosts THEN rcv_port(pr, i) ELSE ack_port(pr)]
      [] pr.comm = "rdma" -> [i \in {0} |-> pr.port + pr.pid]
      [] OTHER -> [i \in {} |-> 0]

Taken(mach) ==
    {b[2] : b \in {b \in sc.busy : b[1] = mach}}
    \cup UNION {Range(Sockets(procs[k])) :
                  k \in {k \in DOMAIN procs : procs[k].mach = mach /\ At(k, "run")}}

\* fd_create: a socket that cannot be bound ends the process.  Without -P the
\* port is 0 and the sockets are those an unprivileged user may not bind.
Bindable(pr) ==
    \/ pr.comm = "tcp"
    \/ /\ pr.port # 0
       /\ IsInjective(Sockets(pr))
       /\ Range(Sockets(pr)) \cap Taken(pr.mach) = {}

init_comm(k) ==
    /\ At(k, "bind")
    /\ Goto(k, IF Bindable(procs[k]) THEN "run" ELSE "exit", 1)
    /\ UNCHANGED <<sc, disk, lost>>

Step(k) ==
    \/ init_setting(k) \/ jiacreat(k) \/ createdir(k) \/ CopyConf(k)
    \/ CopyProg(k) \/ DrawPort(k) \/ startprocs(k) \/ init_comm(k)

Next == \E k \in DOMAIN procs : Step(k)

\* Every command the program runs comes back.
Spec == Init /\ [][Next]_vars /\ \A k \in 1 .. Maxhosts : WF_vars(Step(k))

-----------------------------------------------------------------------------
(* Properties *)

Up == {k \in DOMAIN procs : procs[k].pc = "run"}

\* A list is right if each address leads to the machine that takes it for its
\* own, and no other machine does.
Right(list) ==
    /\ list # <<>>
    /\ \A i \in 0 .. Len(list) - 1 :
          LET m == sc.route[list[i + 1]]
          IN Own(m, list) # {} /\ get_id(m, list) = i
    /\ \A m \in Machines :
          Own(m, list) # {} => sc.route[list[get_id(m, list) + 1]] = m

\* The processes that came up with the list of the user's process.
Cluster == {k \in Up : procs[k].list = procs[1].list}

\* Two processes that came up with the same right list and the same link have
\* different ids and what one sends to the other arrives at the socket at
\* which the other expects it, whatever copying of files failed (init_comm_manager,
\* client_thread; getopt of -P).  The list has to name the machine of the user: one
\* that finds no address of its own in it takes itself for host 0, and then nobody is
\* where the others expect host 0 (jia_init ignores what init_setting returns).
Connected ==
    \A p, q \in Cluster :
        LET a == procs[p]
            b == procs[q]
            to == sc.route[a.list[b.pid + 1]]
        IN p # q /\ Right(a.list) /\ Own(sc.user, a.list) # {} /\ a.comm = b.comm =>
              /\ a.pid # b.pid /\ to = b.mach
              /\ a.comm = "udp" => /\ a.port + a.pid = Sockets(b)[a.pid]
                                   /\ ack_port(a) = ack_port(b)
              /\ a.comm = "rdma" => a.port + b.pid = Sockets(b)[0]

\* No slave is started before every host of the list has this program, and a
\* host that could not be given it keeps the whole program from being started
\* (local_assert in copyfiles): no old program runs beside a new one.
StartedComplete ==
    \A k \in DOMAIN procs \ {1} :
        \A i \in 2 .. Len(procs[1].list) : disk[sc.route[procs[1].list[i]]].prog = "new"

Sound == /\ Right(sc.hosts) /\ Len(sc.hosts) <= Maxhosts
         /\ sc.user = sc.route[sc.hosts[1]]
         /\ ~sc.args /\ sc.busy = {}

\* If the list is right, host 0 is where the program was started, the ports
\* are free and no command fails, then every host comes up, all with the same
\* list and the same link.
AllUp ==
    Sound => <>(\/ lost > 0
                \/ /\ Cardinality(Up) = Len(sc.hosts)
                   /\ \A k \in Up : /\ procs[k].list = sc.hosts
                                    /\ procs[k].comm = procs[1].comm)
=============================================================================
