--------------------------- MODULE MCRendezvous ---------------------------
(***************************************************************************)
(* Three hosts: the end of every program, load balancing in two rounds,    *)
(* and a condition variable set, waited for by two hosts, reset and used   *)
(* again.                                                                  *)
(***************************************************************************)
EXTENDS Rendezvous

wait == [op |-> "wait"]
load == [op |-> "load"]
exit == [op |-> "exit"]
set(c) == [op |-> "setcv", cv |-> c]
reset(c) == [op |-> "resetcv", cv |-> c]
await(c) == [op |-> "waitcv", cv |-> c]

Ends == <<wait, exit>>

MCPrograms ==
    {[h \in Host |-> s \o Ends] : s \in {<<load, load>>, <<load, wait, load>>}} \cup
    {[h \in Host |-> CASE h = 0 -> <<set(1), wait, wait, set(1)>> \o Ends
                       [] h = 1 -> <<await(1), wait, reset(1), wait, await(1)>> \o Ends
                       [] h = 2 -> <<await(1), wait, wait, await(1)>> \o Ends],
     [h \in Host |-> CASE h = 0 -> <<await(2), wait, wait, set(1)>> \o Ends
                       [] h = 1 -> <<set(2), wait, wait, await(1), set(2)>> \o Ends
                       [] h = 2 -> <<wait, reset(2), wait, await(2)>> \o Ends]}
=============================================================================
