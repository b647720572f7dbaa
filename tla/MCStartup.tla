----------------------------- MODULE MCStartup -----------------------------
(***************************************************************************)
(* Three machines with their deployments: a right one, with and without a  *)
(* port taken on a slave and with what an earlier cluster left there; a    *)
(* list that names host 0 by its loopback address; a slave behind a        *)
(* translated address; the program started at host 1, or at a machine that *)
(* is not listed; with arguments; rdma alone on one host; an unknown       *)
(* option in front of the link's; more hosts than Maxhosts.                *)
(***************************************************************************)
EXTENDS Startup

CONSTANTS m1, m2, m3, a1, a2, a3, lo

Route == (a1 :> m1) @@ (a2 :> m2) @@ (a3 :> m3) @@ (lo :> m1)
Ifs == (m1 :> <<lo, a1>>) @@ (m2 :> <<lo, a2>>) @@ (m3 :> <<lo, a3>>)
Fresh == [conf |-> NoFile, hosts |-> <<>>, dir |-> FALSE, prog |-> NoFile]
Earlier == [conf |-> <<"rdma">>, hosts |-> <<a2, a3>>, dir |-> TRUE, prog |-> "old"]
Alone == [conf |-> <<"udp">>, hosts |-> <<a3>>, dir |-> TRUE, prog |-> "old"]

Good == [user |-> m1, hosts |-> <<a1, a2, a3>>, conf |-> <<"udp">>, old |-> Fresh,
         route |-> Route, ifs |-> Ifs, busy |-> {}, args |-> FALSE]

MCScenarios ==
    {Good,
     [Good EXCEPT !.old = Earlier],
     [Good EXCEPT !.old = Alone],
     [Good EXCEPT !.conf = <<"rdma">>, !.old = Earlier],
     [Good EXCEPT !.conf = <<"unknown", "udp", "rdma">>],
     [Good EXCEPT !.conf = <<"tcp">>],
     [Good EXCEPT !.hosts = <<a1>>, !.conf = <<"rdma">>],
     [Good EXCEPT !.busy = {<<m2, 12>>}],
     [Good EXCEPT !.hosts = <<lo, a2, a3>>],
     [Good EXCEPT !.ifs[m2] = <<lo>>],
     [Good EXCEPT !.hosts = <<a1, a2, a3, lo>>],
     [Good EXCEPT !.user = m2],
     [Good EXCEPT !.user = m3, !.hosts = <<a1, a2>>],
     [Good EXCEPT !.args = TRUE]}
=============================================================================
