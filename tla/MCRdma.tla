------------------------------- MODULE MCRdma -------------------------------
EXTENDS Rdma, TLC

Scenario(l, f, p) == [losses |-> l, faults |-> f, program |-> p]
Nothing == 0 :> <<>> @@ 1 :> <<>> @@ 2 :> <<>>

\* A message over connections made with a loss; connecting with a failure; more
\* messages to host 2 than it has receives for; messages of a host to itself.
MCScenarios ==
    { Scenario(1, 0, [Nothing EXCEPT ![0] = <<2>>]), Scenario(0, 1, Nothing),
      Scenario(0, 0, [Nothing EXCEPT ![0] = <<2, 2, 2>>]),
      Scenario(0, 0, [Nothing EXCEPT ![2] = <<2, 2>>]) }
=============================================================================
