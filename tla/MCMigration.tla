---------------------------- MODULE MCMigration ----------------------------
EXTENDS Migration

\* rand() after srand(0): any fixed sequence will do.
MCRand == <<4, 2, 3, 1>>

Single ==
    {jia_alloc2p(size, start) : size \in {3, 8}, start \in {1, 2}}
    \cup {jia_alloc2(size, 5) : size \in {9, 20}}
    \cup {[op |-> "alloc4", total |-> 22, blocks |-> <<4, 8>>, start |-> start] : start \in {0, 2}}
    \cup {[op |-> "alloc", total |-> 7]}

Random == [op |-> "random", total |-> 4]
Array == [op |-> "array", total |-> 16, array |-> <<4, 8, 4>>]

\* At most one random call: with faults between two of them the hosts draw
\* different numbers and disagree.
Allocations == {<<a, b>> : a, b \in Single}
               \cup {<<Random, a>> : a \in Single} \cup {<<Array, a>> : a \in Single}

\* Phases: the accesses of hosts 0, 1 and 2.
Ph(a, b, c) == [op |-> "phase", acc |-> [h \in Host |-> CASE h = 0 -> a [] h = 1 -> b [] OTHER -> c]]
R(p) == <<"r", p>>
W(p) == <<"w", p>>
S == <<"s">>

\* Programs pass a barrier between an allocation and the first use.
B == Ph(<<>>, <<>>, <<>>)

\* n pages one after the other from host 0 on.
Pages(n) == jia_alloc2(n * Pagesize, Pagesize)
AllOn(n, h) == jia_alloc2p(n * Pagesize, h)

MCPrograms ==
    Allocations
    \cup
    { \* a page moves away and back, the last page moves into its entry
      <<AllOn(3, 0), B, Ph(<<>>, <<W(1)>>, <<>>), Ph(<<R(1)>>, <<>>, <<W(1)>>), Ph(<<W(1)>>, <<R(1)>>, <<W(2)>>)>>,
      \* page 0 never moves; two writers; a section before the barrier
      <<Pages(3), B, Ph(<<W(1), S>>, <<W(0)>>, <<W(0), R(1)>>), Ph(<<R(0)>>, <<R(1), W(1)>>, <<R(1)>>)>>,
      \* the writer of a section drops its copy before the barrier
      <<Pages(4), B, Ph(<<W(1), S, R(2), R(1)>>, <<>>, <<W(1)>>), Ph(<<>>, <<R(1)>>, <<R(1)>>)>>,
      <<AllOn(3, 1), B, Ph(<<W(1), S, R(2)>>, <<>>, <<>>), Ph(<<R(1)>>, <<R(1)>>, <<>>)>>,
      \* homes exchanged, then allocation goes on behind them
      <<Pages(3), B, Ph(<<W(1)>>, <<W(2)>>, <<>>), Pages(1), B, Ph(<<W(2)>>, <<R(1)>>, <<R(1)>>)>>,
      \* more pages than home[] entries come to one host
      <<Pages(6), B, Ph(<<W(1), S, W(2), S, W(4)>>, <<>>, <<>>), Ph(<<W(1)>>, <<R(1)>>, <<>>)>>,
      \* a home[] becomes full, then more than full
      <<AllOn(3, 0), AllOn(4, 1), B, Ph(<<>>, <<W(1)>>, <<R(1)>>), Ph(<<>>, <<W(1)>>, <<R(1)>>)>>,
      <<AllOn(3, 0), AllOn(4, 1), B, Ph(<<>>, <<W(1)>>, <<>>), Ph(<<>>, <<W(1), W(2)>>, <<>>)>> }
=============================================================================
