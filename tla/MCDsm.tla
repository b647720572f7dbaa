------------------------------- MODULE MCDsm -------------------------------
(***************************************************************************)
(* Instances of Dsm: the memory layouts and the programs of the runs.      *)
(***************************************************************************)
EXTENDS Dsm

lock(l) == [op |-> "lock", lock |-> l]
unlock(l) == [op |-> "unlock", lock |-> l]
barrier == [op |-> "barrier", lock |-> hidelock]
read(w) == [op |-> "read", word |-> w]
write(w) == [op |-> "write", word |-> w]

Section(l, body) == <<lock(l)>> \o body \o <<unlock(l)>>

\* Six words on three pages: page 1 is homed at host 1, the others at host 0.
\* Locks 0 and 1 are managed by hosts 0 and 1; "e" and "f" are guarded by none.
Layout == [a |-> <<0, 0>>, d |-> <<0, 1>>, b |-> <<1, 1>>, f |-> <<1, hidelock>>,
           c |-> <<2, 0>>, e |-> <<2, hidelock>>]
MCWords == DOMAIN Layout
MCPages == {0, 1, 2}
MCPageOf == [w \in MCWords |-> Layout[w][1]]
MCGuard == [w \in MCWords |-> Layout[w][2]]
MCHomeOf == [p \in MCPages |-> IF p = 1 THEN 1 ELSE 0]

\* Hosts 0 and 1 run two critical sections each, host 1 a nested one last.
Nested == Section(0, <<write("a")>> \o Section(1, <<write("b")>>) \o <<read("a")>>)
Sections == {Section(0, <<write("a")>>), Section(1, <<read("b"), write("b")>>),
             Nested}
LockPrograms ==
    {[h \in Host |-> CASE h = 0 -> s \o t [] h = 1 -> u \o Nested [] h = 2 -> <<>>] :
       s, t, u \in Sections}

\* Barriers: in a phase hosts 0 and 1 write the word they own, or run a critical
\* section, and after the barrier read what the other wrote.  In the second phase
\* one of them is idle.
Phase(own, other) ==
    {<<>>, <<read(other)>>, <<write(own)>>, <<read(other)>> \o Section(1, <<write("d")>>)}
Calls(s) == {s[i] : i \in DOMAIN s}
\* Phases without data races: no word is written by its owner and read by the
\* other host in the same phase.
RaceFree == {pq \in Phase("e", "f") \X Phase("f", "e") :
                /\ ~(write("e") \in Calls(pq[1]) /\ read("e") \in Calls(pq[2]))
                /\ ~(write("f") \in Calls(pq[2]) /\ read("f") \in Calls(pq[1]))}
BarrierPrograms ==
    {[h \in Host |-> CASE h = 0 -> p[1] \o <<barrier>> \o q[1] \o <<barrier, read("f")>>
                       [] h = 1 -> p[2] \o <<barrier>> \o q[2] \o <<barrier, read("e")>>
                       [] h = 2 -> <<barrier, barrier>>] :
       p \in RaceFree, q \in {r \in RaceFree : <<>> \in {r[1], r[2]}}}

\* Two words of one page on three hosts: one word under one lock, or both under
\* their locks, written only by hosts that are not the page's home.
SharingPrograms ==
    {[h \in Host |-> Section(0, <<write("a")>>)],
     [h \in Host |-> CASE h = 0 -> <<barrier>>
                       [] h = 1 -> Section(0, <<write("a")>>) \o <<barrier, read("d")>>
                       [] h = 2 -> Section(1, <<write("d")>>) \o <<barrier, read("a")>>],
     [h \in Host |-> CASE h = 0 -> <<>>
                       [] h = 1 -> Section(0, <<write("a")>>) \o Section(1, <<read("d")>>)
                       [] h = 2 -> Section(1, <<write("d")>>) \o Section(0, <<read("a")>>)]}

\* Two pages of one home, guarded by one lock, with room for one notice in a
\* message.
Touch == {<<write("a"), write("c")>>, <<read("c"), read("a")>>}
SplitPrograms ==
    {[h \in Host |-> CASE h = 0 -> Section(0, s) \o Section(0, t)
                       [] h = 1 -> Section(0, u) \o Section(0, v)
                       [] h = 2 -> <<>>] :
        s, t, u, v \in Touch}

AllPrograms == LockPrograms \cup BarrierPrograms \cup SharingPrograms \cup SplitPrograms

\* The lock is managed by host 2.  Host 1 has a copy of the page when the barrier
\* is reached, host 0 writes the word right after the barrier.
OneWord == {"a"}
OnePage == {0}
AtZero == [w \in OneWord |-> 0]
GuardedBy2 == [w \in OneWord |-> 2]
HomeZero == [p \in OnePage |-> 0]
EarlyPrograms ==
    {[h \in Host |-> CASE h = 0 -> <<barrier>> \o Section(2, <<write("a")>>)
                       [] h = 1 -> <<read("a"), barrier>> \o Section(2, <<read("a")>>)
                       [] h = 2 -> <<barrier>>]}

\* Two words on one page homed at host 0, each guarded by its own lock; the home
\* writes one of them.
FalseSharingPrograms ==
    {[h \in Host |-> IF h = 0 THEN Section(0, <<write("a")>>)
                              ELSE Section(1, <<write("d")>>) \o Section(0, <<read("a")>>)]}
=============================================================================
