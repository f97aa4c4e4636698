---- MODULE MCQuartusFlow ----
EXTENDS QuartusFlow
CONSTANTS medium, full
\* A single seed, and a list that names seeds twice and a range backwards.
MCRequests == {[chunks |-> << <<1, 1>> >>, config |-> medium],
               [chunks |-> << <<2, 1>>, <<2, 2>> >>, config |-> full]}

\* Two sweeps, or compiles by hand and baseline runs up to three; and two small
\* events or one of the others.
MCCost == [sweep |-> 3, fill |-> 2, hand |-> 2, between |-> 2, other_target |-> 1,
           commit |-> 1, build |-> 1, clean |-> 2, kill_sweep |-> 1, kill |-> 2]
====
