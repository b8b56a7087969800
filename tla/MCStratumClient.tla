-------------------------- MODULE MCStratumClient ---------------------------
(* An instance of StratumClient for TLC.                                   *)
EXTENDS StratumClient, TLC

CONSTANTS plain, asked, other, odd, t1, t2, broken, nameless

\* Two jobs with a task, one with a task that does not parse, which is as good as none,
\* and one whose task has no stable_id and is for another model.
MCJobs == {plain, asked, other, odd}
MCTasks == {t1, t2, broken, nameless}
MCTaskOf == (plain :> broken) @@ (asked :> t1) @@ (other :> t2) @@ (odd :> nameless)
MCMalformed == {broken}
MCUnnamed == {nameless}
MCServed == {t1, t2, broken}

\* Targets at every place of the four words and above, and extranonces that fill theirs.
MCDifficulties == [mantissa : {3}, exponent : {-13, -12, -9, -6, -1, 0, 2, 3}]
MCExtranonces == {[value |-> 2 ^ (4 - size) - 1, size |-> size] : size \in 0 .. 4}
=============================================================================
