--------------------------- MODULE MCMinerWorkers ---------------------------
(* Instances of MinerWorkers for TLC.                                      *)
EXTENDS MinerWorkers, TLC

CONSTANTS c1, g1, pom, share1, share2

MCCpuWorkers == {c1}
MCGpuWorkers == {g1}
MCTeams == {{c1, g1}, {g1}}
MCSlowGpus == {g1}
MCJobs == {pom, share1}
MCFull == {pom}
MCPom == {pom}
MCExtranonce == [job \in Jobs |-> IF job = share1 THEN 1 ELSE 0]

\* A pool that assigns another extranonce between two jobs.
MCShares == {share1, share2}
MCNothing == {}
MCExtranonces == (share1 :> 1) @@ (share2 :> 2)
=============================================================================
