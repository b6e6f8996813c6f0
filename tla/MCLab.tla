-------------------------------- MODULE MCLab --------------------------------
(* Lab with one or two launches of the client, a few iterations of the     *)
(* three modes and a few faults.                                           *)
EXTENDS Lab

CONSTANTS r1, r2, negotiated

MCModes == {Endpoints[i] : i \in 1..3}
MCStoredModes == {"classical", "hybrid"}   \* the CHECK constraint
MCGroups == {negotiated}
OneRun == {r1}
TwoRuns == {r1, r2}
OneId == <<r1>>
OwnIds == <<r1, r2>>
SameId == <<r1, r1>>
MCConns == [launch : 1..Launches, mode : MCModes,
            seq : 1..(Warmup + Iterations), rec : BOOLEAN]
MCSamples == {<<RunIdOf[l], m, i>> :
                l \in 1..Launches, m \in MCModes, i \in 1..Iterations}

NoFaults == {}
AllFaults == FaultKinds
ProbeFaults == {"connect", "tls", "server", "client"}
SlowFaults == {"connect", "slow"}
=============================================================================
