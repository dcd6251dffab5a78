----------------------------- MODULE MCCpuPool ------------------------------
(* Instances of CpuPool for TLC.                                            *)
EXTENDS CpuPool, TLC

CONSTANTS db, cache, twin, batch

\* Two sockets of two CPUs, numbered in turn; actuation on or off, with a reservation of
\* which the machine has one CPU.
TwoZones  == <<{0, 2}, {1, 3}>>
Partition == [enabled |-> TRUE, reserved |-> {0, 7}, minShared |-> 1, minReclaimed |-> 1]
MCConfigs == {Partition, [Partition EXCEPT !.enabled = FALSE]}

\* A dedicated pod and two of another size, replicas of each other; with three CPUs
\* and one promised to the shared tier, one pod or two are refused and run there.
ServingPods == {db, cache, twin}
MCLevel == (db :> "dedicated") @@ (cache :> "dedicated") @@ (twin :> "dedicated")
MCWant  == (db :> 2) @@ (cache :> 1) @@ (twin :> 1)
MCNuma  == {db}
Replicas == Permutations({cache, twin})

\* A dedicated and a reclaimed pod; the reclaimed tier is promised four CPUs.
BatchPods  == {db, batch}
BatchLevel == (db :> "dedicated") @@ (batch :> "reclaimed")
BatchWant  == (db :> 2) @@ (batch :> 0)
BatchConfigs == {[Partition EXCEPT !.reserved = {}, !.minReclaimed = 4]}
=============================================================================
