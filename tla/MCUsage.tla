------------------------------- MODULE MCUsage -------------------------------
(* Instances of Usage for TLC: millicores and MiB.                          *)
EXTENDS Usage, TLC

CONSTANTS one, two, calm, busy

\* Two pods, one of them on a node whose clock is behind, and one replica.
TwoAgents == {calm, busy}
TwoUses   == (calm :> [cpu |-> 40, mem |-> 64]) @@ (busy :> [cpu |-> 90, mem |-> 256])
TwoClocks == (calm :> 0) @@ (busy :> 1)

\* One pod and two replicas.
TwoReplicas == {one, two}
OneUse      == (busy :> [cpu |-> 90, mem |-> 256])
OneClock    == (busy :> 0)
Swap        == Permutations(TwoReplicas)
=============================================================================
