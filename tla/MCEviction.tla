----------------------------- MODULE MCEviction -----------------------------
(* Instances of Eviction for TLC: memory is in percent of the node.         *)
EXTENDS Eviction, TLC

CONSTANTS batch, web, infra

On == [enabled |-> TRUE, dryRun |-> FALSE, max |-> 2, plugins |-> Plugins]
MCDefault  == On
MCArmed    == {On}

GuardedPods == {batch}
TwoPods == {batch, web}
TwoTier == (batch :> "reclaimed") @@ (web :> "shared")
TwoMem  == (batch :> 10) @@ (web :> 20)
TwoCpu  == (batch :> 6) @@ (web :> 4)
TwoReq  == (batch :> 2) @@ (web :> 4)
TwoLoads == {70}

\* One eviction per minute at most.
MCSlowDefault == [On EXCEPT !.max = 1]
MCSlow        == {MCSlowDefault}
MCSlowOff == {MCSlowDefault, [MCSlowDefault EXCEPT !.enabled = FALSE]}

\* A pod that no plugin may have evicted ranks before one that may go.
PinnedPods == {infra, web}
PinnedTier == [p \in PinnedPods |-> "shared"]
PinnedMem  == (infra :> 30) @@ (web :> 20)
PinnedCpu  == [p \in PinnedPods |-> 4]
PinnedCritical == {infra}

\* The node is over its threshold while both run.  Under the smaller load infra alone
\* holds what is to be freed, under the larger one it does not.
PinnedLoads == {60, 70}

\* The largest reclaimed pod frees more than enough by itself.
BigMem   == (batch :> 30) @@ (web :> 10)
BigLoads == {60}
=============================================================================
