---------------------------- MODULE MCCollector -----------------------------
(* Instances of Collector for TLC.                                          *)
EXTENDS Collector, TLC

CONSTANTS web, batch

MCPods == {web, batch}
Symmetric == Permutations(MCPods)
=============================================================================
