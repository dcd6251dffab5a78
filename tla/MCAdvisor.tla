----------------------------- MODULE MCAdvisor ------------------------------
(* Instances of Advisor for TLC.                                            *)
EXTENDS Advisor, TLC

Pod(tier, valid, cpu, mem) == [tier |-> tier, valid |-> valid, cpu |-> cpu, mem |-> mem]

Sample(pods, cpu, mem) ==
  [valid |-> TRUE, pods |-> pods, cpu |-> cpu, mem |-> mem, cpuStall |-> 0, memStall |-> 0]

\* An idle node, a busy one with a batch pod and a pod just started, one near its
\* limit, one that stalls, and the first tick of a collector.
Quiet   == Sample({Pod("shared", TRUE, 2, 1)}, 2, 1)
Busy    == Sample({Pod("dedicated", TRUE, 7, 5), Pod("shared", FALSE, 0, 1),
                   Pod("reclaimed", TRUE, 4, 3)}, 11, 9)
Hot     == Sample({Pod("system", TRUE, 2, 17)}, 2, 17)
NoRates == [Quiet EXCEPT !.valid = FALSE]
MCSamples == {Quiet, Busy, Hot, NoRates}

MCDefaultConfig ==
  [window |-> 3, interval |-> 1, algorithm |-> "p95", alpha |-> 3,
   cpuTarget |-> 75, memTarget |-> 65, headroom |-> 10, maxReclaim |-> 50,
   cpuFloor |-> 2, memFloor |-> 2,
   memThreshold |-> 85, cpuThreshold |-> 92, stallThreshold |-> 40]
Smoothed == [MCDefaultConfig EXCEPT !.window = 2, !.algorithm = "ewma",
                                    !.cpuFloor = Unset, !.memFloor = 3]
MCPolicies == {MCDefaultConfig, Smoothed}
=============================================================================
