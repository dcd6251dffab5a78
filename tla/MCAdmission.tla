---------------------------- MODULE MCAdmission -----------------------------
(* Instances of Admission for TLC: 1.5 and 2 cores, half a MiB to 4 MiB.    *)
EXTENDS Admission

Limits(cr, cl, mr, ml) ==
  [req |-> [r \in Res |-> IF r = "cpu" THEN cr ELSE mr],
   lim |-> [r \in Res |-> IF r = "cpu" THEN cl ELSE ml],
   ext |-> [r \in Res |-> None]]

Burst      == Limits(1500, None, 1536, None)
Capped     == Limits(1500, 2000, 2048, 4096)
Guaranteed == Limits(2000, 2000, 2048, 2048)
LimitOnly  == Limits(None, 2000, None, 512)
Silent     == Limits(None, None, None, None)
Zero       == Limits(0, None, 0, None)
ZeroLimit  == Limits(1500, None, None, 0)
Broken     == Limits(2000, 1500, None, None)
Tight      == Limits(None, None, 2048, 1024)

Worker == {Burst, Capped, Guaranteed, LimitOnly, Silent, Zero, ZeroLimit, Broken, Tight}

MCSpecs ==
  [init : {<<>>} \cup {<<c>> : c \in {Capped, Guaranteed}},
   main : {<<c>> : c \in Worker} \cup {<<c, d>> : c, d \in Worker}]

MCPolicies == {[level |-> "none", rewrite |-> TRUE, exempt |-> FALSE],
               [level |-> "dedicated", rewrite |-> TRUE, exempt |-> FALSE],
               [level |-> "reclaimed", rewrite |-> FALSE, exempt |-> TRUE]}
=============================================================================
