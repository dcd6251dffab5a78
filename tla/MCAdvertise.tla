---------------------------- MODULE MCAdvertise -----------------------------
(* Instances of Advertise for TLC: millicores and MiB.                      *)
EXTENDS Advertise

Sells(cpu, level) == [cpu |-> cpu, mem |-> 64, level |-> level, healthy |-> "True"]

\* Nothing under critical pressure; an offer; and a larger one that is as good as the
\* same to the advisor, but not to the controller.
Withdraws == [Sells(0, "Critical") EXCEPT !.mem = 0]
MCOffers  == {Withdraws, Sells(4000, "None"), Sells(4070, "None")}
=============================================================================
