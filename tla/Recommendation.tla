--------------------------- MODULE Recommendation ---------------------------
(***************************************************************************)
(* What one recommendation of the advisor says, and when the next one is   *)
(* worth a new revision (pkg/agent/sysadvisor/advisor.go).                 *)
(***************************************************************************)
EXTENDS Integers

Levels == {"None", "Moderate", "Critical"}

\* The zero Recommendation, before the first one.
NoOffer == [cpu |-> 0, mem |-> 0, level |-> ""]

\* relDiff: more than two percent, or from nothing.
RelDiffers(a, b) == a # b /\ (a = 0 \/ (IF b > a THEN b - a ELSE a - b) * 50 > a)

MateriallyDiffers(a, b) ==
  a.level # b.level \/ RelDiffers(a.cpu, b.cpu) \/ RelDiffers(a.mem, b.mem)
=============================================================================
