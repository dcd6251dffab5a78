------------------------------ MODULE Limiter -------------------------------
(***************************************************************************)
(* What the eviction manager of a node promises, without plugins, policies, *)
(* clocks and caches: a pod that must stay is never told to go, a pod that  *)
(* answered is not told again before it has gone, and telling is paid for   *)
(* from an account that time refills, up to a ceiling, whether it is        *)
(* answered or not.  An observer that starts at any moment counts.          *)
(*                                                                          *)
(* A pod that goes without having answered is none of its business: that    *)
(* one may be told again.                                                   *)
(***************************************************************************)
EXTENDS Integers

CONSTANTS
  Pods,
  Protected,  \* the pods that must stay
  Cost,       \* what telling one pod takes from the account
  Rate,       \* what a unit of time adds to it at most
  Ceiling,    \* what it holds at most
  Longest     \* how long the observer counts

Never == -1

VARIABLES
  told,       \* the pods that were told to go, answered and have not gone
  credit,
  obsN, obsE  \* what the observer counted, and for how long

observer == <<obsN, obsE>>
vars     == <<told, credit, obsN, obsE>>

Init == told = {} /\ credit \in 0..Ceiling /\ obsN = 0 /\ obsE = Never

Pays == /\ credit' + Cost <= credit /\ credit' >= 0
        /\ obsN' = IF obsE = Never THEN 0 ELSE obsN + 1
        /\ obsE' = obsE

Tells(p) == p \notin told \cup Protected /\ Pays /\ told' = told \cup {p}

\* The pod goes, but its answer is lost.
TellsUnheard(p) == p \notin told \cup Protected /\ Pays /\ told' = told

Goes(p) == p \in told /\ told' = told \ {p} /\ UNCHANGED <<credit, observer>>

\* A refused eviction, a dry run, a smaller budget.
Forfeits == credit' \in 0..credit /\ UNCHANGED <<told, observer>>

Ticks ==
  /\ credit' \in 0..Ceiling /\ credit' <= credit + Rate
  /\ IF obsE \in {Never, Longest} THEN obsE' = Never ELSE obsE' = obsE + 1
  /\ obsN' = IF obsE = Longest THEN 0 ELSE obsN
  /\ told' = told

Observes == obsE = Never /\ obsE' = 0 /\ obsN' = 0 /\ UNCHANGED <<told, credit>>

\* The process starts over, with an account of its own.
StartsOver == credit' \in 0..Ceiling /\ obsN' = 0 /\ obsE' = Never /\ told' = told

Next == (\E p \in Pods : Tells(p) \/ TellsUnheard(p) \/ Goes(p)) \/ Forfeits \/ Ticks \/ Observes \/ StartsOver

Spec == Init /\ [][Next]_vars
=============================================================================
