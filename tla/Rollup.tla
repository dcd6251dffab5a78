------------------------------- MODULE Rollup -------------------------------
(***************************************************************************)
(* The rollup of all NodeResourceProfiles in the status of the QoSPolicy   *)
(* (pkg/controller/policy/controller.go): how many nodes the policy        *)
(* matches, how many agents are alive and how many nodes are under         *)
(* pressure; the totals on offer are summed up like the latter.            *)
(*                                                                         *)
(* The controller reads through informer caches that trail the API server, *)
(* sends the difference to its cached copy of the status, and no event     *)
(* tells it that an agent died or that a node was labelled.  Agents report *)
(* whenever they do; nodes come and go; the leader dies and the policy is  *)
(* deleted and created.                                                    *)
(*                                                                         *)
(* One unit of time is one RequeueAfter of the controller.  A profile      *)
(* holds the age of its lastReportTime, told apart up to Alive.            *)
(***************************************************************************)
EXTENDS Integers, FiniteSets

CONSTANTS
  Nodes,
  Alive,     \* agentLivenessWindow
  Requeue,   \* RequeueAfter
  Backoff,   \* bound: the longest delay of a retry, up to 1000 s by default
  MaxLag     \* bound: how long a cache may trail the API server

ASSUME NodesAssumption == IsFiniteSet(Nodes)
ASSUME TimeAssumption ==
  /\ Alive \in Nat \ {0} /\ Requeue \in Nat \ {0} /\ Backoff \in Nat
  /\ MaxLag \in Nat /\ MaxLag < Alive

VARIABLES
  profile,     \* the NodeResourceProfiles the API server holds
  labelled,    \* the nodes that exist and carry the labels of the selector
  policy,      \* the QoSPolicy the API server holds
  seen,        \* the controller's cached profiles
  labelSeen,   \* the same of its cached nodes
  policySeen,  \* the controller's cached policy
  news,        \* the informers that have an event to deliver
  lag,         \* and for how long
  leader,      \* there is a leader
  wake,        \* the policy's key in the work queue: 0 is ready, Off is not queued
  since        \* history: how long nothing has changed or failed

server == <<profile, labelled, policy>>
caches == <<seen, labelSeen, policySeen, news, lag>>
ctl    == <<leader, wake>>
vars   == <<server, caches, ctl, since>>

Informers == {"profiles", "nodes", "policy"}
Off == -1

\* A profile right after its creation: its level is "", which is not None.
Blank     == [age |-> Alive, pressured |-> TRUE]
NoProfile == [age |-> Off, pressured |-> TRUE]
Profiles  == {NoProfile} \cup [age : 0..Alive, pressured : BOOLEAN]

Fields   == {"observed", "ready", "pressured"}
Unrolled == [f \in Fields |-> 0]
NoPolicy == [exists |-> FALSE, selective |-> FALSE, status |-> Unrolled]
Fresh(selective) == [exists |-> TRUE, selective |-> selective, status |-> Unrolled]

\* The longest that the next pass may be away: a pass that succeeded comes back after the
\* requeue, one that failed when the failure limiter lets it.
Longest == IF Backoff > Requeue THEN Backoff ELSE Requeue

\* The bound the property speaks of, past the last moment when something is still due:
\* once the caches have followed, what is left is the next pass, or the event of a patch
\* they have not shown yet.
Settling == MaxLag + (IF Longest > MaxLag THEN Longest ELSE MaxLag) + 1

-----------------------------------------------------------------------------
(* Reconcile.                                                               *)

\* Without a selector every profile counts, with one only those of labelled nodes.
Matched(ps, ls, pol) == {n \in Nodes : ps[n] # NoProfile /\ (pol.selective => n \in ls)}

Live(p) == p.age < Alive

Rolled(ps, ls, pol) ==
  LET matched == Matched(ps, ls, pol)
  IN [observed  |-> Cardinality(matched),
      ready     |-> Cardinality({n \in matched : Live(ps[n])}),
      pressured |-> Cardinality({n \in matched : ps[n].pressured})]

Reconciles == leader /\ wake = 0

\* The policy is gone: nothing to do, and no requeue.
FindsNothing ==
  /\ Reconciles /\ ~policySeen.exists
  /\ wake' = Off
  /\ UNCHANGED <<server, caches, leader, since>>

\* client.MergeFrom: what differs from the cached status is sent.
Merged(status, base, new) ==
  [f \in Fields |-> IF base[f] = new[f] THEN status[f] ELSE new[f]]

\* Mutant of NextPass: the key goes back through the failure limiter as well.
NextPassLate == Requeue + Backoff

NextPass == Requeue

\* The patch carries lastUpdated in whole seconds: it may be the same as in the last
\* one, and a patch that changes nothing is no event.
Patches(stamped) ==
  /\ Reconciles /\ policySeen.exists /\ policy.exists
  /\ policy' = [policy EXCEPT !.status =
       Merged(@, policySeen.status, Rolled(seen, labelSeen, policySeen))]
  /\ news' = IF stamped \/ policy' # policy THEN news \cup {"policy"} ELSE news
  /\ wake' = NextPass
  /\ UNCHANGED <<profile, labelled, seen, labelSeen, policySeen, lag, leader, since>>

\* The API server does not answer, or the policy is gone: Reconcile returns the error, and
\* the failure limiter of the queue retries the key, after an outage as late as Backoff.
PatchFails ==
  /\ Reconciles /\ policySeen.exists
  /\ wake' \in 0..Backoff /\ since' = 0
  /\ UNCHANGED <<server, caches, leader>>

LeaderDies ==
  /\ leader /\ leader' = FALSE /\ wake' = Off /\ since' = 0
  /\ seen' = [n \in Nodes |-> NoProfile] /\ labelSeen' = {} /\ policySeen' = NoPolicy
  /\ news' = {} /\ lag' = [i \in Informers |-> 0]
  /\ UNCHANGED server

\* A leader starts with fresh caches, in which every object is an event, and creates the
\* policy that is missing (EnsureDefault).
LeaderStarts ==
  /\ ~leader /\ leader' = TRUE /\ wake' = 0
  /\ seen' = profile /\ labelSeen' = labelled /\ policySeen' = policy
  /\ IF policy.exists THEN UNCHANGED <<policy, news, since>>
     ELSE policy' = Fresh(FALSE) /\ news' = {"policy"} /\ since' = 0
  /\ UNCHANGED <<profile, labelled, lag>>

-----------------------------------------------------------------------------
(* The informers.  An event of a node wakes nobody.                         *)

Delivered(i) ==
  /\ leader /\ i \in news
  /\ news' = news \ {i} /\ lag' = [lag EXCEPT ![i] = 0]
  /\ UNCHANGED <<server, leader, since>>

\* SetupWithManager: any change of a profile, and any of the policy itself.
ProfilesSync == /\ Delivered("profiles") /\ seen' = profile /\ wake' = 0
                /\ UNCHANGED <<labelSeen, policySeen>>

NodesSync == /\ Delivered("nodes") /\ labelSeen' = labelled
             /\ UNCHANGED <<seen, policySeen, wake>>

\* Mutant of PolicySync: the events of the status are filtered out.
PolicySyncFiltered ==
  /\ Delivered("policy") /\ policySeen' = policy
  /\ wake' = IF policy.selective # policySeen.selective THEN 0 ELSE wake
  /\ UNCHANGED <<seen, labelSeen>>

PolicySync == /\ Delivered("policy") /\ policySeen' = policy /\ wake' = 0
              /\ UNCHANGED <<seen, labelSeen>>

-----------------------------------------------------------------------------
(* Agents, operators and time.                                              *)

Truth == Rolled(profile, labelled, policy)

Happens(i) == news' = IF leader THEN news \cup {i} ELSE {}

Resets(change) == since' = IF change THEN 0 ELSE since

\* A report that comes when the last one is about to expire finds a cache in which it
\* may do so.
Reported(n, pressured) ==
  /\ profile[n] # NoProfile
  /\ profile' = [profile EXCEPT ![n] = [age |-> 0, pressured |-> pressured]]
  /\ Happens("profiles")
  /\ UNCHANGED <<labelled, policy, seen, labelSeen, policySeen, lag, ctl>>
  /\ Resets(Truth' # Truth \/ profile[n].age + MaxLag >= Alive)

ProfileCreated(n) ==
  /\ profile[n] = NoProfile /\ profile' = [profile EXCEPT ![n] = Blank]
  /\ Happens("profiles") /\ since' = 0
  /\ UNCHANGED <<labelled, policy, seen, labelSeen, policySeen, lag, ctl>>

ProfileDeleted(n) ==
  /\ profile[n] # NoProfile /\ profile' = [profile EXCEPT ![n] = NoProfile]
  /\ Happens("profiles") /\ since' = 0
  /\ UNCHANGED <<labelled, policy, seen, labelSeen, policySeen, lag, ctl>>

\* A node is labelled, loses its labels, or comes or goes with them.
Relabelled(n) ==
  /\ labelled' = IF n \in labelled THEN labelled \ {n} ELSE labelled \cup {n}
  /\ Happens("nodes")
  /\ UNCHANGED <<profile, policy, seen, labelSeen, policySeen, lag, ctl>>
  /\ Resets(Truth' # Truth)

\* The policy is created, deleted, or its selector set or removed.
PolicyChanges ==
  /\ \/ policy.exists /\ policy' = NoPolicy
     \/ ~policy.exists /\ \E selective \in BOOLEAN : policy' = Fresh(selective)
     \/ policy.exists /\ policy' = [policy EXCEPT !.selective = ~policy.selective]
  /\ Happens("policy") /\ since' = 0
  /\ UNCHANGED <<profile, labelled, seen, labelSeen, policySeen, lag, ctl>>

Older(ps) == [n \in Nodes |->
  IF ps[n].age \in {Off, Alive} THEN ps[n] ELSE [ps[n] EXCEPT !.age = @ + 1]]

\* A unit passes.  What is ready is done by then, and no cache trails for longer than
\* MaxLag.
Advance ==
  /\ ~(leader /\ wake = 0)
  /\ \A i \in news : lag[i] < MaxLag
  /\ profile' = Older(profile) /\ seen' = Older(seen)
  /\ lag' = [i \in Informers |-> IF i \in news THEN lag[i] + 1 ELSE 0]
  /\ wake' = IF wake = Off THEN Off ELSE wake - 1
  /\ UNCHANGED <<labelled, policy, labelSeen, policySeen, news, leader>>
  /\ since' = IF ~leader \/ Truth' # Truth THEN 0 ELSE IF since = Settling THEN since ELSE since + 1

Init ==
  /\ profile = [n \in Nodes |-> NoProfile] /\ labelled = {} /\ policy = NoPolicy
  /\ seen = profile /\ labelSeen = {} /\ policySeen = NoPolicy
  /\ news = {} /\ lag = [i \in Informers |-> 0]
  /\ leader = FALSE /\ wake = Off
  /\ since = 0

Controller ==
  \/ FindsNothing \/ (\E stamped \in BOOLEAN : Patches(stamped)) \/ PatchFails
  \/ LeaderDies \/ LeaderStarts \/ ProfilesSync \/ NodesSync \/ PolicySync

Cluster ==
  \/ \E n \in Nodes : \/ \E pressured \in BOOLEAN : Reported(n, pressured)
                     \/ ProfileCreated(n) \/ ProfileDeleted(n) \/ Relabelled(n)
  \/ PolicyChanges \/ Advance

Next == Controller \/ Cluster

Spec == Init /\ [][Next]_vars

-----------------------------------------------------------------------------
(* Properties.                                                              *)

Policies == [exists : BOOLEAN, selective : BOOLEAN, status : [Fields -> Nat]]

TypeOK ==
  /\ profile \in [Nodes -> Profiles] /\ seen \in [Nodes -> Profiles]
  /\ labelled \subseteq Nodes /\ labelSeen \subseteq Nodes
  /\ policy \in Policies /\ policySeen \in Policies
  /\ news \subseteq Informers /\ lag \in [Informers -> 0..MaxLag]
  /\ leader \in BOOLEAN /\ wake \in Off..Longest /\ since \in 0..Settling

\* Where nothing changed or failed for the settling time (the lag of the caches and the
\* longer of the requeue and the delay of a retry), the status says what the profiles of
\* the matching nodes say: the agents that died are no longer ready, and what patches
\* against a stale copy left out has been made good (controller.go, Reconcile: the rollup
\* has to re-evaluate on a timer).  What failed starts the settling over: a retry that was
\* put off in an outage is what the status may still be waiting for after it.
Current == since = Settling /\ policy.exists => policy.status = Truth
=============================================================================
