------------------------------ MODULE Advertise -----------------------------
(***************************************************************************)
(* How an offer reaches the scheduler: the agent writes it into the node's *)
(* NodeResourceProfile (pkg/agent/report.go), the overcommit controller    *)
(* sees the profile through its informer cache and patches the Node's      *)
(* extended resources (pkg/controller/overcommit).  Agent and controller   *)
(* read through caches that trail the API server, patches fail, either     *)
(* process dies and comes back, and so does the node.                      *)
(*                                                                         *)
(* One unit of time is one agent interval.  A profile holds the age of its *)
(* lastReportTime, told apart up to the moment it is stale.  Memory is in  *)
(* MiB, the unit of the extended resource.                                 *)
(***************************************************************************)
EXTENDS Recommendation, FiniteSetsExt

CONSTANTS
  Offers,      \* what a tick may report: an offer, its pressure level, and the health
  MinCpu,      \* Reconciler.MinChangeMilli
  MinMem,      \* Reconciler.MinChangeBytes
  StaleAfter,  \* staleAfter
  Requeue,     \* RequeueAfter, half of it in the code
  Backoff,     \* bound: the longest delay of a retry
  MaxLag,      \* bound: how long a cache may trail the API server
  MaxRevision  \* bound: revisions are told apart up to here

Unset  == -1                          \* a field the profile does not have yet
Amount == [cpu : Nat, mem : Nat]
Offer  == [cpu : Nat, mem : Nat, level : Levels, healthy : {"True", "False"}]

ASSUME OffersAssumption == IsFiniteSet(Offers) /\ Offers \subseteq Offer
\* SetupWithManager replaces a zero.
ASSUME ChangeAssumption == MinCpu \in Nat \ {0} /\ MinMem \in Nat \ {0}
ASSUME TimeAssumption ==
  /\ StaleAfter \in Nat /\ Requeue \in Nat /\ Backoff \in Nat /\ MaxLag \in Nat
  /\ MaxRevision \in Nat
  /\ MaxLag < Requeue /\ Requeue < StaleAfter

VARIABLES
  agentUp,
  due,       \* the ticker has fired and the tick has not been taken
  rec,       \* Advisor.last
  revision,  \* Advisor.revision
  profile,   \* the NodeResourceProfile the API server holds
  node,      \* the extended resources of the Node the API server holds
  base,      \* the agent's cached profile
  seen,      \* the controller's cached profile
  nodeSeen,  \* the controller's cached node
  lag,       \* how long each cache has differed from the API server
  ctlUp,     \* there is a leader
  wake,      \* the node's key in the work queue: 0 is ready, Off is not queued
  pending,   \* the patch that Reconcile is about to send
  reported,  \* history: what the last successful report said
  since      \* history: how long nothing has changed or failed

agent   == <<agentUp, due, rec, revision>>
server  == <<profile, node>>
caches  == <<base, seen, nodeSeen, lag>>
ctl     == <<ctlUp, wake, pending>>
history == <<reported, since>>
vars    == <<agent, server, caches, ctl, history>>

Absent  == [cpu |-> Unset, mem |-> Unset]       \* no Node object
Nothing == [cpu |-> 0, mem |-> 0]               \* a Node without kqos capacity
NoPatch == Absent
Off     == -1

Blank == [cpu |-> Unset, mem |-> Unset, level |-> "", healthy |-> "", revision |-> 0,
          age |-> StaleAfter + 1]
NoProfile == [Blank EXCEPT !.revision = -1]

\* The agent never looks at the time in its copy of the profile.
Timeless(p) == [p EXCEPT !.age = 0]

Caches == {"base", "seen", "node"}

\* The longest time the work queue holds the node's key back.
Longest == Max({Requeue, Backoff})

\* The bound the properties speak of: the agent's cache follows and the next report is
\* whole, the controller's cache of the profile follows, and that of the node after a patch
\* that came too early; the pass that sees it all is at most a requeue or a retry away.
Settling == Longest + 3 * MaxLag + 2

-----------------------------------------------------------------------------
(* The agent.                                                               *)

Earlier(a, b) == IF a = Off \/ b < a THEN b ELSE a

\* Advisor.Recommend, as far as the report shows it.
Recommends(o) ==
  LET new == [cpu |-> o.cpu, mem |-> o.mem, level |-> o.level]
  IN /\ agentUp /\ due /\ node # Absent
     /\ due' = FALSE
     /\ rec' = new
     /\ revision' = revision + (IF MateriallyDiffers(rec, new) THEN 1 ELSE 0)
     /\ revision' <= MaxRevision

Status(o) == [cpu |-> o.cpu, mem |-> o.mem, level |-> o.level, healthy |-> o.healthy,
              revision |-> revision', age |-> 0]

\* client.MergeFrom: only the fields that differ from the cached object are sent, and
\* the time always does.
Merged(p, b, new) ==
  [f \in DOMAIN new |-> IF f # "age" /\ b[f] = new[f] THEN p[f] ELSE new[f]]

Fresh == profile # NoProfile /\ profile.age <= StaleAfter

\* report: the status patch is accepted.
Reports(o) ==
  /\ Recommends(o)
  /\ base # Timeless(NoProfile) /\ profile # NoProfile
  /\ profile' = Merged(profile, base, Status(o))
  /\ reported' = [cpu |-> o.cpu, mem |-> o.mem]
  /\ since' = IF Fresh /\ reported' = reported THEN since ELSE 0
  /\ UNCHANGED <<agentUp, node, caches, ctl>>

\* The agent's cache has no profile: it creates one, and reads the cache again, which
\* as a rule has not seen the new object yet.
Creates(o) ==
  /\ Recommends(o)
  /\ base = Timeless(NoProfile)
  /\ profile' = IF profile = NoProfile THEN Blank ELSE profile
  /\ since' = 0
  /\ UNCHANGED <<agentUp, node, caches, ctl, reported>>

\* The API server does not answer, or the profile is gone.
ReportFails(o) ==
  /\ Recommends(o)
  /\ since' = 0
  /\ UNCHANGED <<agentUp, server, caches, ctl, reported>>

\* What the process held in memory is lost.
AgentLost == /\ agentUp' = FALSE /\ due' = FALSE /\ rec' = NoOffer /\ revision' = 0
             /\ base' = Timeless(NoProfile) /\ lag' = [lag EXCEPT !["base"] = 0]

AgentDies ==
  /\ agentUp /\ AgentLost
  /\ UNCHANGED <<server, seen, nodeSeen, ctl, history>>

\* The process starts with a fresh cache.  Its pod was scheduled to a node that the
\* control plane knows.
AgentStarts ==
  /\ ~agentUp /\ node # Absent /\ (ctlUp => nodeSeen # Absent)
  /\ agentUp' = TRUE /\ due' = TRUE
  /\ base' = Timeless(profile) /\ lag' = [lag EXCEPT !["base"] = 0]
  /\ UNCHANGED <<rec, revision, server, seen, nodeSeen, ctl, history>>

-----------------------------------------------------------------------------
(* The overcommit controller.                                               *)

\* reclaimableChanged; creations and deletions pass.
ReclaimableChanged(old, new) ==
  \/ old = NoProfile \/ new = NoProfile
  \/ old.revision # new.revision \/ old.level # new.level \/ old.healthy # new.healthy

\* An event of the profile informer.
SeenSyncs ==
  /\ ctlUp /\ seen # profile
  /\ seen' = profile /\ lag' = [lag EXCEPT !["seen"] = 0]
  /\ wake' = IF ReclaimableChanged(seen, profile) THEN 0 ELSE wake
  /\ UNCHANGED <<agent, server, base, nodeSeen, ctlUp, pending, history>>

Stale(p) == p.age > StaleAfter

\* An amount that is missing is none.
DesiredFrom(p) == [cpu |-> Max({0, p.cpu}), mem |-> Max({0, p.mem})]

\* Mutant of Wanted: a profile is believed for ever.
WantedForEver(p) == DesiredFrom(p)

Wanted(p) == IF Stale(p) THEN Nothing ELSE DesiredFrom(p)

Distance(a, b) == IF a < b THEN b - a ELSE a - b

\* sync: what is worth a patch.
Significant(cur, want) ==
  \/ (want.cpu = 0) # (cur.cpu = 0) \/ (want.mem = 0) # (cur.mem = 0)
  \/ Distance(want.cpu, cur.cpu) >= MinCpu \/ Distance(want.mem, cur.mem) >= MinMem

Reconciles == ctlUp /\ wake = 0 /\ pending = NoPatch

\* No profile or no node: nothing to do, and no requeue.
FindsNothing ==
  /\ Reconciles /\ (seen = NoProfile \/ nodeSeen = Absent)
  /\ wake' = Off
  /\ UNCHANGED <<agent, server, caches, ctlUp, pending, history>>

\* Mutants of InSync: a pass that changes nothing does not come back, or late.
InSyncForGood ==
  /\ Reconciles /\ seen # NoProfile /\ nodeSeen # Absent
  /\ ~Significant(nodeSeen, Wanted(seen))
  /\ wake' = Off
  /\ UNCHANGED <<agent, server, caches, ctlUp, pending, history>>

InSyncLate ==
  /\ Reconciles /\ seen # NoProfile /\ nodeSeen # Absent
  /\ ~Significant(nodeSeen, Wanted(seen))
  /\ wake' = StaleAfter
  /\ UNCHANGED <<agent, server, caches, ctlUp, pending, history>>

InSync ==
  /\ Reconciles /\ seen # NoProfile /\ nodeSeen # Absent
  /\ ~Significant(nodeSeen, Wanted(seen))
  /\ wake' = Requeue
  /\ UNCHANGED <<agent, server, caches, ctlUp, pending, history>>

\* The decision is taken on the caches; the patch follows.
Decides ==
  /\ Reconciles /\ seen # NoProfile /\ nodeSeen # Absent
  /\ Significant(nodeSeen, Wanted(seen))
  /\ pending' = Wanted(seen) /\ wake' = Off
  /\ UNCHANGED <<agent, server, caches, ctlUp, history>>

\* An event that came in the meantime keeps the key ready.
Patches ==
  /\ pending # NoPatch /\ node # Absent
  /\ node' = pending /\ pending' = NoPatch
  /\ wake' = Earlier(wake, Requeue)
  /\ UNCHANGED <<agent, profile, caches, ctlUp, history>>

PatchFails ==
  /\ pending # NoPatch
  /\ pending' = NoPatch
  /\ \E d \in 0..Backoff : wake' = Earlier(wake, d)
  /\ since' = 0
  /\ UNCHANGED <<agent, server, caches, ctlUp, reported>>

CtlDies ==
  /\ ctlUp /\ ctlUp' = FALSE
  /\ seen' = NoProfile /\ nodeSeen' = Absent
  /\ lag' = [lag EXCEPT !["seen"] = 0, !["node"] = 0]
  /\ wake' = Off /\ pending' = NoPatch /\ since' = 0
  /\ UNCHANGED <<agent, server, base, reported>>

\* A leader starts: its caches are filled and every profile is an event.
CtlStarts ==
  /\ ~ctlUp /\ ctlUp' = TRUE
  /\ seen' = profile /\ nodeSeen' = node
  /\ lag' = [lag EXCEPT !["seen"] = 0, !["node"] = 0]
  /\ wake' = IF profile = NoProfile THEN Off ELSE 0
  /\ UNCHANGED <<agent, server, base, pending, history>>

-----------------------------------------------------------------------------
(* The caches, the cluster and time.                                        *)

BaseSyncs ==
  /\ agentUp /\ base # Timeless(profile)
  /\ base' = Timeless(profile) /\ lag' = [lag EXCEPT !["base"] = 0]
  /\ UNCHANGED <<agent, server, seen, nodeSeen, ctl, history>>

NodeSyncs ==
  /\ ctlUp /\ nodeSeen # node
  /\ nodeSeen' = node /\ lag' = [lag EXCEPT !["node"] = 0]
  /\ UNCHANGED <<agent, server, base, seen, ctl, history>>

\* The node leaves the cluster, its agent with it, and the garbage collector removes the
\* profile it owns.
NodeLeaves ==
  /\ node # Absent /\ node' = Absent
  /\ profile' = NoProfile
  /\ AgentLost
  /\ UNCHANGED <<seen, nodeSeen, ctl, history>>

\* It registers again under its name; all that takes longer than a cache or a patch does.
NodeReturns ==
  /\ node = Absent /\ pending = NoPatch
  /\ ctlUp => seen = NoProfile /\ nodeSeen = Absent
  /\ node' = Nothing /\ since' = 0
  /\ UNCHANGED <<agent, profile, caches, ctl, reported>>

Older(p) == [p EXCEPT !.age = IF p.age > StaleAfter THEN p.age ELSE p.age + 1]

Behind(c) == CASE c = "base" -> agentUp /\ base # Timeless(profile)
               [] c = "seen" -> ctlUp /\ seen # profile
               [] OTHER      -> ctlUp /\ nodeSeen # node

\* A unit passes.  What is ready is done by then, and no cache trails for longer than
\* MaxLag.
Advance ==
  /\ ~(ctlUp /\ wake = 0) /\ pending = NoPatch
  /\ \A c \in Caches : Behind(c) => lag[c] < MaxLag
  /\ due' = agentUp
  /\ profile' = Older(profile) /\ seen' = Older(seen)
  /\ lag' = [c \in Caches |-> IF Behind(c) THEN lag[c] + 1 ELSE 0]
  /\ wake' = IF wake = Off THEN Off ELSE wake - 1
  /\ since' = IF ~ctlUp \/ (Fresh /\ (due \/ ~agentUp \/ profile'.age > StaleAfter)) THEN 0
              ELSE Min({since + 1, Settling})
  /\ UNCHANGED <<agentUp, rec, revision, node, base, nodeSeen, ctlUp, pending,
                 reported>>

Init ==
  /\ agentUp = FALSE /\ due = FALSE /\ rec = NoOffer /\ revision = 0
  /\ profile = NoProfile /\ node = Nothing
  /\ base = Timeless(NoProfile) /\ seen = NoProfile /\ nodeSeen = Absent
  /\ lag = [c \in Caches |-> 0]
  /\ ctlUp = FALSE /\ wake = Off /\ pending = NoPatch
  /\ reported = Nothing /\ since = 0

Agent == \/ \E o \in Offers : Reports(o) \/ Creates(o) \/ ReportFails(o)
         \/ AgentDies \/ AgentStarts

Controller == \/ SeenSyncs \/ NodeSyncs
              \/ FindsNothing \/ InSync \/ Decides \/ Patches \/ PatchFails
              \/ CtlDies \/ CtlStarts

Cluster == BaseSyncs \/ NodeLeaves \/ NodeReturns \/ Advance

Next == Agent \/ Controller \/ Cluster

Spec == Init /\ [][Next]_vars

-----------------------------------------------------------------------------
(* Properties.                                                              *)

Profiles == [cpu : Nat \cup {Unset}, mem : Nat \cup {Unset}, level : Levels \cup {""},
             healthy : {"", "True", "False"}, revision : -1..MaxRevision,
             age : 0..(StaleAfter + 1)]

TypeOK ==
  /\ agentUp \in BOOLEAN /\ due \in BOOLEAN /\ ctlUp \in BOOLEAN
  /\ rec.cpu \in Nat /\ rec.mem \in Nat /\ rec.level \in Levels \cup {""}
  /\ revision \in 0..MaxRevision
  /\ profile \in Profiles /\ base \in Profiles /\ seen \in Profiles
  /\ node \in Amount \cup {Absent} /\ nodeSeen \in Amount \cup {Absent}
  /\ lag \in [Caches -> 0..MaxLag]
  /\ wake \in Off..Longest /\ pending \in Amount \cup {NoPatch}
  /\ reported \in Amount /\ since \in 0..Settling

\* What the node should advertise: what the last report of a live agent offers.
Desired == IF Fresh THEN reported ELSE Nothing

Settled == since = Settling /\ profile # NoProfile /\ node # Absent

\* Capacity that the agent withdrew, or that a dead agent left behind, is off the node
\* within a requeue or a retry and the lag of the caches, whatever was lost, late,
\* restarted or small in between (controller.go, staleAfter; README, Critical pressure withdraws
\* everything).
Withdrawn == Settled /\ Desired = Nothing => node = Nothing

\* What a live agent keeps offering is on the node by then, up to the least change,
\* although most reports raise no event (controller.go, sync).
Advertised ==
  Settled /\ Desired # Nothing =>
    node # Nothing /\ ~Significant(node, Desired)
=============================================================================
