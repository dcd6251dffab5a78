-------------------------------- MODULE Usage --------------------------------
(***************************************************************************)
(* The measurement plane: agents send usage reports to every controller    *)
(* replica (pkg/usage/publisher.go), each replica keeps them in a bounded  *)
(* store (pkg/usage/store.go), and the reconcilers of the leader turn its  *)
(* store into the WorkloadProfile (pkg/controller/profile).  Replicas die  *)
(* and move, posts and lookups fail, and the leader changes.               *)
(*                                                                         *)
(* One unit of time is one agent interval.  There is one workload; each    *)
(* agent runs one of its pods.  Series of other workloads never meet it.   *)
(***************************************************************************)
EXTENDS Integers, Sequences, FiniteSets, FiniteSetsExt

CONSTANTS
  Replicas,     \* the addresses a controller replica may have
  None,         \* no leader
  Agents,       \* the nodes, each with one pod of the workload
  Use,          \* [Agents -> Usage], what the pod uses
  Skew,         \* [Agents -> Nat], how far the agent's clock is behind
  Request,      \* the CPU request of a pod, in millicores
  Margin,       \* safetyMarginPercent
  MinCpu, MinMem,  \* the floors of a recommendation
  Retention,    \* Store.retention
  MaxPerKey,    \* Store.maxPerKey
  Medium, High, \* samples that make the confidence medium, and high
  CacheFor,     \* Publisher.cacheFor
  Requeue,      \* RequeueAfter
  Backoff       \* bound: the longest delay of a retry

Usage == [cpu : Nat, mem : Nat]
Nums  == <<Request, Margin, MinCpu, MinMem, Retention, Medium, High, CacheFor,
           Requeue, Backoff>>

ASSUME SetsAssumption ==
  /\ IsFiniteSet(Replicas) /\ IsFiniteSet(Agents) /\ None \notin Replicas
  /\ Use \in [Agents -> Usage] /\ Skew \in [Agents -> Nat]
ASSUME NumbersAssumption ==
  MaxPerKey \in Nat \ {0} /\ \A i \in DOMAIN Nums : Nums[i] \in Nat

VARIABLES
  up,        \* the replicas that exist, behind the headless Service
  store,     \* [Replicas -> Seq(Sample)], the samples of the workload's series
  leader,    \* the replica that runs the reconcilers, or None
  wake,      \* when the leader looks at the profile next at the latest, or Off
  profile,   \* the status of the WorkloadProfile
  due,       \* the agents whose ticker has fired
  cached,    \* [Agents -> SUBSET Replicas], Publisher.cached
  cachedAge, \* [Agents -> 0..CacheFor], the age of Publisher.cachedAt
  sending,   \* the agents that are in the middle of a publish
  todo,      \* [Agents -> SUBSET Replicas], the posts still to make
  log,       \* history: what a replica was sent and has not outlived, in order
  measured,  \* history: the measurements whose publishing is complete
  intact,    \* history: for how long a replica was reached by everybody
  same       \* history: for how long the leader has, or has not, had samples

cluster == <<up, leader, wake>>
senders == <<due, cached, cachedAge, sending, todo>>
history == <<log, measured, intact, same>>
vars    == <<cluster, store, profile, senders, history>>

Off  == -1

NoProfile == [ready |-> FALSE, confidence |-> "", samples |-> 0, pods |-> 0,
              cpu |-> -1, mem |-> -1, waste |-> 0]
Blank     == [NoProfile EXCEPT !.cpu = 0, !.mem = 0]

\* The time after which a replica holds a whole window: the lookups of before have been
\* forgotten and the reports of before have expired.
Settling == CacheFor + Retention + 1

\* The longest time between two looks at a profile: a requeue, or the delay of a retry.
Patience == Max({Requeue, Backoff})

-----------------------------------------------------------------------------
(* The store.                                                               *)

\* The samples in the window, in the order of arrival.
Live(q) ==
  LET live[n \in 0..Len(q)] ==
        IF n = 0 THEN <<>>
        ELSE IF q[n].age <= Retention THEN Append(live[n - 1], q[n])
        ELSE live[n - 1]
  IN live[Len(q)]

Latest(q, n) == IF Len(q) > n THEN SubSeq(q, Len(q) - n + 1, Len(q)) ELSE q

\* Mutants of Ingested: the cap keeps the first samples; it is applied before the new
\* one is appended.
IngestedFirst(q, s) == SubSeq(Append(q, s), 1, Min({Len(q) + 1, MaxPerKey}))

IngestedOver(q, s) == Append(Latest(q, MaxPerKey), s)

\* Ingest of one pod: the latest arrivals are kept, whatever their time stamps say.
Ingested(q, s) == Latest(Append(q, s), MaxPerKey)

\* The cap drops a sample that was still in the window.
Overflows(q) == Len(q) >= MaxPerKey /\ Head(q).age <= Retention

Logged(q, s) ==
  Append([i \in DOMAIN q |-> [q[i] EXCEPT !.later = Min({@ + 1, MaxPerKey})]],
         [pod |-> s.pod, age |-> s.age, later |-> 0])

\* GC.  A series without samples answers like none, so its removal does not show.
Collected(q) == Live(q)

-----------------------------------------------------------------------------
(* The profile: WorkloadStats, WorkloadRequests and the recommendation.     *)

Dist == INSTANCE Window

Cpus(q) == [i \in DOMAIN q |-> Use[q[i].pod].cpu]
Mems(q) == [i \in DOMAIN q |-> Use[q[i].pod].mem]
PodsOf(q) == {q[i].pod : i \in DOMAIN q}

P95(q)  == Dist!Percentile(95, Cpus(q))
Peak(q) == Dist!Largest(Mems(q))

Padded(value, floor) == Max({floor, (value * (100 + Margin)) \div 100})

Confidence(q) ==
  IF Len(q) >= High /\ Cardinality(PodsOf(q)) > 1 THEN "High"
  ELSE IF Len(q) >= Medium THEN "Medium" ELSE "Low"

Waste(p95) == IF Request > p95 THEN ((Request - p95) * 100) \div Request ELSE 0

\* Without samples only the condition and the confidence say so: the rest stays.
Profiled(q) ==
  IF q = <<>> THEN [profile EXCEPT !.ready = FALSE, !.confidence = "Low"]
  ELSE [ready |-> TRUE, confidence |-> Confidence(q),
        samples |-> Len(q), pods |-> Cardinality(PodsOf(q)),
        cpu |-> Padded(P95(q), MinCpu), mem |-> Padded(Peak(q), MinMem),
        waste |-> Waste(P95(q))]

Evidence == Live(store[leader])

-----------------------------------------------------------------------------
(* The agents.                                                              *)

Known(a) == cached[a] # {}

\* Mutant of Memoised: the answer is kept for good.
MemoisedForGood(a) == Known(a)

Memoised(a) == Known(a) /\ cachedAge[a] < CacheFor

Departs(a, targets) ==
  /\ a \in due /\ due' = due \ {a}
  /\ sending' = sending \cup {a} /\ todo' = [todo EXCEPT ![a] = targets]
  /\ UNCHANGED <<cluster, store, profile, log, measured, same>>

\* targets: the memoised answer.
PublishMemoised(a) ==
  /\ Memoised(a)
  /\ Departs(a, cached[a])
  /\ UNCHANGED <<cached, cachedAge, intact>>

\* A lookup that answers.
PublishResolved(a) ==
  /\ ~Memoised(a) /\ up # {}
  /\ Departs(a, up)
  /\ cached' = [cached EXCEPT ![a] = up] /\ cachedAge' = [cachedAge EXCEPT ![a] = 0]
  /\ UNCHANGED intact

\* A lookup that fails: the last answer, or the name of the Service, behind which one
\* replica may be reached.
PublishBlind(a) ==
  /\ ~Memoised(a)
  /\ \E targets \in IF Known(a) THEN {cached[a]} ELSE {{}} \cup {{r} : r \in up} :
       /\ Departs(a, targets)
       /\ intact' = [r \in Replicas |-> IF r \in targets THEN intact[r] ELSE 0]
  /\ UNCHANGED <<cached, cachedAge>>

\* A stamp is kept as its age, saturated once it is past the window.
Stamped(a) == [pod |-> a, age |-> Min({Skew[a], Retention + 1})]

\* One POST arrives.  An estimate is refused on arrival, so a tick that sends one is as
\* good as a tick that sends nothing, which is an agent that stays due.
Posts(a, r) ==
  /\ r \in todo[a] /\ r \in up
  /\ todo' = [todo EXCEPT ![a] = @ \ {r}]
  /\ store' = [store EXCEPT ![r] = Ingested(@, Stamped(a))]
  /\ log' = [log EXCEPT ![r] = Logged(@, Stamped(a))]
  /\ intact' = IF Overflows(store[r]) THEN [intact EXCEPT ![r] = 0] ELSE intact
  /\ UNCHANGED <<cluster, profile, due, cached, cachedAge, sending, measured>>
  /\ same' = IF r = leader /\ (Evidence = <<>>) # (Evidence' = <<>>) THEN 0 ELSE same

\* Or it is lost.
PostFails(a, r) ==
  /\ r \in todo[a]
  /\ todo' = [todo EXCEPT ![a] = @ \ {r}]
  /\ intact' = [intact EXCEPT ![r] = 0]
  /\ UNCHANGED <<cluster, store, profile, due, cached, cachedAge, sending, log, measured, same>>

PublishEnds(a) ==
  /\ a \in sending /\ todo[a] = {}
  /\ sending' = sending \ {a}
  /\ measured' = measured \cup {m \in {Stamped(a)} : m.age <= Retention}
  /\ UNCHANGED <<cluster, store, profile, due, cached, cachedAge, todo, log, intact, same>>

\* Start looks the targets up at once; its first tick has no rates to send.
AgentRestarts(a) ==
  /\ due' = due \ {a} /\ sending' = sending \ {a} /\ todo' = [todo EXCEPT ![a] = {}]
  /\ \E answer \in {{}, up} : cached' = [cached EXCEPT ![a] = answer]
  /\ cachedAge' = [cachedAge EXCEPT ![a] = 0]
  /\ UNCHANGED <<cluster, store, profile, history>>

-----------------------------------------------------------------------------
(* The controller.                                                          *)

\* The work queue keeps the earlier of two times for one key; 0 is being served.
Sooner(d) == IF wake \in {0, Off} THEN d ELSE Min({wake, d})

\* DiscoveryReconciler: an event of the Deployment.
Discovers ==
  /\ leader # None /\ profile = NoProfile
  /\ profile' = Blank /\ wake' = 0 /\ same' = 0
  /\ UNCHANGED <<up, leader, store, senders, log, measured, intact>>

\* Mutant of Profiles: a profile without samples is not looked at again.
ProfilesOnce ==
  /\ leader # None /\ profile # NoProfile
  /\ profile' = Profiled(Evidence)
  /\ wake' = IF Evidence = <<>> THEN Sooner(Requeue) ELSE Off
  /\ UNCHANGED <<up, leader, store, senders, history>>

\* profile.Reconcile: after a requeue, or earlier with an event of the profile.
Profiles ==
  /\ leader # None /\ profile # NoProfile
  /\ profile' = Profiled(Evidence)
  /\ wake' = Sooner(Requeue)
  /\ UNCHANGED <<up, leader, store, senders, history>>

\* The patch of the status fails.
ProfileFails ==
  /\ leader # None /\ profile # NoProfile
  /\ \E d \in 1..Backoff : wake' = Sooner(d)
  /\ same' = 0
  /\ UNCHANGED <<up, leader, store, profile, senders, log, measured, intact>>

GC(r) ==
  /\ r \in up /\ store' = [store EXCEPT ![r] = Collected(@)] /\ store' # store
  /\ UNCHANGED <<cluster, profile, senders, history>>

-----------------------------------------------------------------------------
(* Replicas, leader election and time.                                      *)

ReplicaStarts(r) ==
  /\ r \notin up /\ up' = up \cup {r}
  /\ UNCHANGED <<leader, wake, store, profile, senders, history>>

\* What the process held in memory is lost; so is the lease.
ReplicaDies(r) ==
  /\ r \in up /\ up' = up \ {r}
  /\ store' = [store EXCEPT ![r] = <<>>] /\ log' = [log EXCEPT ![r] = <<>>]
  /\ intact' = [intact EXCEPT ![r] = 0]
  /\ IF r = leader THEN leader' = None /\ wake' = Off /\ same' = 0
     ELSE UNCHANGED <<leader, wake, same>>
  /\ UNCHANGED <<profile, senders, measured>>

\* A leader lists every profile when it starts.
Elected(r) ==
  /\ leader = None /\ r \in up
  /\ leader' = r /\ wake' = IF profile = NoProfile THEN Off ELSE 0
  /\ same' = 0
  /\ UNCHANGED <<up, store, profile, senders, log, measured, intact>>

Older(s) == [s EXCEPT !.age = Min({@ + 1, Retention + 1})]
AllOlder(q) == [i \in DOMAIN q |-> Older(q[i])]

Advance ==
  /\ wake # 0 /\ sending = {}
  /\ UNCHANGED <<up, leader, profile, cached, sending, todo>>
  /\ due' = Agents
  /\ cachedAge' = [a \in Agents |-> IF Known(a) THEN Min({cachedAge[a] + 1, CacheFor}) ELSE 0]
  /\ store' = [r \in Replicas |-> AllOlder(store[r])]
  /\ wake' = IF wake = Off THEN Off ELSE wake - 1
  /\ log' = [r \in Replicas |-> Live(AllOlder(log[r]))]
  /\ measured' = {m \in {Older(n) : n \in measured} : m.age <= Retention}
  /\ intact' = [r \in Replicas |-> IF r \in up THEN Min({intact[r] + 1, Settling}) ELSE 0]
  /\ same' = IF leader = None \/ profile = NoProfile THEN 0
             ELSE IF (Evidence = <<>>) # (Evidence' = <<>>) THEN 0
             ELSE Min({same + 1, Patience + 1})

Init ==
  /\ up = {} /\ leader = None /\ wake = Off
  /\ store = [r \in Replicas |-> <<>>] /\ profile = NoProfile
  /\ due = {} /\ cached = [a \in Agents |-> {}] /\ cachedAge = [a \in Agents |-> 0]
  /\ sending = {} /\ todo = [a \in Agents |-> {}]
  /\ log = [r \in Replicas |-> <<>>] /\ measured = {}
  /\ intact = [r \in Replicas |-> 0] /\ same = 0

Publishing ==
  \E a \in Agents :
    \/ PublishMemoised(a) \/ PublishResolved(a) \/ PublishBlind(a)
    \/ \E r \in Replicas : Posts(a, r) \/ PostFails(a, r)
    \/ PublishEnds(a) \/ AgentRestarts(a)

Controller == Discovers \/ Profiles \/ ProfileFails \/ \E r \in Replicas : GC(r) \/ Elected(r)

Cluster == \E r \in Replicas : ReplicaStarts(r) \/ ReplicaDies(r)

Next == Publishing \/ Controller \/ Cluster \/ Advance

Spec == Init /\ [][Next]_vars

-----------------------------------------------------------------------------
(* Properties.                                                              *)

Sample == [pod : Agents, age : 0..(Retention + 1)]

TypeOK ==
  /\ up \subseteq Replicas /\ leader \in up \cup {None}
  /\ wake \in Off..Patience
  /\ \A r \in Replicas : store[r] \in Seq(Sample) /\ Len(store[r]) <= MaxPerKey
  /\ profile.ready \in BOOLEAN /\ profile.confidence \in {"", "Low", "Medium", "High"}
  /\ profile.samples \in 0..MaxPerKey /\ profile.pods \in 0..Cardinality(Agents)
  /\ due \subseteq Agents /\ cached \in [Agents -> SUBSET Replicas]
  /\ cachedAge \in [Agents -> 0..CacheFor]
  /\ sending \subseteq Agents /\ todo \in [Agents -> SUBSET Replicas]
  /\ \A r \in Replicas : intact[r] \in 0..Settling
  /\ same \in 0..(Patience + 1)

Unnumbered(q) == [i \in DOMAIN q |-> [pod |-> q[i].pod, age |-> q[i].age]]

\* What the store answers with are the measurements it was sent that are in the
\* window, in the order of arrival and without estimates; one is missing only where
\* the cap's worth of later ones came in (store.go: Ingest, WorkloadStats, GC).
KeepsRecent ==
  \A r \in Replicas :
    LET live == Live(store[r])
        sent == Live(log[r])
        lost == Len(sent) - Len(live)
    IN /\ lost >= 0 /\ live = Latest(Unnumbered(sent), Len(live))
       /\ \A i \in 1..lost : sent[i].later >= MaxPerKey

\* A leader that was reached for a whole window, as a follower or not, recommends from
\* every measurement in it, and no less memory than any pod was measured to use: a
\* replica that wins an election inherits a store that is already warm (publisher.go,
\* the comment on Publisher).
Covers ==
  [][Profiles /\ intact[leader] = Settling =>
       /\ profile'.samples >= Cardinality(measured)
       /\ \A m \in measured : profile'.mem >= Use[m.pod].mem]_vars

\* The profile says within a requeue, or within the delay of a retry where patches have
\* failed, whether there is anything behind it, although neither a sample nor its
\* expiry is an event (controller.go, Reconcile).
Follows ==
  same > Patience => /\ profile.ready <=> Evidence # <<>>
                     /\ Evidence = <<>> => profile.confidence = "Low"
=============================================================================
