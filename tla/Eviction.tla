------------------------------ MODULE Eviction ------------------------------
(***************************************************************************)
(* The node agent's eviction path: what is left of agent.tick once a       *)
(* sample has been taken (pkg/agent/agent.go), the eviction manager        *)
(* (pkg/agent/eviction/manager.go) and its three plugins                   *)
(* (pkg/agent/eviction/plugins.go), next to the part of the cluster they   *)
(* act on: pods of one node behind the eviction API, seen through an       *)
(* informer cache that lags.                                               *)
(*                                                                         *)
(* One unit of time is one agent interval.  A time stamp of the code is    *)
(* kept as its age, saturated at the largest constant the code compares    *)
(* it with, so that behaviours are endless and the state space is finite.  *)
(* Manager.Run reads the clock once and then makes API calls; nowAge is    *)
(* how long ago that reading was.                                          *)
(***************************************************************************)
EXTENDS Integers, Sequences, FiniteSets, FiniteSetsExt

CONSTANTS
  Pods,          \* the namespace/name keys of the pods bound to the node
  Tier,          \* [Pods -> Tiers]
  Mem,           \* [Pods -> Nat], memory in use
  Cpu,           \* [Pods -> Nat], CPU in use
  Req,           \* [Pods -> Nat], CPU request
  Mirror,        \* static pods, mirrored by the kubelet
  Critical,      \* pods with priority >= 2e9
  Guarded,       \* pods whose PodDisruptionBudget allows no disruption
  BaseLoads,     \* possible memory use outside Pods
  MemAlloc,      \* the node's allocatable memory
  MemThreshold,  \* memoryPressureThresholdPercent
  Policies,      \* the eviction configurations an operator may write
  DefaultPolicy, \* the one agent.DefaultPolicy synthesises
  BudgetAtStart, \* tokens of a new manager, 3 in NewManager
  MaxBudget,     \* no policy allows more evictions per minute than this
  Stab,          \* stabilisationSeconds
  Window,        \* one minute, the refill window of the budget
  RecentAge,     \* two minutes, the repeat-eviction veto
  GcAge,         \* ten minutes, when a veto entry is dropped
  MaxLag,        \* bound: how long the informer cache may trail the API server
  RunLag,        \* bound: how long the API calls of one run may take
  MaxObs         \* bound: the longest interval the observer measures

Tiers   == {"system", "dedicated", "shared", "reclaimed"}
Plugins == {"cpu-suppression", "memory-pressure", "reclaimed-overrun"}
\* A pod on its way out is "terminating" where the manager was told that its eviction is
\* accepted, and "leaving" where it knows nothing of it: somebody else deleted the pod, or
\* the reply was lost.
Phases  == {"running", "leaving", "terminating", "gone"}
Levels  == {"None", "Moderate", "Critical"}
Never   == -1                             \* the zero time.Time

PolicyType == [enabled : BOOLEAN, dryRun : BOOLEAN, max : 0..MaxBudget,
               plugins : SUBSET Plugins]

ASSUME PodsAssumption ==
  /\ IsFiniteSet(Pods)
  /\ Tier \in [Pods -> Tiers]
  /\ Mem \in [Pods -> Nat] /\ Cpu \in [Pods -> Nat] /\ Req \in [Pods -> Nat]
  /\ Mirror \subseteq Pods /\ Critical \subseteq Pods /\ Guarded \subseteq Pods
  /\ BaseLoads \subseteq Nat /\ MemAlloc \in Nat \ {0} /\ MemThreshold \in Nat

ASSUME PolicyAssumption ==
  /\ MaxBudget \in Nat /\ BudgetAtStart \in 0..MaxBudget
  /\ Policies \subseteq PolicyType /\ DefaultPolicy \in PolicyType

ASSUME TimeAssumption ==
  /\ Stab \in Nat /\ Window \in Nat \ {0} /\ RecentAge \in Nat /\ GcAge \in Nat
  /\ MaxLag \in Nat /\ RunLag \in Nat /\ MaxObs \in Nat

\* What the veto relies on, in minutes 2 against 10, with a cache that catches
\* up within the two minutes less the length of a run.
ASSUME AgeAssumption == MaxLag + RunLag < RecentAge /\ RecentAge <= GcAge

VARIABLES
  pod,              \* [Pods -> Phases], the truth the API server holds
  cache,            \* the pods that the agent's informer cache shows as running
  lag,              \* [Pods -> 0..MaxLag], for how long that has been wrong
  base,             \* memory in use outside Pods
  policy,           \* the eviction part of the QoSPolicy object
  due,              \* the ticker has fired and the tick has not been taken
  warm,             \* the collector has a CPU baseline
  breachedSince,    \* Manager.breachedSince
  recentlyEvicted,  \* Manager.recentlyEvicted
  tokens,           \* tokenBucket.tokens, in Window-ths of a token
  last,             \* tokenBucket.last
  pc,               \* "idle", or "loop" inside Manager.Run's loop over verdicts
  pol,              \* sig.Config of the current run
  cand,             \* sig.Pods of the current run
  queue,            \* the verdicts still to execute
  seen,             \* the keys the loop has dealt with
  nowAge,           \* age of the run's clock reading
  calm,             \* history: age of the last run that saw no pressure
  obsN, obsE        \* history: evictions and time since the observer started

cluster == <<pod, cache, lag, base, policy>>
manager == <<breachedSince, recentlyEvicted, tokens, last>>
local   == <<pc, pol, cand, queue, seen, nowAge>>
history == <<calm, obsN, obsE>>
vars    == <<cluster, due, warm, manager, local, history>>

-----------------------------------------------------------------------------
(* Plugins.  The pod list of an informer cache has no order and sort.Slice  *)
(* is not stable, so a ranking is any sequence that agrees with the order.  *)

EvictionRank(p) == CASE Tier[p] = "reclaimed" -> 3
                     [] Tier[p] = "shared"    -> 2
                     [] Tier[p] = "dedicated" -> 1
                     [] OTHER                 -> 0

Evictable(p) == Tier[p] # "system"

Rankings(S, before) ==
  {q \in [1..Cardinality(S) -> S] :
     \A i, j \in DOMAIN q : i < j => q[i] # q[j] /\ <<q[j], q[i]>> \notin before}

Verdicts(q, name) == [i \in DOMAIN q |-> [pod |-> q[i], plugin |-> name]]

\* A pod that has left the node has no cgroup left to sample.
MemOf(p) == IF pod[p] = "gone" THEN 0 ELSE Mem[p]
CpuOf(p) == IF pod[p] = "gone" THEN 0 ELSE Cpu[p]

MemUsed     == base + MapThenSumSet(MemOf, Pods)
MemUtil     == (MemUsed * 100) \div MemAlloc
MustFree    == MemUsed - (MemAlloc * (MemThreshold - 5)) \div 100

\* Mutant of RankBefore: the tier does not count.
RankByUsageAlone(p, q) == MemOf(p) > MemOf(q)

RankBefore(p, q) == \/ EvictionRank(p) > EvictionRank(q)
                    \/ EvictionRank(p) = EvictionRank(q) /\ MemOf(p) > MemOf(q)

Freed(q, n) == MapThenSumSet(LAMBDA i : MemOf(q[i]), 1..n)

\* The shortest prefix of the ranking that frees enough.
Enough(q) == Cardinality({i \in DOMAIN q : Freed(q, i - 1) < MustFree})

MemoryPressure(S) ==
  IF MemUtil < MemThreshold THEN {<<>>}
  ELSE {Verdicts(SubSeq(q, 1, Enough(q)), "memory-pressure") :
          q \in Rankings(S, {r \in S \X S : RankBefore(r[1], r[2])})}

CpuSuppression(S, stalled) ==
  LET reclaimed == {p \in S : Tier[p] = "reclaimed"}
      largest   == {p \in reclaimed : \A q \in reclaimed : CpuOf(q) <= CpuOf(p)}
  IN IF ~stalled \/ reclaimed = {} THEN {<<>>}
     ELSE {<<[pod |-> p, plugin |-> "cpu-suppression"]>> : p \in largest}

RatioAbove(p, q) == CpuOf(p) * Req[q] > CpuOf(q) * Req[p]

ReclaimedOverrun(S, level) ==
  LET over == {p \in S : /\ Tier[p] = "reclaimed"
                         /\ Req[p] > 0 /\ CpuOf(p) >= 3 * Req[p]}
  IN IF level = "None" THEN {<<>>}
     ELSE {Verdicts(q, "reclaimed-overrun") :
             q \in Rankings(over, {r \in over \X over : RatioAbove(r[1], r[2])})}

\* Every enabled plugin in name order, as BuildPlugins arranges them.
From(p, name, out) == IF name \in p.plugins THEN out ELSE {<<>>}

Proposals(S, p, level, stalled) ==
  {a \o b \o c :
     a \in From(p, "cpu-suppression", CpuSuppression(S, stalled)),
     b \in From(p, "memory-pressure", MemoryPressure(S)),
     c \in From(p, "reclaimed-overrun", ReclaimedOverrun(S, level))}

-----------------------------------------------------------------------------
(* The pressure level is the advisor's, taken over a window of samples.  It  *)
(* cannot be below what the current sample shows, and may be above it; but   *)
(* until the collector has a CPU baseline the advisor does not fold the      *)
(* sample in and the level says nothing about it.                            *)

PressureLevels(stalled) ==
  IF warm /\ MemUtil >= MemThreshold THEN {"Critical"}
  ELSE IF stalled \/ (warm /\ MemUtil >= MemThreshold - 10) THEN {"Moderate", "Critical"}
  ELSE Levels

\* livePods and evictionCandidates
Candidates == {p \in cache : Evictable(p) /\ p \notin Mirror}

Live == {p \in Pods : pod[p] = "running"}

Trails(p) == p \in cache <=> p \notin Live

\* One more unit of age, up to max.
Older(age, max) == IF age = Never \/ age >= max THEN age ELSE age + 1

\* Largest ages worth telling apart.
LastMax   == Window + RunLag
RecentMax == GcAge + RunLag + 1

AtRest == /\ pc' = "idle" /\ pol' = DefaultPolicy /\ cand' = {}
          /\ queue' = <<>> /\ seen' = {} /\ nowAge' = 0

Init ==
  /\ pod = [p \in Pods |-> "running"] /\ cache = Pods /\ lag = [p \in Pods |-> 0]
  /\ base \in BaseLoads /\ policy \in Policies
  /\ due = TRUE /\ warm = FALSE
  /\ breachedSince = Never /\ recentlyEvicted = [p \in Pods |-> Never]
  /\ tokens = BudgetAtStart * Window /\ last = Never
  /\ pc = "idle" /\ pol = DefaultPolicy /\ cand = {} /\ queue = <<>> /\ seen = {}
  /\ nowAge = 0
  /\ calm = 0 /\ obsN = 0 /\ obsE = Never

-----------------------------------------------------------------------------
(* agent.tick up to the manager's loop.                                     *)

\* A tick that ends before the sample: no node, no pod list, no collection.
TickFails ==
  /\ pc = "idle" /\ due
  /\ due' = FALSE
  /\ UNCHANGED <<cluster, warm, manager, local, history>>

\* loadPolicy: the object, or the defaults when it cannot be read.
LoadPolicy == {policy, DefaultPolicy}

TickStarts == pc = "idle" /\ due /\ due' = FALSE /\ UNCHANGED cluster

\* Run returns at once when eviction is off or the sample is an estimate; the
\* estimate is made when the cgroup tree cannot be read, and leaves no baseline.
RunRefused ==
  /\ TickStarts /\ warm' \in {warm, TRUE}
  /\ UNCHANGED <<manager, local, history>>

\* Mutant of TrackBreach: a run without pressure does not end the breach.
TrackBreachSticky(level) ==
  /\ breachedSince' = IF level # "None" /\ breachedSince = Never THEN 0 ELSE breachedSince
  /\ calm' = IF level = "None" THEN 0 ELSE calm

TrackBreach(level) ==
  /\ breachedSince' = IF level = "None" THEN Never
                      ELSE IF breachedSince = Never THEN 0 ELSE breachedSince
  /\ calm' = IF level = "None" THEN 0 ELSE calm

\* Measured by the clock reading of this run, so breachedSince' has age 0 when
\* it has just been set.
Stabilising == Stab > 0 /\ (breachedSince' = Never \/ breachedSince' < Stab)

\* A measured run: the plugins find nothing, the stabilisation period is not
\* over, or the loop over the verdicts begins.
RunMeasures(p, level, proposal) ==
  /\ TickStarts /\ warm' = TRUE
  /\ TrackBreach(level)
  /\ IF proposal = <<>> \/ Stabilising
     THEN UNCHANGED <<tokens, local>>
     ELSE /\ tokens' = Min({tokens, p.max * Window})
          /\ pc' = "loop" /\ pol' = p /\ cand' = Candidates
          /\ queue' = proposal /\ seen' = {} /\ nowAge' = 0
  /\ UNCHANGED <<recentlyEvicted, last, obsN, obsE>>

Measures ==
  \E p \in LoadPolicy, stalled \in BOOLEAN :
    /\ p.enabled
    /\ \E level \in PressureLevels(stalled) :
         \E proposal \in Proposals(Candidates, p, level, stalled) :
           RunMeasures(p, level, proposal)

-----------------------------------------------------------------------------
(* The loop over the verdicts.                                              *)

Target == Head(queue).pod

RecentlyEvicted(p) == /\ recentlyEvicted[p] # Never
                      /\ recentlyEvicted[p] - nowAge < RecentAge

\* Mutant of Veto: the priority of the pod is not looked at.
VetoIgnoringPriority(p) == ~Evictable(p) \/ p \in Mirror \/ RecentlyEvicted(p)

\* The rules of veto a pod of the snapshot can still meet.
Veto(p) == ~Evictable(p) \/ p \in Mirror \/ p \in Critical \/ RecentlyEvicted(p)

AtVerdict == pc = "loop" /\ queue # <<>>

NextVerdict == /\ queue' = Tail(queue) /\ seen' = seen \cup {Target}
               /\ UNCHANGED <<pc, pol, cand, nowAge>>

SkipVerdict ==
  /\ AtVerdict
  /\ Target \in seen \/ Veto(Target)
  /\ NextVerdict
  /\ UNCHANGED <<cluster, due, warm, manager, history>>

Due == AtVerdict /\ Target \notin seen /\ ~Veto(Target)

\* Mutants of Refilled: the refill is not capped, or never comes.
RefilledUncapped ==
  IF last = Never THEN tokens ELSE tokens + pol.max * (last - nowAge)

RefilledNever == tokens

\* Mutant of Refilled: the elapsed time is measured by another clock than the run's.
RefilledTwice == IF last = Never THEN tokens
                 ELSE Min({tokens + pol.max * last, pol.max * Window})

\* tokenBucket.take: credit the time since the last call, then spend one.
Refilled == IF last = Never THEN tokens
            ELSE Min({tokens + pol.max * (last - nowAge), pol.max * Window})

HasToken == pol.max > 0 /\ Refilled >= Window

\* Mutant of TakeToken: the elapsed time is credited again and again.
TakeTokenStale ==
  HasToken /\ tokens' = Refilled - Window /\ last' = IF last = Never THEN nowAge ELSE last

TakeToken == HasToken /\ tokens' = Refilled - Window /\ last' = nowAge

\* No token: the loop breaks, the remaining verdicts are dropped.
RateLimited ==
  /\ Due /\ ~HasToken
  /\ IF pol.max = 0 THEN UNCHANGED <<tokens, last>>
     ELSE tokens' = Refilled /\ last' = nowAge
  /\ queue' = <<>> /\ seen' = seen \cup {Target}
  /\ UNCHANGED <<cluster, due, warm, breachedSince, recentlyEvicted,
                 pc, pol, cand, nowAge, history>>

\* Dry run, a PodDisruptionBudget (429), a pod that is gone, a call that did not get
\* through: the token is spent and the loop goes on.
EvictionRefused ==
  /\ Due
  /\ TakeToken /\ NextVerdict
  /\ UNCHANGED <<cluster, due, warm, breachedSince, recentlyEvicted, history>>

\* The API server accepts: it goes by name, so whatever pod has that name now is told to
\* go.  A budget does not hold back a pod that is on its way out already.
Accepted ==
  /\ Due
  /\ ~pol.dryRun /\ pod[Target] # "gone"
  /\ Target \in Guarded => pod[Target] # "running"
  /\ TakeToken /\ NextVerdict
  /\ obsN' = IF obsE = Never THEN 0 ELSE obsN + 1
  /\ UNCHANGED <<cache, lag, base, policy, due, warm, breachedSince, calm, obsE>>

Evicts ==
  /\ Accepted
  /\ pod' = [pod EXCEPT ![Target] = "terminating"]
  /\ recentlyEvicted' = [recentlyEvicted EXCEPT ![Target] = nowAge]

\* The API server accepts, but its reply is lost: an error like any other, of which
\* nothing is remembered.
ReplyLost ==
  /\ Accepted
  /\ pod' = [pod EXCEPT ![Target] = IF @ = "terminating" THEN @ ELSE "leaving"]
  /\ UNCHANGED recentlyEvicted

Tells == Evicts \/ ReplyLost

\* Mutant of RunEnds: every run starts with an empty map.
RunEndsForgetting ==
  /\ pc = "loop" /\ queue = <<>>
  /\ recentlyEvicted' = [p \in Pods |-> Never]
  /\ AtRest
  /\ UNCHANGED <<cluster, due, warm, breachedSince, tokens, last, history>>

\* gcRecent, and the end of the run.
RunEnds ==
  /\ pc = "loop" /\ queue = <<>>
  /\ recentlyEvicted' = [p \in Pods |->
       IF recentlyEvicted[p] - nowAge > GcAge THEN Never ELSE recentlyEvicted[p]]
  /\ AtRest
  /\ UNCHANGED <<cluster, due, warm, breachedSince, tokens, last, history>>

-----------------------------------------------------------------------------
(* Time, the agent process and the cluster.                                 *)

\* One interval passes: between ticks, or while an API call of a run is slow.
Advance ==
  /\ IF pc = "idle" THEN ~due ELSE nowAge < RunLag
  /\ \A p \in Pods : Trails(p) => lag[p] < MaxLag
  /\ due' = TRUE
  /\ lag' = [p \in Pods |-> IF Trails(p) THEN lag[p] + 1 ELSE 0]
  /\ nowAge' = IF pc = "idle" THEN 0 ELSE nowAge + 1
  /\ breachedSince' = Older(breachedSince, Stab)
  /\ last' = Older(last, LastMax)
  /\ recentlyEvicted' = [p \in Pods |-> Older(recentlyEvicted[p], RecentMax)]
  /\ calm' = Older(calm, Stab)
  /\ IF obsE = MaxObs THEN obsE' = Never /\ obsN' = 0
     ELSE obsE' = Older(obsE, MaxObs) /\ obsN' = obsN
  /\ UNCHANGED <<pod, cache, base, policy, warm, tokens, pc, pol, cand, queue, seen>>

\* The process dies and starts over with a fresh cache: agent.New, NewManager.
Restart ==
  /\ due' = TRUE /\ warm' = FALSE
  /\ cache' = Live /\ lag' = [p \in Pods |-> 0]
  /\ breachedSince' = Never /\ recentlyEvicted' = [p \in Pods |-> Never]
  /\ tokens' = BudgetAtStart * Window /\ last' = Never
  /\ AtRest
  /\ calm' = 0 /\ obsN' = 0 /\ obsE' = Never
  /\ UNCHANGED <<pod, base, policy>>

\* Somebody else deletes a pod, which has its grace period to end.
PodDeleted(p) ==
  /\ pod[p] = "running"
  /\ pod' = [pod EXCEPT ![p] = "leaving"]
  /\ UNCHANGED <<cache, lag, base, policy, due, warm, manager, local, history>>

\* The kubelet removes a pod on its way out.
PodRemoved(p) ==
  /\ pod[p] \in {"leaving", "terminating"}
  /\ pod' = [pod EXCEPT ![p] = "gone"]
  /\ UNCHANGED <<cache, lag, base, policy, due, warm, manager, local, history>>

\* A pod ends by itself, or is deleted without a grace period.
PodEnds(p) ==
  /\ pod[p] = "running"
  /\ pod' = [pod EXCEPT ![p] = "gone"]
  /\ UNCHANGED <<cache, lag, base, policy, due, warm, manager, local, history>>

\* A controller creates the pod again under the same name.
PodReturns(p) ==
  /\ pod[p] = "gone"
  /\ pod' = [pod EXCEPT ![p] = "running"]
  /\ UNCHANGED <<cache, lag, base, policy, due, warm, manager, local, history>>

CacheSyncs(p) ==
  /\ Trails(p)
  /\ cache' = (IF p \in Live THEN cache \cup {p} ELSE cache \ {p}) /\ lag' = [lag EXCEPT ![p] = 0]
  /\ UNCHANGED <<pod, base, policy, due, warm, manager, local, history>>

LoadChanges ==
  /\ base' \in BaseLoads \ {base}
  /\ UNCHANGED <<pod, cache, lag, policy, due, warm, manager, local, history>>

PolicyChanges ==
  /\ policy' \in Policies \ {policy}
  /\ UNCHANGED <<pod, cache, lag, base, due, warm, manager, local, history>>

\* History: an observer starts counting evictions, at any moment.
ObserverStarts ==
  /\ obsE = Never /\ MaxObs > 0
  /\ obsE' = 0 /\ obsN' = 0
  /\ UNCHANGED <<cluster, due, warm, manager, local, calm>>

Loop == SkipVerdict \/ RateLimited \/ EvictionRefused \/ Tells \/ RunEnds

Environment ==
  \/ \E p \in Pods : PodDeleted(p) \/ PodRemoved(p) \/ PodEnds(p) \/ PodReturns(p) \/ CacheSyncs(p)
  \/ LoadChanges \/ PolicyChanges

Next == TickFails \/ RunRefused \/ Measures \/ Loop \/ Advance \/ Restart \/ Environment \/ ObserverStarts

Spec == Init /\ [][Next]_vars

\* The loop of a run is straight-line code, the ticker keeps firing and the
\* informer keeps delivering; ticks, samples, API calls and their replies do not
\* fail for ever.
Fairness ==
  /\ WF_vars(Loop) /\ SF_vars(Advance)
  /\ \A p \in Pods : WF_vars(CacheSyncs(p))
  /\ SF_vars(Measures) /\ SF_vars(Evicts)

FairSpec == Spec /\ Fairness

-----------------------------------------------------------------------------
(* Properties.                                                              *)

TypeOK ==
  /\ pod \in [Pods -> Phases] /\ cache \subseteq Pods
  /\ lag \in [Pods -> 0..MaxLag]
  /\ base \in BaseLoads /\ policy \in Policies /\ due \in BOOLEAN /\ warm \in BOOLEAN
  /\ breachedSince \in {Never} \cup 0..Stab
  /\ recentlyEvicted \in [Pods -> {Never} \cup 0..RecentMax]
  /\ tokens \in 0..(MaxBudget * Window) /\ last \in {Never} \cup 0..LastMax
  /\ pc \in {"idle", "loop"} /\ pol \in PolicyType
  /\ cand \subseteq Pods /\ seen \subseteq Pods
  /\ queue \in Seq([pod : Pods, plugin : Plugins])
  /\ nowAge \in 0..RunLag
  /\ calm \in 0..Stab /\ obsN \in Nat /\ obsE \in {Never} \cup 0..MaxObs

\* A pod that has been told to go, and has answered so, is not told again before it has
\* gone, whatever the cache lag, a slow run, a restart or the trimming of the map in
\* between: the budget is not spent twice on it (manager.go, recentlyEvicted).  Of a pod
\* that somebody else deleted, or whose reply was lost, the map knows nothing: such a pod
\* may be told again until the cache shows that it is going.
NoDoubleEviction == [][Tells => pod[Target] # "terminating"]_vars

\* A pod is evicted only after every candidate of a tier that is cheaper to lose
\* has been evicted, refused or vetoed in the same run, whichever plugins asked
\* (plugins.go, rankByTierThenUsage; README, Taking it back).
TierOrder ==
  [][Tells => \A q \in cand : EvictionRank(q) > EvictionRank(Target) => q \in seen]_vars

\* No eviction within the stabilisation period of the process start or of a run
\* that measured no pressure (manager.go, trackBreach).
Stabilised == [][Tells => calm >= Stab]_vars

\* In any interval, wherever it starts, the manager of one process evicts at most
\* a full budget plus what the budget refills in that time (manager.go,
\* tokenBucket); RunLag accounts for API calls that answer late.
RateLaw == obsE # Never => obsN * Window <= MaxBudget * (Window + RunLag + obsE)

\* kqos never evicts the system tier, a mirror pod or a system-critical pod
\* (manager.go, veto; agent.go, evictionCandidates); somebody else may delete them.
Untouchable ==
  \A p \in Pods : ~Evictable(p) \/ p \in Mirror \cup Critical => pod[p] # "terminating"

\* Over the memory threshold although there is a pod that may go and whose
\* disruption budget allows it.
MayGo == {p \in Pods : Evictable(p) /\ p \notin Mirror \cup Critical \cup Guarded}

Starved == /\ policy.enabled /\ MemUtil >= MemThreshold
           /\ \E p \in MayGo : pod[p] = "running"

\* What the plugin would have to free is more than the pods hold that are proposed in
\* vain.  The ranking counts what they hold as freed, and ends with them where it is enough.
InVain == {p \in Pods : Evictable(p) /\ p \notin Mirror \cup MayGo}

Reaches == MapThenSumSet(MemOf, InVain) < MustFree

\* The process stays up, and pods stop ending and being deleted by somebody else.
Settles == <>[][~Restart /\ ~\E p \in Pods : PodEnds(p) \/ PodDeleted(p)]_vars

\* From then on, memory pressure that does not end keeps the manager evicting, one pod at
\* a time as the budget allows and pods that must stay in front of it or not, where these
\* do not hold by themselves what is to be freed (plugins.go, memoryPressure).
KeepsRelieving == Settles /\ <>[](Starved /\ Reaches) => []<><<Evicts>>_vars

\* "One pod protected by a disruption budget must not stop the manager from relieving
\* pressure using another" (manager.go, the comment on Run), whatever that pod holds.
RelievesPastBudgets == Settles /\ <>[]Starved => []<><<Evicts>>_vars

-----------------------------------------------------------------------------
(* The abstract specification.  Credit is what the budget holds plus what it  *)
(* can still be refilled for time that has already passed: time adds at most  *)
(* MaxBudget a unit to it, and every eviction takes Window from it.           *)

Ceiling == MaxBudget * (Window + RunLag)

CreditOf(tok, age) ==
  IF age = Never THEN tok + MaxBudget * RunLag
  ELSE IF tok + MaxBudget * age <= Ceiling THEN tok + MaxBudget * age ELSE Ceiling

Credit == CreditOf(tokens, last)

Terminating == {p \in Pods : pod[p] = "terminating"}

Protected == {p \in Pods : ~Evictable(p) \/ p \in Mirror \cup Critical}

L == INSTANCE Limiter WITH
       Cost <- Window, Rate <- MaxBudget, Longest <- MaxObs,
       told <- Terminating, credit <- Credit

\* The manager is a limiter: whatever policies, caches, plugins, slow calls, lost replies
\* and restarts do, every step it takes is one the limiter may take (manager.go, Manager.Run).
Limited == L!Spec
=============================================================================
