# Verification of kqos

kqos runs a node agent that measures pods, offers the unused part of a node to a
*reclaimed* tier, partitions CPUs, and takes capacity back by evicting. Beside it run a
controller that puts the offer on the Node object, a controller that condenses workload
usage, and an admission webhook. These modules model the parts of that system where
order, time, failure and stale state decide whether it is correct. They are read with
`src/`: each definition names in `PROJECT.json` ("map") the lines it stands for.

Paths below are relative to `src/pkg/` unless they start with `src/`.

## The system

One agent runs on every node. Every interval (10 s) its ticker calls `agent.tick`, which
runs, in one goroutine and in this order:

    loadPolicy -> applyPolicy -> livePods -> collector.Collect -> advisor.Observe/Recommend
               -> cpupool.Reconcile -> report (profile status) -> publisher -> eviction.Run

Any step may fail and end the tick or only log. Everything the agent reads from the API
server comes from informer caches; everything it remembers between ticks lives in memory
and is lost with the process. What the cluster sees of an agent is its
`NodeResourceProfile`; what the agent sees of the cluster is its pods, its node and the
`QoSPolicy`.

| Component | State it keeps | Operations | What makes it correct |
|---|---|---|---|
| **Eviction manager, plugins** (`agent/eviction`) | breach clock, recently evicted pods, token bucket | `Run`: plugins propose, verdicts are executed in order | never the wrong pod, never too early, never too many, never twice, and yet pressure is relieved |
| **Agent loop** (`agent/agent.go`) | policy in force, the parts' configurations | `tick`, `loadPolicy`, `applyPolicy` | a failed step leaves the others consistent; a policy change is a change under way, not a restart |
| **System advisor** (`agent/sysadvisor`) | six rings of observations, the last offer, the revision | `Observe`, `Recommend`, `SetConfig` | the ring is the window; an offer falls at once, rises slowly, and leaves room for the peaks seen |
| **CPU pool manager** (`agent/cpupool`, `cpuset`) | what was written per pod, the last layout | `Reconcile`, `SetConfig`, `Pools` | dedicated CPUs are exclusive; memory of writes equals the kernel; a settled node is not written |
| **Profile reporting** (`agent/report.go`) | none; the profile and a cached copy of it | create, status patch | the profile says what the last report said |
| **Overcommit controller** (`controller/overcommit`) | informer caches, work queue | event filter, `Reconcile`, patch, requeue | the Node advertises the live offer, and nothing for a dead agent |
| **Collector** (`agent/collector`) | CPU counters of the node and of every pod, as last read | `Collect` | a rate shows what was burned between two readings, no more and no less; a counter that started over gives none; nothing is kept of pods that left |
| **Cgroup file system, resolver** (`agent/cgroup`) | resolved paths, the one search for kubepods | reads, writes, lookup | paths stay right for as long as they are cached |
| **Usage store, publisher, transport** (`usage`) | samples per workload; memoised addresses of the replicas | `Ingest`, `WorkloadStats`, `GC`; `Publish` to every replica | retention, cap and expiry agree on what is kept; a replica that takes over has seen what its predecessor saw |
| **Workload profile, discovery** (`controller/profile`) | the status of the profile; reads the store | creation of profiles, recommendation | a profile says what the evidence says, and that there is none when there is none |
| **Policy rollup** (`controller/policy`) | informer caches, work queue; the status of the policy | count matching nodes, live agents, nodes under pressure; patch; requeue | the status follows the profiles, and agents that die silently are noticed |
| **Admission webhook** (`webhook`, `qos`) | none; what it writes into the pod | choice of the level, validation, rewrite | the agent reads from a rewritten pod what its author asked for; what was admitted is admitted again |
| **API types, metrics, binaries** | none of behaviour | - | - |

They interact by calls inside a tick (the advisor's pressure level is an input of the
eviction plugins, its offer an input of the report), by API objects across processes
(agent -> profile -> controller -> Node -> scheduler; operator -> policy -> agent), and by
the kernel's cgroup files. Nothing in the agent is shared between goroutines except
behind a mutex; the hard parts are time, caches that trail, steps that fail one by one,
and processes that start over.

`PROJECT.json` lists 40 hazards of this code at the line where they bite, each with the
properties that would catch it, or the reason why none does.

## The modules

| Module | Models |
|---|---|
| `Eviction` | tick after the sample, manager, plugins, pods behind a lagging cache |
| `Limiter` | what the eviction manager promises: the abstract specification |
| `MCEviction`, `EvictionProofs` | instances for TLC; theorems, among them that `Eviction` implements `Limiter` |
| `Window` | `sysadvisor/window.go`: the ring and the aggregates |
| `Recommendation` | what a recommendation says and when it is worth a revision |
| `Advisor`, `MCAdvisor`, `AdvisorProofs` | `Observe`, `Recommend`, `SetConfig` over `Window` and `Recommendation` |
| `CpuPool`, `MCCpuPool`, `CpuPoolProofs` | layout and writes of the CPU pool manager, with the topology and CPU sets |
| `Collector`, `MCCollector`, `CollectorProofs` | `Collect` read by read, counters that start over, the resolver's cache |
| `Advertise`, `MCAdvertise`, `AdvertiseProofs` | report, profile, overcommit controller and Node, over `Recommendation` |
| `Rollup`, `MCRollup`, `RollupProofs` | profiles, nodes and policy, the policy controller and its caches |
| `Admission`, `MCAdmission`, `AdmissionProofs` | a pod between its author, the API server and the webhook |
| `Usage`, `MCUsage`, `UsageProofs` | publishers, replicas with their stores, the leader's profile controllers |

`Recommendation` is shared: `Advisor` computes offers with it and `Advertise` decides with
it whether a report raises the revision, the one field the controller's event filter
looks at most. `Usage` takes the nearest-rank percentile and the maximum from `Window`,
where they are the same functions.

### Eviction

A unit of time is one interval. A time stamp of the code is kept as its age, saturated at
the largest constant the code compares it with, so behaviours are endless and states are
finitely many. `due` is the ticker. A tick fails early (`TickFails`), is refused by `Run`
because eviction is off or the sample is an estimate (`RunRefused`), or measures
(`Measures`): it tracks the breach, evaluates the enabled plugins in name order on the
cached pod list and, past the stabilisation period, enters the loop over the verdicts.
From there one action is one turn of the loop: `SkipVerdict`, `RateLimited`,
`EvictionRefused` (dry run, 429, not found, a call that did not get through: in each the
token is spent), `Evicts`, `ReplyLost`, and `RunEnds` with the trimming of the map. Time may
pass and pods may change between two turns, since `Run` reads the clock once and then calls
the API; `nowAge` is how old that reading is.

An eviction the API server accepted may still be an error to the manager, when its reply is
lost: then the pod goes, a token is spent and nothing is remembered (`ReplyLost`; `Tells` is
either). The same pod may be asked to go again, and so may one that somebody else deleted and
that has its grace period to end (`PodDeleted`), until the cache shows it. The model keeps
the two apart from the pods of which the manager knows: those are `terminating`, the
others `leaving`. A budget does not hold back a pod that is on its way out already, and
`PodRemoved` ends either way out. `cache` is the set of pods the informer shows as running.

The plugins rank pods by sorting with a comparison that leaves ties, over a list without an
order: `Rankings` is the set of all sequences that agree with the comparison. The pressure
level is the advisor's; here it is any level not below what the current sample shows, and
any level at all when the advisor did not fold the sample in.

Abstracted: a pod's use is constant while it runs, and a pod that finished counts as gone.
An eviction goes by name, so a pod that has come back under the same name is evicted in
place of the one that was meant; this is what the code does. Tokens are floats in the code
and exact `Window`-ths here. `lag` ages a difference between cache and API server as a
whole: the cache jumps to the latest version.

`Limiter` says what remains of all this for whoever owns the pods: pods are told to go,
never a protected one and none a second time that has answered, and each telling costs one
unit of an account that time refills up to a ceiling, answered or not. A pod that goes
without having answered is none of its business. The mapping at the end of `Eviction` takes the
terminating pods as those that were told and answered, and as credit the tokens plus the
refill that is due since the last look at the bucket (`CreditOf`): tokens alone would jump
up whenever the loop looks. An eviction is `Tells`, one whose reply is lost
`TellsUnheard`, a terminating pod that is removed `Goes`, a refused eviction and a smaller
budget are `Forfeits`, a unit of time is `Ticks`, a restart is `StartsOver`.

### Advisor

One step is one tick. The six rings of the code are always pushed together, so one ring
holds whole observations. `log` is the reference: a plain list of the observations made
since the windows were built. Percentages and offers are exact integers where the code
truncates floats; EWMA keeps its accumulator as a fraction and truncates once, as the code
does. The constants are what the CRD and the code admit: a cap on what is reclaimed of 0 to
100 percent, a positive growth step (25 in the code), finitely many pods in a sample.
`Live` and `log` are cut to the horizon by the same function `Within`; which slots of the
ring are read, and in which order, is what differs. `revised` is the revision's increment;
its value matters in `Advertise` only.

### CpuPool

`Starts` is the policy and the pod list of one pass, in any order the cache may return;
`Place` one dedicated pod, the largest first; `PlacesRest` the shared and the reclaimed
pool; `WritePod` or `SkipPod` one pod of the write loop, each of its two writes succeeding
or not; `PassEnds` the trimming of the maps. Pods get their cgroup late and lose it before
or after the API server knows, between any two writes. A pod that is still listed may get a
cgroup again, under the same path (`CgroupAppears`). It is a fresh one, but the maps keep their
entries for as long as the pod is listed (`cpupool/pool.go:132-137`), so nothing is written
into it; `remade` marks such pods for the properties. A pod is a UID and lives once. Pod
events wait while `pc = "place"`: the placing reads only its own snapshot. A reservation
that does not parse is the empty one. Files are changed by the manager alone; a kubelet
that rewrites them is not modelled.

### Collector

One tick is `CollectNode`, a `CollectPod` per pod in any order, `CollectEnds` with the
fallback and the forgetting, and `PoolsPass`, in which the CPU pool manager asks the same
resolver for the same paths. Between any two of them the kubelet makes and removes cgroups,
also of a pod that is still listed, and pods burn CPU. The kubepods cgroup is searched for
once (`sync.Once`), and an agent that starts before the kubelet sums the pods up for the
rest of its life. A counter is CPU time in units; `Reading` keeps a rate as the difference
it was computed from, since the time between two ticks is positive and the same for the
code and the reference.

The reference is kept beside the code's state: `life` is what a pod burned in all its
cgroups, `mark` the same at its last reading, `truth` the difference that this tick's
reading should not exceed, and `intact` names the pods whose cgroup is still the one that
was read last.

### Advertise

The agent recommends and patches the profile's status with the difference to its cached
copy (`Merged`), or creates the profile and reports nothing on that tick (`Creates`). The
controller has a cache of the profile and of the node, an event filter
(`ReclaimableChanged`) and a work queue with one entry per key, so `wake` is one number
and the earlier time wins. `Decides` and `Patches` are two steps: events, restarts and
time of others fall between them. A profile carries the age of its report; a profile that
is older than `StaleAfter` is worth nothing. `since` is the time for which nothing changed
or failed; the properties speak of the state after `Settling` units of it.

Time in which work is ready is bounded: what is in the queue is done within a unit and a
cache trails by `MaxLag` at most. A node that leaves takes profile and agent with it and
returns after the caches have noticed. An agent starts only where the control plane knows
the node, since its own pod was scheduled there.

### Rollup

A unit is one `RequeueAfter` of the controller. `Patches` is a whole `Reconcile`: the
counts over the cached profiles and nodes, and the patch with the difference to the cached
policy (`Merged`, as in `Advertise`). It carries `lastUpdated` in seconds, so it may change
nothing and then no event follows. Informers deliver one by one, in any order; a change of
a profile or of the policy wakes the controller, a change of a node does not, and neither
does the death of an agent, whose profile only grows old. The leader dies at any time; the
next one has fresh caches and creates a policy that is missing (`EnsureDefault`). A pass that
fails returns the error to the work queue, whose failure limiter retries it after anything
up to `Backoff` (`PatchFails`), far later than a requeue when failures add up.

`since` is the time for which the true counts have not changed and nothing failed. It also
starts over when a report arrives that another unit of cache lag could make look late.
`Settling`, the age at which `Current` speaks, is one lag for the event that is out, then the
longest of a requeue, the delay of a retry and another lag, for the pass that follows the
patch, and the unit in which that pass runs. A failure starts `since` over, but the retry it
has put off is still to come, which is why that delay is part of the settling time.

### Admission

A pod passes the API server's defaulting, the webhook, defaulting again and validation
(`Submit`, then `Mutates`, `Denies` or `Bypass`), and the stored object may be submitted once
more (`Resubmit`) under another policy, with the annotations and the resources of the first
pass in it. `Bypass` is a namespace that is exempt, a pod that does not decode, or a webhook
that does not answer (its failure policy lets the pod through). An unreadable policy
is the built-in defaults (`ReadConfig`). CPU is in milli-cores and memory in KiB, so that
the rounding of the extended resource to MiB shows. `asked` is the pod as its author
submitted it. The annotation `original-resources` is modelled as the containers it lists. A
pod is deleted in any state, and a new one comes.

`Footprint` speaks of memory only where no container asks for more of it than its own limit
(`Bounded`). The API server refuses such a pod, but the webhook runs first: its rewrite drops
the request and keeps the limit, and the pod is stored with the smaller size. `MCAdmission`
has such a container.

The second half of the module is what the agent computes from a stored pod: `LevelOf`,
`NativeQoS`, `PodRequest` and `EffectiveRequest` of `qos/qos.go`.

### Usage

A unit is one agent interval. There is one workload, and each agent runs one of its pods;
series of different workloads share nothing but the lock. A publish is `PublishMemoised`,
`PublishResolved` or `PublishBlind` (by what the lookup did), then one `Posts` or
`PostFails` per target, in any order, then `PublishEnds`: replicas die, start, win
elections, collect garbage and read their stores between two posts of one report. A replica
is an address and a process: a memoised address may have nobody behind it, or a new process
with an empty store. When a lookup fails and nothing is memoised, the report goes to the
name of the Service and reaches one replica or none. A restarted agent looks the addresses
up at once (`Start` logs them) and has no rates to send on its first tick. Reports of
estimates are refused on arrival, so a tick that produces one is a tick on which the agent
stays `due`.

A sample's time stamp is the agent's; `Skew` says by how much its clock is behind. Samples
are kept as (pod, age); what a pod uses and requests is constant. A series without samples
answers every question as a missing one does, so its removal does not show, and neither
does the map of pods, which nobody reads. The profile's reconciler runs after a requeue
(`wake`) and at any time before, since events of the profile, its own patches among them,
wake it too. Its read and its patch are one step: the pass before is in the cache when
the requeue comes, and nobody else writes the status. A leader's process that loses the
lease exits, as does the rest of the controller.

`log` is the reference for the store: everything that arrived and is in the window, in
order, each with the number of later arrivals up to the cap. `measured` are the
measurements whose publish is over. `intact` counts the time for which a replica was
missed by no report and dropped nothing by the cap, `same` the time for which the leader's
evidence neither came nor went nor a patch failed, counted up to one unit past `Patience`,
the longer of requeue and retry. Ages are saturated one past the window; a sample that is too
old when it arrives is kept until the next unit, as the store keeps it until it looks.

## The runs

| Run | Shows |
|---|---|
| `eviction_budget` | `RateLaw`: in any interval the evictions are at most a budget and its refill. `NoDoubleEviction`: a pod that was told to go and answered is not told again, with slow API calls, lost replies, pods that somebody else deletes and a trailing cache. `TierOrder`: an eviction comes only after every candidate of a cheaper tier was evicted, refused or vetoed in that run, whichever plugins asked. `Stabilised`: none within the stabilisation period of a calm run or a start. `Limited`: every behaviour is one of `Limiter` |
| `eviction_relief` | `KeepsRelieving`: memory pressure that does not end keeps the manager evicting, with a critical pod ranked in front of the one that may go, where the critical pod does not hold by itself what is to be freed. `Untouchable`: system, mirror and critical pods stay, even where nothing else is left |
| `advisor` | `LiveIsRecent`, `WithdrawnWhileHot`, `OfferLeavesRoom`, `GradualGrowth`, `Converges` over gaps, invalid samples, policy changes and restarts |
| `cpupool` | `ExclusiveLayout`, `RememberedIsWritten`, `ExclusiveInKernel`, `SteadyWritesNothing` with pods of equal size, failing writes, cgroups that vanish and are made again, policy changes and restarts. `Healed`: one pass in which nothing failed or changed makes good whatever failed before it, but for what was lost with a cgroup that was made again |
| `collector` | `NeverOverstated`: no reading shows CPU that was not burned since the last one, through cgroups made again, failed reads and restarts. `NothingLost`: what a failed read missed is in the next. `Forgets` |
| `advertise` | `Withdrawn`, `Advertised`: the node follows the last report of a live agent, and advertises nothing for a dead one, within a requeue or a retry and the lag of the caches |
| `rollup` | `Current`: where nothing happened for the longer of a requeue and the delay of a retry, and the lag of the caches, the status says what the profiles say, whatever patches against stale copies, lost events, new leaders and deleted policies came before |
| `admission` | `Footprint`, `NoCpuRequest`: however often a pod is submitted, it competes for no real CPU and the agent reads from it what its author asked for. `CriticalIsSystem`, `Readmitted`, `WholeCoresStored`: the level inferred, written and validated once holds later, under other policies |
| `usage_store` | `KeepsRecent`: a store answers with the reports it was sent that are in the window, in their order; what is missing had a whole cap of later ones after it. `TypeOK` |
| `usage_failover` | `Covers`: a leader that was reached for a window, whenever it was elected, recommends from every measurement in it and no less memory than any pod used. `Follows`: within a requeue, or the longest retry where patches failed, the profile says whether there is evidence |

Two runs show a property that a comment of the code states and the code violates
("findings" in `PROJECT.json` quotes the lines):

| Run | Shows |
|---|---|
| `eviction_pdb` | `RelievesPastBudgets` fails: a pod behind a disruption budget that ranks first and holds what is to be freed is proposed alone and refused at every tick, and the pod that may go is never proposed. The ranking counts as freed what is refused (`eviction/plugins.go:54-69`); the tokens have no part in it |
| `cpupool_exclusive` | `ExclusiveToAll` fails: a large reclaimed floor puts reclaimed pods on dedicated CPUs |

### Bounds

*Eviction.* The real times are 3 intervals of stabilisation, a minute (6) of refill, a veto
of 12 and a trimming after 60. `eviction_budget` has two pods of different tiers, `Stab` and
`Window` 2, `RecentAge` and `GcAge` 3, `MaxLag` and `RunLag` 1, and a load that
is over the threshold while both pods run: enough for a breach that ends with a pod and comes
back with it, a slow run, a cache that trails into the next run, one pod named by two
plugins, an entry that expires, and a bucket that runs out and refills. `MaxObs` 2 bounds
the interval the observer of `RateLaw` measures: the end of one refill and a second
budget. `eviction_relief` has two shared pods, a larger one that is critical and a smaller
one that may go, the lags and times of `eviction_budget`, one token, and policies that
switch eviction off and on. Under one of its two loads outside the pods the critical pod
holds by itself what is to be freed, under the other it does not. Both keep the node over
its threshold while both pods run.

`KeepsRelieving` speaks of behaviours that settle: from some time on the process stays up, no
pod ends or is deleted by somebody else, eviction is on, a pod may go, and what is to be
freed is more than the pods hold that are proposed in vain (`Reaches`). The last is not a
bound of the model but a fact about the code: where it does not hold, the plugin proposes
the critical pod alone, the manager vetoes it in every run, and nothing else is ever
evicted. `eviction_pdb` shows the same with a budget in the place of the veto. Pods that
refuse are covered by `InVain`, which counts the guarded ones too.

*Advisor.* A window of three slots wraps, fills and drains within the run; a second policy
has another window and algorithm and leaves one floor out. The four samples are an idle, a
busy (with a pod without a rate) and a hot node, and one without rates. `AgeMax` lies past
every window.

*CpuPool.* Two sockets of two CPUs, numbered in turn as firmware does, and three dedicated
pods: one of two CPUs that asks for its zone, and two of one CPU, replicas of each other
(hence the symmetry). One CPU is reserved, and so is one that the machine lacks; with
three CPUs left and one promised to the shared tier, a request is refused at the floor and
its pod runs in the shared pool. Actuation is switched on and off. This is the smallest
layout in which a zone is preferred, pods swap CPUs with the order of the list, and a
granted pod meets one that is not.

*Collector.* Two pods that may be exchanged (hence the symmetry) and three units of CPU in
a behaviour: one before, one between and one after two readings, in one cgroup or in two.

*Rollup.* One node, `Alive` 3, `Requeue` 1, `Backoff` 4 and `MaxLag` 1 keep the order of 90 s,
30 s, a retry that comes later than either (up to 1000 s in the code), and a cache lag:
the age at which an agent counts as dead falls between two passes or into the lag. Each
node adds to every count by itself; two nodes have more states than can be searched, and
the theorem holds for any number.

*Admission.* Eight containers: with and without limits, request equal to the limit,
limits alone, nothing, zeros, a request over its limit; CPU of one and a half and of two
cores, memory below and above a MiB. A pod has one or two of them and up to one init
container. Three policies differ in default level, rewriting and exemption.

*Advertise.* A withdrawal, an offer, and one less than two percent larger: not worth a
revision to the advisor and worth a patch to the controller. `StaleAfter` 3, `Requeue` 2,
`Backoff` 2 and `MaxLag` 1 keep the order of 90 s, 45 s and a cache lag below a requeue. A
retry may be delayed by more than the requeue in the code (up to 1000 s); then the node
follows that much later, and `Settling` says so: the longer of requeue and retry delay,
plus three lags (the agent's cache, the controller's cache of the profile and that of the
node) and two units. The theorems hold for every `Backoff`, the run has it as long as the
requeue. `MaxRevision` 2 is enough for a restarted agent to repeat a revision the
controller has seen.

*Usage.* `usage_store`: one replica, two agents of which one has a clock one interval
behind, `Retention` 1 and a cap of 3: the cap drops live samples and keeps expired ones,
and samples of the slow clock expire before older arrivals. The confidence thresholds 2 and
3 are met and missed. `usage_failover`: two replicas (interchangeable, hence the symmetry),
one agent, `CacheFor` 2, `Requeue` 2, `Backoff` 1, so that the memoised answer outlives a
replica and a window. `Settling`, after which `Covers` speaks, is `CacheFor + Retention + 1`:
addresses memoised before the replica started have to be forgotten first.

### Fairness

`Eviction`: the loop of a run is straight-line code and informers deliver (weak fairness);
the ticker keeps firing, and samples and API calls do not fail for ever (strong fairness of
`Advance`, `Measures` and `Evicts`). Strong fairness of `Evicts` says that evictions the
API server allows are not refused for ever for another reason, and that not every reply is
lost; a running pod behind a disruption budget never enables it, which is what
`eviction_pdb` is about.

`Advisor`: the assumption of `Converges` is its antecedent `Steady`: ticks keep coming and
from some time on each is like the one before. `Advertise` has no liveness property; its
deadlines are invariants over `since`, which needs no fairness; the same holds for `Usage`
with `same` and `intact`. `CpuPool` (`Healed` speaks of the end of a clean pass), `Collector`,
`Rollup` and `Admission` need none either.

## The proofs

Each theorem holds for every value of the constants that satisfies the assumptions of
its module: sets are finite, numbers have their range, records their type. The few
assumptions that say more are named below.

`EvictionProofs`. `AgeAssumption` is more than a type: `MaxLag + RunLag < RecentAge <= GcAge`,
a cache that catches up, and a run that ends, within the two minutes of the veto.

* `TypeCorrect` (`TypeOK`). `TypeOK` is not inductive: `TypeInv` adds that the queue holds
  candidates (`QueueOK`) and where the clock reading stands (`ClockOK`). It rests on lemmas
  about the plugins: what they propose is a sequence over the candidates.
* `StabilisationHolds` (`Stabilised`). `StabInv`: the breach is never older than the time
  since a calm run, so a breach of age `Stab` shows `Stab` units without one.
* `NoDoubleEvictionHolds` (`NoDoubleEviction`). `VetoInv`: a pod that is terminating and
  still running in the snapshot of the run has an entry in the map, no older than the lag
  of the cache plus the length of a run. By `AgeAssumption` the veto still holds. Of a pod
  that is `leaving` it says nothing, as the map does; such a pod may be told to go, and is
  `terminating` once it answers.
* `RateLawHolds` (`RateLaw`). `RateInv` is a credit argument: the evictions counted, in
  `Window`-ths, plus what the bucket could hold after crediting the time since its last
  call, never exceed one full bucket, the refill of a slow run and the refill since
  the observer started.
* `UntouchableHolds` (`Untouchable`), from the veto.
* `TierOrderHolds` (`TierOrder`). `TierInv`: a candidate of a cheaper tier than a verdict in
  the queue was dealt with or stands before it. Plugins that are not about memory propose
  reclaimed pods alone, a prefix of a ranking holds whatever ranks before its elements, and
  queues of this kind may be joined.
* `Refinement` (`Limited`): under `TypeInv`, `VetoInv` and `Untouchable` every step of
  `Eviction` is a step of `Limiter` or leaves its variables alone. The lemmas say what each
  group of actions does to the credit: `Advance` adds `MaxBudget` at most, the refill that
  the loop credits was in it already, an eviction takes `Window` whether its reply arrives or
  not, and the rest takes or changes nothing.

`CpuPoolProofs`. The zones of the topology have at least one CPU.

* `TypeCorrect` (`TypeOK`).
* `ExclusiveLayoutHolds` (`ExclusiveLayout`). `LayoutInv` adds `Placing`: while pods are
  placed, what is free is apart from what is granted and reserved, and what the shared
  floor needs is left once something is granted. It rests on lemmas about `Take`: a subset,
  and no larger than was asked.
* `RememberedIsWrittenHolds` (`RememberedIsWritten`). `RememberInv` adds that nothing is
  remembered of a pod that never ran, and that the files of a pod without a cgroup are
  fresh: so a pod that starts meets an empty entry, and one whose cgroup is made again has a
  fresh one, which is what `remade` allows.
* `HealedHolds` (`Healed`). `PassInv` joins all three with `Clean`: in a pass without failures
  or changes, the maps hold, of every pod the write loop has passed, what its level asks for
  (`AllDone`), and a later write disturbs no earlier entry. With `RememberInv` that is so in
  the kernel as well.
* `ExclusiveInKernelHolds` (`ExclusiveInKernel`) and `SteadyWritesNothingHolds`
  (`SteadyWritesNothing`). Neither has a hypothesis about the constants: where the properties
  ask that sizes differ, they ask it of the pods on the node at that moment (`SizesDiffer`).
  While they do, the pods and the configuration determine the layout: `PartInv` says of a
  layout under construction that each pod it has placed got its share of what the larger
  ones left, `WholeInv` of a finished one that all did and that their CPUs are apart, and two
  such layouts are equal. `SteadyInv` says that what a clean pass remembers is such a layout;
  the next pass computes it again and finds nothing to write. Between two passes, with sizes
  of any kind, `ApartInv` is enough: what a clean pass has left in the maps is the layout it
  computed, and that is exclusive.

`CollectorProofs`, from one invariant: a counter has grown since it was remembered by no more
than the pod burned since then, and by exactly that while its cgroup is the same
(`Accounts`); a pod the tick has not come to has no reading (`Unread`).

* `NeverOverstatedHolds`, `NothingLostHolds` and `ForgetsHolds`, for the properties of those
  names.
* `TypeOKHolds` (`TypeOK`). The node's reading may be a sum over the pods of the tick, so the
  bound needs `Burnt`: no set of pods has burned more than the node, and no sample shows more
  than its pod ever burned. That is inductive for all sets at once, where it would not be for
  the pods of the tick.

`AdmissionProofs`, from one invariant: every pod the API server holds has its limits
defaulted into requests, and no CPU request in an app container once something was
rewritten (`Sound`); what the webhook handled has an explicit level that validation accepts
(`Kept`), because the rewrite removes nothing validation looks for; a critical pod without a
level keeps its class and has the system's level or none (`Critical`).

* `TypeCorrect` (`TypeOK`), `NoCpuRequestHolds`, `CriticalIsSystemHolds`, `ReadmittedHolds`.
* `FootprintHolds` (`Footprint`) and `WholeCoresStoredHolds` (`WholeCoresStored`). `SizeInv`
  links each container of the stored pod to the one its author asked for (`Linked`): its CPU
  is still a request or has moved to the extended resource, whole (`CpuKept`), and its memory
  is no less and within its limit (`MemKept`). What the agent adds up then agrees, by
  lemmas on sums: equal terms, larger terms, multiples of a core.

`RollupProofs`. `MaxLag < Alive` is more than a type: a cache trails by less than the
liveness window of an agent.

* `TypeCorrect` (`TypeOK`).
* `CurrentHolds` (`Current`). A cache without a due event equals what it copies
  (`Synced`). With one due, and quiet for longer than the cache has trailed, the cached
  profiles give the same counts: they differ from the server's only by reports that made
  a profile younger, and no cached one expires before the event arrives (`SeesProfiles`,
  `Younger`); likewise for nodes and policy. A pass is queued no later than `Longest` ahead,
  the longer of a requeue and the delay of a retry, or an event that will queue it is due
  (`Queued`), and once the counts have been quiet for longer than the lag and that pass
  has run, the status is right or the event of the patch that made it wrong is still to
  come (`Due`).

`AdvertiseProofs`. `MaxLag < Requeue < StaleAfter` is more than a type: a cache trails by less
than a requeue, and a requeue comes before a report is stale; the least changes are
positive, which `SetupWithManager` sees to.

* `TypeCorrect` (`TypeOK`), together with what a profile, a registered node and an absent
  leader look like (`Shape`).
* `WithdrawnHolds` (`Withdrawn`) and `AdvertisedHolds` (`Advertised`). `Inv` says what each copy
  is worth after how much quiet, in the order in which a report travels. The agent's copy
  leaves out of a patch only what the profile says already, once it has been quiet for
  longer than that copy has trailed (`BaseAgrees`); so after one lag the next report is whole
  (`ProfileSays`), after another the controller's copy says it (`SeenSays`), is not stale while
  the agent lives (`SeenYoung`), and is once it does not (`SeenStale`). From then on a patch on
  its way is right (`PendingRight`), and after a third lag the controller's copy of the node
  shows it, or the node is right anyway (`NodeKnown`). The node's key is queued or a patch is
  on its way (`Queued`), so a node that is wrong then meets its pass in time (`Corrected`).

`AdvisorProofs`.

* `LiveIsRecentHolds` (`LiveIsRecent`): `Holds` relates every slot of the ring to its place in
  the list of the observations made, and pushing, and growing or shrinking the ring, keep it.
* `TypeOKHolds` (`TypeOK`). `OfferInv` adds to it what is on offer and that a configuration
  in force has floors. It rests on the types of the aggregates: the percentile is one of
  the values, the mean and the EWMA are naturals, a sum over pods is.
* `WithdrawnWhileHotHolds` (`WithdrawnWhileHot`) and `OfferLeavesRoomHolds`
  (`OfferLeavesRoom`): the largest value of the ring is at least every observation of the list
  (`LargestSeen`), a percentage grows with what it is of, and neither floors nor damping
  lift an offer above the target.
* `GradualGrowthHolds` (`GradualGrowth`): a target is never above the cap, and damping closes
  at most its share of the gap, or one unit.

`UsageProofs`. Sets are finite, `None` is no replica, the numbers are naturals.

* `TypeOKHolds` (`TypeOK`), from `TypeInv`: the types of controllers, stores and senders. No
  series is longer than the cap.
* `FollowsHolds` (`Follows`). `FollowInv`: while the profile does not say what the leader's
  store holds, what has passed and what is left until the next look are within `Patience`.
* `CoversHolds` (`Covers`). `CoverInv` follows a measurement on its way: an address memoised
  since the replica was last missed is in the memo (`CachesCover`), so the replica is among
  the targets of a publish or has the sample already (`SendersCover`), and what the publish
  delivered stays in the store for as long as it is in the window (`StoresCover`).
* `KeepsRecentHolds` (`KeepsRecent`). `KeepInv` relates a store, each sample ranked by how many
  came after it, to the tail of its log: same samples in the same order, and what the log has
  in front of them had a whole cap after it (`Tracks`). It rests on lemmas about what
  appending, dropping the first and filtering by age do to ranks.

The sums, the maxima and the filters of the model are recursive functions and folds. What one
of them computes is proved by a least counterexample: a set of naturals has a least element
(`LeastNat`, from the well-foundedness of finite subsets), a recursive function exists because
the table of its values does (`SumsExist`, `KeepsExists`), and what holds of the empty part
and is kept by one more element holds of a finite set (`PartByPart`). A proof module
extends one component, so this short kit stands at the head of each that adds something
up.

What only TLC checks: liveness (`KeepsRelieving`, `Converges`), which the prover does not
reach, and the two runs that show a violation. Every invariant and every
property of steps of the passing runs is a theorem.

## Not modelled

* **Cgroup file system.** Reads and writes succeed or fail; the parsing and the formatting
  of the files, `ContainerPaths` and `CachedCount` are left out.
* **Memory, pressure and throttling readings.** They pass through `Collect` without state.
  The throttled ratio subtracts two unsigned counters and is only passed on in reports. The estimates of
  a development machine appear as samples that `Eviction` and `Usage` refuse.
* **API types, generated code, metrics.** No behaviour; nothing reads a metric back.
* **Binaries.** Wiring. Leader election appears as `CtlStarts` and `CtlDies` in `Advertise`,
  `LeaderStarts` and `LeaderDies` in `Rollup`, and replica by replica in `Usage`.
* **The tick as a whole.** Each module has its own ticker and takes what the other steps
  of a tick produce from a set, so no run relates, say, a missed reading of the
  collector to an offer.

Inside modelled parts: the totals on offer in the rollup, which are sums over the same
profiles, and a selector that does not parse; the node profile's QoS allocations and CPU
set listing, events, log lines and gauges; the deletion of a node profile by hand while
its node stays; the deletion of a Deployment with its workload profile, skipped namespaces
and the owner resolver, which files samples under the ReplicaSet while the informer does
not know it; a publisher without fan-out; `Keys`, `Nodes` and the map of nodes in the
store, which only tests read.

Some texts and the code disagree where no run speaks of it:

* The maps of what was written are kept "so that a steady-state tick performs zero writes"
  (`cpupool/pool.go:81-84`). Dedicated pods of equal size, replicas for instance, are placed in
  the order of an informer's list (`cpupool/pool.go:317-323`), which is not fixed, and may
  swap CPUs from tick to tick. `SteadyWritesNothing` and `ExclusiveInKernel` say what holds
  then: no weight is written, and the pods have their CPUs to themselves between passes, but
  not while a pass has written one of two that swap.
* A cgroup that is made again while its pod is listed stays at the default weight until the
  agent restarts, and unconfined until then or until the layout gives the pod other CPUs, because
  the maps say that it is written (`cpupool/pool.go:132-154`).
* A system-critical pod that ranks first and holds what is to be freed is proposed alone and
  vetoed in every run (`eviction/plugins.go:54-69`, `eviction/manager.go:209`), so that nothing
  is evicted; `eviction_pdb` is the same with a disruption budget.
* An accepted eviction whose reply is lost counts as rejected
  (`eviction/manager.go:153-165`), and a pod that somebody else deletes is not known to be going:
  both may be told again, at the cost of a token, until the cache shows it.
* Withdrawing capacity "must never be suppressed as too small a change"
  (`controller/overcommit/controller.go:158-159`), but the change is measured against a
  cached Node. A withdrawal right after a patch the cache has not seen waits for the
  requeue, which is why `Withdrawn` allows for one.
* A floor for reclaimed CPU is applied before growth is damped, so small offers below it do
  appear (`sysadvisor/advisor.go:204-211`).
* A change of up to two percent leaves the revision although it "increments on every
  recommendation change" (`apis/kqos/v1alpha1/noderesourceprofile_types.go:107`,
  `sysadvisor/advisor.go:329-335`).
* `reclaimed-overrun` waits for node pressure (`eviction/plugins.go:131-147`).
* A policy that cannot be read is replaced by the defaults, not by "the previous
  configuration" (`agent/agent.go:160-164`). The webhook does the same and with it loses
  the namespaces that are exempt (`webhook/pod.go:130-132`).
* Victims are "only enough to reach 80%" (`src/README.md:152`). Pods that are terminating
  still count as memory that must be freed (`eviction/plugins.go:43-46`), so the next run
  picks further ones.
* "No CPU request at all" (`src/README.md:128`) is true of app containers: init
  containers are not rewritten, and then `EffectiveRequests` does not look at the extended
  resource (`qos/qos.go:148-150`). The same holds for an explicit request of zero. `Footprint`
  excludes both.
* `original-resources` is written again when a rewritten pod is resubmitted
  (`webhook/pod.go:258-264`), and then records what the first rewrite left.
* An unlabelled cluster is safe (`src/README.md:68`), but a Guaranteed pod of a fractional
  number of cores is denied, since it is taken as dedicated (`webhook/pod.go:148` and below).
* An invalid level is never rejected (`webhook/pod.go:143-146`): only a valid one is taken
  from the annotation.
* "Valid is false on the very first tick" (`agent/collector/collector.go:89`): without a
  kubepods cgroup it is true, with a rate of zero (`agent/collector/collector.go:277`).
* A path is forgotten only together with a counter (`agent/collector/collector.go:282-287`),
  so the cache keeps a pod whose `cpu.stat` was never read, or one that the CPU pool pass
  looked up.
* "Recently" bounds `ReadyNodes` alone (`apis/kqos/v1alpha1/qospolicy_types.go:175`): the offers
  of dead agents stay in the totals, and a profile without a status counts as under
  pressure (`controller/policy/controller.go:103-117`).
* `ReadyNodes` may exceed `ObservedNodes` for a while, since the patch is a difference
  to a cached status (`controller/policy/controller.go:125-141`).
* `AgentHealthy` wakes the controller and is never looked at
  (`controller/overcommit/predicate.go:32-34`).
* `ZoneFor` picks the tightest zone, not the one with the "most free CPUs"
  (`cpupool/topology.go:44`).

## Plan

The order was by what a mistake costs: evictions first, then the offer, exclusive CPUs, the
advertised capacity, the measurements behind the profiles, what an agent measures, what
the webhook lets in and what the policy shows. These are done. What would come next:

1. A node advertisement (the Node holds the live offer or nothing) as the abstract
   specification of `Advertise`, as `Limiter` is that of `Eviction`.
2. The whole tick: `Collector`, `Advisor` and `Eviction` behind one ticker, so that a failed
   reading reaches the offer and the plugins.
3. Pods of equal size while a pass is under way: which of them a swap lets overlap, and for how
   long; and the claim of zero writes as a run of its own that shows it fail.
4. `Rollup` with the totals, where a dead agent's offer would be seen.
