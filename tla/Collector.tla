----------------------------- MODULE Collector ------------------------------
(***************************************************************************)
(* How the agent measures: Collector.Collect                                *)
(* (pkg/agent/collector/collector.go) over the kernel's cgroup counters     *)
(* (pkg/agent/cgroup/cgroup.go), through the path cache it shares with the  *)
(* CPU pool manager (pkg/agent/cgroup/resolver.go).                         *)
(*                                                                         *)
(* The tree changes between any two reads of one tick: the kubelet creates  *)
(* and removes cgroups, also of a pod that is listed, and a cgroup that is  *)
(* created again at the same path counts from zero.  A rate is kept as the  *)
(* CPU time it stands for, the difference of two readings; the time between *)
(* two ticks is positive.                                                   *)
(***************************************************************************)
EXTENDS Integers, FiniteSets, Functions

CONSTANTS
  Pods,      \* pod UIDs
  MaxUse     \* bound: the CPU all pods burn in a behaviour

ASSUME CollectorAssumption == IsFiniteSet(Pods) /\ MaxUse \in Nat \ {0}

None == -1

Reading == [valid : BOOLEAN, cpu : 0..MaxUse]
Invalid == [valid |-> FALSE, cpu |-> 0]

VARIABLES
  kubelet,    \* the kubelet has created the kubepods cgroup
  phase,      \* [Pods -> "new", "listed" by the API server, "over"]
  usage,      \* [Pods -> usage_usec of the pod's cgroup, None without a cgroup]
  nodeUsage,  \* usage_usec of kubepods, which outlives the pods
  kubepods,   \* Resolver.kubepodsPath behind its sync.Once: "unset", "found", "missing"
  cache,      \* the pods in Resolver.cache
  prevPods,   \* Collector.prevPods, None where there is no entry
  prevNode,   \* Collector.prevNode, None before the first reading
  pc,         \* "idle", "pods" in Collect's loop, "pools" in the CPU pool pass
  pods,       \* the pods of this tick
  todo,       \* those Collect has not come to
  node,       \* CPUMilli and Valid of the sample
  sample,     \* [Pods -> the reading of the pod in this tick]
  life,       \* history: [Pods -> CPU the pod has burned in all its cgroups]
  mark,       \* history: life at the last reading, or when the process started
  truth,      \* history: what the readings of this tick should say
  intact      \* history: the pods whose cgroup is the one last read

tree    == <<kubelet, phase, usage, nodeUsage>>
agent   == <<kubepods, cache, prevPods, prevNode>>
tick    == <<pc, pods, todo, node, sample>>
history == <<life, mark, truth, intact>>
vars    == <<tree, agent, tick, history>>

\* The node's place in the histories.
Node == "node"
Measured == Pods \cup {Node}

ASSUME NodeAssumption == Node \notin Pods

AtRest ==
  /\ pc' = "idle" /\ pods' = {} /\ todo' = {} /\ node' = Invalid
  /\ sample' = [p \in Pods |-> Invalid]

Init ==
  /\ kubelet \in BOOLEAN
  /\ phase = [p \in Pods |-> "new"] /\ usage = [p \in Pods |-> None] /\ nodeUsage = 0
  /\ kubepods = "unset" /\ cache = {} /\ prevPods = [p \in Pods |-> None] /\ prevNode = None
  /\ pc = "idle" /\ pods = {} /\ todo = {} /\ node = Invalid
  /\ sample = [p \in Pods |-> Invalid]
  /\ life = [x \in Measured |-> 0] /\ mark = life /\ truth = life
  /\ intact = {}

-----------------------------------------------------------------------------
(* Collect.                                                                 *)

\* Mutants of Delta: a counter that went backwards wraps around, or a first
\* reading is compared with zero.
DeltaWrapping(prev, cur) ==
  IF prev = None THEN Invalid ELSE [valid |-> TRUE, cpu |-> (cur - prev) % 2 ^ 16]

DeltaFromZero(prev, cur) ==
  IF cur < prev THEN Invalid ELSE [valid |-> TRUE, cpu |-> IF prev = None THEN cur ELSE cur - prev]

\* deltaMilliCores
Delta(prev, cur) ==
  IF prev = None \/ cur < prev THEN Invalid ELSE [valid |-> TRUE, cpu |-> cur - prev]

\* History: x is read now.
Marks(x) == /\ truth' = [truth EXCEPT ![x] = life[x] - mark[x]]
            /\ mark' = [mark EXCEPT ![x] = life[x]]

\* sync.Once: the first search decides for good; it finds nothing where the tree
\* is not there yet or cannot be read.
FindKubepods ==
  IF kubepods # "unset" THEN {kubepods}
  ELSE {"missing"} \cup (IF kubelet THEN {"found"} ELSE {})

\* The node's own reading, unless cpu.stat of kubepods cannot be read.
CollectNode(cpuOk) ==
  /\ pc = "idle"
  /\ kubepods' \in FindKubepods
  /\ IF kubepods' = "found" /\ cpuOk
     THEN node' = Delta(prevNode, nodeUsage) /\ prevNode' = nodeUsage /\ Marks(Node)
     ELSE UNCHANGED <<node, prevNode, truth, mark>>
  /\ pc' = "pods" /\ pods' = {p \in Pods : phase[p] = "listed"} /\ todo' = pods'
  /\ UNCHANGED <<tree, cache, prevPods, sample, life, intact>>

\* PodPath: a hit that still exists, or a search of the tree.
CacheAfter(p) == IF usage[p] = None THEN cache \ {p} ELSE cache \cup {p}

\* Mutant of Remember: only a usable reading is remembered.
RememberUsable(p) ==
  prevPods' = IF Delta(prevPods[p], usage[p]).valid \/ prevPods[p] = None
              THEN [prevPods EXCEPT ![p] = usage[p]] ELSE prevPods

Remember(p) == prevPods' = [prevPods EXCEPT ![p] = usage[p]]

\* One pod: no cgroup, an unreadable cpu.stat, or a reading.
CollectPod(p, cpuOk) ==
  /\ pc = "pods" /\ p \in todo
  /\ todo' = todo \ {p} /\ cache' = CacheAfter(p)
  /\ IF usage[p] # None /\ cpuOk
     THEN /\ sample' = [sample EXCEPT ![p] = Delta(prevPods[p], usage[p])]
          /\ Remember(p) /\ Marks(p) /\ intact' = intact \cup {p}
     ELSE UNCHANGED <<sample, prevPods, truth, mark, intact>>
  /\ UNCHANGED <<tree, kubepods, prevNode, pc, pods, node, life>>

PodSum ==
  [valid |-> pods # {}, cpu |-> SumFunctionOnSet([p \in Pods |-> sample[p].cpu], pods)]

\* Mutant of Keeps: the counters of pods that left stay.
KeepsAll(p) == TRUE

Keeps(p) == p \in pods

\* The fallback without a kubepods cgroup, and the entries of pods that left.
CollectEnds ==
  /\ pc = "pods" /\ todo = {}
  /\ node' = IF kubepods = "missing" THEN PodSum ELSE node
  /\ LET left == {p \in Pods : prevPods[p] # None /\ ~Keeps(p)}
     IN /\ prevPods' = [p \in Pods |-> IF p \in left THEN None ELSE prevPods[p]]
        /\ cache' = cache \ left
  /\ pc' = "pools"
  /\ UNCHANGED <<tree, kubepods, prevNode, pods, todo, sample, history>>

\* The rest of the tick: cpupool's Reconcile asks for the path of every pod again
\* when actuation is on.
PoolsPass(enforce) ==
  /\ pc = "pools"
  /\ LET there == {p \in pods : usage[p] # None}
     IN cache' = IF enforce THEN (cache \ pods) \cup there ELSE cache
  /\ AtRest
  /\ truth' = [x \in Measured |-> 0]
  /\ UNCHANGED <<tree, kubepods, prevPods, prevNode, life, mark, intact>>

\* The process dies and starts over: agent.New.
Restart ==
  /\ kubepods' = "unset" /\ cache' = {}
  /\ prevPods' = [p \in Pods |-> None] /\ prevNode' = None
  /\ AtRest
  /\ mark' = life /\ truth' = [x \in Measured |-> 0] /\ intact' = {}
  /\ UNCHANGED <<tree, life>>

-----------------------------------------------------------------------------
(* The kubelet and the kernel.                                              *)

KubeletStarts == kubelet' = TRUE /\ ~kubelet /\ UNCHANGED <<phase, usage, nodeUsage, agent, tick, history>>

Turns(p, from, to) ==
  /\ phase[p] = from /\ phase' = [phase EXCEPT ![p] = to]
  /\ UNCHANGED <<kubelet, usage, nodeUsage, agent, tick, history>>

PodBound(p) == Turns(p, "new", "listed")
PodOver(p)  == Turns(p, "listed", "over")

\* A cgroup may go before the pod is over and be made again at the same path.
CgroupMade(p) ==
  /\ kubelet /\ usage[p] = None /\ phase[p] = "listed"
  /\ usage' = [usage EXCEPT ![p] = 0] /\ intact' = intact \ {p}
  /\ UNCHANGED <<kubelet, phase, nodeUsage, agent, tick, life, mark, truth>>

CgroupGone(p) ==
  /\ usage[p] # None
  /\ usage' = [usage EXCEPT ![p] = None] /\ intact' = intact \ {p}
  /\ UNCHANGED <<kubelet, phase, nodeUsage, agent, tick, life, mark, truth>>

Burns(p) ==
  /\ usage[p] # None /\ nodeUsage < MaxUse
  /\ usage' = [usage EXCEPT ![p] = @ + 1] /\ nodeUsage' = nodeUsage + 1
  /\ life' = [life EXCEPT ![p] = @ + 1, ![Node] = @ + 1]
  /\ UNCHANGED <<kubelet, phase, agent, tick, mark, truth, intact>>

Collects ==
  \/ \E cpuOk \in BOOLEAN : CollectNode(cpuOk) \/ \E p \in Pods : CollectPod(p, cpuOk)
  \/ CollectEnds

Environment ==
  \/ KubeletStarts
  \/ \E p \in Pods : PodBound(p) \/ PodOver(p) \/ CgroupMade(p) \/ CgroupGone(p) \/ Burns(p)

Next == Collects \/ (\E enforce \in BOOLEAN : PoolsPass(enforce)) \/ Restart \/ Environment

Spec == Init /\ [][Next]_vars

-----------------------------------------------------------------------------
(* Properties.                                                              *)

TypeOK ==
  /\ kubelet \in BOOLEAN /\ phase \in [Pods -> {"new", "listed", "over"}]
  /\ usage \in [Pods -> Int] /\ nodeUsage \in 0..MaxUse
  /\ kubepods \in {"unset", "found", "missing"} /\ cache \subseteq Pods
  /\ prevPods \in [Pods -> Int] /\ prevNode \in Int
  /\ pc \in {"idle", "pods", "pools"} /\ pods \subseteq Pods /\ todo \subseteq pods
  /\ node \in Reading /\ sample \in [Pods -> Reading]
  /\ life \in [Measured -> Nat] /\ mark \in [Measured -> Nat] /\ truth \in [Measured -> Nat]
  /\ intact \subseteq Pods
  /\ \A p \in Pods : usage[p] >= None /\ prevPods[p] >= None
  /\ prevNode >= None

\* What a pod's sample shows is CPU that the pod burned since it was last read, and
\* never more, nor anything from before the agent started: through cgroups made
\* again, failed reads, ticks without the pod and restarts (collector.go,
\* deltaMilliCores).  The same for the node.
NeverOverstated ==
  /\ \A p \in Pods : sample[p].cpu <= truth[p]
  /\ kubepods = "found" => node.cpu <= truth[Node]

\* As long as its cgroup is the same one, a pod's readings leave nothing out: what a
\* failed read or a tick without the pod missed is in the next reading (collector.go,
\* prevPods).
NothingLost ==
  [][\A p \in Pods, cpuOk \in BOOLEAN :
       CollectPod(p, cpuOk) /\ p \in intact /\ sample'[p].valid
         => sample'[p].cpu = life[p] - mark[p]]_vars

\* The collector remembers nothing of pods that have left, whether or not they had a
\* cgroup on their last tick (collector.go, the end of Collect).
Forgets == pc = "pools" => \A p \in Pods : prevPods[p] # None => p \in pods
=============================================================================
