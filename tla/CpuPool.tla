------------------------------ MODULE CpuPool -------------------------------
(***************************************************************************)
(* The CPU pool manager of the node agent (pkg/agent/cpupool/pool.go): one *)
(* pass lists the pods of the node, partitions its CPUs between them and   *)
(* writes cpu.weight and cpuset.cpus pod by pod, while pods come and go,   *)
(* cgroups appear late, vanish early and are made again, writes fail, the  *)
(* policy changes and the agent restarts.  A pod here is a UID: it lives   *)
(* once.                                                                   *)
(***************************************************************************)
EXTENDS Integers, Sequences, FiniteSets

CONSTANTS
  Pods,     \* the UIDs of the pods that may be bound to the node
  Level,    \* [Pods -> Levels], qos.LevelOf
  Want,     \* [Pods -> Nat], wholeCoresFor
  Numa,     \* the dedicated pods that ask for NUMA binding
  Zones,    \* the NUMA zones in the order of their ids, disjoint sets of CPUs
  Configs   \* the cpuset configurations an operator may write

\* Not bound yet; listed, without a cgroup; with one; without it again, still listed;
\* terminal or deleted.
Phases == {"new", "bound", "running", "stopped", "over"}
Levels == {"system", "dedicated", "shared", "reclaimed"}
Online == UNION {Zones[i] : i \in DOMAIN Zones}

ConfigType == [enabled : BOOLEAN, reserved : SUBSET Int, minShared : Nat, minReclaimed : Nat]

ASSUME PodsAssumption ==
  /\ IsFiniteSet(Pods) /\ Level \in [Pods -> Levels] /\ Want \in [Pods -> Nat]
  /\ Numa \subseteq {p \in Pods : Level[p] = "dedicated"}
ASSUME ZonesAssumption ==
  /\ Zones \in Seq(SUBSET Int) /\ IsFiniteSet(Online) /\ Online # {}
ASSUME ConfigsAssumption == Configs \subseteq ConfigType

\* The weights of the tiers, the kernel's default, and no entry in the map.
WeightFor == [system |-> 10000, dedicated |-> 5000, shared |-> 1000, reclaimed |-> 10]
DefaultWeight == 100
NoWeight == 0

VARIABLES
  phase,          \* [Pods -> Phases], as the kubelet and the API server know them
  weight, cpus,   \* [Pods -> ...], cpu.weight and cpuset.cpus; {} is unconfined
  remade,         \* history: the pods whose cgroup was made again as the agent ran
  cfg,            \* Manager.cfg, the cpuset part of the QoSPolicy of the last pass
  appliedWeight,  \* Manager.appliedWeight
  appliedCPUSet,  \* Manager.appliedCPUSet
  pools,          \* Manager.lastPools
  pc,             \* "idle", "place" or "write": where Reconcile is
  list,           \* the pods of this pass, in the order the cache returned them
  todo,           \* the dedicated pods computePools has yet to place
  free,           \* the CPUs not yet given away
  next,           \* index of the pod that is written next
  clean,          \* history: nothing failed or changed since this pass began
  steady          \* history: a clean pass has ended and nothing changed since

kernel  == <<weight, cpus, remade>>
applied == <<appliedWeight, appliedCPUSet>>
pass    == <<pools, pc, list, todo, free, next>>
vars    == <<phase, kernel, cfg, applied, pass, clean, steady>>

NoPools == [reserved |-> {}, dedicated |-> [p \in Pods |-> {}], shared |-> {}, reclaimed |-> {}]

AtLeastOne(n) == IF n < 1 THEN 1 ELSE n

-----------------------------------------------------------------------------
(* cpuset.CPUSet and the topology.                                          *)

\* Take: the n lowest ids.
Take(S, n) == {c \in S : Cardinality({d \in S : d < c}) < n}

\* TakeFrom: the preferred ones, then the lowest of the others.
TakeFrom(S, n, preferred) ==
  LET first == Take(S \cap preferred, n)
  IN first \cup Take(S \ first, n - Cardinality(first))

FreeIn(i, S) == Cardinality(Zones[i] \cap S)

\* ZoneFor: the tightest zone that fits, the first of several; none if none does.
ZonesFor(S, want) ==
  {i \in DOMAIN Zones :
     /\ FreeIn(i, S) >= want
     /\ \A j \in DOMAIN Zones : FreeIn(j, S) >= want =>
          FreeIn(i, S) < FreeIn(j, S) \/ (FreeIn(i, S) = FreeIn(j, S) /\ i <= j)}

-----------------------------------------------------------------------------
(* computePools.                                                            *)

\* Mutant of Reserved: CPUs the machine lacks are reserved too.
ReservedAsWritten(c) == c.reserved

Reserved(c) == c.reserved \cap Online
MinShared   == AtLeastOne(cfg.minShared)
Dedicated(q) == {q[i] : i \in {j \in DOMAIN q : Level[q[j]] = "dedicated"}}

Position(p) == CHOOSE i \in DOMAIN list : list[i] = p

\* Mutant of First: the dedicated pods are not sorted.
FirstListed(p) == \A q \in todo \ {p} : Position(p) < Position(q)

\* sortPodsByCPUDesc: the largest first, equals in the order of the list.
First(p) == \A q \in todo \ {p} :
  Want[p] > Want[q] \/ (Want[p] = Want[q] /\ Position(p) < Position(q))

\* Mutant of Fits: off by one at the floor.
FitsTight(p) == Want[p] >= 1 /\ Cardinality(free) - Want[p] >= MinShared - 1

\* Never starve the shared tier to satisfy a dedicated request.
Fits(p) == Want[p] >= 1 /\ Cardinality(free) - Want[p] >= MinShared

Taken(p) ==
  IF p \in Numa /\ ZonesFor(free, Want[p]) # {}
  THEN TakeFrom(free, Want[p], Zones[CHOOSE i \in ZonesFor(free, Want[p]) : TRUE])
  ELSE Take(free, Want[p])

Unreserved == Online \ Reserved(cfg)

SharedPool == IF Cardinality(free) < MinShared THEN Unreserved ELSE free

ReclaimedPool == IF Cardinality(SharedPool) < AtLeastOne(cfg.minReclaimed)
                 THEN Unreserved ELSE SharedPool

\* cpusForPod; {} where the code finds no pool or writes nothing.
CpusFor(p) ==
  CASE Level[p] = "dedicated" /\ pools.dedicated[p] # {} -> pools.dedicated[p]
    [] Level[p] = "reclaimed"                            -> pools.reclaimed
    [] Level[p] = "system"                               -> pools.reserved
    [] OTHER                                             -> pools.shared

-----------------------------------------------------------------------------
(* Reconcile.                                                               *)

\* livePods
Listed == {p \in Pods : phase[p] \in {"bound", "running", "stopped"}}

Orders(S) == {q \in [1..Cardinality(S) -> S] : {q[i] : i \in DOMAIN q} = S}

AtRest == pc' = "idle" /\ list' = <<>> /\ todo' = {} /\ free' = {} /\ next' = 1

Init ==
  /\ phase = [p \in Pods |-> "new"]
  /\ weight = [p \in Pods |-> DefaultWeight] /\ cpus = [p \in Pods |-> {}]
  /\ remade = {} /\ cfg \in Configs
  /\ appliedWeight = [p \in Pods |-> NoWeight] /\ appliedCPUSet = [p \in Pods |-> {}]
  /\ pools = NoPools /\ pc = "idle" /\ list = <<>> /\ todo = {} /\ free = {} /\ next = 1
  /\ clean = FALSE /\ steady = FALSE

\* applyPolicy, livePods and the start of computePools.
Starts(q, c) ==
  /\ pc = "idle"
  /\ cfg' = c
  /\ pc' = "place" /\ list' = q /\ todo' = Dedicated(q)
  /\ free' = Online \ Reserved(c) /\ next' = 1
  /\ pools' = [NoPools EXCEPT !.reserved = Reserved(c)]
  /\ clean' = c.enabled /\ steady' = (steady /\ c = cfg)
  /\ UNCHANGED <<phase, kernel, applied>>

\* One turn of the loop over the dedicated pods.
Place(p) ==
  /\ pc = "place" /\ p \in todo /\ First(p)
  /\ todo' = todo \ {p}
  /\ IF Fits(p)
     THEN /\ pools' = [pools EXCEPT !.dedicated[p] = Taken(p)]
          /\ free' = free \ Taken(p)
     ELSE UNCHANGED <<pools, free>>
  /\ UNCHANGED <<phase, kernel, cfg, applied, pc, list, next, clean, steady>>

\* What is left goes to the shared and the reclaimed tier.
PlacesRest ==
  /\ pc = "place" /\ todo = {}
  /\ pools' = [pools EXCEPT !.shared = SharedPool, !.reclaimed = ReclaimedPool]
  /\ pc' = "write"
  /\ UNCHANGED <<phase, kernel, cfg, applied, list, todo, free, next, clean, steady>>

Writing == pc = "write" /\ next <= Len(list)

\* No cgroup yet, or no longer.
SkipPod ==
  /\ Writing /\ phase[list[next]] # "running"
  /\ next' = next + 1 /\ clean' = FALSE
  /\ UNCHANGED <<phase, kernel, cfg, applied, pools, pc, list, todo, free, steady>>

\* A file is written unless it is known to hold the value; ok says whether the write
\* succeeds, and only then is the value remembered.
WriteWeight(p, ok) ==
  LET want == WeightFor[Level[p]]
  IN IF appliedWeight[p] = want \/ ~ok
     THEN UNCHANGED <<weight, appliedWeight>>
     ELSE /\ weight' = [weight EXCEPT ![p] = want]
          /\ appliedWeight' = [appliedWeight EXCEPT ![p] = want]

\* Mutants of WriteCpus: a failed write is remembered too; a set that is not known
\* is remembered without a write.
WriteCpusBlind(p, ok) ==
  IF ~cfg.enabled \/ CpusFor(p) = {} \/ appliedCPUSet[p] = CpusFor(p)
  THEN UNCHANGED <<cpus, appliedCPUSet>>
  ELSE /\ cpus' = IF ok THEN [cpus EXCEPT ![p] = CpusFor(p)] ELSE cpus
       /\ appliedCPUSet' = [appliedCPUSet EXCEPT ![p] = CpusFor(p)]

WriteCpusOnce(p, ok) ==
  IF ~cfg.enabled \/ CpusFor(p) = {} \/ appliedCPUSet[p] # {} \/ ~ok
  THEN UNCHANGED <<cpus, appliedCPUSet>>
  ELSE /\ cpus' = [cpus EXCEPT ![p] = CpusFor(p)]
       /\ appliedCPUSet' = [appliedCPUSet EXCEPT ![p] = CpusFor(p)]

WriteCpus(p, ok) ==
  IF ~cfg.enabled \/ CpusFor(p) = {} \/ appliedCPUSet[p] = CpusFor(p) \/ ~ok
  THEN UNCHANGED <<cpus, appliedCPUSet>>
  ELSE /\ cpus' = [cpus EXCEPT ![p] = CpusFor(p)]
       /\ appliedCPUSet' = [appliedCPUSet EXCEPT ![p] = CpusFor(p)]

WritePod(weightOk, cpusOk) ==
  /\ Writing /\ phase[list[next]] = "running"
  /\ WriteWeight(list[next], weightOk) /\ WriteCpus(list[next], cpusOk)
  /\ next' = next + 1 /\ clean' = (clean /\ weightOk /\ cpusOk)
  /\ UNCHANGED <<phase, remade, cfg, pools, pc, list, todo, free, steady>>

\* The maps forget the pods that are gone; a cpuset entry goes with its weight.
Forgets(p) == (\A i \in DOMAIN list : list[i] # p) /\ appliedWeight[p] # NoWeight

PassEnds ==
  /\ pc = "write" /\ next > Len(list)
  /\ appliedWeight' = [p \in Pods |-> IF Forgets(p) THEN NoWeight ELSE appliedWeight[p]]
  /\ appliedCPUSet' = [p \in Pods |-> IF Forgets(p) THEN {} ELSE appliedCPUSet[p]]
  /\ AtRest
  /\ steady' = clean /\ clean' = FALSE
  /\ UNCHANGED <<phase, kernel, cfg, pools>>

-----------------------------------------------------------------------------
(* The agent process, the kubelet, the API server and the operator.         *)

\* The process starts over; what it wrote stays in the kernel.
Restart ==
  /\ cfg' \in Configs
  /\ appliedWeight' = [p \in Pods |-> NoWeight] /\ appliedCPUSet' = [p \in Pods |-> {}]
  /\ pools' = NoPools /\ AtRest
  /\ clean' = FALSE /\ steady' = FALSE /\ remade' = {}
  /\ UNCHANGED <<phase, weight, cpus>>

\* The life of a pod.  The placing touches nothing that these do, so they wait for it.
Turns(p, from, to) ==
  /\ pc # "place"
  /\ phase[p] \in from /\ phase' = [phase EXCEPT ![p] = to]
  /\ clean' = FALSE /\ steady' = FALSE
  /\ UNCHANGED <<cfg, applied, pass>>

PodBound(p)      == Turns(p, {"new"}, "bound") /\ UNCHANGED kernel

\* The pod gets its cgroup, or, while it is still listed, another one under the same path:
\* the maps still hold what was written into the first.
CgroupAppears(p) ==
  /\ Turns(p, {"bound", "stopped"}, "running")
  /\ remade' = IF phase[p] = "stopped" THEN remade \cup {p} ELSE remade
  /\ UNCHANGED <<weight, cpus>>

\* The cgroup goes, with or without the API server knowing yet; the next one is fresh.
Gone(p) == /\ weight' = [weight EXCEPT ![p] = DefaultWeight]
           /\ cpus' = [cpus EXCEPT ![p] = {}]
           /\ remade' = remade \ {p}

CgroupVanishes(p) == Turns(p, {"running"}, "stopped") /\ Gone(p)
PodOver(p)        == Turns(p, {"bound", "running", "stopped"}, "over") /\ Gone(p)

Passes ==
  \/ \E q \in Orders(Listed), c \in Configs : Starts(q, c)
  \/ (\E p \in Pods : Place(p)) \/ PlacesRest
  \/ SkipPod \/ (\E weightOk, cpusOk \in BOOLEAN : WritePod(weightOk, cpusOk))
  \/ PassEnds

Environment ==
  \E p \in Pods : PodBound(p) \/ CgroupAppears(p) \/ CgroupVanishes(p) \/ PodOver(p)

Next == Passes \/ Restart \/ Environment

Spec == Init /\ [][Next]_vars

-----------------------------------------------------------------------------
(* Properties.                                                              *)

PoolsType == [reserved : SUBSET Online, dedicated : [Pods -> SUBSET Online],
              shared : SUBSET Online, reclaimed : SUBSET Online]

TypeOK ==
  /\ phase \in [Pods -> Phases]
  /\ weight \in [Pods -> Nat] /\ cpus \in [Pods -> SUBSET Online] /\ remade \subseteq Pods
  /\ cfg \in Configs
  /\ appliedWeight \in [Pods -> Nat] /\ appliedCPUSet \in [Pods -> SUBSET Online]
  /\ pools \in PoolsType /\ pc \in {"idle", "place", "write"}
  /\ list \in Seq(Pods) /\ todo \subseteq Pods /\ free \subseteq Online
  /\ next \in 1..(Len(list) + 1) /\ clean \in BOOLEAN /\ steady \in BOOLEAN

Granted == {p \in Pods : pools.dedicated[p] # {}}

\* Two dedicated pods never share a CPU in the layout, nor does one share a CPU with
\* the reserved or the shared pool, whatever is reserved, asked for and refused:
\* the shared tier never has to borrow (pool.go, computePools).
ExclusiveLayout ==
  \A p \in Granted :
    /\ pools.dedicated[p] \cap (pools.reserved \cup pools.shared) = {}
    /\ \A q \in Granted \ {p} : pools.dedicated[p] \cap pools.dedicated[q] = {}

Running(p) == phase[p] = "running"

\* A file of p's cgroup holds a value, or the cgroup is not the one it was written into.
Holds(p, file, value, fresh) == file = value \/ (p \in remade /\ file = fresh)

\* What the maps remember is what the kernel holds, through failed writes, vanishing
\* cgroups and restarts: a write is left out only where it would change nothing, and in a
\* cgroup that was made again under the same path, which the maps do not tell from the
\* first (pool.go, appliedWeight and appliedCPUSet).
RememberedIsWritten ==
  \A p \in Pods : Running(p) =>
    /\ appliedWeight[p] # NoWeight => Holds(p, weight[p], appliedWeight[p], DefaultWeight)
    /\ appliedCPUSet[p] # {} => Holds(p, cpus[p], appliedCPUSet[p], {})

\* No pod that the manager confines may run on p's CPUs.
Alone(p, Tiers) == \A q \in Pods \ {p} :
  Running(q) /\ Level[q] \in Tiers /\ cpus[q] # {} => cpus[p] \cap cpus[q] = {}

\* No two of the dedicated pods on the node ask for as many CPUs; replicas do.
SizesDiffer ==
  \A p, q \in {r \in Listed : Level[r] = "dedicated"} : p # q => Want[p] # Want[q]

\* Where nothing has changed since a pass without a failure, a dedicated pod that was
\* granted CPUs has them in the kernel to itself, against dedicated and shared pods, unless
\* its cgroup was made again.  Between the passes always; while a pass is under way only
\* if sizes differ, since pods of equal size swap their CPUs with the order of the list,
\* one after the other (pool.go, Reconcile and sortPodsByCPUDesc).
ExclusiveInKernel ==
  steady /\ (pc = "idle" \/ SizesDiffer) => \A p \in Granted : Running(p) =>
    Holds(p, cpus[p], pools.dedicated[p], {}) /\ Alone(p, {"dedicated", "shared"})

\* The same against every tier: exclusive CPUs that no other pod may run on
\* (qos.go, QoSDedicatedCores).
ExclusiveToAll ==
  steady => \A p \in Granted : Running(p) => Alone(p, Levels)

\* Where nothing has changed since a pass without a failure, the passes write no weight,
\* and no CPU set if sizes differ.  What the code says, that a steady-state tick performs
\* zero writes (pool.go, applied), does not hold of dedicated pods of equal size.
SteadyWritesNothing ==
  [][steady /\ Passes => UNCHANGED weight /\ (SizesDiffer => UNCHANGED cpus)]_vars

\* Where nothing has changed since a pass without a failure, every running pod has its
\* weight and its CPUs: a write that failed, or was forgotten in a restart, has been made
\* good by then (pool.go, Reconcile).  What was lost with a cgroup is not: where the maps
\* say that it is written, no pass writes it again.
Healed == steady /\ pc = "idle" => \A p \in Pods : Running(p) =>
  /\ Holds(p, weight[p], WeightFor[Level[p]], DefaultWeight)
  /\ CpusFor(p) # {} => Holds(p, cpus[p], CpusFor(p), {})
=============================================================================
