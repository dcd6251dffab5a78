--------------------------- MODULE CpuPoolProofs ----------------------------
(***************************************************************************)
(* Proofs about CpuPool, for every set of pods, every topology and every    *)
(* configuration: what the manager remembers of its writes is what the      *)
(* kernel holds, the layout is exclusive, and a clean pass leaves nothing   *)
(* undone.                                                                  *)
(***************************************************************************)
EXTENDS CpuPool, FiniteSetTheorems, SequenceTheorems, TLAPS

-----------------------------------------------------------------------------
(* CPU sets.                                                                *)

LEMMA TakeSubset == ASSUME NEW S, NEW n PROVE Take(S, n) \subseteq S
  BY DEF Take

\* Take gives no more CPUs than were asked for: the ranks of those it gives are
\* different numbers below n.
LEMMA TakeBounded ==
  ASSUME NEW S \in SUBSET Int, IsFiniteSet(S), NEW n \in Nat
  PROVE  IsFiniteSet(Take(S, n)) /\ Cardinality(Take(S, n)) <= n
<1> DEFINE T == Take(S, n)
           Below(c) == {d \in S : d < c}
           rank == [c \in T |-> Cardinality(Below(c))]
<1>1. T \subseteq S
  BY TakeSubset
<1>2. ASSUME NEW c \in T
      PROVE  IsFiniteSet(Below(c)) /\ Cardinality(Below(c)) \in 0..(n - 1)
  <2>1. IsFiniteSet(Below(c)) /\ Cardinality(Below(c)) \in Nat
    BY FS_Subset, FS_CardinalityType
  <2>2. Cardinality(Below(c)) < n
    BY DEF Take
  <2> QED BY <2>1, <2>2
<1>3. ASSUME NEW c \in T, NEW e \in T, c < e PROVE rank[c] # rank[e]
  <2> HIDE DEF T, rank
  <2>1. Below(c) \subseteq Below(e) /\ c \in Below(e) /\ c \notin Below(c)
    <3>1. c \in S /\ e \in S /\ c \in Int /\ e \in Int
      BY <1>1
    <3>2. \A d \in S : d < c => d < e
      BY <1>3, <3>1
    <3>3. ~(c < c)
      BY <3>1
    <3> QED BY <1>3, <3>1, <3>2, <3>3, Zenon
  <2>2. IsFiniteSet(Below(e))
    BY <1>2
  <2>3. Below(c) # Below(e)
    BY <2>1
  <2> USE DEF T, rank
  <2> HIDE DEF Below
  <2>4. Cardinality(Below(c)) # Cardinality(Below(e))
    BY <2>1, <2>2, <2>3, FS_Subset
  <2> QED BY <2>4
<1>4. rank \in Injection(T, 0..(n - 1))
  <2>1. rank \in [T -> 0..(n - 1)]
    BY <1>2
  <2>2. ASSUME NEW c \in T, NEW e \in T, c # e PROVE rank[c] # rank[e]
    <3> HIDE DEF T, rank, Below
    <3>1. c \in Int /\ e \in Int
      BY <1>1
    <3>2. c < e \/ e < c
      BY <2>2, <3>1
    <3> QED BY <1>3, <2>2, <3>2
  <2> HIDE DEF rank
  <2> QED BY <2>1, <2>2 DEF Injection, IsInjective
<1>5. IsFiniteSet(0..(n - 1)) /\ Cardinality(0..(n - 1)) = n
  BY FS_Interval
<1> HIDE DEF rank, T
<1>6. IsFiniteSet(T) /\ Cardinality(T) <= n
  BY <1>4, <1>5, FS_Injection
<1> QED BY <1>6 DEF T

LEMMA TakeFromBounded ==
  ASSUME NEW S \in SUBSET Int, IsFiniteSet(S), NEW n \in Nat, NEW preferred
  PROVE  /\ TakeFrom(S, n, preferred) \subseteq S
         /\ Cardinality(TakeFrom(S, n, preferred)) <= n
<1> DEFINE A == Take(S \cap preferred, n)
           B == Take(S \ A, n - Cardinality(A))
<1>1. IsFiniteSet(S \cap preferred) /\ IsFiniteSet(S \ A)
  BY FS_Subset
<1>2. A \subseteq S /\ IsFiniteSet(A) /\ Cardinality(A) <= n
  BY <1>1, TakeSubset, TakeBounded
<1>3. Cardinality(A) \in Nat /\ n - Cardinality(A) \in Nat
  BY <1>2, FS_CardinalityType
<1>4. B \subseteq S /\ IsFiniteSet(B) /\ Cardinality(B) <= n - Cardinality(A)
  BY <1>1, <1>3, TakeSubset, TakeBounded
<1> HIDE DEF A, B
<1>5. Cardinality(A \cup B) = Cardinality(A) + Cardinality(B) - Cardinality(A \cap B)
  BY <1>2, <1>4, FS_Union
<1>6. Cardinality(A \cap B) \in Nat /\ Cardinality(B) \in Nat
  BY <1>2, <1>4, FS_Intersection, FS_CardinalityType
<1>7. Cardinality(A \cup B) <= n
  BY <1>3, <1>4, <1>5, <1>6
<1>8. TakeFrom(S, n, preferred) = A \cup B
  BY DEF TakeFrom, A, B
<1> QED BY <1>2, <1>4, <1>7, <1>8

-----------------------------------------------------------------------------
(* Types.                                                                   *)

LEMMA OnlineType == Online \subseteq Int /\ IsFiniteSet(Online)
  BY ZonesAssumption DEF Online

\* What is taken is free, and no more than was asked for.
LEMMA TakenType ==
  ASSUME NEW p \in Pods, free \subseteq Online
  PROVE  Taken(p) \subseteq free /\ Cardinality(Taken(p)) <= Want[p]
<1>1. free \in SUBSET Int /\ IsFiniteSet(free) /\ Want[p] \in Nat
  BY OnlineType, FS_Subset, PodsAssumption
<1> QED BY <1>1, TakeSubset, TakeBounded, TakeFromBounded DEF Taken

LEMMA CpusForType == pools \in PoolsType => \A p \in Pods : CpusFor(p) \subseteq Online
  BY DEF CpusFor, PoolsType

LEMMA WeightType == \A p \in Pods : WeightFor[Level[p]] \in Nat \ {NoWeight}
  BY PodsAssumption DEF WeightFor, Levels, NoWeight

\* A pass works on pods of the node.
LEMMA OrdersType ==
  ASSUME NEW q \in Orders(Listed)
  PROVE  q \in Seq(Pods) /\ Dedicated(q) \subseteq Pods
         /\ {q[i] : i \in DOMAIN q} = Listed
<1>1. IsFiniteSet(Listed) /\ Listed \subseteq Pods
  BY PodsAssumption, FS_Subset DEF Listed
<1>2. Cardinality(Listed) \in Nat
  BY <1>1, FS_CardinalityType
<1>3. q \in [1..Cardinality(Listed) -> Listed] /\ {q[i] : i \in DOMAIN q} = Listed
  BY DEF Orders
<1>4. q \in Seq(Pods)
  BY <1>1, <1>2, <1>3
<1> QED BY <1>1, <1>3, <1>4 DEF Dedicated

LEMMA RestType == AtRest => /\ pc' \in {"idle", "place", "write"} /\ list' \in Seq(Pods)
                            /\ todo' \subseteq Pods /\ free' \subseteq Online
                            /\ next' \in 1..(Len(list') + 1)
  BY DEF AtRest

LEMMA NoPoolsType == NoPools \in PoolsType
  BY DEF NoPools, PoolsType

LEMMA NoCfgType == Configs \subseteq ConfigType
  BY ConfigsAssumption

LEMMA TypeInit == Init => TypeOK
<1> SUFFICES ASSUME Init PROVE TypeOK
  OBVIOUS
<1>1. phase \in [Pods -> Phases] /\ cfg \in Configs /\ clean \in BOOLEAN /\ steady \in BOOLEAN
  BY DEF Init, Phases
<1>2. weight \in [Pods -> Nat] /\ appliedWeight \in [Pods -> Nat]
  BY DEF Init, DefaultWeight, NoWeight
<1>3. cpus \in [Pods -> SUBSET Online] /\ appliedCPUSet \in [Pods -> SUBSET Online]
      /\ remade \subseteq Pods
  BY DEF Init
<1>4. list \in Seq(Pods) /\ next \in 1..(Len(list) + 1)
  BY DEF Init
<1>5. pools \in PoolsType /\ pc \in {"idle", "place", "write"} /\ todo \subseteq Pods
      /\ free \subseteq Online
  BY NoPoolsType DEF Init
<1> QED BY <1>1, <1>2, <1>3, <1>4, <1>5 DEF TypeOK

LEMMA TypeStep == TypeOK /\ [Next]_vars => TypeOK'
<1> SUFFICES ASSUME TypeOK, [Next]_vars PROVE TypeOK'
  OBVIOUS
<1>1. ASSUME NEW q \in Orders(Listed), NEW c \in Configs, Starts(q, c) PROVE TypeOK'
  <2>1. pools' \in PoolsType
    BY <1>1 DEF Starts, NoPools, PoolsType, Reserved
  <2>2. c.enabled \in BOOLEAN
    BY ConfigsAssumption DEF ConfigType
  <2>3. Len(q) \in Nat /\ 1 \in 1..(Len(q) + 1)
    BY OrdersType
  <2> QED BY <1>1, <2>1, <2>2, <2>3, OrdersType DEF Starts, TypeOK, kernel, applied
<1>2. ASSUME NEW p \in Pods, Place(p) PROVE TypeOK'
  <2>1. Taken(p) \subseteq free
    BY <1>2, TakenType DEF TypeOK
  <2>2. CASE Fits(p)
    <3>1. pools.dedicated \in [Pods -> SUBSET Online] /\ Taken(p) \subseteq Online
      BY <2>1 DEF TypeOK, PoolsType
    <3> DEFINE D == [pools.dedicated EXCEPT ![p] = Taken(p)]
    <3>2. D \in [Pods -> SUBSET Online]
      BY <3>1
    <3>3. pools' = [pools EXCEPT !.dedicated = D] /\ free' = free \ Taken(p)
      BY <1>2, <2>2 DEF Place
    <3> HIDE DEF D
    <3>4. pools' \in PoolsType /\ free' \subseteq Online
      BY <3>2, <3>3 DEF TypeOK, PoolsType
    <3> QED BY <1>2, <3>4 DEF Place, TypeOK, kernel, applied
  <2>3. CASE ~Fits(p)
    BY <1>2, <2>3 DEF Place, TypeOK, kernel, applied
  <2> QED BY <2>2, <2>3
<1>3. CASE PlacesRest
  <2>1. SharedPool \subseteq Online /\ ReclaimedPool \subseteq Online
    BY DEF TypeOK, SharedPool, ReclaimedPool, Unreserved
  <2>2. pools' \in PoolsType
    BY <1>3, <2>1 DEF PlacesRest, TypeOK, PoolsType
  <2> QED BY <1>3, <2>2 DEF PlacesRest, TypeOK, kernel, applied
<1>4. CASE SkipPod
  <2>1. Len(list) \in Nat /\ next \in 1..Len(list)
    BY <1>4 DEF SkipPod, Writing, TypeOK
  <2>2. next + 1 \in 1..(Len(list) + 1)
    BY <2>1
  <2> QED BY <1>4, <2>2 DEF SkipPod, TypeOK, kernel, applied
<1>5. ASSUME NEW weightOk \in BOOLEAN, NEW cpusOk \in BOOLEAN, WritePod(weightOk, cpusOk)
      PROVE  TypeOK'
  <2>1. PICK p \in Pods : p = list[next]
    BY <1>5 DEF WritePod, Writing, TypeOK
  <2>2. WriteWeight(p, weightOk) /\ WriteCpus(p, cpusOk)
    BY <1>5, <2>1 DEF WritePod
  <2>3. weight' \in [Pods -> Nat] /\ appliedWeight' \in [Pods -> Nat]
    BY <2>2, WeightType DEF WriteWeight, TypeOK
  <2>4. cpus' \in [Pods -> SUBSET Online] /\ appliedCPUSet' \in [Pods -> SUBSET Online]
    BY <2>2, CpusForType DEF WriteCpus, TypeOK
  <2>5. next' = next + 1 /\ next <= Len(list) /\ clean' = (clean /\ weightOk /\ cpusOk)
        /\ UNCHANGED <<phase, remade, cfg, pools, pc, list, todo, free, steady>>
    BY <1>5 DEF WritePod, Writing
  <2>6. next' \in 1..(Len(list') + 1)
    BY <2>5 DEF TypeOK
  <2>7. clean' \in BOOLEAN
    BY <2>5 DEF TypeOK
  <2> QED BY <2>3, <2>4, <2>5, <2>6, <2>7 DEF TypeOK
<1>6. CASE PassEnds
  <2>1. appliedWeight' \in [Pods -> Nat] /\ appliedCPUSet' \in [Pods -> SUBSET Online]
    BY <1>6 DEF PassEnds, TypeOK, NoWeight
  <2> QED BY <1>6, <2>1, RestType DEF PassEnds, TypeOK, kernel
<1>7. CASE Restart
  <2>1. appliedWeight' \in [Pods -> Nat] /\ appliedCPUSet' \in [Pods -> SUBSET Online]
    BY <1>7 DEF Restart, TypeOK, NoWeight
  <2> QED BY <1>7, <2>1, RestType, NoPoolsType DEF Restart, TypeOK
<1>8. ASSUME NEW p \in Pods,
             PodBound(p) \/ CgroupAppears(p) \/ CgroupVanishes(p) \/ PodOver(p)
      PROVE  TypeOK'
  <2>1. phase' \in [Pods -> Phases]
    BY <1>8 DEF PodBound, CgroupAppears, CgroupVanishes, PodOver, Turns, TypeOK, Phases
  <2>2. weight' \in [Pods -> Nat] /\ cpus' \in [Pods -> SUBSET Online] /\ remade' \subseteq Pods
    <3>1. CASE PodBound(p)
      BY <3>1 DEF PodBound, kernel, TypeOK
    <3>2. CASE CgroupAppears(p)
      BY <3>2 DEF CgroupAppears, TypeOK
    <3>3. CASE CgroupVanishes(p) \/ PodOver(p)
      <4>1. Gone(p)
        BY <3>3 DEF CgroupVanishes, PodOver
      <4> QED BY <4>1 DEF Gone, TypeOK, DefaultWeight
    <3> QED BY <1>8, <3>1, <3>2, <3>3
  <2>3. clean' = FALSE /\ steady' = FALSE /\ UNCHANGED <<cfg, applied, pass>>
    BY <1>8 DEF PodBound, CgroupAppears, CgroupVanishes, PodOver, Turns
  <2> QED BY <2>1, <2>2, <2>3 DEF applied, pass, TypeOK
<1>9. CASE UNCHANGED vars
  BY <1>9 DEF vars, kernel, applied, pass, TypeOK
<1> QED BY <1>1, <1>2, <1>3, <1>4, <1>5, <1>6, <1>7, <1>8, <1>9 DEF Next, Passes, Environment

\* The pools, the files and the maps hold CPUs of the machine and weights, whatever is
\* reserved, asked for and refused.
THEOREM TypeCorrect == Spec => []TypeOK
  BY TypeInit, TypeStep, PTL DEF Spec

-----------------------------------------------------------------------------
(* The layout.                                                              *)

\* While the pods are placed, what is free is apart from what is reserved and granted,
\* and every grant has left the shared tier its floor.
Placing == pc = "place" =>
  /\ pools.reserved = Reserved(cfg) /\ pools.shared = {}
  /\ free \cap pools.reserved = {} /\ next = 1
  /\ \A p \in Granted : p \notin todo /\ pools.dedicated[p] \cap free = {}
  /\ Granted # {} => Cardinality(free) >= MinShared

LayoutInv == TypeOK /\ ExclusiveLayout /\ Placing

LEMMA PlacePreserves ==
  ASSUME LayoutInv, NEW p \in Pods, Place(p)
  PROVE  ExclusiveLayout' /\ Placing'
<1> USE DEF LayoutInv
<1>1. pc = "place" /\ pc' = "place" /\ cfg' = cfg /\ next' = next /\ p \in todo
      /\ todo' = todo \ {p} /\ MinShared' = MinShared
  BY DEF Place, MinShared
<1>2. CASE ~Fits(p)
  <2>1. UNCHANGED <<pools, free>>
    BY <1>2 DEF Place
  <2> QED BY <1>1, <2>1 DEF ExclusiveLayout, Placing, Granted, Reserved
<1>3. CASE Fits(p)
  <2> DEFINE T == Taken(p)
             ded == pools.dedicated
  <2>1. T \subseteq free /\ Cardinality(T) <= Want[p] /\ free \subseteq Online
        /\ ded \in [Pods -> SUBSET Online]
    BY TakenType DEF TypeOK, PoolsType
  <2>2. /\ pools'.reserved = pools.reserved /\ pools'.shared = pools.shared
        /\ pools'.dedicated = [ded EXCEPT ![p] = T] /\ free' = free \ T
    BY <1>3 DEF Place, TypeOK, PoolsType
  <2> HIDE DEF T, ded
  <2>3. \A q \in Granted' \ {p} : q \in Granted /\ pools'.dedicated[q] = pools.dedicated[q]
    BY <2>1, <2>2 DEF Granted, ded
  <2>4. pools'.dedicated[p] = T
    BY <2>1, <2>2
  <2>5. Cardinality(free') >= MinShared
    <3>1. IsFiniteSet(free) /\ IsFiniteSet(T) /\ free \cap T = T
      BY <2>1, OnlineType, FS_Subset
    <3>2. Cardinality(free') = Cardinality(free) - Cardinality(T)
      <4>1. Cardinality(free \ T) = Cardinality(free) - Cardinality(free \cap T)
        BY <3>1, FS_Difference
      <4> QED BY <2>2, <3>1, <4>1
    <3>3. Cardinality(free) \in Nat /\ Cardinality(T) \in Nat /\ Want[p] \in Nat
      BY <3>1, FS_CardinalityType, PodsAssumption
    <3>4. MinShared \in Int
      BY ConfigsAssumption DEF TypeOK, ConfigType, MinShared, AtLeastOne
    <3> QED BY <1>3, <2>1, <3>2, <3>3, <3>4 DEF Fits
  <2>6. ExclusiveLayout'
    BY <1>1, <2>1, <2>2, <2>3, <2>4 DEF ExclusiveLayout, Placing
  <2>7. Placing'
    <3>1. \A q \in Granted' : q \notin todo' /\ pools'.dedicated[q] \cap free' = {}
      BY <1>1, <2>1, <2>2, <2>3, <2>4 DEF Placing
    <3> QED BY <1>1, <2>1, <2>2, <2>5, <3>1 DEF Placing, Reserved
  <2> QED BY <2>6, <2>7
<1> QED BY <1>2, <1>3

LEMMA RestPreserves ==
  ASSUME LayoutInv, PlacesRest
  PROVE  ExclusiveLayout' /\ Placing'
<1>1. /\ pools'.dedicated = pools.dedicated /\ pools'.reserved = pools.reserved
      /\ pools'.shared = SharedPool /\ pc = "place" /\ pc' = "write"
  BY DEF PlacesRest, LayoutInv, TypeOK, PoolsType
<1>2. Granted' = Granted
  BY <1>1 DEF Granted
<1>3. Granted # {} => SharedPool = free
  <2>1. ASSUME Granted # {} PROVE ~(Cardinality(free) < MinShared)
    <3>1. Cardinality(free) \in Nat
      BY OnlineType, FS_Subset, FS_CardinalityType DEF LayoutInv, TypeOK
    <3>2. MinShared \in Int
      BY ConfigsAssumption DEF LayoutInv, TypeOK, ConfigType, MinShared, AtLeastOne
    <3> QED BY <1>1, <2>1, <3>1, <3>2 DEF LayoutInv, Placing
  <2> QED BY <2>1 DEF SharedPool
<1> QED BY <1>1, <1>2, <1>3 DEF LayoutInv, ExclusiveLayout, Placing

LEMMA LayoutStep == LayoutInv /\ [Next]_vars => LayoutInv'
<1> SUFFICES ASSUME LayoutInv, [Next]_vars PROVE ExclusiveLayout' /\ Placing'
  BY TypeStep DEF LayoutInv
<1>1. ASSUME NEW q \in Orders(Listed), NEW c \in Configs, Starts(q, c)
      PROVE  ExclusiveLayout' /\ Placing'
  <2>1. /\ pools'.reserved = Reserved(cfg') /\ pools'.shared = {}
        /\ pools'.dedicated = [p \in Pods |-> {}]
        /\ free' = Online \ Reserved(cfg') /\ next' = 1
    BY <1>1 DEF Starts, NoPools, Reserved
  <2>2. Granted' = {}
    BY <2>1 DEF Granted
  <2> QED BY <2>1, <2>2 DEF ExclusiveLayout, Placing, Reserved
<1>2. ASSUME NEW p \in Pods, Place(p) PROVE ExclusiveLayout' /\ Placing'
  BY <1>2, PlacePreserves
<1>3. CASE PlacesRest
  BY <1>3, RestPreserves
<1>4. ASSUME UNCHANGED pools, pc' # "place" PROVE ExclusiveLayout' /\ Placing'
  BY <1>4 DEF LayoutInv, ExclusiveLayout, Granted, Placing
<1>5. CASE SkipPod \/ (\E weightOk, cpusOk \in BOOLEAN : WritePod(weightOk, cpusOk)) \/ PassEnds
  BY <1>4, <1>5 DEF SkipPod, WritePod, Writing, PassEnds, AtRest
<1>6. CASE Restart
  <2>1. pools' = NoPools /\ pc' = "idle"
    BY <1>6 DEF Restart, AtRest
  <2>2. Granted' = {}
    BY <2>1 DEF Granted, NoPools
  <2> QED BY <2>1, <2>2 DEF ExclusiveLayout, Placing
<1>7. CASE Environment
  BY <1>4, <1>7 DEF Environment, PodBound, CgroupAppears, CgroupVanishes, PodOver, Turns, pass
<1>8. CASE UNCHANGED vars
  <2>1. UNCHANGED pass /\ UNCHANGED cfg
    BY <1>8 DEF vars
  <2> QED BY <2>1 DEF pass, LayoutInv, ExclusiveLayout, Granted, Placing, MinShared, Reserved
<1> QED BY <1>1, <1>2, <1>3, <1>5, <1>6, <1>7, <1>8 DEF Next, Passes

\* Two dedicated pods never share a CPU in the layout, nor does one share a CPU with the
\* reserved or the shared pool: every grant leaves the shared tier its floor, so once a
\* pod has been granted CPUs the shared tier takes what is left and no more.
THEOREM ExclusiveLayoutHolds == Spec => []ExclusiveLayout
<1>1. Init => LayoutInv
  <2> SUFFICES ASSUME Init PROVE ExclusiveLayout /\ Placing
    BY TypeInit DEF LayoutInv
  <2>1. Granted = {} /\ pc = "idle"
    BY DEF Init, NoPools, Granted
  <2> QED BY <2>1 DEF ExclusiveLayout, Placing
<1>2. LayoutInv => ExclusiveLayout
  BY DEF LayoutInv
<1> QED BY <1>1, <1>2, LayoutStep, PTL DEF Spec

-----------------------------------------------------------------------------
(* What is remembered of the writes.                                        *)

\* Nothing is remembered of a pod whose cgroup has yet to appear, and a cgroup that went
\* leaves nothing behind for the next.
RememberInv ==
  /\ TypeOK /\ RememberedIsWritten
  /\ \A p \in Pods : phase[p] \in {"new", "bound"} =>
       appliedWeight[p] = NoWeight /\ appliedCPUSet[p] = {}
  /\ \A p \in Pods : phase[p] = "stopped" => weight[p] = DefaultWeight /\ cpus[p] = {}

LEMMA RememberInit == Init => RememberInv
  BY TypeInit DEF Init, RememberInv, RememberedIsWritten, Running

LEMMA RememberStep == RememberInv /\ [Next]_vars => RememberInv'
<1> SUFFICES ASSUME RememberInv, [Next]_vars PROVE RememberInv'
  OBVIOUS
<1>0. TypeOK'
  BY TypeStep DEF RememberInv
<1>1. ASSUME UNCHANGED <<phase, kernel, applied>> PROVE RememberInv'
  BY <1>0, <1>1 DEF RememberInv, RememberedIsWritten, Running, Holds, kernel, applied
<1>2. ASSUME UNCHANGED <<phase, kernel>>,
             \A p \in Pods : appliedWeight'[p] \in {NoWeight, appliedWeight[p]},
             \A p \in Pods : appliedCPUSet'[p] \in {{}, appliedCPUSet[p]}
      PROVE  RememberInv'
  BY <1>0, <1>2 DEF RememberInv, RememberedIsWritten, Running, Holds, kernel
<1>3. CASE (\E q \in Orders(Listed), c \in Configs : Starts(q, c)) \/ (\E p \in Pods : Place(p))
           \/ PlacesRest \/ SkipPod \/ UNCHANGED vars
  BY <1>1, <1>3 DEF Starts, Place, PlacesRest, SkipPod, vars
<1>4. ASSUME NEW weightOk \in BOOLEAN, NEW cpusOk \in BOOLEAN, WritePod(weightOk, cpusOk)
      PROVE  RememberInv'
  <2>1. PICK p \in Pods : p = list[next]
    BY <1>4 DEF WritePod, Writing, RememberInv, TypeOK
  <2>2. phase' = phase /\ remade' = remade /\ phase[p] = "running"
        /\ WriteWeight(p, weightOk) /\ WriteCpus(p, cpusOk)
    BY <1>4, <2>1 DEF WritePod
  <2>3. \A q \in Pods : \/ weight'[q] = weight[q] /\ appliedWeight'[q] = appliedWeight[q]
                        \/ q = p /\ weight'[q] = appliedWeight'[q]
    BY <2>2 DEF WriteWeight, RememberInv, TypeOK
  <2>4. \A q \in Pods : \/ cpus'[q] = cpus[q] /\ appliedCPUSet'[q] = appliedCPUSet[q]
                        \/ q = p /\ cpus'[q] = appliedCPUSet'[q]
    BY <2>2 DEF WriteCpus, RememberInv, TypeOK
  <2>5. RememberedIsWritten'
    BY <2>2, <2>3, <2>4 DEF RememberInv, RememberedIsWritten, Running, Holds
  <2> QED BY <1>0, <2>2, <2>3, <2>4, <2>5 DEF RememberInv
<1>5. CASE PassEnds
  BY <1>2, <1>5 DEF PassEnds
<1>6. CASE Restart
  <2>1. /\ UNCHANGED <<phase, weight, cpus>>
        /\ \A p \in Pods : appliedWeight'[p] = NoWeight /\ appliedCPUSet'[p] = {}
    BY <1>6 DEF Restart
  <2> QED BY <1>0, <2>1 DEF RememberInv, RememberedIsWritten, Running
<1>7. ASSUME NEW p \in Pods, PodBound(p) \/ CgroupAppears(p) PROVE RememberInv'
  <2>1. /\ UNCHANGED <<weight, cpus, appliedWeight, appliedCPUSet>>
        /\ \A q \in Pods \ {p} : phase'[q] = phase[q] /\ (q \in remade' <=> q \in remade)
    BY <1>7 DEF PodBound, CgroupAppears, Turns, RememberInv, TypeOK, applied, kernel
  <2>2. \/ phase[p] = "new" /\ phase'[p] = "bound"
        \/ phase[p] = "bound" /\ phase'[p] = "running"
        \/ phase[p] = "stopped" /\ phase'[p] = "running" /\ p \in remade'
    BY <1>7 DEF PodBound, CgroupAppears, Turns, RememberInv, TypeOK
  <2>3. \A q \in Pods : phase'[q] \in {"new", "bound"} =>
          appliedWeight'[q] = NoWeight /\ appliedCPUSet'[q] = {}
    BY <2>1, <2>2 DEF RememberInv
  <2>4. \A q \in Pods : phase'[q] = "stopped" => weight'[q] = DefaultWeight /\ cpus'[q] = {}
    BY <2>1, <2>2 DEF RememberInv
  <2>5. ASSUME NEW q \in Pods, phase'[q] = "running"
        PROVE  /\ appliedWeight'[q] # NoWeight => Holds(q, weight[q], appliedWeight[q], DefaultWeight)'
               /\ appliedCPUSet'[q] # {} => Holds(q, cpus[q], appliedCPUSet[q], {})'
    <3>1. CASE q = p
      BY <2>1, <2>2, <2>5, <3>1 DEF RememberInv, Holds
    <3>2. CASE q # p
      BY <2>1, <2>5, <3>2 DEF RememberInv, RememberedIsWritten, Running, Holds
    <3> QED BY <3>1, <3>2
  <2> QED BY <1>0, <2>3, <2>4, <2>5 DEF RememberInv, RememberedIsWritten, Running
<1>8. ASSUME NEW p \in Pods, CgroupVanishes(p) \/ PodOver(p) PROVE RememberInv'
  <2>1. /\ UNCHANGED <<appliedWeight, appliedCPUSet>> /\ phase'[p] \in {"stopped", "over"}
        /\ weight'[p] = DefaultWeight /\ cpus'[p] = {}
        /\ \A q \in Pods \ {p} : phase'[q] = phase[q] /\ weight'[q] = weight[q]
                                /\ cpus'[q] = cpus[q] /\ (q \in remade' <=> q \in remade)
    BY <1>8 DEF CgroupVanishes, PodOver, Turns, Gone, RememberInv, TypeOK, applied
  <2>2. RememberedIsWritten'
    BY <2>1 DEF RememberInv, RememberedIsWritten, Running, Holds
  <2> QED BY <1>0, <2>1, <2>2 DEF RememberInv
<1> QED BY <1>3, <1>4, <1>5, <1>6, <1>7, <1>8 DEF Next, Passes, Environment

\* What the maps remember is what the kernel holds, through failed writes, vanishing
\* cgroups and restarts, and where it does not, the cgroup was made again and is fresh: a
\* UID lives once, so nothing is remembered of a cgroup that has yet to appear.
THEOREM RememberedIsWrittenHolds == Spec => []RememberedIsWritten
<1>1. RememberInv => RememberedIsWritten
  BY DEF RememberInv
<1> QED BY <1>1, RememberInit, RememberStep, PTL DEF Spec

-----------------------------------------------------------------------------
(* A pass without a failure.                                                *)

\* The maps say that p has its weight and its CPUs.
WeightDone(p) == appliedWeight[p] = WeightFor[Level[p]]
Done(p) == WeightDone(p) /\ (CpusFor(p) # {} => appliedCPUSet[p] = CpusFor(p))

\* As long as the pass is clean it knows every pod of the node, and those it has come
\* by run and are done.
Clean == clean =>
  /\ pc # "idle" /\ cfg.enabled /\ Listed = {list[i] : i \in DOMAIN list}
  /\ pc = "write" => \A i \in 1..(next - 1) : Running(list[i]) /\ Done(list[i])

\* After it the maps say that everyone running is done.
AllDone == steady /\ pc = "idle" => \A p \in Pods : Running(p) => Done(p)

PassInv == RememberInv /\ Placing /\ ExclusiveLayout /\ Clean /\ AllDone

LEMMA PassInit == Init => PassInv
<1>1. Init => Placing /\ ExclusiveLayout
  BY DEF Init, NoPools, Granted, Placing, ExclusiveLayout
<1> QED BY <1>1, RememberInit DEF Init, PassInv, Clean, AllDone

\* What the maps say is so, or the cgroup was made again.
LEMMA AllDoneHeals == PassInv => Healed
<1> SUFFICES ASSUME PassInv, steady, pc = "idle", NEW p \in Pods, Running(p)
             PROVE  /\ Holds(p, weight[p], WeightFor[Level[p]], DefaultWeight)
                    /\ CpusFor(p) # {} => Holds(p, cpus[p], CpusFor(p), {})
  BY DEF Healed
<1>1. Done(p) /\ RememberedIsWritten
  BY DEF PassInv, AllDone, RememberInv
<1> QED BY <1>1, WeightType DEF Done, WeightDone, RememberedIsWritten

LEMMA WriteIsDone ==
  ASSUME TypeOK, NEW p \in Pods, cfg.enabled,
         WriteWeight(p, TRUE), WriteCpus(p, TRUE), pools' = pools
  PROVE  Done(p)' /\ \A q \in Pods : Done(q) => Done(q)'
<1>1. \A q \in Pods : CpusFor(q)' = CpusFor(q)
  BY DEF CpusFor
<1>2. appliedWeight'[p] = WeightFor[Level[p]]
      /\ \A q \in Pods \ {p} : appliedWeight'[q] = appliedWeight[q]
  BY DEF WriteWeight, TypeOK
<1>3. /\ CpusFor(p) # {} => appliedCPUSet'[p] = CpusFor(p)
      /\ \A q \in Pods \ {p} : appliedCPUSet'[q] = appliedCPUSet[q]
  BY DEF WriteCpus, TypeOK
<1> QED BY <1>1, <1>2, <1>3 DEF Done, WeightDone

LEMMA CleanStep ==
  ASSUME PassInv, [Next]_vars
  PROVE  Clean' /\ AllDone'
<1> USE DEF PassInv
<1>0. TypeOK
  BY DEF RememberInv
<1>1. ASSUME NEW q \in Orders(Listed), NEW c \in Configs, Starts(q, c) PROVE Clean' /\ AllDone'
  <2>1. Listed' = Listed /\ pc' = "place" /\ list' = q /\ (clean' => cfg'.enabled)
    BY <1>1 DEF Starts, Listed
  <2>2. Listed = {q[i] : i \in DOMAIN q}
    BY OrdersType
  <2> QED BY <2>1, <2>2 DEF Clean, AllDone
<1>2. ASSUME NEW p \in Pods, Place(p) PROVE Clean' /\ AllDone'
  BY <1>2 DEF Place, Clean, AllDone, Listed
<1>3. CASE PlacesRest
  <2>1. Listed' = Listed /\ pc' = "write" /\ next' = 1 /\ pc = "place"
        /\ UNCHANGED <<cfg, list, clean>>
    BY <1>3 DEF PlacesRest, Listed, Placing
  <2>2. 1..(next' - 1) = {}
    BY <2>1
  <2> QED BY <2>1, <2>2 DEF Clean, AllDone
<1>4. CASE SkipPod
  BY <1>4 DEF SkipPod, Writing, Clean, AllDone
<1>5. ASSUME NEW weightOk \in BOOLEAN, NEW cpusOk \in BOOLEAN, WritePod(weightOk, cpusOk)
      PROVE  Clean' /\ AllDone'
  <2>1. pc = "write" /\ UNCHANGED <<phase, cfg, pools, pc, list>> /\ next' = next + 1
        /\ Listed' = Listed
    BY <1>5 DEF WritePod, Writing, Listed
  <2>2. ASSUME clean' PROVE \A i \in 1..(next' - 1) : Running(list[i])' /\ Done(list[i])'
    <3>1. clean /\ weightOk = TRUE /\ cpusOk = TRUE
      BY <1>5, <2>2 DEF WritePod
    <3>2. PICK p \in Pods : p = list[next]
      BY <1>0, <1>5 DEF WritePod, Writing, TypeOK
    <3>3. phase[p] = "running" /\ WriteWeight(p, TRUE) /\ WriteCpus(p, TRUE)
      BY <1>5, <3>1, <3>2 DEF WritePod
    <3>4. Done(p)' /\ \A q \in Pods : Done(q) => Done(q)'
      BY <1>0, <2>1, <3>1, <3>3, WriteIsDone DEF Clean
    <3>5. \A i \in 1..(next - 1) : list[i] \in Pods /\ Running(list[i]) /\ Done(list[i])
      BY <1>0, <2>1, <3>1 DEF Clean, TypeOK
    <3>6. \A i \in 1..(next' - 1) : i = next \/ i \in 1..(next - 1)
      BY <1>0, <2>1 DEF TypeOK
    <3>7. list' = list /\ phase' = phase
      BY <2>1
    <3> HIDE DEF PassInv
    <3>8. ASSUME NEW i \in 1..(next' - 1) PROVE Running(list[i])' /\ Done(list[i])'
      <4>1. CASE i = next
        BY <3>2, <3>3, <3>4, <3>7, <4>1 DEF Running, Done, WeightDone, CpusFor
      <4>2. CASE i \in 1..(next - 1)
        BY <3>4, <3>5, <3>7, <4>2 DEF Running, Done, WeightDone, CpusFor
      <4> QED BY <3>6, <4>1, <4>2
    <3> QED BY <3>8
  <2>3. clean' => clean
    BY <1>5 DEF WritePod
  <2> QED BY <2>1, <2>2, <2>3 DEF Clean, AllDone
<1>6. CASE PassEnds
  <2>1. pc = "write" /\ next > Len(list) /\ pc' = "idle" /\ steady' = clean /\ clean' = FALSE
        /\ UNCHANGED <<phase, pools>>
    BY <1>6 DEF PassEnds, AtRest
  <2>2. ASSUME clean, NEW p \in Pods, Running(p) PROVE Done(p) /\ Done(p)'
    <3>1. p \in Listed
      BY <2>2 DEF Running, Listed
    <3>2. PICK i \in DOMAIN list : p = list[i]
      BY <2>2, <3>1 DEF Clean
    <3>3. i \in 1..(next - 1)
      BY <1>0, <2>1, <3>2 DEF TypeOK
    <3>4. Done(p)
      BY <2>1, <2>2, <3>2, <3>3 DEF Clean
    <3>5. appliedWeight'[p] = appliedWeight[p] /\ appliedCPUSet'[p] = appliedCPUSet[p]
      BY <1>6, <3>2 DEF PassEnds, Forgets
    <3> QED BY <2>1, <3>4, <3>5 DEF Done, WeightDone, CpusFor
  <2> QED BY <2>1, <2>2 DEF Clean, AllDone, Running
<1>7. CASE Restart \/ Environment
  BY <1>7 DEF Restart, Environment, PodBound, CgroupAppears, CgroupVanishes, PodOver, Turns,
     Clean, AllDone
<1>8. CASE UNCHANGED vars
  BY <1>8 DEF vars, pass, applied, Clean, AllDone, Listed, Running, Done, WeightDone, CpusFor
<1> QED BY <1>1, <1>2, <1>3, <1>4, <1>5, <1>6, <1>7, <1>8 DEF Next, Passes

LEMMA PassStep == PassInv /\ [Next]_vars => PassInv'
  BY CleanStep, RememberStep, LayoutStep DEF PassInv, LayoutInv, RememberInv

\* Where nothing has changed since a pass without a failure, every running pod has its
\* weight and its CPUs, unless its cgroup was made again: what such a pass leaves out is
\* remembered, and what is remembered is in the kernel.
THEOREM HealedHolds == Spec => []Healed
  BY PassInit, PassStep, AllDoneHeals, PTL DEF Spec

-----------------------------------------------------------------------------
(* What a pass writes sets the granted pods apart, whatever sizes they have. *)

GrantedIn(pl) == {p \in Pods : pl.dedicated[p] # {}}

\* The grants of pl are disjoint, and apart from the shared tier, which has some CPU.
Apart(pl) == \A p \in GrantedIn(pl) :
  /\ pl.shared # {} /\ pl.dedicated[p] \cap pl.shared = {}
  /\ \A q \in GrantedIn(pl) \ {p} : pl.dedicated[p] \cap pl.dedicated[q] = {}

CpusIn(pl, p) ==
  CASE Level[p] = "dedicated" /\ pl.dedicated[p] # {} -> pl.dedicated[p]
    [] Level[p] = "reclaimed"                         -> pl.reclaimed
    [] Level[p] = "system"                            -> pl.reserved
    [] OTHER                                          -> pl.shared

\* As far as the maps know, the files hold the CPU sets of pl.
InForce(pl) == \A p \in Pods : Running(p) =>
  (CpusIn(pl, p) # {} => appliedCPUSet[p] = CpusIn(pl, p))

LEMMA PoolsIn == \A p : CpusIn(pools, p) = CpusFor(p)
  BY DEF CpusIn, CpusFor

\* A layout in force that sets the granted pods apart does so in the kernel.
LEMMA HeldApart ==
  ASSUME RememberedIsWritten, NEW pl, Apart(pl), InForce(pl),
         NEW p \in Pods, p \in GrantedIn(pl), Level[p] = "dedicated", Running(p)
  PROVE  Holds(p, cpus[p], pl.dedicated[p], {}) /\ Alone(p, {"dedicated", "shared"})
<1>1. ASSUME NEW q \in Pods, Running(q), CpusIn(pl, q) # {}
      PROVE  cpus[q] = CpusIn(pl, q) \/ cpus[q] = {}
  BY <1>1 DEF InForce, RememberedIsWritten, Holds
<1>2. Holds(p, cpus[p], pl.dedicated[p], {})
  <2>1. CpusIn(pl, p) = pl.dedicated[p] /\ pl.dedicated[p] # {}
    BY DEF CpusIn, GrantedIn
  <2>2. appliedCPUSet[p] = pl.dedicated[p] /\ appliedCPUSet[p] # {}
    BY <2>1 DEF InForce
  <2> QED BY <2>2 DEF RememberedIsWritten
<1>3. ASSUME NEW q \in Pods \ {p}, Running(q), Level[q] \in {"dedicated", "shared"}
      PROVE  cpus[p] \cap cpus[q] = {}
  <2>1. cpus[p] \subseteq pl.dedicated[p]
    BY <1>2 DEF Holds
  <2>2. CASE Level[q] = "dedicated" /\ q \in GrantedIn(pl)
    <3>1. CpusIn(pl, q) = pl.dedicated[q] /\ pl.dedicated[q] # {}
      BY <2>2 DEF CpusIn, GrantedIn
    <3>2. cpus[q] \subseteq pl.dedicated[q]
      BY <1>1, <1>3, <3>1
    <3>3. pl.dedicated[p] \cap pl.dedicated[q] = {}
      BY <2>2 DEF Apart
    <3> QED BY <2>1, <3>2, <3>3
  <2>3. CASE ~(Level[q] = "dedicated" /\ q \in GrantedIn(pl))
    <3>1. CpusIn(pl, q) = pl.shared
      BY <1>3, <2>3 DEF CpusIn, GrantedIn
    <3>2. pl.shared # {} /\ pl.dedicated[p] \cap pl.shared = {}
      BY DEF Apart
    <3>3. cpus[q] \subseteq pl.shared
      BY <1>1, <1>3, <3>1, <3>2
    <3> QED BY <2>1, <3>2, <3>3
  <2> QED BY <2>2, <2>3
<1> QED BY <1>2, <1>3 DEF Alone

\* With the rest placed, whoever has been granted CPUs has them apart from the others.
LEMMA RestIsApart ==
  ASSUME TypeOK, Placing, ExclusiveLayout', PlacesRest
  PROVE  Apart(pools)'
<1>1. /\ pc = "place" /\ pools'.dedicated = pools.dedicated /\ pools'.shared = SharedPool
  BY DEF PlacesRest, TypeOK, PoolsType
<1>2. Granted # {} => SharedPool # {}
  <2> SUFFICES ASSUME Granted # {}, SharedPool = {} PROVE FALSE
    OBVIOUS
  <2>1. Cardinality(free) >= MinShared /\ Cardinality(free) \in Nat
    BY <1>1, OnlineType, FS_Subset, FS_CardinalityType DEF Placing, TypeOK
  <2>2. MinShared \in Int /\ MinShared >= 1
    BY ConfigsAssumption DEF TypeOK, ConfigType, MinShared, AtLeastOne
  <2>3. SharedPool = free
    BY <2>1, <2>2 DEF SharedPool
  <2> QED BY <2>1, <2>2, <2>3, FS_EmptySet
<1>3. GrantedIn(pools)' = Granted' /\ Granted' = Granted
  BY <1>1 DEF GrantedIn, Granted
<1> QED BY <1>1, <1>2, <1>3 DEF Apart, ExclusiveLayout

\* Only dedicated pods are granted CPUs, and what a pass writes sets them apart.
ApartInv ==
  /\ pc = "place" => \A p \in todo : Level[p] = "dedicated"
  /\ \A p \in Granted : Level[p] = "dedicated"
  /\ pc = "write" \/ (pc = "idle" /\ steady) => Apart(pools)

LEMMA ApartStep == PassInv /\ ApartInv /\ [Next]_vars => ApartInv'
<1> SUFFICES ASSUME PassInv, ApartInv, [Next]_vars PROVE ApartInv'
  OBVIOUS
<1>a. TypeOK /\ Placing /\ ExclusiveLayout /\ ExclusiveLayout'
  BY LayoutStep DEF PassInv, RememberInv, LayoutInv
<1>b. UNCHANGED pools => Granted' = Granted /\ Apart(pools)' = Apart(pools)
  BY DEF Granted, Apart, GrantedIn
<1>1. ASSUME NEW q \in Orders(Listed), NEW c \in Configs, Starts(q, c) PROVE ApartInv'
  <2>1. pc' = "place" /\ todo' = Dedicated(q) /\ pools'.dedicated = [p \in Pods |-> {}]
    BY <1>1 DEF Starts, NoPools
  <2>2. Granted' = {}
    BY <2>1 DEF Granted
  <2> QED BY <2>1, <2>2 DEF ApartInv, Dedicated
<1>2. ASSUME NEW p \in Pods, Place(p) PROVE ApartInv'
  <2>1. pc = "place" /\ pc' = "place" /\ p \in todo /\ todo' \subseteq todo
    BY <1>2 DEF Place
  <2>2. \A q \in Granted' : q = p \/ q \in Granted
    BY <1>2, <1>a DEF Place, Granted, TypeOK, PoolsType
  <2> QED BY <2>1, <2>2 DEF ApartInv
<1>3. CASE PlacesRest
  <2>1. pc' = "write" /\ pools'.dedicated = pools.dedicated
    BY <1>3, <1>a DEF PlacesRest, TypeOK, PoolsType
  <2>2. Granted' = Granted
    BY <2>1 DEF Granted
  <2> QED BY <1>3, <1>a, <2>1, <2>2, RestIsApart DEF ApartInv
<1>4. CASE SkipPod \/ (\E weightOk, cpusOk \in BOOLEAN : WritePod(weightOk, cpusOk)) \/ PassEnds
  <2>1. pc = "write" /\ pc' # "place" /\ UNCHANGED pools
    BY <1>4 DEF SkipPod, WritePod, PassEnds, Writing, AtRest
  <2> QED BY <1>b, <2>1 DEF ApartInv
<1>5. CASE Restart
  <2>1. pc' = "idle" /\ steady' = FALSE /\ pools' = NoPools
    BY <1>5 DEF Restart, AtRest
  <2>2. Granted' = {}
    BY <2>1 DEF Granted, NoPools
  <2> QED BY <2>1, <2>2 DEF ApartInv
<1>6. CASE Environment
  <2>1. pc # "place" /\ pc' = pc /\ steady' = FALSE /\ UNCHANGED pools
    BY <1>6 DEF Environment, PodBound, CgroupAppears, CgroupVanishes, PodOver, Turns, pass
  <2> QED BY <1>b, <2>1 DEF ApartInv
<1>7. CASE UNCHANGED vars
  <2>1. UNCHANGED <<pc, todo, pools, steady>>
    BY <1>7 DEF vars, pass
  <2> QED BY <1>b, <2>1 DEF ApartInv
<1> QED BY <1>1, <1>2, <1>3, <1>4, <1>5, <1>6, <1>7 DEF Next, Passes

\* Between two passes the layout in force is the last one.
LEMMA IdleExcludes ==
  ASSUME PassInv, ApartInv, steady, pc = "idle", NEW p \in Granted, Running(p)
  PROVE  Holds(p, cpus[p], pools.dedicated[p], {}) /\ Alone(p, {"dedicated", "shared"})
<1>1. Apart(pools) /\ p \in Pods /\ p \in GrantedIn(pools) /\ Level[p] = "dedicated"
  BY DEF ApartInv, Granted, GrantedIn
<1>2. InForce(pools)
  BY PoolsIn DEF PassInv, AllDone, Done, InForce
<1>3. RememberedIsWritten
  BY DEF PassInv, RememberInv
<1> QED BY <1>1, <1>2, <1>3, HeldApart

-----------------------------------------------------------------------------
(* The layout is determined by the pods and the configuration, as long as no  *)
(* two dedicated pods on the node want the same number of CPUs: it is the     *)
(* only one in which every dedicated pod has its share of what the larger     *)
(* ones left.                                                                 *)

\* The CPUs p is granted when S is free.
Share(S, p) ==
  IF ~(Want[p] >= 1 /\ Cardinality(S) - Want[p] >= MinShared) THEN {}
  ELSE IF p \in Numa /\ ZonesFor(S, Want[p]) # {}
       THEN TakeFrom(S, Want[p], Zones[CHOOSE i \in ZonesFor(S, Want[p]) : TRUE])
       ELSE Take(S, Want[p])

\* What the larger pods of D leave to p in the layout f.
Left(f, D, p) == Unreserved \ UNION {f[q] : q \in {r \in D : Want[r] > Want[p]}}

\* In f every pod of P has its share of what the larger ones of D left.
Fair(f, D, P) == \A p \in P : f[p] = Share(Left(f, D, p), p)

LEMMA SomeLargest ==
  ASSUME NEW E \in SUBSET Pods, E # {}
  PROVE  \E m \in E : \A q \in E : ~(Want[q] > Want[m])
<1> DEFINE Up(p) == {q \in Pods : Want[q] >= Want[p]}
           T == {Up(p) : p \in E}
           R == StrictSubsetOrdering(Pods)
<1>1. \A p \in Pods : Up(p) \in SUBSET Pods /\ IsFiniteSet(Up(p))
  BY PodsAssumption, FS_Subset
<1>2. T \subseteq FiniteSubsetsOf(Pods) /\ T # {}
  BY <1>1 DEF FiniteSubsetsOf
<1>3. IsWellFoundedOn(R, FiniteSubsetsOf(Pods))
  BY FS_StrictSubsetOrderingWellFounded
<1> HIDE DEF T, R
<1>4. PICK X \in T : \A Y \in T : ~(<<Y, X>> \in R)
  BY <1>2, <1>3, WFMin
<1> USE DEF T, R
<1>5. PICK m \in E : X = Up(m)
  OBVIOUS
<1>6. ASSUME NEW q \in E, Want[q] > Want[m] PROVE FALSE
  <2>1. Want \in [Pods -> Nat] /\ q \in Pods /\ m \in Pods
    BY PodsAssumption
  <2>2. Up(q) \subseteq Up(m) /\ m \in Up(m) /\ m \notin Up(q)
    BY <1>6, <2>1
  <2>3. <<Up(q), Up(m)>> \in R
    BY <1>1, <2>1, <2>2 DEF StrictSubsetOrdering
  <2> QED BY <1>4, <1>5, <2>3
<1> QED BY <1>6

\* Fair layouts agree, already on the largest pods.
LEMMA FairIsUnique ==
  ASSUME NEW D \in SUBSET Pods, NEW P \in SUBSET D,
         \A p \in P, q \in D : Want[q] > Want[p] => q \in P,
         NEW f, NEW g, Fair(f, D, P), Fair(g, D, P)
  PROVE  \A p \in P : f[p] = g[p]
<1> DEFINE E == {p \in P : f[p] # g[p]}
<1> SUFFICES ASSUME E # {} PROVE FALSE
  OBVIOUS
<1>1. PICK m \in E : \A q \in E : ~(Want[q] > Want[m])
  BY SomeLargest
<1> DEFINE larger == {r \in D : Want[r] > Want[m]}
<1>2. \A r \in larger : f[r] = g[r]
  BY <1>1
<1>3. UNION {f[q] : q \in larger} = UNION {g[q] : q \in larger}
  BY <1>2
<1>4. Left(f, D, m) = Left(g, D, m)
  BY <1>3 DEF Left
<1>5. f[m] = g[m]
  BY <1>4 DEF Fair
<1> QED BY <1>1, <1>5

-----------------------------------------------------------------------------
(* What the kernel holds while nothing changes.  A clean pass leaves a whole  *)
(* layout in force; as long as nothing changes the next pass computes the     *)
(* same one, so its grants are in the kernel already, from the first placed.  *)

Members == {p \in Listed : Level[p] = "dedicated"}

Placed == Members \ todo

Rest(pl) == Unreserved \ UNION {pl.dedicated[q] : q \in Members}

\* The layout that a pass over the pods of the node computes under cfg.
Whole(pl) ==
  /\ pl \in PoolsType
  /\ Fair(pl.dedicated, Members, Members)
  /\ \A p \in Pods \ Members : pl.dedicated[p] = {}
  /\ pl.reserved = Reserved(cfg)
  /\ pl.shared = IF Cardinality(Rest(pl)) < MinShared THEN Unreserved ELSE Rest(pl)
  /\ pl.reclaimed = IF Cardinality(pl.shared) < AtLeastOne(cfg.minReclaimed)
                    THEN Unreserved ELSE pl.shared

\* While the pods are placed, the larger ones first, the layout is fair as far as it goes.
PartInv == pc = "place" /\ SizesDiffer =>
  /\ todo \subseteq Members
  /\ \A p \in Placed, q \in todo : Want[p] > Want[q]
  /\ Fair(pools.dedicated, Members, Placed)
  /\ \A p \in Pods \ Placed : pools.dedicated[p] = {}
  /\ free = Unreserved \ UNION {pools.dedicated[q] : q \in Placed}

\* The pods have not changed since they were listed.
Current == IF pc = "write" THEN clean \/ steady ELSE pc = "idle" /\ steady

WholeInv == Current /\ SizesDiffer => Whole(pools)

\* Where nothing has changed since a clean pass, every weight is written, and if sizes
\* differ a whole layout is in force.
SteadyInv == steady =>
  /\ cfg.enabled /\ \A p \in Pods : Running(p) => WeightDone(p)
  /\ SizesDiffer => \E pl \in PoolsType : Whole(pl) /\ Apart(pl) /\ InForce(pl)

LEMMA SizesStay == UNCHANGED phase => (SizesDiffer' <=> SizesDiffer)
  BY DEF SizesDiffer, Listed

LEMMA WholeIsUnique ==
  ASSUME NEW pl, NEW other, Whole(pl), Whole(other)
  PROVE  pl = other
<1>1. Members \in SUBSET Pods
  BY DEF Members, Listed
<1>2. \A p \in Members : pl.dedicated[p] = other.dedicated[p]
  BY <1>1, FairIsUnique DEF Whole
<1>3. \A p \in Pods : pl.dedicated[p] = other.dedicated[p]
  BY <1>2 DEF Whole
<1>4. pl.dedicated = other.dedicated /\ pl.reserved = other.reserved
  BY <1>3 DEF Whole, PoolsType
<1>5. Rest(pl) = Rest(other)
  BY <1>4 DEF Rest
<1>6. pl.shared = other.shared
  BY <1>5 DEF Whole
<1>7. pl.reclaimed = other.reclaimed
  BY <1>6 DEF Whole
<1> QED BY <1>4, <1>6, <1>7 DEF Whole, PoolsType

\* Steps that change neither the pods nor the configuration keep whole layouts whole.
LEMMA WholeStays ==
  ASSUME UNCHANGED <<phase, cfg>>, NEW pl, Whole(pl)
  PROVE  Whole(pl)'
<1>1. Members' = Members /\ Reserved(cfg)' = Reserved(cfg) /\ MinShared' = MinShared
      /\ Unreserved' = Unreserved
  BY DEF Members, Listed, Reserved, MinShared, Unreserved
<1>2. \A S, p : Share(S, p)' = Share(S, p)
  BY <1>1 DEF Share
<1> QED BY <1>1, <1>2 DEF Whole, Fair, Left, Rest

LEMMA PlaceIsFair ==
  ASSUME SizesDiffer, TypeOK, Placing, PartInv, NEW p \in Pods, Place(p)
  PROVE  PartInv'
<1>1. /\ pc = "place" /\ pc' = "place" /\ p \in todo /\ First(p) /\ todo' = todo \ {p}
      /\ UNCHANGED <<phase, cfg>>
  BY DEF Place
<1>2. Members' = Members /\ Members \subseteq Pods /\ MinShared' = MinShared
      /\ Unreserved' = Unreserved
  BY <1>1 DEF Members, Listed, MinShared, Unreserved, Reserved
<1>3. /\ todo \subseteq Members
      /\ \A r \in Placed, q \in todo : Want[r] > Want[q]
      /\ Fair(pools.dedicated, Members, Placed)
      /\ \A q \in Pods \ Placed : pools.dedicated[q] = {}
      /\ free = Unreserved \ UNION {pools.dedicated[q] : q \in Placed}
  BY <1>1 DEF PartInv
<1>4. Placed' = Placed \cup {p} /\ p \notin Placed
  BY <1>1, <1>2, <1>3 DEF Placed
<1>5. Want \in [Pods -> Nat]
  BY PodsAssumption
<1>6. \A q \in todo \ {p} : Want[p] > Want[q]
  BY <1>1, <1>2, <1>3, <1>5 DEF First, SizesDiffer, Members
<1>7. Placed = {r \in Members : Want[r] > Want[p]}
  <2>1. \A r \in Placed : Want[r] > Want[p]
    BY <1>1, <1>3
  <2>2. \A r \in todo : ~(Want[r] > Want[p])
    BY <1>2, <1>3, <1>5, <1>6
  <2> QED BY <2>1, <2>2 DEF Placed
<1>8. free = Left(pools.dedicated, Members, p)
  BY <1>3, <1>7 DEF Left
<1>9. pools'.dedicated = [pools.dedicated EXCEPT ![p] = Share(free, p)]
      /\ free' = free \ Share(free, p) /\ pools.dedicated \in [Pods -> SUBSET Online]
  <2>1. pools.dedicated \in [Pods -> SUBSET Online] /\ pools.dedicated[p] = {}
    BY <1>3, <1>4 DEF TypeOK, PoolsType
  <2>2. CASE Fits(p)
    <3>1. Share(free, p) = Taken(p)
      BY <2>2 DEF Share, Taken, Fits
    <3> QED BY <2>1, <2>2, <3>1 DEF Place, TypeOK, PoolsType
  <2>3. CASE ~Fits(p)
    <3>1. Share(free, p) = {}
      BY <2>3 DEF Share, Fits
    <3> QED BY <2>1, <2>3, <3>1 DEF Place, TypeOK, PoolsType
  <2> QED BY <2>2, <2>3
<1> DEFINE f == pools.dedicated
           g == pools'.dedicated
<1>10. g[p] = Share(free, p) /\ \A q \in Pods \ {p} : g[q] = f[q]
  BY <1>9
<1> HIDE DEF f, g
<1>11. \A r \in Placed' : Left(g, Members, r) = Left(f, Members, r)
  <2> SUFFICES ASSUME NEW r \in Placed \cup {p}
               PROVE  Left(g, Members, r) = Left(f, Members, r)
    BY <1>4
  <2> DEFINE larger == {q \in Members : Want[q] > Want[r]}
  <2>1. p \notin larger
    BY <1>1, <1>2, <1>3, <1>5 DEF Placed
  <2>2. \A q \in larger : g[q] = f[q]
    BY <1>2, <1>10, <2>1
  <2>3. UNION {g[q] : q \in larger} = UNION {f[q] : q \in larger}
    BY <2>2
  <2> QED BY <2>3 DEF Left
<1>12. Fair(g, Members, Placed')
  <2> SUFFICES ASSUME NEW r \in Placed \cup {p}
               PROVE  g[r] = Share(Left(g, Members, r), r)
    BY <1>4 DEF Fair
  <2>1. CASE r = p
    BY <1>4, <1>8, <1>10, <1>11, <2>1 DEF f
  <2>2. CASE r # p
    <3>1. r \in Placed /\ r \in Pods
      BY <1>2, <2>2 DEF Placed
    <3> QED BY <1>3, <1>4, <1>10, <1>11, <2>2, <3>1 DEF Fair, f
  <2> QED BY <2>1, <2>2
<1>13. (Fair(pools.dedicated, Members, Placed))'
  <2>1. \A S, q : Share(S, q)' = Share(S, q)
    BY <1>2 DEF Share
  <2> QED BY <1>2, <1>12, <2>1 DEF Fair, Left, g
<1>14. free' = Unreserved \ UNION {g[q] : q \in Placed'}
  <2>1. UNION {g[q] : q \in Placed'} = (UNION {f[q] : q \in Placed}) \cup Share(free, p)
    <3>1. \A q \in Placed : g[q] = f[q]
      BY <1>2, <1>4, <1>10 DEF Placed
    <3> QED BY <1>4, <1>10, <3>1
  <2> QED BY <1>3, <1>9, <2>1 DEF f
<1>15. \A q \in Pods \ Placed' : g[q] = {}
  BY <1>3, <1>4, <1>10 DEF f
<1>16. todo' \subseteq Members' /\ \A r \in Placed', q \in todo' : Want[r] > Want[q]
  BY <1>1, <1>2, <1>3, <1>4, <1>6
<1> QED BY <1>2, <1>13, <1>14, <1>15, <1>16 DEF PartInv, g

\* Once every dedicated pod is placed the rest completes the layout.
LEMMA RestIsWhole ==
  ASSUME SizesDiffer, TypeOK, Placing, PartInv, TypeOK', PlacesRest
  PROVE  Whole(pools)'
<1>1. /\ pc = "place" /\ todo = {} /\ UNCHANGED <<phase, cfg>>
      /\ pools' = [pools EXCEPT !.shared = SharedPool, !.reclaimed = ReclaimedPool]
  BY DEF PlacesRest
<1>2. Placed = Members /\ Members' = Members /\ Reserved(cfg)' = Reserved(cfg)
      /\ MinShared' = MinShared /\ Unreserved' = Unreserved
  BY <1>1 DEF Placed, Members, Listed, Reserved, MinShared, Unreserved
<1>3. /\ pools'.dedicated = pools.dedicated /\ pools'.reserved = pools.reserved
      /\ pools'.shared = SharedPool /\ pools'.reclaimed = ReclaimedPool
  BY <1>1 DEF TypeOK, PoolsType
<1>4. Rest(pools)' = free
  BY <1>1, <1>2, <1>3 DEF Rest, PartInv
<1>5. (Fair(pools.dedicated, Members, Members))'
  <2>1. Fair(pools.dedicated, Members, Members)
    BY <1>1, <1>2 DEF PartInv
  <2>2. \A S, q : Share(S, q)' = Share(S, q)
    BY <1>2 DEF Share
  <2> QED BY <1>2, <1>3, <2>1, <2>2 DEF Fair, Left
<1>6. \A p \in Pods \ Members' : pools'.dedicated[p] = {}
  BY <1>1, <1>2, <1>3 DEF PartInv
<1>7. pools'.reserved = Reserved(cfg)'
  BY <1>1, <1>2, <1>3 DEF Placing
<1>8. pools' \in PoolsType /\ PoolsType' = PoolsType
  BY DEF TypeOK, PoolsType
<1> QED BY <1>1, <1>2, <1>3, <1>4, <1>5, <1>6, <1>7, <1>8
        DEF Whole, SharedPool, ReclaimedPool

\* In the steady state the weights are written, and if sizes differ the layout in force
\* is the one being written, so a write changes nothing.
LEMMA SteadyWrite ==
  ASSUME TypeOK, WholeInv, SteadyInv, steady,
         NEW weightOk \in BOOLEAN, NEW cpusOk \in BOOLEAN, WritePod(weightOk, cpusOk)
  PROVE  /\ UNCHANGED <<weight, appliedWeight>>
         /\ SizesDiffer => UNCHANGED <<cpus, appliedCPUSet>>
<1>1. PICK p \in Pods : p = list[next]
  BY DEF WritePod, Writing, TypeOK
<1>2. pc = "write" /\ Running(p) /\ WriteWeight(p, weightOk) /\ WriteCpus(p, cpusOk)
  BY <1>1 DEF WritePod, Writing, Running
<1>3. UNCHANGED <<weight, appliedWeight>>
  BY <1>2 DEF SteadyInv, WeightDone, WriteWeight
<1>4. ASSUME SizesDiffer PROVE UNCHANGED <<cpus, appliedCPUSet>>
  <2>1. Whole(pools)
    BY <1>2, <1>4 DEF WholeInv, Current
  <2>2. InForce(pools)
    BY <1>4, <2>1, WholeIsUnique DEF SteadyInv
  <2>3. CpusFor(p) # {} => appliedCPUSet[p] = CpusFor(p)
    BY <1>2, <2>2, PoolsIn DEF InForce
  <2> QED BY <1>2, <2>3 DEF WriteCpus
<1> QED BY <1>3, <1>4

\* What is in force stays in force as long as nothing changes.
LEMMA SteadyStays ==
  ASSUME SteadyInv, steady' => steady, UNCHANGED <<phase, cfg>>,
         steady => UNCHANGED appliedWeight /\ (SizesDiffer => UNCHANGED appliedCPUSet)
  PROVE  SteadyInv'
<1> SUFFICES ASSUME steady'
             PROVE  /\ cfg.enabled /\ \A p \in Pods : Running(p)' => WeightDone(p)'
                    /\ SizesDiffer' => \E pl \in PoolsType' :
                                         Whole(pl)' /\ Apart(pl)' /\ InForce(pl)'
  BY DEF SteadyInv
<1>1. cfg.enabled /\ \A p \in Pods : Running(p)' => WeightDone(p)'
  BY DEF SteadyInv, Running, WeightDone
<1>2. ASSUME SizesDiffer'
      PROVE  \E pl \in PoolsType' : Whole(pl)' /\ Apart(pl)' /\ InForce(pl)'
  <2>1. SizesDiffer
    BY <1>2, SizesStay
  <2>2. PICK pl \in PoolsType : Whole(pl) /\ Apart(pl) /\ InForce(pl)
    BY <2>1 DEF SteadyInv
  <2>3. Apart(pl)' = Apart(pl) /\ PoolsType' = PoolsType
    BY DEF Apart, GrantedIn, PoolsType
  <2>4. InForce(pl)' = InForce(pl)
    BY <2>1 DEF InForce, Running, CpusIn
  <2> QED BY <2>2, <2>3, <2>4, WholeStays
<1> QED BY <1>1, <1>2

LayoutsInv == PassInv /\ ApartInv /\ PartInv /\ WholeInv /\ SteadyInv

LEMMA LayoutsStep == LayoutsInv /\ [Next]_vars => PartInv' /\ WholeInv' /\ SteadyInv'
<1> SUFFICES ASSUME LayoutsInv, [Next]_vars PROVE PartInv' /\ WholeInv' /\ SteadyInv'
  OBVIOUS
<1>a. TypeOK /\ TypeOK' /\ Placing /\ AllDone'
  <2>1. TypeOK /\ Placing /\ PassInv
    BY DEF LayoutsInv, PassInv, RememberInv
  <2> QED BY <2>1, TypeStep, CleanStep
<1>b. PartInv /\ WholeInv /\ SteadyInv /\ Clean /\ ApartInv
  BY DEF LayoutsInv, PassInv
<1>1. ASSUME NEW q \in Orders(Listed), NEW c \in Configs, Starts(q, c)
      PROVE  PartInv' /\ WholeInv' /\ SteadyInv'
  <2>1. /\ pc' = "place" /\ todo' = Dedicated(q) /\ free' = Unreserved' /\ UNCHANGED <<phase, applied>>
        /\ pools'.dedicated = [p \in Pods |-> {}]
        /\ steady' => steady /\ cfg' = cfg
    BY <1>1 DEF Starts, NoPools, Unreserved
  <2>2. Members' = Dedicated(q)
    <3>1. {q[i] : i \in DOMAIN q} = Listed /\ Listed' = Listed
      BY <2>1, OrdersType DEF Listed
    <3> QED BY <3>1 DEF Members, Dedicated
  <2>3. Placed' = {}
    BY <2>1, <2>2 DEF Placed
  <2>4. PartInv'
    BY <2>1, <2>2, <2>3 DEF PartInv, Fair
  <2>5. WholeInv'
    BY <2>1 DEF WholeInv, Current
  <2>6. SteadyInv'
    <3>1. CASE steady'
      BY <1>b, <2>1, <3>1, SteadyStays DEF applied
    <3>2. CASE ~steady'
      BY <3>2 DEF SteadyInv
    <3> QED BY <3>1, <3>2
  <2> QED BY <2>4, <2>5, <2>6
<1>2. ASSUME NEW p \in Pods, Place(p) PROVE PartInv' /\ WholeInv' /\ SteadyInv'
  <2>1. pc' = "place" /\ steady' = steady /\ UNCHANGED <<phase, cfg, applied>>
    BY <1>2 DEF Place
  <2>2. PartInv'
    <3>1. CASE SizesDiffer
      BY <1>2, <1>a, <1>b, <3>1, PlaceIsFair
    <3>2. CASE ~SizesDiffer
      BY <2>1, <3>2, SizesStay DEF PartInv
    <3> QED BY <3>1, <3>2
  <2>3. WholeInv'
    BY <2>1 DEF WholeInv, Current
  <2>4. SteadyInv'
    BY <1>b, <2>1, SteadyStays DEF applied
  <2> QED BY <2>2, <2>3, <2>4
<1>3. CASE PlacesRest
  <2>1. pc' = "write" /\ steady' = steady /\ UNCHANGED <<phase, cfg, applied>>
    BY <1>3 DEF PlacesRest
  <2>2. SizesDiffer' => Whole(pools)'
    BY <1>3, <1>a, <1>b, <2>1, SizesStay, RestIsWhole
  <2>3. SteadyInv'
    BY <1>b, <2>1, SteadyStays DEF applied
  <2> QED BY <2>1, <2>2, <2>3 DEF PartInv, WholeInv
<1>4. ASSUME pc = "write", pc' = "write", clean' => clean, steady' = steady,
             UNCHANGED <<phase, cfg, pools>>,
             steady => UNCHANGED appliedWeight /\ (SizesDiffer => UNCHANGED appliedCPUSet)
      PROVE  PartInv' /\ WholeInv' /\ SteadyInv'
  <2>1. PartInv'
    BY <1>4 DEF PartInv
  <2>2. WholeInv'
    <3>1. Current' /\ SizesDiffer' => Whole(pools)
      BY <1>4, <1>b, SizesStay DEF WholeInv, Current
    <3>2. \A pl : Whole(pl) => Whole(pl)'
      BY <1>4, WholeStays
    <3> QED BY <1>4, <3>1, <3>2 DEF WholeInv
  <2>3. SteadyInv'
    BY <1>4, <1>b, SteadyStays
  <2> QED BY <2>1, <2>2, <2>3
<1>5. CASE SkipPod
  BY <1>4, <1>5 DEF SkipPod, Writing, applied
<1>6. ASSUME NEW weightOk \in BOOLEAN, NEW cpusOk \in BOOLEAN, WritePod(weightOk, cpusOk)
      PROVE  PartInv' /\ WholeInv' /\ SteadyInv'
  <2>1. steady => UNCHANGED appliedWeight /\ (SizesDiffer => UNCHANGED appliedCPUSet)
    BY <1>6, <1>a, <1>b, SteadyWrite
  <2> QED BY <1>4, <1>6, <2>1 DEF WritePod, Writing
<1>7. CASE PassEnds
  <2>1. pc = "write" /\ pc' = "idle" /\ steady' = clean /\ UNCHANGED <<phase, cfg, pools>>
    BY <1>7 DEF PassEnds, AtRest
  <2>2. PartInv'
    BY <2>1 DEF PartInv
  <2>3. ASSUME clean, SizesDiffer PROVE Whole(pools)'
    <3>1. Whole(pools)
      BY <1>b, <2>1, <2>3 DEF WholeInv, Current
    <3>2. \A pl : Whole(pl) => Whole(pl)'
      BY <2>1, WholeStays
    <3> QED BY <2>1, <3>1, <3>2
  <2>4. WholeInv'
    BY <2>1, <2>3, SizesStay DEF WholeInv, Current
  <2>5. ASSUME clean PROVE Apart(pools)' /\ InForce(pools)' /\ cfg'.enabled
                          /\ \A p \in Pods : Running(p)' => WeightDone(p)'
    <3>1. Apart(pools)'
      BY <1>b, <2>1 DEF ApartInv, Apart, GrantedIn
    <3>2. \A p \in Pods : Running(p)' => Done(p)'
      BY <1>a, <2>1, <2>5 DEF AllDone
    <3>3. \A p \in Pods : CpusIn(pools, p)' = CpusFor(p)'
      BY DEF CpusIn, CpusFor
    <3>4. InForce(pools)'
      BY <3>2, <3>3 DEF InForce, Done
    <3> QED BY <1>b, <2>1, <2>5, <3>1, <3>2, <3>4 DEF Clean, Done
  <2>6. SteadyInv'
    <3>1. pools' \in PoolsType'
      BY <1>a DEF TypeOK
    <3> QED BY <2>1, <2>3, <2>5, <3>1, SizesStay DEF SteadyInv
  <2> QED BY <2>2, <2>4, <2>6
<1>8. CASE Restart
  BY <1>8 DEF Restart, AtRest, PartInv, WholeInv, Current, SteadyInv
<1>9. CASE Environment
  <2>1. pc # "place" /\ clean' = FALSE /\ steady' = FALSE /\ UNCHANGED <<cfg, applied, pass>>
    BY <1>9 DEF Environment, PodBound, CgroupAppears, CgroupVanishes, PodOver, Turns
  <2> QED BY <2>1 DEF pass, PartInv, WholeInv, Current, SteadyInv
<1>10. CASE UNCHANGED vars
  <2>1. UNCHANGED <<phase, cfg, applied, pools, pc, todo, free, clean, steady>>
    BY <1>10 DEF vars, pass
  <2>2. PartInv'
    <3>1. Members' = Members /\ Placed' = Placed /\ Unreserved' = Unreserved
          /\ MinShared' = MinShared
      BY <2>1 DEF Placed, Members, Listed, Unreserved, MinShared, Reserved
    <3>2. \A S, p : Share(S, p)' = Share(S, p)
      BY <3>1 DEF Share
    <3>3. Fair(pools.dedicated, Members, Placed)' = Fair(pools.dedicated, Members, Placed)
      BY <2>1, <3>1, <3>2 DEF Fair, Left
    <3> QED BY <1>b, <2>1, <3>1, <3>3, SizesStay DEF PartInv
  <2>3. WholeInv'
    <3>1. \A pl : Whole(pl) => Whole(pl)'
      BY <2>1, WholeStays
    <3> QED BY <1>b, <2>1, <3>1, SizesStay DEF WholeInv, Current
  <2> QED BY <1>b, <2>1, <2>2, <2>3, SteadyStays DEF applied
<1> QED BY <1>1, <1>2, <1>3, <1>5, <1>6, <1>7, <1>8, <1>9, <1>10 DEF Next, Passes

LEMMA LayoutsInit == Init => LayoutsInv
<1> SUFFICES ASSUME Init PROVE LayoutsInv
  OBVIOUS
<1>1. Granted = {}
  BY DEF Init, Granted, NoPools
<1> QED BY <1>1, PassInit DEF Init, LayoutsInv, ApartInv, PartInv, WholeInv, Current, SteadyInv

LEMMA LayoutsNext == LayoutsInv /\ [Next]_vars => LayoutsInv'
  BY LayoutsStep, ApartStep, PassStep DEF LayoutsInv

\* A grant of the layout being placed is one of the layout in force.
LEMMA GrantIsInForce ==
  ASSUME SizesDiffer, LayoutsInv, NEW pl, Whole(pl), NEW p \in Granted, steady
  PROVE  pools.dedicated[p] = pl.dedicated[p]
<1>1. CASE pc = "place"
  <2>1. /\ Members \in SUBSET Pods /\ Placed \in SUBSET Members /\ p \in Placed
        /\ \A r \in Placed, q \in Members : Want[q] > Want[r] => q \in Placed
    <3>1. p \in Placed
      BY <1>1 DEF LayoutsInv, PartInv, Granted
    <3>2. ASSUME NEW r \in Placed, NEW q \in Members, Want[q] > Want[r] PROVE q \in Placed
      <4>1. q \in todo => Want[r] > Want[q]
        BY <1>1 DEF LayoutsInv, PartInv
      <4>2. Want[q] \in Nat /\ Want[r] \in Nat
        BY PodsAssumption DEF Members, Listed, Placed
      <4> QED BY <3>2, <4>1, <4>2 DEF Placed
    <3> QED BY <3>1, <3>2 DEF Members, Listed, Placed
  <2>2. Fair(pools.dedicated, Members, Placed)
    BY <1>1 DEF LayoutsInv, PartInv
  <2>3. Fair(pl.dedicated, Members, Placed)
    <3>1. Fair(pl.dedicated, Members, Members)
      BY DEF Whole
    <3>2. \A q \in Placed : q \in Members
      BY <2>1
    <3> QED BY <3>1, <3>2 DEF Fair
  <2>4. \A q \in Placed : pools.dedicated[q] = pl.dedicated[q]
    BY <2>1, <2>2, <2>3, FairIsUnique
  <2> QED BY <2>1, <2>4
<1>2. CASE pc # "place"
  <2>1. Current
    BY <1>2 DEF Current, LayoutsInv, PassInv, RememberInv, TypeOK
  <2>2. Whole(pools)
    BY <2>1 DEF LayoutsInv, WholeInv
  <2> QED BY <2>2, WholeIsUnique
<1> QED BY <1>1, <1>2

\* In the steady state it is so during a pass, too, if sizes differ.
LEMMA SteadyExcludes ==
  ASSUME LayoutsInv, SizesDiffer, steady, NEW p \in Granted, Running(p)
  PROVE  Holds(p, cpus[p], pools.dedicated[p], {}) /\ Alone(p, {"dedicated", "shared"})
<1>1. PICK pl \in PoolsType : Whole(pl) /\ Apart(pl) /\ InForce(pl)
  BY DEF LayoutsInv, SteadyInv
<1>2. pools.dedicated[p] = pl.dedicated[p] /\ p \in Pods /\ p \in GrantedIn(pl)
  BY <1>1, GrantIsInForce DEF Granted, GrantedIn
<1>3. Level[p] = "dedicated"
  BY <1>1, <1>2 DEF Whole, GrantedIn, Members
<1>4. RememberedIsWritten
  BY DEF LayoutsInv, PassInv, RememberInv
<1> QED BY <1>1, <1>2, <1>3, <1>4, HeldApart

\* Where nothing has changed since a pass without a failure, a dedicated pod that was
\* granted CPUs has them in the kernel to itself, against dedicated and shared pods, unless
\* its cgroup was made again; between the passes always, and while the next ones compute
\* and write their layouts if no two dedicated pods on the node are equal in size (the
\* order of equals is the order of the informer's list, which is no order: pool.go,
\* sortPodsByCPUDesc).
THEOREM ExclusiveInKernelHolds == Spec => []ExclusiveInKernel
<1>1. LayoutsInv => ExclusiveInKernel
  BY IdleExcludes, SteadyExcludes DEF ExclusiveInKernel, LayoutsInv
<1> QED BY <1>1, LayoutsInit, LayoutsNext, PTL DEF Spec

\* Where nothing has changed since a pass without a failure, the passes write no weight,
\* since every one is remembered, and no CPU set if no two dedicated pods on the node are
\* equal in size: they compute the layout that is in force.
THEOREM SteadyWritesNothingHolds == Spec => SteadyWritesNothing
<1>1. LayoutsInv /\ [Next]_vars =>
        [steady /\ Passes => UNCHANGED weight /\ (SizesDiffer => UNCHANGED cpus)]_vars
  <2> SUFFICES ASSUME LayoutsInv, steady, Passes
               PROVE  UNCHANGED weight /\ (SizesDiffer => UNCHANGED cpus)
    OBVIOUS
  <2>1. TypeOK /\ WholeInv /\ SteadyInv
    BY DEF LayoutsInv, PassInv, RememberInv
  <2>2. ASSUME NEW weightOk \in BOOLEAN, NEW cpusOk \in BOOLEAN, WritePod(weightOk, cpusOk)
        PROVE  UNCHANGED weight /\ (SizesDiffer => UNCHANGED cpus)
    BY <2>1, <2>2, SteadyWrite
  <2> QED BY <2>2 DEF Passes, Starts, Place, PlacesRest, SkipPod, PassEnds, kernel
<1> QED BY <1>1, LayoutsInit, LayoutsNext, PTL DEF Spec, SteadyWritesNothing
=============================================================================
