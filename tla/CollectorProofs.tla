-------------------------- MODULE CollectorProofs ---------------------------
(***************************************************************************)
(* Proofs about Collector, for every set of pods and every amount of work:  *)
(* no reading shows more than was burned, none leaves out what a failed one *)
(* missed, nothing is remembered of pods that have left, and what is added  *)
(* up for the node stays within what its pods burned.                       *)
(***************************************************************************)
EXTENDS Collector, FiniteSetTheorems, WellFoundedInduction, TLAPS

\* The types the arguments about the readings need.
Types ==
  /\ usage \in [Pods -> Int] /\ prevPods \in [Pods -> Int]
  /\ nodeUsage \in Nat /\ prevNode \in Int
  /\ \A p \in Pods : usage[p] >= None /\ prevPods[p] >= None
  /\ prevNode >= None
  /\ pc \in {"idle", "pods", "pools"} /\ kubepods \in {"unset", "found", "missing"}
  /\ pods \subseteq Pods /\ todo \subseteq pods /\ intact \subseteq Pods
  /\ sample \in [Pods -> [valid : BOOLEAN, cpu : Nat]]
  /\ life \in [Measured -> Nat] /\ mark \in [Measured -> Nat] /\ truth \in [Measured -> Nat]

\* A counter has grown since it was remembered by what was burned since then, or by
\* less where it started over; by exactly that where the cgroup is the same.
Accounts ==
  /\ \A x \in Measured : mark[x] <= life[x]
  /\ \A p \in Pods : usage[p] # None /\ prevPods[p] # None =>
       usage[p] - prevPods[p] <= life[p] - mark[p]
  /\ \A p \in intact : usage[p] # None /\ prevPods[p] # None =>
       usage[p] - prevPods[p] = life[p] - mark[p]
  /\ prevNode # None => nodeUsage - prevNode <= life[Node] - mark[Node]

\* What a tick has not come to has no reading.
Unread ==
  /\ pc = "idle" => todo = {} /\ node = Invalid /\ \A p \in Pods : sample[p] = Invalid
  /\ \A p \in todo : sample[p] = Invalid
  /\ kubepods = "unset" => pc = "idle"

Inv == Types /\ Accounts /\ Unread /\ NeverOverstated /\ Forgets

LEMMA Places == Node \in Measured /\ Pods \subseteq Measured /\ \A p \in Pods : p # Node
  BY NodeAssumption DEF Measured

LEMMA InitInv == Init => Inv
<1> SUFFICES ASSUME Init PROVE Inv
  OBVIOUS
<1>1. \A x \in Measured : life[x] = 0 /\ mark[x] = 0 /\ truth[x] = 0
  BY DEF Init
<1>2. Types
  BY DEF Init, Types, None, Invalid
<1>3. Accounts
  BY <1>1, Places DEF Init, Accounts, None
<1>4. Unread /\ NeverOverstated /\ Forgets
  BY <1>1, Places DEF Init, Unread, NeverOverstated, Forgets, Invalid, None
<1> QED BY <1>2, <1>3, <1>4 DEF Inv

LEMMA DeltaType ==
  ASSUME NEW prev \in Int, NEW cur \in Int, prev >= None, cur >= None
  PROVE  /\ Delta(prev, cur) \in [valid : BOOLEAN, cpu : Nat]
         /\ Delta(prev, cur).valid => prev # None /\ Delta(prev, cur).cpu = cur - prev
         /\ Delta(prev, cur).cpu = 0 \/ (prev # None /\ Delta(prev, cur).cpu = cur - prev)
  BY DEF Delta, Invalid, None

LEMMA CollectNodeInv ==
  ASSUME Inv, NEW cpuOk \in BOOLEAN, CollectNode(cpuOk)
  PROVE  Inv'
<1> USE DEF Inv
<1>1. /\ UNCHANGED <<usage, nodeUsage, prevPods, sample, life, intact>>
      /\ pc = "idle" /\ pc' = "pods" /\ pods' \subseteq Pods /\ todo' = pods'
      /\ kubepods' \in {"found", "missing"} /\ node = Invalid
  BY DEF CollectNode, tree, FindKubepods, Types, Unread
<1>2. \A p \in Pods : sample[p] = Invalid
  BY <1>1 DEF Unread
<1>3. CASE kubepods' = "found" /\ cpuOk
  <2>1. /\ node' = Delta(prevNode, nodeUsage) /\ prevNode' = nodeUsage
        /\ truth' = [truth EXCEPT ![Node] = life[Node] - mark[Node]]
        /\ mark' = [mark EXCEPT ![Node] = life[Node]]
    BY <1>3 DEF CollectNode, Marks
  <2>2. life[Node] \in Nat /\ mark[Node] \in Nat /\ mark[Node] <= life[Node]
    BY Places DEF Types, Accounts
  <2>3. /\ mark' \in [Measured -> Nat] /\ truth' \in [Measured -> Nat]
        /\ mark'[Node] = life[Node] /\ truth'[Node] = life[Node] - mark[Node]
        /\ \A p \in Pods : mark'[p] = mark[p] /\ truth'[p] = truth[p]
    BY <2>1, <2>2, Places DEF Types
  <2>4. Types'
    BY <1>1, <2>1, <2>3 DEF Types, None
  <2>5. Accounts'
    <3>1. \A x \in Measured : mark'[x] <= life'[x]
      BY <1>1, <2>2, <2>3 DEF Accounts, Measured
    <3>2. \A p \in Pods : usage'[p] # None /\ prevPods'[p] # None =>
            usage'[p] - prevPods'[p] <= life'[p] - mark'[p]
      BY <1>1, <2>3 DEF Accounts
    <3>3. \A p \in intact' : usage'[p] # None /\ prevPods'[p] # None =>
            usage'[p] - prevPods'[p] = life'[p] - mark'[p]
      BY <1>1, <2>3 DEF Accounts, Types
    <3>4. nodeUsage' - prevNode' <= life'[Node] - mark'[Node]
      BY <1>1, <2>1, <2>2, <2>3 DEF Types
    <3> QED BY <3>1, <3>2, <3>3, <3>4 DEF Accounts
  <2>6. node'.cpu <= truth'[Node]
    <3>1. /\ nodeUsage \in Int /\ prevNode \in Int
          /\ nodeUsage >= None /\ prevNode >= None
      BY DEF Types, None
    <3>2. \/ node'.cpu = 0
          \/ prevNode # None /\ node'.cpu = nodeUsage - prevNode
      BY <2>1, <3>1, DeltaType
    <3>3. prevNode # None => nodeUsage - prevNode <= life[Node] - mark[Node]
      BY DEF Accounts
    <3> QED BY <2>2, <2>3, <3>2, <3>3
  <2> QED BY <1>1, <1>2, <2>3, <2>4, <2>5, <2>6 DEF Unread, NeverOverstated, Forgets
<1>4. CASE ~(kubepods' = "found" /\ cpuOk)
  <2>1. UNCHANGED <<node, prevNode, truth, mark>>
    BY <1>4 DEF CollectNode
  <2>2. node'.cpu <= truth'[Node]
    BY <1>1, <2>1, Places DEF Types, Invalid
  <2> QED BY <1>1, <1>2, <2>1, <2>2 DEF Types, Accounts, Unread, NeverOverstated, Forgets
<1> QED BY <1>3, <1>4

LEMMA CollectPodInv ==
  ASSUME Inv, NEW p \in Pods, NEW cpuOk \in BOOLEAN, CollectPod(p, cpuOk)
  PROVE  Inv'
<1> USE DEF Inv
<1>1. /\ UNCHANGED <<usage, nodeUsage, kubepods, prevNode, pc, pods, node, life>>
      /\ pc = "pods" /\ p \in todo /\ todo' = todo \ {p}
  BY DEF CollectPod, tree
<1>2. CASE usage[p] # None /\ cpuOk
  <2>1. /\ sample' = [sample EXCEPT ![p] = Delta(prevPods[p], usage[p])]
        /\ prevPods' = [prevPods EXCEPT ![p] = usage[p]]
        /\ truth' = [truth EXCEPT ![p] = life[p] - mark[p]]
        /\ mark' = [mark EXCEPT ![p] = life[p]] /\ intact' = intact \cup {p}
    BY <1>2 DEF CollectPod, Marks, Remember
  <2>2. life[p] \in Nat /\ mark[p] \in Nat /\ mark[p] <= life[p]
        /\ usage[p] \in Int /\ prevPods[p] \in Int /\ usage[p] >= None /\ prevPods[p] >= None
    BY Places DEF Types, Accounts
  <2>3. /\ mark' \in [Measured -> Nat] /\ truth' \in [Measured -> Nat]
        /\ mark'[p] = life[p] /\ truth'[p] = life[p] - mark[p]
        /\ \A x \in Measured \ {p} : mark'[x] = mark[x] /\ truth'[x] = truth[x]
    BY <2>1, <2>2, Places DEF Types
  <2>4. /\ prevPods' \in [Pods -> Int] /\ prevPods'[p] = usage[p]
        /\ sample'[p] = Delta(prevPods[p], usage[p])
        /\ \A q \in Pods \ {p} : prevPods'[q] = prevPods[q] /\ sample'[q] = sample[q]
    BY <2>1, <2>2 DEF Types
  <2>5. sample' \in [Pods -> [valid : BOOLEAN, cpu : Nat]]
    BY <2>1, <2>2, DeltaType DEF Types
  <2>6. Types'
    <3>1. \A q \in Pods : usage'[q] >= None /\ prevPods'[q] >= None
      BY <1>1, <2>2, <2>4 DEF Types
    <3>2. pods' \subseteq Pods /\ todo' \subseteq pods' /\ intact' \subseteq Pods
      BY <1>1, <2>1 DEF Types
    <3> QED BY <1>1, <2>3, <2>4, <2>5, <3>1, <3>2 DEF Types
  <2>7. Accounts'
    <3>1. \A x \in Measured : mark'[x] <= life'[x]
      BY <1>1, <2>2, <2>3 DEF Accounts
    <3>2. ASSUME NEW q \in Pods, usage'[q] # None, prevPods'[q] # None
          PROVE  /\ usage'[q] - prevPods'[q] <= life'[q] - mark'[q]
                 /\ q \in intact' => usage'[q] - prevPods'[q] = life'[q] - mark'[q]
      <4>1. CASE q = p
        BY <1>1, <2>2, <2>3, <2>4, <4>1
      <4>2. CASE q # p
        BY <1>1, <2>1, <2>3, <2>4, <3>2, <4>2, Places DEF Accounts
      <4> QED BY <4>1, <4>2
    <3>3. \A q \in intact' : usage'[q] # None /\ prevPods'[q] # None =>
            usage'[q] - prevPods'[q] = life'[q] - mark'[q]
      BY <2>6, <3>2 DEF Types
    <3>4. prevNode' # None => nodeUsage' - prevNode' <= life'[Node] - mark'[Node]
      BY <1>1, <2>3, Places DEF Accounts
    <3> QED BY <3>1, <3>2, <3>3, <3>4 DEF Accounts
  <2>8. sample'[p].cpu <= truth'[p]
    BY <1>2, <2>2, <2>3, <2>4, DeltaType DEF Accounts
  <2>9. NeverOverstated'
    BY <1>1, <2>3, <2>4, <2>8, Places DEF NeverOverstated
  <2> QED BY <1>1, <2>4, <2>6, <2>7, <2>9 DEF Types, Unread, Forgets
<1>3. CASE ~(usage[p] # None /\ cpuOk)
  <2>1. UNCHANGED <<sample, prevPods, truth, mark, intact>>
    BY <1>3 DEF CollectPod
  <2> QED BY <1>1, <2>1 DEF Types, Accounts, Unread, NeverOverstated, Forgets
<1> QED BY <1>2, <1>3

LEMMA CollectEndsInv == ASSUME Inv, CollectEnds PROVE Inv'
<1> USE DEF Inv
<1>1. /\ UNCHANGED <<usage, nodeUsage, kubepods, prevNode, pods, todo, sample>>
      /\ UNCHANGED <<life, mark, truth, intact>>
      /\ pc = "pods" /\ pc' = "pools" /\ (kubepods = "found" => node' = node)
  BY DEF CollectEnds, tree, history
<1>2. prevPods' = [p \in Pods |-> IF prevPods[p] # None /\ ~Keeps(p) THEN None ELSE prevPods[p]]
  BY DEF CollectEnds, Types
<1>3. /\ prevPods' \in [Pods -> Int]
      /\ \A p \in Pods : prevPods'[p] \in {None, prevPods[p]} /\ (prevPods'[p] # None => p \in pods)
  BY <1>2 DEF Types, Keeps, None
<1>4. Types'
  BY <1>1, <1>3 DEF Types
<1>5. Accounts'
  BY <1>1, <1>3 DEF Accounts, Types
<1>6. Unread' /\ NeverOverstated' /\ Forgets'
  BY <1>1, <1>3 DEF Unread, NeverOverstated, Forgets, Types
<1> QED BY <1>4, <1>5, <1>6

\* A tick ends, or the process does: no reading is left and nothing is owed one.
LEMMA RestInv ==
  ASSUME Inv, AtRest, UNCHANGED <<usage, nodeUsage, life>>,
         truth' = [x \in Measured |-> 0], kubepods' \in {"unset", "found", "missing"},
         prevNode' \in {None, prevNode}, mark' \in {mark, life}, prevPods' \in [Pods -> Int], intact' \subseteq Pods,
         \A p \in Pods : prevPods'[p] \in {None, prevPods[p]}, Accounts'
  PROVE  Inv'
<1> USE DEF Inv
<1>1. /\ pc' = "idle" /\ pods' = {} /\ todo' = {} /\ node' = Invalid
      /\ \A p \in Pods : sample'[p] = Invalid
      /\ sample' \in [Pods -> [valid : BOOLEAN, cpu : Nat]]
  BY DEF AtRest, Invalid
<1>2. Types'
  <2>1. mark' \in [Measured -> Nat] /\ truth' \in [Measured -> Nat]
    BY DEF Types
  <2>2. \A p \in Pods : usage'[p] >= None /\ prevPods'[p] >= None
    BY DEF Types, None
  <2>3. prevNode' \in Int /\ prevNode' >= None
    BY DEF Types, None
  <2> QED BY <1>1, <2>1, <2>2, <2>3 DEF Types
<1>3. NeverOverstated'
  BY <1>1, Places DEF NeverOverstated, Invalid
<1> QED BY <1>1, <1>2, <1>3 DEF Unread, Forgets

LEMMA PoolsPassInv == ASSUME Inv, NEW enforce \in BOOLEAN, PoolsPass(enforce) PROVE Inv'
<1>1. UNCHANGED <<usage, nodeUsage, kubepods, prevPods, prevNode, life, mark, intact>>
      /\ AtRest /\ truth' = [x \in Measured |-> 0]
  BY DEF PoolsPass, tree
<1>2. Accounts'
  BY <1>1 DEF Inv, Accounts
<1> QED BY <1>1, <1>2, RestInv DEF Inv, Types

LEMMA RestartInv == ASSUME Inv, Restart PROVE Inv'
<1>1. /\ UNCHANGED <<usage, nodeUsage, life>> /\ AtRest /\ truth' = [x \in Measured |-> 0]
      /\ kubepods' = "unset" /\ prevNode' = None /\ mark' = life /\ intact' = {}
      /\ prevPods' = [p \in Pods |-> None]
  BY DEF Restart, tree
<1>2. Accounts'
  BY <1>1 DEF Inv, Accounts, Types
<1> QED BY <1>1, <1>2, RestInv DEF Inv, Types, None

LEMMA EnvironmentInv == ASSUME Inv, Environment PROVE Inv'
<1> USE DEF Inv
<1>1. UNCHANGED agent /\ UNCHANGED tick /\ UNCHANGED <<mark, truth>>
  BY DEF Environment, KubeletStarts, PodBound, PodOver, Turns, CgroupMade, CgroupGone, Burns, history
<1>2. ASSUME UNCHANGED <<usage, nodeUsage, life, intact>> PROVE Inv'
  BY <1>1, <1>2 DEF agent, tick, Types, Accounts, Unread, NeverOverstated, Forgets
<1>3. ASSUME NEW p \in Pods, CgroupMade(p) \/ CgroupGone(p) PROVE Inv'
  <2>1. /\ usage' \in [Pods -> Int] /\ usage'[p] \in {0, None} /\ intact' = intact \ {p}
        /\ \A q \in Pods \ {p} : usage'[q] = usage[q]
        /\ UNCHANGED <<nodeUsage, life>>
    BY <1>3 DEF CgroupMade, CgroupGone, Types, None
  <2>2. Types'
    BY <1>1, <2>1 DEF agent, tick, Types, None
  <2>3. Accounts'
    <3>1. /\ life[p] \in Nat /\ mark[p] \in Nat /\ mark[p] <= life[p]
          /\ prevPods[p] \in Int /\ prevPods[p] >= None
      BY Places DEF Types, Accounts
    <3>2. usage'[p] # None /\ prevPods'[p] # None => usage'[p] - prevPods'[p] <= life'[p] - mark'[p]
      BY <1>1, <2>1, <3>1 DEF agent, None
    <3>3. \A q \in Pods : usage'[q] # None /\ prevPods'[q] # None =>
            usage'[q] - prevPods'[q] <= life'[q] - mark'[q]
      BY <1>1, <2>1, <3>2 DEF agent, Accounts
    <3>4. \A q \in intact' : usage'[q] # None /\ prevPods'[q] # None =>
            usage'[q] - prevPods'[q] = life'[q] - mark'[q]
      BY <1>1, <2>1 DEF agent, Accounts, Types
    <3> QED BY <1>1, <2>1, <3>3, <3>4 DEF agent, Accounts
  <2> QED BY <1>1, <2>1, <2>2, <2>3 DEF agent, tick, Unread, NeverOverstated, Forgets
<1>4. ASSUME NEW p \in Pods, Burns(p) PROVE Inv'
  <2>1. /\ usage' = [usage EXCEPT ![p] = usage[p] + 1] /\ nodeUsage' = nodeUsage + 1
        /\ life' = [life EXCEPT ![p] = life[p] + 1, ![Node] = life[Node] + 1]
        /\ usage[p] # None /\ UNCHANGED intact
    BY <1>4, Places DEF Burns
  <2>2. life[p] \in Nat /\ life[Node] \in Nat /\ usage[p] \in Int
        /\ usage[p] >= None /\ nodeUsage \in Nat
    BY Places DEF Types
  <2>3. /\ usage' \in [Pods -> Int] /\ usage'[p] = usage[p] + 1
        /\ \A q \in Pods \ {p} : usage'[q] = usage[q]
    BY <2>1, <2>2 DEF Types
  <2>4. /\ life' \in [Measured -> Nat] /\ life'[p] = life[p] + 1 /\ life'[Node] = life[Node] + 1
        /\ \A x \in Measured \ {p, Node} : life'[x] = life[x]
    BY <2>1, <2>2, Places DEF Types
  <2>5. Types'
    <3>1. \A q \in Pods : usage'[q] >= None /\ prevPods'[q] >= None
      BY <1>1, <2>2, <2>3 DEF agent, Types, None
    <3> QED BY <1>1, <2>1, <2>2, <2>3, <2>4, <3>1 DEF agent, tick, Types
  <2>6. Accounts'
    <3>0. prevPods' = prevPods /\ prevNode' = prevNode /\ mark' = mark
      BY <1>1 DEF agent
    <3>1. \A x \in Measured : mark'[x] <= life'[x]
      BY <2>2, <2>4, <3>0 DEF Accounts, Types
    <3>2. \A q \in Pods : /\ usage[q] \in Int /\ prevPods[q] \in Int
                          /\ life[q] \in Nat /\ mark[q] \in Nat
      BY Places DEF Types
    <3>3. \A q \in Pods : \/ usage'[q] = usage[q] /\ life'[q] = life[q]
                          \/ /\ usage'[q] = usage[q] + 1 /\ life'[q] = life[q] + 1
                             /\ usage[q] # None
      BY <2>1, <2>3, <2>4, Places
    <3>4. \A q \in Pods : usage'[q] # None /\ prevPods'[q] # None =>
            usage'[q] - prevPods'[q] <= life'[q] - mark'[q]
      BY <3>0, <3>2, <3>3 DEF Accounts
    <3>5. \A q \in intact' : usage'[q] # None /\ prevPods'[q] # None =>
            usage'[q] - prevPods'[q] = life'[q] - mark'[q]
      <4>1. intact' = intact /\ intact \subseteq Pods
        BY <2>1 DEF Types
      <4> QED BY <3>0, <3>2, <3>3, <4>1 DEF Accounts
    <3>6. prevNode' # None => nodeUsage' - prevNode' <= life'[Node] - mark'[Node]
      <4>1. prevNode \in Int /\ mark[Node] \in Nat
        BY Places DEF Types
      <4> QED BY <2>1, <2>2, <2>4, <3>0, <4>1 DEF Accounts
    <3> QED BY <3>1, <3>4, <3>5, <3>6 DEF Accounts
  <2> QED BY <1>1, <2>5, <2>6 DEF agent, tick, Unread, NeverOverstated, Forgets
<1>5. CASE KubeletStarts \/ (\E p \in Pods : PodBound(p) \/ PodOver(p))
  BY <1>2, <1>5 DEF KubeletStarts, PodBound, PodOver, Turns, history
<1> QED BY <1>3, <1>4, <1>5 DEF Environment

LEMMA NextInv == Inv /\ [Next]_vars => Inv'
<1> SUFFICES ASSUME Inv, [Next]_vars PROVE Inv'
  OBVIOUS
<1>1. CASE Collects
  BY <1>1, CollectNodeInv, CollectPodInv, CollectEndsInv DEF Collects
<1>2. CASE \E enforce \in BOOLEAN : PoolsPass(enforce)
  BY <1>2, PoolsPassInv
<1>3. CASE Restart
  BY <1>3, RestartInv
<1>4. CASE Environment
  BY <1>4, EnvironmentInv
<1>5. CASE UNCHANGED vars
  BY <1>5 DEF vars, tree, agent, tick, history, Inv, Types, Accounts, Unread, NeverOverstated, Forgets
<1> QED BY <1>1, <1>2, <1>3, <1>4, <1>5 DEF Next

\* What a sample shows is CPU that was burned since the last reading, and never more,
\* nor anything from before the agent started: a counter that started over is below
\* what it was, or has grown by less than was burned.
THEOREM NeverOverstatedHolds == Spec => []NeverOverstated
<1>1. Inv => NeverOverstated
  BY DEF Inv
<1> QED BY <1>1, InitInv, NextInv, PTL DEF Spec

\* The collector remembers no counter of a pod that has left.
THEOREM ForgetsHolds == Spec => []Forgets
<1>1. Inv => Forgets
  BY DEF Inv
<1> QED BY <1>1, InitInv, NextInv, PTL DEF Spec

\* As long as its cgroup is the same one, a pod's readings leave nothing out.
THEOREM NothingLostHolds == Spec => NothingLost
<1> DEFINE Whole == \A p \in Pods, cpuOk \in BOOLEAN :
             CollectPod(p, cpuOk) /\ p \in intact /\ sample'[p].valid
               => sample'[p].cpu = life[p] - mark[p]
<1>1. ASSUME Inv, NEW p \in Pods, NEW cpuOk \in BOOLEAN,
             CollectPod(p, cpuOk), p \in intact, sample'[p].valid
      PROVE  sample'[p].cpu = life[p] - mark[p]
  <2>1. p \in todo /\ sample \in [Pods -> [valid : BOOLEAN, cpu : Nat]] /\ sample[p] = Invalid
    BY <1>1 DEF CollectPod, Inv, Types, Unread
  <2>2. usage[p] # None /\ cpuOk
    BY <1>1, <2>1 DEF CollectPod, Invalid
  <2>3. sample'[p] = Delta(prevPods[p], usage[p])
    BY <1>1, <2>1, <2>2 DEF CollectPod
  <2>4. prevPods[p] # None /\ sample'[p].cpu = usage[p] - prevPods[p]
    BY <1>1, <2>3, DeltaType DEF Inv, Types
  <2> QED BY <1>1, <2>2, <2>4 DEF Inv, Accounts
<1>2. Inv /\ [Next]_vars => [Whole]_vars
  BY <1>1
<1> HIDE DEF Whole
<1>3. Spec => [][Whole]_vars
  BY <1>2, InitInv, NextInv, PTL DEF Spec
<1> QED BY <1>3 DEF NothingLost, Whole

-----------------------------------------------------------------------------
(* Least counterexamples, and the recursive function behind a sum.           *)

\* A set of naturals that is not empty has a least element.
LEMMA LeastNat ==
  ASSUME NEW T \in SUBSET Nat, T # {}
  PROVE  \E m \in T : \A n \in T : m <= n
<1> DEFINE Below == {0..n : n \in T}
           R == StrictSubsetOrdering(Nat)
<1>1. \A n \in Nat : 0..n \in SUBSET Nat /\ IsFiniteSet(0..n)
  BY FS_Interval
<1>2. Below \subseteq FiniteSubsetsOf(Nat) /\ Below # {}
  BY <1>1 DEF FiniteSubsetsOf
<1>3. IsWellFoundedOn(R, FiniteSubsetsOf(Nat))
  BY FS_StrictSubsetOrderingWellFounded
<1> HIDE DEF Below, R
<1>4. PICK X \in Below : \A Y \in Below : ~(<<Y, X>> \in R)
  BY <1>2, <1>3, WFMin
<1> USE DEF Below, R
<1>5. PICK m \in T : X = 0..m
  OBVIOUS
<1>6. ASSUME NEW n \in T, n < m PROVE FALSE
  <2>1. 0..n \subseteq 0..m /\ m \in 0..m /\ m \notin 0..n
    BY <1>6
  <2>2. <<0..n, 0..m>> \in R
    BY <1>1, <2>1 DEF StrictSubsetOrdering
  <2> QED BY <1>4, <1>5, <2>2
<1> QED BY <1>6

\* What SumFunction adds next, and the table of the sums of all parts.
One(s) == CHOOSE x \in s : TRUE

Row(f, sum, s) == IF s = {} THEN 0 ELSE f[One(s)] + sum[s \ {One(s)}]

Sums(f, sum, parts) == sum = [s \in parts |-> Row(f, sum, s)]

LEMMA SumsExist ==
  ASSUME NEW S, IsFiniteSet(S), NEW f
  PROVE  \E sum : Sums(f, sum, SUBSET S)
<1> DEFINE Small(n) == {s \in SUBSET S : Cardinality(s) <= n}
           T == {n \in Nat : ~ \E sum : Sums(f, sum, Small(n))}
<1>1. \A s \in SUBSET S : IsFiniteSet(s) /\ Cardinality(s) \in Nat /\ Cardinality(s) <= Cardinality(S)
  BY FS_Subset, FS_CardinalityType
<1>2. ASSUME T # {} PROVE FALSE
  <2>1. T \in SUBSET Nat
    OBVIOUS
  <2>2. PICK k \in T : \A n \in T : k <= n
    <3> HIDE DEF T
    <3> QED BY <1>2, <2>1, LeastNat
  <2>3. CASE k = 0
    <3> DEFINE sum == [s \in Small(0) |-> 0]
    <3>1. \A s \in Small(0) : s = {}
      BY <1>1, FS_EmptySet
    <3>2. sum = [s \in Small(0) |-> Row(f, sum, s)]
      BY <3>1 DEF Row
    <3> QED BY <2>3, <3>2 DEF Sums
  <2>4. CASE k # 0
    <3>1. k - 1 \in Nat /\ k - 1 \notin T
      <4> HIDE DEF T
      <4>1. k \in Nat /\ k - 1 \in Nat /\ ~(k <= k - 1)
        BY <2>1, <2>2, <2>4
      <4> QED BY <2>2, <4>1
    <3>2. PICK old : Sums(f, old, Small(k - 1))
      BY <3>1
    <3> DEFINE sum == [s \in Small(k) |-> Row(f, old, s)]
    <3>3. ASSUME NEW s \in Small(k), s # {} PROVE sum[s \ {One(s)}] = old[s \ {One(s)}]
      <4> DEFINE u == s \ {One(s)}
      <4>1. One(s) \in s
        BY <3>3 DEF One
      <4>2. Cardinality(u) = Cardinality(s) - 1
        BY <1>1, <4>1, FS_RemoveElement
      <4>3. u \in Small(k - 1) /\ u \in Small(k)
        BY <1>1, <4>2
      <4>4. old[u] = Row(f, old, u)
        BY <3>2, <4>3 DEF Sums
      <4> QED BY <4>3, <4>4
    <3>4. ASSUME NEW s \in Small(k) PROVE Row(f, sum, s) = Row(f, old, s)
      <4> HIDE DEF sum
      <4>1. CASE s = {}
        BY <4>1 DEF Row
      <4>2. CASE s # {}
        BY <3>3, <4>2, Zenon DEF Row
      <4> QED BY <4>1, <4>2
    <3>5. sum = [s \in Small(k) |-> Row(f, sum, s)]
      BY <3>4
    <3>6. Sums(f, sum, Small(k))
      BY <3>5 DEF Sums
    <3> QED BY <3>6
  <2> QED BY <2>3, <2>4
<1>3. Cardinality(S) \in Nat /\ Cardinality(S) \notin T
  BY <1>2, FS_CardinalityType
<1>4. Small(Cardinality(S)) = SUBSET S
  BY <1>1
<1> QED BY <1>3, <1>4

LEMMA SumIs ==
  ASSUME NEW S, IsFiniteSet(S), NEW f
  PROVE  \E sum : Sums(f, sum, SUBSET S) /\ SumFunctionOnSet(f, S) = sum[S]
<1> DEFINE F == CHOOSE sum : Sums(f, sum, SUBSET S)
<1>1. Sums(f, F, SUBSET S)
  BY SumsExist
<1>2. SumFunctionOnSet(f, S) = F[S]
  BY Zenon DEF SumFunctionOnSet, FoldFunctionOnSet, MapThenFoldSet, Sums, Row, One
<1> QED BY <1>1, <1>2

\* Every part of a finite set is reached one element at a time.
LEMMA PartByPart ==
  ASSUME NEW S, IsFiniteSet(S), NEW T \in SUBSET SUBSET S, {} \in T,
         \A s \in SUBSET S : s # {} /\ s \ {One(s)} \in T => s \in T
  PROVE  S \in T
<1> DEFINE Sizes == {Cardinality(s) : s \in (SUBSET S) \ T}
<1>1. \A s \in SUBSET S : IsFiniteSet(s) /\ Cardinality(s) \in Nat
  BY FS_Subset, FS_CardinalityType
<1>2. SUFFICES ASSUME S \notin T PROVE FALSE
  OBVIOUS
<1>3. Sizes \in SUBSET Nat /\ Sizes # {}
  BY <1>1, <1>2
<1>4. PICK k \in Sizes : \A n \in Sizes : k <= n
  <2> HIDE DEF Sizes
  <2> QED BY <1>3, LeastNat
<1>5. PICK s \in (SUBSET S) \ T : k = Cardinality(s)
  BY <1>4
<1>6. s # {} /\ One(s) \in s
  BY <1>5 DEF One
<1>7. Cardinality(s \ {One(s)}) = Cardinality(s) - 1 /\ s \ {One(s)} \in SUBSET S
  BY <1>1, <1>6, FS_RemoveElement
<1>8. s \ {One(s)} \in T
  BY <1>1, <1>4, <1>5, <1>7
<1> QED BY <1>5, <1>6, <1>8

LEMMA SumGrows ==
  ASSUME NEW S, IsFiniteSet(S), NEW f, NEW g,
         \A x \in S : f[x] \in Nat /\ g[x] \in Nat /\ f[x] <= g[x]
  PROVE  /\ SumFunctionOnSet(f, S) \in Nat /\ SumFunctionOnSet(g, S) \in Nat
         /\ SumFunctionOnSet(f, S) <= SumFunctionOnSet(g, S)
<1>1. PICK low : Sums(f, low, SUBSET S) /\ SumFunctionOnSet(f, S) = low[S]
  BY SumIs
<1>2. PICK high : Sums(g, high, SUBSET S) /\ SumFunctionOnSet(g, S) = high[S]
  BY SumIs
<1> DEFINE T == {s \in SUBSET S : low[s] \in Nat /\ high[s] \in Nat /\ low[s] <= high[s]}
<1>3. {} \in T
  <2>1. low[{}] = 0 /\ high[{}] = 0
    BY <1>1, <1>2 DEF Sums, Row
  <2> QED BY <2>1
<1>4. ASSUME NEW s \in SUBSET S, s # {}, s \ {One(s)} \in T PROVE s \in T
  <2> DEFINE x == One(s)
             u == s \ {x}
  <2>1. x \in S
    BY <1>4 DEF One
  <2>2. low[s] = f[x] + low[u] /\ high[s] = g[x] + high[u]
    BY <1>1, <1>2, <1>4 DEF Sums, Row
  <2>3. f[x] \in Nat /\ g[x] \in Nat /\ f[x] <= g[x]
    BY <2>1
  <2>4. low[u] \in Nat /\ high[u] \in Nat /\ low[u] <= high[u]
    BY <1>4
  <2> HIDE DEF x, u
  <2>5. low[s] \in Nat /\ high[s] \in Nat /\ low[s] <= high[s]
    BY <2>2, <2>3, <2>4
  <2> QED BY <2>5
<1>5. S \in T
  <2> HIDE DEF T
  <2>1. T \in SUBSET SUBSET S
    BY DEF T
  <2> QED BY <1>3, <1>4, <2>1, PartByPart
<1> QED BY <1>1, <1>2, <1>5

\* One more at one place adds one to a sum at most.
LEMMA SumOneMore ==
  ASSUME NEW S, IsFiniteSet(S), NEW f, NEW g, NEW p,
         \A x \in S : f[x] \in Nat /\ g[x] = IF x = p THEN f[x] + 1 ELSE f[x]
  PROVE  /\ SumFunctionOnSet(f, S) \in Nat /\ SumFunctionOnSet(g, S) \in Nat
         /\ SumFunctionOnSet(g, S) <= SumFunctionOnSet(f, S) + 1
<1>1. PICK old : Sums(f, old, SUBSET S) /\ SumFunctionOnSet(f, S) = old[S]
  BY SumIs
<1>2. PICK new : Sums(g, new, SUBSET S) /\ SumFunctionOnSet(g, S) = new[S]
  BY SumIs
<1> DEFINE T == {s \in SUBSET S : /\ old[s] \in Nat
                                  /\ new[s] = IF p \in s THEN old[s] + 1 ELSE old[s]}
<1>3. {} \in T
  <2>1. old[{}] = 0 /\ new[{}] = 0
    BY <1>1, <1>2 DEF Sums, Row
  <2> QED BY <2>1
<1>4. ASSUME NEW s \in SUBSET S, s # {}, s \ {One(s)} \in T PROVE s \in T
  <2> DEFINE x == One(s)
             u == s \ {x}
  <2>1. x \in s
    BY <1>4 DEF One
  <2>2. old[s] = f[x] + old[u] /\ new[s] = g[x] + new[u]
    BY <1>1, <1>2, <1>4 DEF Sums, Row
  <2>3. f[x] \in Nat /\ g[x] = IF x = p THEN f[x] + 1 ELSE f[x]
    BY <2>1
  <2>4. old[u] \in Nat /\ new[u] = IF p \in u THEN old[u] + 1 ELSE old[u]
    BY <1>4
  <2>5. p \in u <=> p \in s /\ p # x
    OBVIOUS
  <2> HIDE DEF x, u
  <2>6. old[s] \in Nat
    BY <2>2, <2>3, <2>4
  <2>7. CASE p = x
    BY <2>1, <2>2, <2>3, <2>4, <2>5, <2>6, <2>7
  <2>8. CASE p # x
    BY <2>2, <2>3, <2>4, <2>5, <2>6, <2>8
  <2> QED BY <2>7, <2>8
<1>5. S \in T
  <2> HIDE DEF T
  <2>1. T \in SUBSET SUBSET S
    BY DEF T
  <2> QED BY <1>3, <1>4, <2>1, PartByPart
<1> QED BY <1>1, <1>2, <1>5

LEMMA SumOfNothing ==
  ASSUME NEW S, IsFiniteSet(S), NEW f, \A x \in S : f[x] = 0
  PROVE  SumFunctionOnSet(f, S) = 0
<1>1. PICK sum : Sums(f, sum, SUBSET S) /\ SumFunctionOnSet(f, S) = sum[S]
  BY SumIs
<1> DEFINE T == {s \in SUBSET S : sum[s] = 0}
<1>2. {} \in T
  BY <1>1 DEF Sums, Row
<1>3. ASSUME NEW s \in SUBSET S, s # {}, s \ {One(s)} \in T PROVE s \in T
  <2>1. One(s) \in S
    BY <1>3 DEF One
  <2>2. sum[s] = f[One(s)] + sum[s \ {One(s)}]
    BY <1>1, <1>3 DEF Sums, Row
  <2> QED BY <1>3, <2>1, <2>2
<1>4. S \in T
  <2> HIDE DEF T
  <2>1. T \in SUBSET SUBSET S
    BY DEF T
  <2> QED BY <1>2, <1>3, <2>1, PartByPart
<1> QED BY <1>1, <1>4

LEMMA SumOfOne ==
  ASSUME NEW f, NEW x, f[x] \in Nat
  PROVE  SumFunctionOnSet(f, {x}) = f[x]
<1>1. IsFiniteSet({x})
  BY FS_Singleton
<1>2. PICK sum : Sums(f, sum, SUBSET {x}) /\ SumFunctionOnSet(f, {x}) = sum[{x}]
  BY <1>1, SumIs
<1>3. One({x}) = x /\ {x} \ {One({x})} = {}
  BY DEF One
<1>4. {} \in SUBSET {x} /\ {x} \in SUBSET {x} /\ {x} # {}
  OBVIOUS
<1>5. sum[{x}] = f[x] + sum[{}] /\ sum[{}] = 0
  BY <1>2, <1>3, <1>4, Zenon DEF Sums, Row
<1> QED BY <1>2, <1>5

-----------------------------------------------------------------------------
(* What the node burned bounds what its pods did.                           *)

\* The pods burned no more than the node, all of them or some, and a sample shows no
\* more of a pod than it ever burned.  Of some, because the readings that are added up
\* are those of the pods of a tick.
Burnt ==
  /\ \A s \in SUBSET Pods : SumFunctionOnSet(life, s) <= nodeUsage
  /\ \A p \in Pods : sample[p].cpu <= life[p]

BoundInv == TypeOK /\ Burnt

LEMMA BurntBounds ==
  ASSUME Inv, Burnt, nodeUsage <= MaxUse
  PROVE  /\ sample \in [Pods -> Reading]
         /\ PodSum \in Reading
<1>1. /\ MaxUse \in Nat /\ nodeUsage \in Nat /\ pods \subseteq Pods
      /\ sample \in [Pods -> [valid : BOOLEAN, cpu : Nat]]
      /\ \A p \in Pods : life[p] \in Nat
  BY CollectorAssumption, Places DEF Inv, Types
<1>2. ASSUME NEW p \in Pods PROVE sample[p] \in Reading
  <2>1. SumFunctionOnSet(life, {p}) = life[p] /\ {p} \in SUBSET Pods
    BY <1>1, SumOfOne
  <2>2. life[p] <= nodeUsage /\ sample[p].cpu <= life[p]
    BY <2>1 DEF Burnt
  <2>3. sample[p].valid \in BOOLEAN /\ sample[p].cpu \in Nat
        /\ sample[p] \in [valid : BOOLEAN, cpu : Nat]
    BY <1>1
  <2>4. sample[p].cpu \in 0..MaxUse
    BY <1>1, <2>2, <2>3
  <2> QED BY <2>3, <2>4 DEF Reading
<1>3. PodSum \in Reading
  <2> DEFINE f == [p \in Pods |-> sample[p].cpu]
  <2>1. \A p \in pods : f[p] \in Nat /\ life[p] \in Nat /\ f[p] <= life[p]
    BY <1>1 DEF Burnt
  <2>2. IsFiniteSet(pods)
    BY <1>1, CollectorAssumption, FS_Subset
  <2> HIDE DEF f
  <2>3. /\ SumFunctionOnSet(f, pods) \in Nat /\ SumFunctionOnSet(life, pods) \in Nat
        /\ SumFunctionOnSet(f, pods) <= SumFunctionOnSet(life, pods)
    BY <2>1, <2>2, SumGrows
  <2>4. SumFunctionOnSet(life, pods) <= nodeUsage
    BY <1>1 DEF Burnt
  <2>5. SumFunctionOnSet(f, pods) \in 0..MaxUse
    BY <1>1, <2>3, <2>4
  <2> QED BY <2>5 DEF PodSum, Reading, f
<1> QED BY <1>1, <1>2, <1>3

LEMMA InitBound == Init => BoundInv
<1> SUFFICES ASSUME Init PROVE BoundInv
  OBVIOUS
<1>1. MaxUse \in Nat /\ 0 \in 0..MaxUse
  BY CollectorAssumption
<1>2. Inv
  BY InitInv
<1>3. \A x \in Measured : life[x] = 0
  BY DEF Init
<1>4. ASSUME NEW s \in SUBSET Pods PROVE SumFunctionOnSet(life, s) <= nodeUsage
  <2>1. IsFiniteSet(s) /\ \A x \in s : life[x] = 0
    BY <1>3, CollectorAssumption, FS_Subset, Places
  <2>2. SumFunctionOnSet(life, s) = 0 /\ nodeUsage = 0
    BY <2>1, SumOfNothing DEF Init
  <2> QED BY <2>2
<1>5. \A p \in Pods : sample[p].cpu <= life[p]
  BY <1>3, Places DEF Init, Invalid
<1>6. TypeOK
  BY <1>1, <1>2 DEF Init, TypeOK, Inv, Types, Reading, Invalid
<1> QED BY <1>4, <1>5, <1>6 DEF BoundInv, Burnt

\* What the type invariant says beside the types the other proofs need.
Parts ==
  /\ Burnt /\ nodeUsage <= MaxUse
  /\ kubelet \in BOOLEAN /\ phase \in [Pods -> {"new", "listed", "over"}]
  /\ cache \subseteq Pods /\ node \in Reading

LEMMA PartsBound == Inv /\ Parts => BoundInv
<1> SUFFICES ASSUME Inv, Parts PROVE BoundInv
  OBVIOUS
<1>1. sample \in [Pods -> Reading]
  BY BurntBounds DEF Parts
<1>2. nodeUsage \in 0..MaxUse
  BY CollectorAssumption DEF Inv, Types, Parts
<1> QED BY <1>1, <1>2 DEF BoundInv, TypeOK, Inv, Types, Parts

LEMMA NodeReading ==
  ASSUME Inv, nodeUsage <= MaxUse
  PROVE  Delta(prevNode, nodeUsage) \in Reading
<1>1. /\ prevNode \in Int /\ nodeUsage \in Nat /\ prevNode >= None /\ nodeUsage >= None
      /\ MaxUse \in Nat
  BY CollectorAssumption DEF Inv, Types, None
<1>2. CASE prevNode = None \/ nodeUsage < prevNode
  BY <1>1, <1>2 DEF Delta, Reading, Invalid
<1>3. CASE ~(prevNode = None \/ nodeUsage < prevNode)
  <2>1. nodeUsage - prevNode \in 0..MaxUse
    BY <1>1, <1>3 DEF None
  <2> QED BY <1>3, <2>1 DEF Delta, Reading
<1> QED BY <1>2, <1>3

LEMMA BurntNext ==
  ASSUME Inv, BoundInv, [Next]_vars
  PROVE  Burnt' /\ nodeUsage' <= MaxUse
<1> USE DEF BoundInv
<1>1. /\ nodeUsage \in Nat /\ nodeUsage <= MaxUse /\ MaxUse \in Nat
      /\ \A p \in Pods : life[p] \in Nat /\ mark[p] \in Nat /\ mark[p] <= life[p]
      /\ sample \in [Pods -> [valid : BOOLEAN, cpu : Nat]]
  BY CollectorAssumption, Places DEF TypeOK, Inv, Types, Accounts
<1>2. ASSUME UNCHANGED <<life, nodeUsage>>,
             \A p \in Pods : sample'[p].cpu <= life[p]
      PROVE  Burnt' /\ nodeUsage' <= MaxUse
  BY <1>1, <1>2 DEF Burnt
<1>3. Invalid.cpu = 0
  BY DEF Invalid
<1>4. CASE UNCHANGED <<life, nodeUsage, sample>>
  BY <1>2, <1>4 DEF Burnt
<1>5. CASE UNCHANGED <<life, nodeUsage>> /\ sample' = [p \in Pods |-> Invalid]
  BY <1>1, <1>2, <1>3, <1>5
<1>6. ASSUME NEW p \in Pods, NEW cpuOk \in BOOLEAN, CollectPod(p, cpuOk)
      PROVE  Burnt' /\ nodeUsage' <= MaxUse
  <2>1. UNCHANGED <<life, nodeUsage>>
    BY <1>6 DEF CollectPod, tree
  <2>2. CASE usage[p] # None /\ cpuOk
    <3>1. sample' = [sample EXCEPT ![p] = Delta(prevPods[p], usage[p])]
      BY <1>6, <2>2 DEF CollectPod
    <3>2. /\ usage[p] \in Int /\ prevPods[p] \in Int /\ usage[p] >= None /\ prevPods[p] >= None
      BY DEF Inv, Types
    <3>3. \/ Delta(prevPods[p], usage[p]).cpu = 0
          \/ prevPods[p] # None /\ Delta(prevPods[p], usage[p]).cpu = usage[p] - prevPods[p]
      BY <3>2, DeltaType
    <3>4. prevPods[p] # None => usage[p] - prevPods[p] <= life[p] - mark[p]
      BY <2>2 DEF Inv, Accounts
    <3>5. Delta(prevPods[p], usage[p]).cpu <= life[p]
      BY <1>1, <3>2, <3>3, <3>4
    <3>6. \A q \in Pods : sample'[q].cpu <= life[q]
      BY <1>1, <3>1, <3>5 DEF Burnt
    <3> QED BY <1>2, <2>1, <3>6
  <2>3. CASE ~(usage[p] # None /\ cpuOk)
    BY <1>4, <1>6, <2>1, <2>3 DEF CollectPod
  <2> QED BY <2>2, <2>3
<1>7. ASSUME NEW p \in Pods, Burns(p)
      PROVE  Burnt' /\ nodeUsage' <= MaxUse
  <2>1. /\ nodeUsage' = nodeUsage + 1 /\ nodeUsage < MaxUse /\ sample' = sample
        /\ \A q \in Pods : life'[q] = IF q = p THEN life[q] + 1 ELSE life[q]
    BY <1>7, Places DEF Burns, tick, Inv, Types
  <2>2. ASSUME NEW s \in SUBSET Pods
        PROVE  SumFunctionOnSet(life', s) <= nodeUsage'
    <3>1. IsFiniteSet(s) /\ \A x \in s : life[x] \in Nat /\ life'[x] = IF x = p THEN life[x] + 1 ELSE life[x]
      BY <1>1, <2>1, CollectorAssumption, FS_Subset
    <3>2. /\ SumFunctionOnSet(life, s) \in Nat /\ SumFunctionOnSet(life', s) \in Nat
          /\ SumFunctionOnSet(life', s) <= SumFunctionOnSet(life, s) + 1
      BY <3>1, SumOneMore
    <3>3. SumFunctionOnSet(life, s) <= nodeUsage
      BY DEF Burnt
    <3> QED BY <1>1, <2>1, <3>2, <3>3
  <2>3. \A q \in Pods : sample'[q].cpu <= life'[q]
    BY <1>1, <2>1 DEF Burnt
  <2>4. nodeUsage' <= MaxUse
    BY <1>1, <2>1
  <2> QED BY <2>2, <2>3, <2>4 DEF Burnt
<1>8. CASE Collects
  <2>1. ASSUME NEW cpuOk \in BOOLEAN, CollectNode(cpuOk) PROVE UNCHANGED <<life, nodeUsage, sample>>
    BY <2>1 DEF CollectNode, tree
  <2>2. CollectEnds => UNCHANGED <<life, nodeUsage, sample>>
    BY DEF CollectEnds, tree, history
  <2> QED BY <1>4, <1>6, <1>8, <2>1, <2>2 DEF Collects
<1>9. CASE \E enforce \in BOOLEAN : PoolsPass(enforce)
  BY <1>5, <1>9 DEF PoolsPass, tree, AtRest
<1>10. CASE Restart
  BY <1>5, <1>10 DEF Restart, tree, AtRest
<1>11. CASE Environment
  <2>1. CASE KubeletStarts
    BY <1>4, <2>1 DEF KubeletStarts, tick, history
  <2>2. ASSUME NEW p \in Pods, PodBound(p) \/ PodOver(p) \/ CgroupMade(p) \/ CgroupGone(p)
        PROVE  UNCHANGED <<life, nodeUsage, sample>>
    BY <2>2 DEF PodBound, PodOver, Turns, CgroupMade, CgroupGone, tick, history
  <2> QED BY <1>4, <1>7, <1>11, <2>1, <2>2 DEF Environment
<1>12. CASE UNCHANGED vars
  BY <1>4, <1>12 DEF vars, tree, tick, history
<1> QED BY <1>8, <1>9, <1>10, <1>11, <1>12 DEF Next

LEMMA RestNext ==
  ASSUME Inv, BoundInv, [Next]_vars
  PROVE  /\ kubelet' \in BOOLEAN /\ phase' \in [Pods -> {"new", "listed", "over"}]
         /\ cache' \subseteq Pods /\ node' \in Reading
<1> DEFINE Rest == /\ kubelet' \in BOOLEAN /\ phase' \in [Pods -> {"new", "listed", "over"}]
                   /\ cache' \subseteq Pods /\ node' \in Reading
<1>1. /\ kubelet \in BOOLEAN /\ phase \in [Pods -> {"new", "listed", "over"}]
      /\ cache \subseteq Pods /\ node \in Reading /\ pods \subseteq Pods /\ todo \subseteq pods
      /\ nodeUsage <= MaxUse
  BY CollectorAssumption DEF BoundInv, TypeOK
<1>2. Invalid \in Reading
  BY CollectorAssumption DEF Invalid, Reading
<1>3. CASE Collects
  <2>1. ASSUME NEW cpuOk \in BOOLEAN, CollectNode(cpuOk) PROVE Rest
    BY <1>1, <2>1, NodeReading DEF CollectNode, tree
  <2>2. ASSUME NEW p \in Pods, NEW cpuOk \in BOOLEAN, CollectPod(p, cpuOk) PROVE Rest
    BY <1>1, <2>2 DEF CollectPod, tree, CacheAfter
  <2>3. CASE CollectEnds
    <3>1. node' \in {PodSum, node}
      BY <2>3 DEF CollectEnds
    <3>2. PodSum \in Reading
      BY <1>1, BurntBounds DEF BoundInv
    <3>3. cache' \subseteq cache /\ UNCHANGED <<kubelet, phase>>
      BY <2>3 DEF CollectEnds, tree
    <3> QED BY <1>1, <3>1, <3>2, <3>3
  <2> QED BY <1>3, <2>1, <2>2, <2>3 DEF Collects
<1>4. CASE \E enforce \in BOOLEAN : PoolsPass(enforce)
  BY <1>1, <1>2, <1>4 DEF PoolsPass, tree, AtRest
<1>5. CASE Restart
  BY <1>1, <1>2, <1>5 DEF Restart, tree, AtRest
<1>6. CASE Environment
  <2>1. UNCHANGED <<cache, node>>
    BY <1>6 DEF Environment, KubeletStarts, PodBound, PodOver, Turns, CgroupMade, CgroupGone,
                Burns, agent, tick
  <2>2. kubelet' \in BOOLEAN /\ phase' \in [Pods -> {"new", "listed", "over"}]
    BY <1>1, <1>6 DEF Environment, KubeletStarts, PodBound, PodOver, Turns, CgroupMade, CgroupGone,
                Burns
  <2> QED BY <1>1, <2>1, <2>2
<1>7. CASE UNCHANGED vars
  BY <1>1, <1>7 DEF vars, tree, agent, tick
<1> QED BY <1>3, <1>4, <1>5, <1>6, <1>7 DEF Next

\* Every variable keeps its type; in particular the node's reading stays within what
\* was burned, whether it is read from kubepods or added up over the pods of the tick
\* (collector.go, the fallback at the end of Collect).
THEOREM TypeOKHolds == Spec => []TypeOK
<1>1. Inv /\ BoundInv /\ [Next]_vars => Parts'
  BY BurntNext, RestNext DEF Parts
<1>2. BoundInv => TypeOK
  BY DEF BoundInv
<1> QED BY <1>1, <1>2, InitInv, NextInv, InitBound, PartsBound, PTL DEF Spec
=============================================================================
