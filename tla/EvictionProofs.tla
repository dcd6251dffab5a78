--------------------------- MODULE EvictionProofs ---------------------------
(* What the manager guarantees for every set of pods, every policy and every *)
(* choice of the times.                                                      *)
EXTENDS Eviction, SequenceTheorems, FiniteSetTheorems, TLAPS

VerdictsOn(S) == [pod : S, plugin : Plugins]

-----------------------------------------------------------------------------
(* The plugins return sequences of verdicts about candidates.               *)

LEMMA MinOfTwo ==
  ASSUME NEW a \in Int, NEW b \in Int
  PROVE  Min({a, b}) = IF a <= b THEN a ELSE b
<1>1. CASE a <= b
  <2>1. \A x \in {a, b} : (\A y \in {a, b} : x <= y) => x = a
    BY <1>1
  <2>2. \A y \in {a, b} : a <= y
    BY <1>1
  <2> QED BY <1>1, <2>1, <2>2 DEF Min
<1>2. CASE ~(a <= b)
  <2>1. \A x \in {a, b} : (\A y \in {a, b} : x <= y) => x = b
    BY <1>2
  <2>2. \A y \in {a, b} : b <= y
    BY <1>2
  <2> QED BY <1>2, <2>1, <2>2 DEF Min
<1> QED BY <1>1, <1>2

LEMMA RankingIsSeq ==
  ASSUME NEW S, IsFiniteSet(S), NEW q \in [1..Cardinality(S) -> S]
  PROVE  q \in Seq(S) /\ DOMAIN q = 1..Cardinality(S) /\ Len(q) = Cardinality(S)
<1>1. Cardinality(S) \in Nat
  BY FS_CardinalityType
<1> QED BY <1>1

LEMMA VerdictsType ==
  ASSUME NEW S, NEW q \in Seq(S), NEW name \in Plugins
  PROVE  Verdicts(q, name) \in Seq(VerdictsOn(S))
<1>1. DOMAIN q = 1..Len(q) /\ Len(q) \in Nat
  OBVIOUS
<1>2. \A i \in 1..Len(q) : [pod |-> q[i], plugin |-> name] \in VerdictsOn(S)
  BY DEF VerdictsOn
<1>3. Verdicts(q, name) \in [1..Len(q) -> VerdictsOn(S)]
  BY <1>1, <1>2 DEF Verdicts
<1> QED BY <1>1, <1>3

LEMMA CpuSuppressionType ==
  ASSUME NEW S, NEW stalled, NEW out \in CpuSuppression(S, stalled)
  PROVE  out \in Seq(VerdictsOn(S))
<1>1. CASE out = <<>>
  BY <1>1
<1>2. CASE out # <<>>
  <2>1. PICK p \in S : out = <<[pod |-> p, plugin |-> "cpu-suppression"]>>
    BY <1>2 DEF CpuSuppression
  <2> DEFINE v == [pod |-> p, plugin |-> "cpu-suppression"]
  <2>2. v \in VerdictsOn(S)
    BY DEF VerdictsOn, Plugins
  <2> HIDE DEF v
  <2>3. <<v>> \in Seq(VerdictsOn(S))
    BY <2>2
  <2> QED BY <2>1, <2>3 DEF v
<1> QED BY <1>1, <1>2

LEMMA MemoryPressureType ==
  ASSUME NEW S, IsFiniteSet(S), NEW out \in MemoryPressure(S)
  PROVE  out \in Seq(VerdictsOn(S))
<1>1. CASE out = <<>>
  BY <1>1
<1>2. CASE out # <<>>
  <2>1. PICK q \in [1..Cardinality(S) -> S] :
               out = Verdicts(SubSeq(q, 1, Enough(q)), "memory-pressure")
    BY <1>2 DEF MemoryPressure, Rankings
  <2>2. q \in Seq(S) /\ DOMAIN q = 1..Len(q) /\ Len(q) \in Nat
    BY RankingIsSeq, FS_CardinalityType
  <2>3. Enough(q) \in Nat /\ Enough(q) <= Len(q)
    <3>1. IsFiniteSet(1..Len(q)) /\ Cardinality(1..Len(q)) = Len(q)
      BY <2>2, FS_Interval
    <3> QED BY <2>2, <3>1, FS_Subset, FS_CardinalityType DEF Enough
  <2>4. SubSeq(q, 1, Enough(q)) \in Seq(S)
    <3>1. ASSUME NEW i \in 1..Enough(q) PROVE q[i] \in S
      <4>1. i \in DOMAIN q
        BY <2>2, <2>3
      <4> QED BY <2>2, <4>1, ElementOfSeq
    <3> QED BY <2>3, <3>1, SubSeqProperties
  <2> QED BY <2>1, <2>4, VerdictsType DEF Plugins
<1> QED BY <1>1, <1>2

LEMMA ReclaimedOverrunType ==
  ASSUME NEW S, IsFiniteSet(S), NEW level, NEW out \in ReclaimedOverrun(S, level)
  PROVE  out \in Seq(VerdictsOn(S))
<1>1. CASE out = <<>>
  BY <1>1
<1>2. CASE out # <<>>
  <2> DEFINE over == {p \in S : /\ Tier[p] = "reclaimed"
                                /\ Req[p] > 0 /\ CpuOf(p) >= 3 * Req[p]}
  <2>1. PICK q \in [1..Cardinality(over) -> over] : out = Verdicts(q, "reclaimed-overrun")
    BY <1>2 DEF ReclaimedOverrun, Rankings
  <2>2. IsFiniteSet(over)
    BY FS_Subset
  <2>3. q \in Seq(over)
    BY <2>2, RankingIsSeq
  <2>4. q \in Seq(S)
    BY <2>3
  <2> QED BY <2>1, <2>4, VerdictsType DEF Plugins
<1> QED BY <1>1, <1>2

LEMMA ProposalsType ==
  ASSUME NEW S, IsFiniteSet(S), NEW p, NEW level, NEW stalled,
         NEW out \in Proposals(S, p, level, stalled)
  PROVE  out \in Seq(VerdictsOn(S))
<1>1. PICK a \in From(p, "cpu-suppression", CpuSuppression(S, stalled)),
           b \in From(p, "memory-pressure", MemoryPressure(S)),
           c \in From(p, "reclaimed-overrun", ReclaimedOverrun(S, level)) :
        out = a \o b \o c
  BY DEF Proposals
<1>2. <<>> \in Seq(VerdictsOn(S))
  OBVIOUS
<1>3. a \in Seq(VerdictsOn(S))
  BY <1>2, CpuSuppressionType DEF From
<1>4. b \in Seq(VerdictsOn(S))
  BY <1>2, MemoryPressureType DEF From
<1>5. c \in Seq(VerdictsOn(S))
  BY <1>2, ReclaimedOverrunType DEF From
<1> QED BY <1>1, <1>3, <1>4, <1>5, ConcatProperties

-----------------------------------------------------------------------------
(* Type correctness, with the fact that a run only acts on its snapshot.     *)

QueueOK == queue \in Seq(VerdictsOn(cand))

\* The budget was last asked at this run's clock reading or before.
ClockOK == last = Never \/ nowAge <= last

TypeInv == TypeOK /\ QueueOK /\ ClockOK

LEMMA OlderType ==
  ASSUME NEW max \in Nat, NEW age \in {Never} \cup 0..max
  PROVE  Older(age, max) \in {Never} \cup 0..max
BY DEF Older, Never

LEMMA ConstantsType ==
  /\ LastMax \in Nat /\ RecentMax \in Nat /\ MaxBudget * Window \in Nat
  /\ \A n \in 0..MaxBudget : n * Window \in Nat /\ n * Window <= MaxBudget * Window
<1>1. ASSUME NEW n \in 0..MaxBudget
      PROVE  n * Window \in Nat /\ n * Window <= MaxBudget * Window
  BY PolicyAssumption, TimeAssumption
<1> QED BY <1>1, PolicyAssumption, TimeAssumption DEF LastMax, RecentMax

LEMMA TypeInit == Init => TypeInv
<1> SUFFICES ASSUME Init PROVE TypeInv
  OBVIOUS
<1> USE DEF Init
<1>1. queue \in Seq([pod : Pods, plugin : Plugins]) /\ QueueOK /\ ClockOK
  BY DEF QueueOK, ClockOK
<1>2. tokens \in 0..(MaxBudget * Window)
  BY ConstantsType, PolicyAssumption
<1>3. recentlyEvicted \in [Pods -> {Never} \cup 0..RecentMax] /\ last \in {Never} \cup 0..LastMax
  OBVIOUS
<1>4. pod \in [Pods -> Phases] /\ cache \subseteq Pods /\ lag \in [Pods -> 0..MaxLag]
  BY TimeAssumption DEF Phases
<1>5. base \in BaseLoads /\ policy \in Policies /\ pol \in PolicyType
  BY PolicyAssumption
<1>6. due \in BOOLEAN /\ warm \in BOOLEAN /\ pc \in {"idle", "loop"}
  OBVIOUS
<1>7. /\ breachedSince \in {Never} \cup 0..Stab /\ cand \subseteq Pods /\ seen \subseteq Pods
      /\ nowAge \in 0..RunLag /\ calm \in 0..Stab
      /\ obsN \in Nat /\ obsE \in {Never} \cup 0..MaxObs
  BY TimeAssumption
<1> QED BY <1>1, <1>2, <1>3, <1>4, <1>5, <1>6, <1>7 DEF TypeInv, TypeOK

LEMMA CandidatesFinite == TypeInv => IsFiniteSet(Candidates) /\ Candidates \subseteq Pods
<1> SUFFICES ASSUME TypeInv PROVE IsFiniteSet(Candidates) /\ Candidates \subseteq Pods
  OBVIOUS
<1>1. Candidates \subseteq Pods
  BY DEF Candidates, TypeInv, TypeOK
<1> QED BY <1>1, PodsAssumption, FS_Subset

\* The verdict at the head of the queue is about a candidate.
LEMMA TargetType ==
  ASSUME TypeInv, AtVerdict
  PROVE  /\ Target \in cand /\ Target \in Pods
         /\ queue' = Tail(queue) => queue' \in Seq(VerdictsOn(cand))
<1>1. queue \in Seq(VerdictsOn(cand)) /\ queue # <<>>
  BY DEF TypeInv, QueueOK, AtVerdict
<1>2. Head(queue) \in VerdictsOn(cand) /\ Tail(queue) \in Seq(VerdictsOn(cand))
  BY <1>1, HeadTailProperties
<1> QED BY <1>2 DEF Target, VerdictsOn, TypeInv, TypeOK

LEMMA RefilledType ==
  ASSUME TypeInv
  PROVE  /\ Refilled \in Nat /\ Refilled <= MaxBudget * Window
         /\ HasToken => Refilled - Window \in 0..(MaxBudget * Window)
<1>1. /\ tokens \in 0..(MaxBudget * Window) /\ nowAge \in Nat
      /\ pol.max \in 0..MaxBudget /\ last \in Int /\ Window \in Nat
  BY TimeAssumption DEF TypeInv, TypeOK, PolicyType, Never
<1>2. pol.max * Window \in Nat /\ pol.max * Window <= MaxBudget * Window
  BY <1>1, ConstantsType
<1>3. CASE last = Never
  BY <1>1, <1>3, ConstantsType DEF Refilled, HasToken
<1>4. CASE last # Never
  <2>1. last - nowAge \in Nat
    BY <1>1, <1>4 DEF TypeInv, TypeOK, ClockOK, Never
  <2>2. pol.max * (last - nowAge) \in Nat
    BY <1>1, <2>1
  <2> DEFINE a == tokens + pol.max * (last - nowAge)
             b == pol.max * Window
  <2>3. a \in Int /\ b \in Int /\ a >= 0
    BY <1>1, <1>2, <2>2
  <2>4. Refilled = Min({a, b})
    BY <1>4 DEF Refilled
  <2>5. Min({a, b}) = IF a <= b THEN a ELSE b
    BY <2>3, MinOfTwo
  <2> HIDE DEF a
  <2> QED BY <1>1, <1>2, <2>3, <2>4, <2>5, ConstantsType DEF HasToken
<1> QED BY <1>3, <1>4

LEMMA TokenStep ==
  ASSUME TypeInv, TakeToken, nowAge' = nowAge
  PROVE  /\ tokens' \in 0..(MaxBudget * Window) /\ last' \in {Never} \cup 0..LastMax
         /\ ClockOK'
<1>1. nowAge \in 0..LastMax
  BY TimeAssumption DEF TypeInv, TypeOK, LastMax
<1> QED BY <1>1, RefilledType DEF TakeToken, ClockOK

LEMMA VerdictStep ==
  ASSUME TypeInv, AtVerdict, NextVerdict,
         UNCHANGED <<cache, lag, base, policy, due, warm, breachedSince, calm, obsE>>,
         pod' \in [Pods -> Phases], obsN' \in Nat,
         recentlyEvicted' \in [Pods -> {Never} \cup 0..RecentMax],
         tokens' \in 0..(MaxBudget * Window), last' \in {Never} \cup 0..LastMax, ClockOK'
  PROVE  TypeInv'
<1>1. Target \in Pods /\ queue' \in Seq(VerdictsOn(cand'))
  BY TargetType DEF NextVerdict
<1>2. queue' \in Seq([pod : Pods, plugin : Plugins])
  <2>1. VerdictsOn(cand') \subseteq [pod : Pods, plugin : Plugins]
    BY DEF VerdictsOn, NextVerdict, TypeInv, TypeOK
  <2> QED BY <1>1, <2>1, SeqMonotonic
<1> QED BY <1>1, <1>2 DEF NextVerdict, TypeInv, TypeOK, QueueOK

LEMMA RestType ==
  ASSUME AtRest
  PROVE  /\ pc' \in {"idle", "loop"} /\ pol' \in PolicyType
         /\ cand' \subseteq Pods /\ seen' \subseteq Pods /\ nowAge' \in 0..RunLag
         /\ queue' \in Seq([pod : Pods, plugin : Plugins]) /\ QueueOK'
<1>1. \A S : <<>> \in Seq(S)
  OBVIOUS
<1> QED BY <1>1, PolicyAssumption, TimeAssumption DEF AtRest, QueueOK

\* With or without its reply, an eviction is one that the API server accepted.
LEMMA TellsIsAccepted == Tells => Accepted /\ Due /\ AtVerdict
  BY DEF Tells, Evicts, ReplyLost, Accepted, Due

LEMMA TypeStep == TypeInv /\ [Next]_vars => TypeInv'
<1> SUFFICES ASSUME TypeInv, [Next]_vars PROVE TypeInv'
  OBVIOUS
<1> USE TimeAssumption
<1>0. \A S : <<>> \in Seq(S)
  OBVIOUS
<1>1. CASE TickFails
  BY <1>1 DEF TickFails, TypeInv, TypeOK, QueueOK, ClockOK, cluster, manager, local, history
<1>2. CASE RunRefused
  BY <1>2 DEF RunRefused, TickStarts, TypeInv, TypeOK, QueueOK, ClockOK, cluster, manager,
              local, history
<1>3. CASE Measures
  <2>1. PICK p \in LoadPolicy, stalled \in BOOLEAN :
               \E level \in PressureLevels(stalled) :
                 \E out \in Proposals(Candidates, p, level, stalled) :
                   RunMeasures(p, level, out)
    BY <1>3 DEF Measures
  <2>a. PICK level \in PressureLevels(stalled) :
               \E out \in Proposals(Candidates, p, level, stalled) :
                 RunMeasures(p, level, out)
    BY <2>1
  <2>b. PICK out \in Proposals(Candidates, p, level, stalled) : RunMeasures(p, level, out)
    BY <2>a
  <2>2. p \in PolicyType
    BY PolicyAssumption DEF LoadPolicy, TypeInv, TypeOK
  <2>3. out \in Seq(VerdictsOn(Candidates)) /\ out \in Seq([pod : Pods, plugin : Plugins])
    <3>1. out \in Seq(VerdictsOn(Candidates))
      BY <2>b, CandidatesFinite, ProposalsType
    <3>2. VerdictsOn(Candidates) \subseteq [pod : Pods, plugin : Plugins]
      BY CandidatesFinite DEF VerdictsOn
    <3> QED BY <3>1, <3>2, SeqMonotonic
  <2>4. /\ breachedSince' \in {Never} \cup 0..Stab /\ calm' \in 0..Stab
        /\ due' \in BOOLEAN /\ warm' \in BOOLEAN /\ UNCHANGED cluster
        /\ UNCHANGED <<recentlyEvicted, last, obsN, obsE>>
    <3>1. TrackBreach(level) /\ TickStarts /\ warm' = TRUE
          /\ UNCHANGED <<recentlyEvicted, last, obsN, obsE>>
      BY <2>b DEF RunMeasures
    <3>2. breachedSince' \in {Never} \cup 0..Stab /\ calm' \in 0..Stab
      BY <3>1 DEF TrackBreach, TypeInv, TypeOK
    <3> QED BY <3>1, <3>2 DEF TickStarts
  <2>5. CASE UNCHANGED <<tokens, local>>
    BY <2>4, <2>5 DEF cluster, local, TypeInv, TypeOK, QueueOK, ClockOK
  <2>6. CASE ~UNCHANGED <<tokens, local>>
    <3>1. /\ tokens' = Min({tokens, p.max * Window}) /\ pc' = "loop" /\ pol' = p
          /\ cand' = Candidates /\ queue' = out /\ seen' = {} /\ nowAge' = 0
      BY <2>b, <2>6 DEF RunMeasures
    <3>2. tokens' \in 0..(MaxBudget * Window)
      <4>1. p.max * Window \in Nat /\ p.max * Window <= MaxBudget * Window
        BY <2>2, ConstantsType DEF PolicyType
      <4>2. tokens \in 0..(MaxBudget * Window)
        BY DEF TypeInv, TypeOK
      <4>3. Min({tokens, p.max * Window}) =
              IF tokens <= p.max * Window THEN tokens ELSE p.max * Window
        BY <4>1, <4>2, MinOfTwo
      <4> QED BY <3>1, <4>1, <4>2, <4>3, ConstantsType
    <3>3. QueueOK' /\ cand' \subseteq Pods /\ queue' \in Seq([pod : Pods, plugin : Plugins])
      BY <2>3, <3>1, CandidatesFinite DEF QueueOK, VerdictsOn
    <3>4. ClockOK'
      BY <2>4, <3>1 DEF ClockOK, TypeInv, TypeOK, LastMax
    <3> QED BY <2>2, <2>4, <3>1, <3>2, <3>3, <3>4 DEF cluster, TypeInv, TypeOK
  <2> QED BY <2>5, <2>6
<1>4. CASE SkipVerdict
  <2>1. AtVerdict /\ NextVerdict /\ UNCHANGED <<cluster, due, warm, manager, history>>
    BY <1>4 DEF SkipVerdict
  <2> QED BY <2>1, VerdictStep DEF cluster, manager, history, NextVerdict, TypeInv, TypeOK, ClockOK
<1>5. CASE RateLimited
  <2>1. Target \in Pods /\ tokens' \in 0..(MaxBudget * Window)
        /\ last' \in {last, nowAge}
    BY <1>5, TargetType, RefilledType DEF RateLimited, Due, TypeInv, TypeOK
  <2>2. queue' \in Seq(VerdictsOn(cand')) /\ queue' \in Seq([pod : Pods, plugin : Plugins])
    BY <1>0, <1>5 DEF RateLimited
  <2> QED BY <1>5, <2>1, <2>2
          DEF RateLimited, TypeInv, TypeOK, QueueOK, ClockOK, cluster, history, LastMax
<1>6. CASE EvictionRefused
  <2>1. /\ AtVerdict /\ NextVerdict /\ TakeToken
        /\ UNCHANGED <<cluster, due, warm, breachedSince, recentlyEvicted, history>>
    BY <1>6 DEF EvictionRefused, Due
  <2> QED BY <2>1, VerdictStep, TokenStep DEF cluster, history, NextVerdict, TypeInv, TypeOK
<1>7. CASE Tells
  <2>1. /\ AtVerdict /\ NextVerdict /\ TakeToken
        /\ UNCHANGED <<cache, lag, base, policy, due, warm, breachedSince, calm, obsE>>
    BY <1>7, TellsIsAccepted DEF Accepted, Due
  <2>2. obsN' \in Nat
    BY <1>7, TellsIsAccepted DEF Accepted, TypeInv, TypeOK
  <2>3. pod' \in [Pods -> Phases] /\ recentlyEvicted' \in [Pods -> {Never} \cup 0..RecentMax]
    <3>1. nowAge \in {Never} \cup 0..RecentMax
      BY DEF TypeInv, TypeOK, RecentMax
    <3>2. CASE Evicts
      BY <3>1, <3>2 DEF Evicts, TypeInv, TypeOK, Phases
    <3>3. CASE ReplyLost
      BY <3>3 DEF ReplyLost, TypeInv, TypeOK, Phases
    <3> QED BY <1>7, <3>2, <3>3 DEF Tells
  <2> QED BY <2>1, <2>2, <2>3, VerdictStep, TokenStep DEF NextVerdict
<1>8. CASE RunEnds
  <2>1. /\ recentlyEvicted' = [p \in Pods |->
             IF recentlyEvicted[p] - nowAge > GcAge THEN Never ELSE recentlyEvicted[p]]
        /\ AtRest /\ UNCHANGED <<cluster, due, warm, breachedSince, tokens, last, history>>
    BY <1>8 DEF RunEnds
  <2>2. recentlyEvicted' \in [Pods -> {Never} \cup 0..RecentMax]
    BY <2>1 DEF TypeInv, TypeOK
  <2>3. ClockOK'
    BY <2>1 DEF ClockOK, AtRest, TypeInv, TypeOK, LastMax
  <2> QED BY <2>1, <2>2, <2>3, RestType DEF cluster, history, TypeInv, TypeOK
<1>9. CASE Advance
  <2>1. lag' \in [Pods -> 0..MaxLag]
    BY <1>9 DEF Advance, TypeInv, TypeOK
  <2>2. nowAge' \in 0..RunLag /\ last' \in {Never} \cup 0..LastMax /\ ClockOK'
    <3>1. last' \in {Never} \cup 0..LastMax
      BY <1>9, OlderType, ConstantsType DEF Advance, TypeInv, TypeOK
    <3>2. nowAge' \in 0..RunLag
      BY <1>9 DEF Advance, TypeInv, TypeOK
    <3>3. nowAge' <= nowAge + 1 /\ nowAge' <= LastMax
      BY <1>9, <3>2 DEF Advance, LastMax, TypeInv, TypeOK
    <3> QED BY <1>9, <3>1, <3>2, <3>3
            DEF Advance, ClockOK, Older, Never, LastMax, TypeInv, TypeOK
  <2>3. breachedSince' \in {Never} \cup 0..Stab /\ calm' \in 0..Stab
    BY <1>9 DEF Advance, Older, Never, TypeInv, TypeOK
  <2>4. recentlyEvicted' \in [Pods -> {Never} \cup 0..RecentMax]
    BY <1>9, OlderType, ConstantsType DEF Advance, TypeInv, TypeOK
  <2>5. obsE' \in {Never} \cup 0..MaxObs /\ obsN' \in Nat
    BY <1>9, OlderType DEF Advance, TypeInv, TypeOK
  <2> QED BY <1>9, <2>1, <2>2, <2>3, <2>4, <2>5 DEF Advance, TypeInv, TypeOK, QueueOK
<1>10. CASE Restart
  <2>1. BudgetAtStart * Window \in 0..(MaxBudget * Window)
    BY ConstantsType, PolicyAssumption
  <2>2. lag' \in [Pods -> 0..MaxLag] /\ recentlyEvicted' \in [Pods -> {Never} \cup 0..RecentMax]
    BY <1>10 DEF Restart
  <2>3. ClockOK' /\ AtRest /\ calm' \in 0..Stab /\ obsE' \in {Never} \cup 0..MaxObs
    BY <1>10 DEF ClockOK, Restart
  <2>4. cache' \subseteq Pods
    BY <1>10 DEF Restart, Live
  <2> QED BY <1>10, <2>1, <2>2, <2>3, <2>4, RestType DEF Restart, TypeInv, TypeOK
<1>11. CASE Environment
  <2>1. UNCHANGED <<due, warm, manager, local, history>>
    BY <1>11 DEF Environment, PodDeleted, PodRemoved, PodEnds, PodReturns, CacheSyncs, LoadChanges,
       PolicyChanges
  <2>2. pod' \in [Pods -> Phases] /\ cache' \subseteq Pods /\ lag' \in [Pods -> 0..MaxLag]
    <3>1. CASE UNCHANGED <<pod, cache, lag>>
      BY <3>1 DEF TypeInv, TypeOK
    <3>2. ASSUME NEW p \in Pods, PodDeleted(p) \/ PodRemoved(p) \/ PodEnds(p) \/ PodReturns(p)
          PROVE  pod' \in [Pods -> Phases] /\ UNCHANGED <<cache, lag>>
      BY <3>2 DEF PodDeleted, PodRemoved, PodEnds, PodReturns, TypeInv, TypeOK, Phases
    <3>3. ASSUME NEW p \in Pods, CacheSyncs(p)
          PROVE  /\ cache' \subseteq Pods /\ lag' \in [Pods -> 0..MaxLag]
                 /\ UNCHANGED pod
      BY <3>3 DEF CacheSyncs, TypeInv, TypeOK
    <3>4. LoadChanges \/ PolicyChanges => UNCHANGED <<pod, cache, lag>>
      BY DEF LoadChanges, PolicyChanges
    <3> QED BY <1>11, <3>1, <3>2, <3>3, <3>4 DEF Environment, TypeInv, TypeOK
  <2>3. base' \in BaseLoads /\ policy' \in Policies
    BY <1>11 DEF Environment, PodDeleted, PodRemoved, PodEnds, PodReturns, CacheSyncs, LoadChanges,
       PolicyChanges, TypeInv, TypeOK
  <2> QED BY <2>1, <2>2, <2>3 DEF TypeInv, TypeOK, QueueOK, ClockOK, manager, local, history
<1>12. CASE ObserverStarts
  BY <1>12 DEF ObserverStarts, TypeInv, TypeOK, QueueOK, ClockOK, cluster, manager, local
<1>13. CASE UNCHANGED vars
  BY <1>13 DEF vars, TypeInv, TypeOK, QueueOK, ClockOK, cluster, manager, local, history
<1> QED BY <1>1, <1>2, <1>3, <1>4, <1>5, <1>6, <1>7, <1>8, <1>9, <1>10, <1>11, <1>12, <1>13
        DEF Next, Loop

\* Every variable keeps its type; in particular no clock passes the bound it is
\* saturated at, and a refill never lifts the budget above the largest policy's.
THEOREM TypeCorrect == Spec => []TypeOK
<1>1. TypeInv => TypeOK
  BY DEF TypeInv
<1> QED BY <1>1, TypeInit, TypeStep, PTL DEF Spec

-----------------------------------------------------------------------------
(* The stabilisation period.  breachedSince is never older than the last run *)
(* that saw no pressure, and the loop is only entered once it is old enough. *)

StabInv == /\ breachedSince # Never => breachedSince <= calm
           /\ pc = "loop" => calm >= Stab

LEMMA StabStep == TypeInv /\ StabInv /\ [Next]_vars => StabInv'
<1> SUFFICES ASSUME TypeInv, StabInv, [Next]_vars PROVE StabInv'
  OBVIOUS
<1> USE TimeAssumption DEF StabInv
<1>1. CASE TickFails \/ RunRefused \/ Environment \/ ObserverStarts \/ UNCHANGED vars
  <2>1. UNCHANGED <<breachedSince, calm, pc>>
    BY <1>1 DEF TickFails, RunRefused, Environment, ObserverStarts, vars, PodDeleted, PodRemoved, PodEnds,
       PodReturns, CacheSyncs, LoadChanges, PolicyChanges, manager, local, history
  <2> QED BY <2>1
<1>2. CASE Measures
  <2>1. PICK p, level, out : RunMeasures(p, level, out)
    BY <1>2 DEF Measures
  <2>2. TrackBreach(level) /\ pc = "idle"
        /\ (pc' = pc \/ ~Stabilising)
    BY <2>1 DEF RunMeasures, TickStarts, local
  <2>3. breachedSince' # Never => breachedSince' <= calm'
    BY <2>2 DEF TrackBreach, TypeInv, TypeOK, Never
  <2>4. breachedSince' \in Int /\ calm' \in Nat
    BY <2>2 DEF TrackBreach, TypeInv, TypeOK, Never
  <2>5. ~Stabilising => calm' >= Stab
    BY <2>3, <2>4 DEF Stabilising
  <2> QED BY <2>2, <2>3, <2>5
<1>3. CASE Loop
  <2>1. UNCHANGED <<breachedSince, calm>> /\ pc = "loop"
    BY <1>3 DEF Loop, SkipVerdict, RateLimited, EvictionRefused, Tells, Evicts, ReplyLost, Accepted,
       RunEnds, Due, AtVerdict, manager, history
  <2> QED BY <2>1
<1>4. CASE Advance
  BY <1>4 DEF Advance, Older, TypeInv, TypeOK, Never
<1>5. CASE Restart
  BY <1>5 DEF Restart, AtRest
<1> QED BY <1>1, <1>2, <1>3, <1>4, <1>5 DEF Next

\* No eviction within the stabilisation period of the start of the process or of
\* a run that measured no pressure, whatever runs were refused in between.
THEOREM StabilisationHolds == Spec => Stabilised
<1>1. Init => StabInv
  BY DEF Init, StabInv
<1>2. StabInv /\ [Next]_vars => [Tells => calm >= Stab]_vars
  BY TellsIsAccepted DEF StabInv, AtVerdict
<1> QED BY <1>1, <1>2, TypeInit, TypeStep, StabStep, PTL DEF Spec, Stabilised

-----------------------------------------------------------------------------
(* The repeat-eviction veto outlives the lag of the cache.  A pod that has   *)
(* been told to go and still runs in the cache has an entry no older than    *)
(* that lag, and one that a run still has to deal with is vetoed by that     *)
(* run.                                                                      *)

FreshEntry(p) == recentlyEvicted[p] # Never /\ recentlyEvicted[p] <= lag[p] + RunLag

VetoInv ==
  /\ \A p \in Pods : pod[p] = "terminating" /\ p \in cache => FreshEntry(p)
  /\ pc = "loop" => \A p \in cand : pod[p] = "terminating" /\ p \notin seen => RecentlyEvicted(p)

LEMMA VetoStep == TypeInv /\ VetoInv /\ [Next]_vars => VetoInv'
<1> SUFFICES ASSUME TypeInv, VetoInv, [Next]_vars PROVE VetoInv'
  OBVIOUS
<1> USE TimeAssumption, AgeAssumption DEF VetoInv, FreshEntry
<1>1. CASE TickFails \/ RunRefused \/ ObserverStarts \/ LoadChanges \/ PolicyChanges
           \/ UNCHANGED vars
  <2>1. UNCHANGED <<pod, cache, lag, recentlyEvicted, pc, cand, seen, nowAge>>
    BY <1>1 DEF TickFails, RunRefused, TickStarts, ObserverStarts, LoadChanges, PolicyChanges,
       vars, cluster, manager, local, history
  <2> QED BY <2>1 DEF RecentlyEvicted
<1>2. CASE Measures
  <2>1. PICK p, level, out : RunMeasures(p, level, out)
    BY <1>2 DEF Measures
  <2>2. UNCHANGED <<pod, cache, lag, recentlyEvicted>>
    BY <2>1 DEF RunMeasures, TickStarts, cluster
  <2>3. CASE pc' = "loop"
    <3>1. cand' = Candidates /\ nowAge' = 0
      BY <2>1, <2>3 DEF RunMeasures, TickStarts, local
    <3>2. \A q \in Candidates : pod[q] = "terminating" => RecentlyEvicted(q)'
      BY <2>2, <3>1 DEF Candidates, RecentlyEvicted, TypeInv, TypeOK, Never
    <3> QED BY <2>2, <3>1, <3>2
  <2>4. CASE pc' # "loop"
    BY <2>2, <2>4
  <2> QED BY <2>3, <2>4
<1>3. CASE SkipVerdict \/ RateLimited \/ EvictionRefused
  <2>1. /\ UNCHANGED <<pod, cache, lag, recentlyEvicted, pc, cand, nowAge>>
        /\ seen \subseteq seen'
    BY <1>3 DEF SkipVerdict, RateLimited, EvictionRefused, NextVerdict, cluster, manager
  <2> QED BY <2>1 DEF RecentlyEvicted
<1>4. CASE Tells
  <2>1. PICK t \in Pods : t = Target
    BY <1>4, TellsIsAccepted, TargetType
  <2>2. seen' = seen \cup {t} /\ UNCHANGED <<cache, lag, pc, cand, nowAge>>
    BY <1>4, <2>1, TellsIsAccepted DEF Accepted, NextVerdict
  <2>3. \A p \in Pods \ {t} : pod'[p] = pod[p] /\ recentlyEvicted'[p] = recentlyEvicted[p]
    BY <1>4, <2>1 DEF Tells, Evicts, ReplyLost, TypeInv, TypeOK
  <2>4. pod'[t] = "terminating" /\ t \in cache => FreshEntry(t)'
    <3>1. CASE Evicts
      <4>1. recentlyEvicted'[t] = nowAge /\ nowAge \in 0..RunLag /\ lag'[t] \in 0..MaxLag
        BY <2>1, <2>2, <3>1 DEF Evicts, TypeInv, TypeOK
      <4> QED BY <4>1 DEF Never
    <3>2. CASE ReplyLost
      BY <2>1, <2>2, <3>2 DEF ReplyLost, TypeInv, TypeOK
    <3> QED BY <1>4, <3>1, <3>2 DEF Tells
  <2> QED BY <2>2, <2>3, <2>4 DEF RecentlyEvicted, TypeInv, TypeOK
<1>5. CASE RunEnds
  <2>1. /\ recentlyEvicted' = [p \in Pods |->
             IF recentlyEvicted[p] - nowAge > GcAge THEN Never ELSE recentlyEvicted[p]]
        /\ UNCHANGED <<pod, cache, lag>> /\ pc' = "idle"
    BY <1>5 DEF RunEnds, AtRest, cluster
  <2>2. ASSUME NEW p \in Pods, FreshEntry(p) PROVE FreshEntry(p)'
    BY <2>1, <2>2 DEF TypeInv, TypeOK
  <2> QED BY <2>1, <2>2
<1>6. CASE Advance
  <2>1. /\ \A p \in Pods : recentlyEvicted'[p] = Older(recentlyEvicted[p], RecentMax)
        /\ \A p \in Pods : lag'[p] = IF Trails(p) THEN lag[p] + 1 ELSE 0
        /\ UNCHANGED <<pod, cache, pc, cand, seen>>
        /\ pc = "loop" => nowAge' = nowAge + 1 /\ nowAge < RunLag
    BY <1>6 DEF Advance, TypeInv, TypeOK
  <2>2. ASSUME NEW p \in Pods, pod[p] = "terminating", p \in cache
        PROVE  FreshEntry(p)'
    <3>1. /\ recentlyEvicted[p] \in 0..RecentMax /\ recentlyEvicted[p] <= lag[p] + RunLag
          /\ lag[p] \in Nat /\ lag'[p] = lag[p] + 1 /\ RecentMax \in Nat
      BY <2>1, <2>2, ConstantsType DEF Trails, Live, TypeInv, TypeOK
    <3> QED BY <2>1, <3>1 DEF Older, Never
  <2>3. ASSUME NEW p \in Pods, RecentlyEvicted(p), pc = "loop" PROVE RecentlyEvicted(p)'
    <3>1. /\ recentlyEvicted[p] \in 0..RecentMax /\ recentlyEvicted[p] - nowAge < RecentAge
          /\ nowAge \in Nat /\ nowAge' = nowAge + 1 /\ nowAge' <= RunLag
      BY <2>1, <2>3 DEF RecentlyEvicted, TypeInv, TypeOK
    <3>2. recentlyEvicted'[p] = Older(recentlyEvicted[p], RecentMax)
      BY <2>1
    <3> QED BY <3>1, <3>2 DEF RecentlyEvicted, Older, Never, RecentMax
  <2> QED BY <2>1, <2>2, <2>3 DEF TypeInv, TypeOK
<1>7. CASE Restart
  BY <1>7 DEF Restart, AtRest, Live
<1>8. CASE \E p \in Pods : PodDeleted(p) \/ PodRemoved(p) \/ PodEnds(p) \/ PodReturns(p) \/ CacheSyncs(p)
  <2>1. PICK p \in Pods : PodDeleted(p) \/ PodRemoved(p) \/ PodEnds(p) \/ PodReturns(p) \/ CacheSyncs(p)
    BY <1>8
  <2>2. /\ UNCHANGED <<recentlyEvicted, pc, cand, seen, nowAge>>
        /\ \A q \in Pods : pod'[q] = "terminating" => pod[q] = "terminating"
        /\ \A q \in Pods : pod'[q] = "terminating" /\ q \in cache'
                             => q \in cache /\ lag'[q] = lag[q]
    BY <2>1 DEF PodDeleted, PodRemoved, PodEnds, PodReturns, CacheSyncs, Trails, Live, manager, local,
       TypeInv, TypeOK
  <2> QED BY <2>2 DEF RecentlyEvicted, TypeInv, TypeOK
<1> QED BY <1>1, <1>2, <1>3, <1>4, <1>5, <1>6, <1>7, <1>8 DEF Next, Loop, Environment

\* A pod that has been told to go, and answered, is not told again before it has gone, for
\* any cache lag and any length of a run that together stay within the veto period; whatever
\* replies are lost and whatever somebody else deletes.
THEOREM NoDoubleEvictionHolds == Spec => NoDoubleEviction
<1>1. Init => VetoInv
  BY DEF Init, VetoInv
<1>2. TypeInv /\ VetoInv /\ [Next]_vars => [Tells => pod[Target] # "terminating"]_vars
  <2> SUFFICES ASSUME TypeInv, VetoInv, Tells PROVE pod[Target] # "terminating"
    OBVIOUS
  <2>1. Due
    BY TellsIsAccepted
  <2>2. Target \in cand /\ Target \in Pods
    BY <2>1, TargetType DEF Due
  <2> QED BY <2>1, <2>2 DEF Due, AtVerdict, Veto, VetoInv
<1> QED BY <1>1, <1>2, TypeInit, TypeStep, VetoStep, PTL DEF Spec, NoDoubleEviction

-----------------------------------------------------------------------------
(* The rate law.  Credit is what the budget holds plus what it can still be  *)
(* refilled for time that has already passed; it is bounded, time adds at    *)
(* most MaxBudget a unit to it, and every eviction takes Window from it.     *)

RateInv == obsE # Never => obsN * Window + Credit <= Ceiling + MaxBudget * obsE

LEMMA CreditBounded ==
  ASSUME NEW tok \in 0..(MaxBudget * Window), NEW age \in {Never} \cup 0..LastMax
  PROVE  CreditOf(tok, age) \in 0..Ceiling
<1>1. MaxBudget \in Nat /\ Window \in Nat /\ RunLag \in Nat
  BY PolicyAssumption, TimeAssumption
<1>2. Ceiling = MaxBudget * Window + MaxBudget * RunLag
  BY <1>1 DEF Ceiling
<1>3. MaxBudget * Window \in Nat /\ MaxBudget * RunLag \in Nat
  BY <1>1
<1>4. age # Never => MaxBudget * age \in Nat
  BY <1>1 DEF LastMax
<1> QED BY <1>2, <1>3, <1>4 DEF CreditOf

LEMMA RefillKeepsCredit ==
  ASSUME TypeInv
  PROVE  /\ Refilled + MaxBudget * nowAge <= Ceiling
         /\ Refilled + MaxBudget * nowAge <= Credit
<1>1. /\ MaxBudget \in Nat /\ Window \in Nat /\ RunLag \in Nat
      /\ tokens \in 0..(MaxBudget * Window) /\ nowAge \in 0..RunLag
      /\ pol.max \in 0..MaxBudget /\ last \in {Never} \cup 0..LastMax
      /\ last = Never \/ nowAge <= last
  BY PolicyAssumption, TimeAssumption DEF TypeInv, TypeOK, ClockOK, PolicyType
<1>2. /\ Ceiling = MaxBudget * Window + MaxBudget * RunLag
      /\ MaxBudget * nowAge \in Nat /\ MaxBudget * nowAge <= MaxBudget * RunLag
      /\ MaxBudget * Window \in Nat /\ MaxBudget * RunLag \in Nat
  <2>1. MaxBudget * RunLag = MaxBudget * nowAge + MaxBudget * (RunLag - nowAge)
    BY <1>1
  <2>2. MaxBudget * (RunLag - nowAge) \in Nat
    BY <1>1
  <2> QED BY <1>1, <2>1, <2>2 DEF Ceiling
<1>3. CASE last = Never
  BY <1>1, <1>2, <1>3 DEF Refilled, Credit, CreditOf
<1>4. CASE last # Never
  <2> DEFINE a == tokens + pol.max * (last - nowAge)
             b == pol.max * Window
  <2>1. last - nowAge \in Nat
    BY <1>1, <1>4
  <2>2. pol.max * (last - nowAge) \in Nat /\ MaxBudget * (last - nowAge) \in Nat
        /\ pol.max * (last - nowAge) <= MaxBudget * (last - nowAge)
    <3>1. (MaxBudget - pol.max) * (last - nowAge) \in Nat
      BY <1>1, <2>1
    <3>2. (MaxBudget - pol.max) * (last - nowAge)
            = MaxBudget * (last - nowAge) - pol.max * (last - nowAge)
      BY <1>1, <2>1
    <3>3. pol.max * (last - nowAge) \in Nat /\ MaxBudget * (last - nowAge) \in Nat
      BY <1>1, <2>1
    <3> QED BY <3>1, <3>2, <3>3
  <2>3. b \in Nat /\ b <= MaxBudget * Window
    BY <1>1, ConstantsType
  <2>4. MaxBudget * (last - nowAge) = MaxBudget * last - MaxBudget * nowAge
        /\ MaxBudget * last \in Nat
    BY <1>1, <1>4
  <2>5. Refilled = Min({a, b}) /\ a \in Int
    BY <1>1, <1>4, <2>2 DEF Refilled
  <2>6. Refilled = IF a <= b THEN a ELSE b
    BY <2>3, <2>5, MinOfTwo
  <2>7. Refilled <= b /\ Refilled <= a /\ Refilled \in Int
    BY <2>3, <2>5, <2>6
  <2>8. a <= tokens + MaxBudget * last - MaxBudget * nowAge
    BY <1>1, <2>2, <2>4
  <2> HIDE DEF a, b
  <2>9. Refilled + MaxBudget * nowAge <= Ceiling
    BY <1>2, <2>3, <2>7
  <2>10. Refilled + MaxBudget * nowAge <= tokens + MaxBudget * last
    BY <1>1, <1>2, <2>4, <2>5, <2>7, <2>8
  <2> QED BY <1>4, <2>9, <2>10 DEF Credit, CreditOf
<1> QED BY <1>3, <1>4

\* A spent token takes Window from the credit, a refused one adds nothing.
LEMMA TokensCostCredit ==
  ASSUME TypeInv
  PROVE  /\ Credit \in Int /\ Credit >= 0
         /\ HasToken => CreditOf(Refilled - Window, nowAge) + Window <= Credit
         /\ CreditOf(Refilled, nowAge) <= Credit
<1>1. /\ MaxBudget \in Nat /\ Window \in Nat /\ RunLag \in Nat
      /\ tokens \in 0..(MaxBudget * Window) /\ nowAge \in 0..RunLag
      /\ last \in {Never} \cup 0..LastMax
  BY PolicyAssumption, TimeAssumption DEF TypeInv, TypeOK
<1>2. Credit \in 0..Ceiling
  BY <1>1, CreditBounded DEF Credit
<1>3. Ceiling \in Nat /\ MaxBudget * nowAge \in Nat
  BY <1>1 DEF Ceiling
<1>4. Refilled \in Nat
  BY RefilledType
<1>5. Refilled + MaxBudget * nowAge <= Ceiling /\ Refilled + MaxBudget * nowAge <= Credit
  BY RefillKeepsCredit
<1>6. nowAge # Never
  BY <1>1 DEF Never
<1>7. /\ CreditOf(Refilled - Window, nowAge) = Refilled - Window + MaxBudget * nowAge
      /\ CreditOf(Refilled, nowAge) = Refilled + MaxBudget * nowAge
  BY <1>1, <1>3, <1>4, <1>5, <1>6 DEF CreditOf
<1> QED BY <1>1, <1>2, <1>3, <1>4, <1>5, <1>7

\* One unit of time adds at most MaxBudget to the credit.
LEMMA TimeAddsCredit ==
  ASSUME TypeInv
  PROVE  CreditOf(tokens, Older(last, LastMax)) <= Credit + MaxBudget
<1>1. /\ MaxBudget \in Nat /\ Window \in Nat /\ RunLag \in Nat
      /\ tokens \in 0..(MaxBudget * Window) /\ last \in {Never} \cup 0..LastMax
  BY PolicyAssumption, TimeAssumption DEF TypeInv, TypeOK
<1>2. Ceiling \in Nat
  BY <1>1 DEF Ceiling
<1>3. CASE last = Never \/ last >= LastMax
  <2>1. Older(last, LastMax) = last
    BY <1>3 DEF Older
  <2>2. Credit \in 0..Ceiling
    BY <1>1, CreditBounded DEF Credit
  <2> QED BY <1>1, <1>2, <2>1, <2>2 DEF Credit
<1>4. CASE ~(last = Never \/ last >= LastMax)
  <2>1. last \in Nat /\ Older(last, LastMax) = last + 1 /\ last + 1 # Never
    BY <1>1, <1>4 DEF Older, Never
  <2>2. MaxBudget * (last + 1) = MaxBudget * last + MaxBudget /\ MaxBudget * last \in Nat
    BY <1>1, <2>1
  <2> QED BY <1>1, <1>2, <1>4, <2>1, <2>2 DEF Credit, CreditOf
<1> QED BY <1>3, <1>4

\* A run starts by cutting the budget to the policy's maximum.
LEMMA ClampCostsNothing ==
  ASSUME TypeInv, NEW tok \in Nat, tok <= tokens
  PROVE  CreditOf(tok, last) <= Credit
<1>1. /\ MaxBudget \in Nat /\ Window \in Nat /\ RunLag \in Nat
      /\ tokens \in Nat /\ last \in {Never} \cup 0..LastMax
  BY PolicyAssumption, TimeAssumption, ConstantsType DEF TypeInv, TypeOK
<1>2. Ceiling \in Nat /\ MaxBudget * RunLag \in Nat
  BY <1>1 DEF Ceiling
<1>3. last # Never => MaxBudget * last \in Nat
  BY <1>1 DEF LastMax
<1> QED BY <1>1, <1>2, <1>3 DEF Credit, CreditOf

LEMMA RateStep == TypeInv /\ RateInv /\ [Next]_vars => RateInv'
<1> SUFFICES ASSUME TypeInv, RateInv, [Next]_vars PROVE RateInv'
  OBVIOUS
<1>a. /\ MaxBudget \in Nat /\ Window \in Nat /\ RunLag \in Nat /\ Ceiling \in Nat
      /\ obsN \in Nat /\ obsE \in {Never} \cup 0..MaxObs
  BY PolicyAssumption, TimeAssumption DEF TypeInv, TypeOK, Ceiling
<1>b. PICK before \in Int : before = Credit
  BY TokensCostCredit
<1>c. PICK after \in 0..Ceiling : after = CreditOf(tokens', last')
  <2>1. tokens' \in 0..(MaxBudget * Window) /\ last' \in {Never} \cup 0..LastMax
    BY TypeStep DEF TypeInv, TypeOK, LastMax
  <2> QED BY <2>1, CreditBounded
<1>d. ASSUME obsE' # Never => obsN' * Window + after <= Ceiling + MaxBudget * obsE'
      PROVE  RateInv'
  BY <1>c, <1>d DEF RateInv, Credit, CreditOf, Ceiling
<1>e. ASSUME obsE # Never
      PROVE  /\ obsE \in Nat /\ obsN * Window \in Nat /\ MaxBudget * obsE \in Nat
             /\ obsN * Window + before <= Ceiling + MaxBudget * obsE
  BY <1>a, <1>b, <1>e DEF RateInv
<1>f. ASSUME after <= before, UNCHANGED <<obsN, obsE>>
      PROVE  RateInv'
  BY <1>a, <1>b, <1>c, <1>d, <1>e, <1>f
<1>1. CASE TickFails \/ RunRefused \/ SkipVerdict \/ RunEnds \/ Environment \/ UNCHANGED vars
  <2>1. UNCHANGED <<tokens, last, obsN, obsE>>
    BY <1>1 DEF TickFails, RunRefused, SkipVerdict, RunEnds, Environment, vars, PodDeleted, PodRemoved,
       PodEnds, PodReturns, CacheSyncs, LoadChanges, PolicyChanges, manager, history
  <2>2. after = before
    BY <1>b, <1>c, <2>1 DEF Credit
  <2> QED BY <1>b, <1>f, <2>1, <2>2
<1>2. CASE Measures
  <2>1. PICK p \in LoadPolicy, stalled \in BOOLEAN :
               \E level \in PressureLevels(stalled) :
                 \E out \in Proposals(Candidates, p, level, stalled) :
                   RunMeasures(p, level, out)
    BY <1>2 DEF Measures
  <2>2. PICK level, out : RunMeasures(p, level, out)
    BY <2>1
  <2>3. UNCHANGED <<last, obsN, obsE>> /\ tokens' \in {tokens, Min({tokens, p.max * Window})}
    BY <2>2 DEF RunMeasures
  <2>4. tokens \in Nat /\ p.max * Window \in Nat
    <3>1. p \in PolicyType
      BY <2>1, PolicyAssumption DEF LoadPolicy, TypeInv, TypeOK
    <3> QED BY <3>1, ConstantsType DEF PolicyType, TypeInv, TypeOK
  <2>5. tokens' \in Nat /\ tokens' <= tokens
    BY <2>3, <2>4, MinOfTwo
  <2>6. after <= before
    BY <1>b, <1>c, <2>3, <2>5, ClampCostsNothing
  <2> QED BY <1>f, <2>3, <2>6
<1>3. CASE RateLimited
  <2>1. UNCHANGED <<obsN, obsE>>
    BY <1>3 DEF RateLimited, history
  <2>2. CASE UNCHANGED <<tokens, last>>
    <3>1. after = before
      BY <1>b, <1>c, <2>2 DEF Credit
    <3> QED BY <1>b, <1>f, <2>1, <3>1
  <2>3. CASE tokens' = Refilled /\ last' = nowAge
    <3>1. after <= before
      BY <1>b, <1>c, <2>3, TokensCostCredit
    <3> QED BY <1>f, <2>1, <3>1
  <2> QED BY <1>3, <2>2, <2>3 DEF RateLimited
<1>4. ASSUME EvictionRefused \/ Tells PROVE after + Window <= before
  <2>1. HasToken /\ tokens' = Refilled - Window /\ last' = nowAge
    BY <1>4, TellsIsAccepted DEF EvictionRefused, Accepted, TakeToken
  <2> QED BY <1>b, <1>c, <2>1, TokensCostCredit
<1>5. CASE EvictionRefused
  <2>1. UNCHANGED <<obsN, obsE>>
    BY <1>5 DEF EvictionRefused, history
  <2>2. after <= before
    BY <1>a, <1>b, <1>c, <1>4, <1>5
  <2> QED BY <1>f, <2>1, <2>2
<1>6. CASE Tells
  <2>1. obsE' = obsE /\ (obsE # Never => obsN' = obsN + 1)
    BY <1>6, TellsIsAccepted DEF Accepted
  <2>2. after + Window <= before
    BY <1>4, <1>6
  <2>3. CASE obsE # Never
    <3>1. obsN' * Window = obsN * Window + Window
      BY <1>a, <2>1, <2>3
    <3> QED BY <1>a, <1>b, <1>c, <1>d, <1>e, <2>1, <2>2, <2>3, <3>1
  <2>4. CASE obsE = Never
    BY <1>d, <2>1, <2>4
  <2> QED BY <2>3, <2>4
<1>7. CASE Advance
  <2>1. tokens' = tokens /\ last' = Older(last, LastMax)
    BY <1>7 DEF Advance
  <2>2. after <= before + MaxBudget
    BY <1>b, <1>c, <2>1, TimeAddsCredit
  <2>3. CASE obsE' # Never
    <3>1. obsE # Never /\ obsN' = obsN /\ obsE' = obsE + 1
      BY <1>7, <1>a, <2>3, TimeAssumption DEF Advance, Older, Never
    <3>2. MaxBudget * obsE' = MaxBudget * obsE + MaxBudget
      BY <1>a, <1>e, <3>1
    <3> QED BY <1>a, <1>b, <1>c, <1>d, <1>e, <2>2, <3>1, <3>2
  <2>4. CASE obsE' = Never
    BY <1>d, <2>4
  <2> QED BY <2>3, <2>4
<1>8. CASE Restart
  BY <1>8 DEF Restart, RateInv
<1>9. CASE ObserverStarts
  <2>1. obsE' = 0 /\ obsN' = 0
    BY <1>9 DEF ObserverStarts
  <2>2. obsN' * Window = 0 /\ MaxBudget * obsE' = 0
    BY <1>a, <2>1
  <2> QED BY <1>a, <1>c, <1>d, <2>2
<1> QED BY <1>1, <1>2, <1>3, <1>5, <1>6, <1>7, <1>8, <1>9 DEF Next, Loop

\* However the observer's interval lies, at most a full budget and its refill is
\* spent on evictions in it: no sequence of policies, slow runs and refusals
\* makes the bucket give out more.
THEOREM RateLawHolds == Spec => []RateLaw
<1>1. Init => RateInv
  BY DEF Init, RateInv
<1>2. TypeInv /\ RateInv => RateLaw
  <2> SUFFICES ASSUME TypeInv, RateInv, obsE # Never
               PROVE  obsN * Window <= MaxBudget * (Window + RunLag + obsE)
    BY DEF RateLaw
  <2>1. /\ MaxBudget \in Nat /\ Window \in Nat /\ RunLag \in Nat
        /\ obsN \in Nat /\ obsE \in Nat
    BY PolicyAssumption, TimeAssumption DEF TypeInv, TypeOK
  <2>2. MaxBudget * (Window + RunLag + obsE) = Ceiling + MaxBudget * obsE
    BY <2>1 DEF Ceiling
  <2>3. obsN * Window \in Nat /\ Ceiling \in Nat /\ MaxBudget * obsE \in Nat
    BY <2>1 DEF Ceiling
  <2> QED BY <2>2, <2>3, TokensCostCredit DEF RateInv
<1> QED BY <1>1, <1>2, TypeInit, TypeStep, RateStep, PTL DEF Spec

-----------------------------------------------------------------------------
(* Untouchable pods.  They never make it past the candidates or the veto.    *)

\* kqos never evicts the system tier, a mirror pod or a system-critical pod.
THEOREM UntouchableHolds == Spec => []Untouchable
<1>1. Init => Untouchable
  BY DEF Init, Untouchable
<1>2. TypeInv /\ Untouchable /\ [Next]_vars => Untouchable'
  <2> SUFFICES ASSUME TypeInv, Untouchable, [Next]_vars,
                      NEW p \in Pods, ~Evictable(p) \/ p \in Mirror \cup Critical
               PROVE  pod'[p] # "terminating"
    BY DEF Untouchable, Evictable
  <2>1. pod[p] # "terminating"
    BY DEF Untouchable
  <2>2. CASE Evicts
    <3>1. PICK t \in Pods : t = Target
      BY <2>2, TellsIsAccepted, TargetType DEF Tells
    <3>2. ~Veto(t) /\ pod' = [pod EXCEPT ![t] = "terminating"]
      BY <2>2, <3>1, TellsIsAccepted DEF Tells, Evicts, Due
    <3>3. p # t
      BY <3>2 DEF Veto
    <3> QED BY <2>1, <3>2, <3>3 DEF TypeInv, TypeOK
  <2>3. CASE Environment
    BY <2>1, <2>3 DEF Environment, PodDeleted, PodRemoved, PodEnds, PodReturns, CacheSyncs, LoadChanges,
       PolicyChanges, TypeInv, TypeOK
  <2>4. CASE ReplyLost
    <3>1. PICK t \in Pods : t = Target
      BY <2>4, TellsIsAccepted, TargetType DEF Tells
    <3>2. pod' = [pod EXCEPT ![t] = IF pod[t] = "terminating" THEN pod[t] ELSE "leaving"]
      BY <2>4, <3>1 DEF ReplyLost
    <3> QED BY <2>1, <3>2 DEF TypeInv, TypeOK
  <2>5. CASE ~Tells /\ ~Environment
    <3>1. UNCHANGED pod
      BY <2>5 DEF Next, Loop, TickFails, RunRefused, TickStarts, Measures, RunMeasures,
         SkipVerdict, RateLimited, EvictionRefused, RunEnds, Advance, Restart, ObserverStarts,
         cluster, vars
    <3> QED BY <2>1, <3>1
  <2> QED BY <2>2, <2>3, <2>4, <2>5 DEF Tells
<1> QED BY <1>1, <1>2, TypeInit, TypeStep, PTL DEF Spec

-----------------------------------------------------------------------------
(* The order of the tiers.  A verdict is only reached after every candidate  *)
(* of a tier that is cheaper to lose: the plugins that are not about memory  *)
(* propose reclaimed pods alone, and a prefix of a ranking holds whatever     *)
(* ranks before its elements.                                                *)

InTierOrder(q, S, done) ==
  \A i \in DOMAIN q : \A p \in S :
    EvictionRank(p) > EvictionRank(q[i].pod) =>
      p \in done \/ \E j \in 1..(i - 1) : q[j].pod = p

TierInv == InTierOrder(queue, cand, seen)

LEMMA RankType ==
  ASSUME NEW p \in Pods
  PROVE  EvictionRank(p) \in 0..3 /\ (Tier[p] = "reclaimed" => EvictionRank(p) = 3)
  BY PodsAssumption DEF EvictionRank, Tiers

LEMMA ReclaimedFirst ==
  ASSUME NEW S, S \subseteq Pods, NEW q \in Seq(VerdictsOn(S)), NEW done,
         \A i \in DOMAIN q : Tier[q[i].pod] = "reclaimed"
  PROVE  InTierOrder(q, S, done)
<1>1. ASSUME NEW i \in DOMAIN q, NEW p \in S
      PROVE  ~(EvictionRank(p) > EvictionRank(q[i].pod))
  <2>1. q[i].pod \in Pods
    <3>1. q[i] \in VerdictsOn(S)
      BY DOMAIN q = 1..Len(q), ElementOfSeq
    <3> QED BY <3>1 DEF VerdictsOn
  <2>2. EvictionRank(q[i].pod) = 3 /\ EvictionRank(p) \in 0..3
    BY <2>1, RankType
  <2> QED BY <2>2
<1> QED BY <1>1 DEF InTierOrder

\* Plugins run one after the other, and so do their verdicts.
LEMMA OrderedConcat ==
  ASSUME NEW S, NEW done, NEW a \in Seq(VerdictsOn(S)), NEW b \in Seq(VerdictsOn(S)),
         InTierOrder(a, S, done), InTierOrder(b, S, done)
  PROVE  a \o b \in Seq(VerdictsOn(S)) /\ InTierOrder(a \o b, S, done)
<1>1. /\ a \o b \in Seq(VerdictsOn(S)) /\ Len(a \o b) = Len(a) + Len(b)
      /\ \A i \in 1..(Len(a) + Len(b)) :
           (a \o b)[i] = IF i <= Len(a) THEN a[i] ELSE b[i - Len(a)]
  BY ConcatProperties
<1>2. Len(a) \in Nat /\ Len(b) \in Nat /\ DOMAIN a = 1..Len(a) /\ DOMAIN b = 1..Len(b)
      /\ DOMAIN (a \o b) = 1..(Len(a) + Len(b))
  BY <1>1, LenProperties
<1> DEFINE ab == a \o b
<1> HIDE DEF ab
<1>3. ASSUME NEW i \in 1..(Len(a) + Len(b)), NEW p \in S,
             EvictionRank(p) > EvictionRank(ab[i].pod), p \notin done
      PROVE  \E j \in 1..(i - 1) : ab[j].pod = p
  <2>1. CASE i <= Len(a)
    <3>1. i \in DOMAIN a /\ ab[i] = a[i]
      BY <1>1, <1>2, <2>1 DEF ab
    <3>2. PICK j \in 1..(i - 1) : a[j].pod = p
      BY <1>3, <3>1 DEF InTierOrder
    <3>3. ab[j] = a[j]
      BY <1>1, <1>2, <2>1, <3>1 DEF ab
    <3> QED BY <3>2, <3>3
  <2>2. CASE i > Len(a)
    <3> DEFINE k == i - Len(a)
    <3>1. k \in DOMAIN b /\ ab[i] = b[k]
      BY <1>1, <1>2, <2>2 DEF ab
    <3>2. PICK j \in 1..(k - 1) : b[j].pod = p
      BY <1>3, <3>1 DEF InTierOrder
    <3>3. j + Len(a) \in 1..(i - 1) /\ ~(j + Len(a) <= Len(a)) /\ j + Len(a) - Len(a) = j
      BY <1>2, <2>2
    <3>4. ab[j + Len(a)] = b[j]
      BY <1>1, <1>2, <3>3 DEF ab
    <3> QED BY <3>2, <3>3, <3>4
  <2> QED BY <1>2, <2>1, <2>2
<1>4. InTierOrder(ab, S, done)
  BY <1>2, <1>3 DEF InTierOrder, ab
<1> QED BY <1>1, <1>4 DEF ab

\* A ranking lists every pod of its set.
LEMMA RankingIsOnto ==
  ASSUME NEW S, IsFiniteSet(S), NEW before, NEW q \in Rankings(S, before), NEW p \in S
  PROVE  \E i \in 1..Cardinality(S) : q[i] = p
<1>1. Cardinality(S) \in Nat /\ q \in [1..Cardinality(S) -> S]
  BY FS_CardinalityType DEF Rankings
<1>2. \A i, j \in 1..Cardinality(S) : i < j => q[i] # q[j]
  BY <1>1 DEF Rankings
<1>3. \A i, j \in 1..Cardinality(S) : q[i] = q[j] => i = j
  BY <1>1, <1>2
<1>4. q \in Injection(1..Cardinality(S), S)
  BY <1>1, <1>3 DEF Injection, IsInjective
<1>5. Cardinality(1..Cardinality(S)) = Cardinality(S)
  BY <1>1, FS_Interval
<1>6. q \in Surjection(1..Cardinality(S), S)
  BY <1>4, <1>5, FS_Injection
<1> QED BY <1>6 DEF Surjection

LEMMA MemoryPressureOrdered ==
  ASSUME NEW S, IsFiniteSet(S), S \subseteq Pods, NEW done, NEW out \in MemoryPressure(S)
  PROVE  InTierOrder(out, S, done)
<1>1. CASE out = <<>>
  BY <1>1 DEF InTierOrder
<1>2. CASE out # <<>>
  <2> DEFINE before == {r \in S \X S : RankBefore(r[1], r[2])}
  <2>1. PICK q \in Rankings(S, before) :
               out = Verdicts(SubSeq(q, 1, Enough(q)), "memory-pressure")
    BY <1>2 DEF MemoryPressure
  <2>2. /\ q \in [1..Cardinality(S) -> S] /\ Cardinality(S) \in Nat
        /\ \A i, j \in 1..Cardinality(S) : i < j => <<q[j], q[i]>> \notin before
    BY <2>1, FS_CardinalityType DEF Rankings
  <2>3. Enough(q) \in 0..Cardinality(S)
    <3>1. IsFiniteSet(1..Cardinality(S)) /\ Cardinality(1..Cardinality(S)) = Cardinality(S)
      BY <2>2, FS_Interval
    <3>2. DOMAIN q = 1..Cardinality(S)
      BY <2>2
    <3> QED BY <2>2, <3>1, <3>2, FS_Subset, FS_CardinalityType DEF Enough
  <2>4. DOMAIN out = 1..Enough(q) /\ \A i \in 1..Enough(q) : out[i].pod = q[i]
    <3>1. SubSeq(q, 1, Enough(q)) = [i \in 1..Enough(q) |-> q[i]]
      BY <2>3
    <3> QED BY <2>1, <3>1 DEF Verdicts
  <2>5. ASSUME NEW i \in 1..Enough(q), NEW p \in S, EvictionRank(p) > EvictionRank(q[i])
        PROVE  \E j \in 1..(i - 1) : out[j].pod = p
    <3>1. PICK k \in 1..Cardinality(S) : q[k] = p
      BY <2>1, RankingIsOnto
    <3>2. i \in 1..Cardinality(S) /\ q[i] \in S
      BY <2>2, <2>3
    <3>3. <<q[k], q[i]>> \in before
      BY <2>5, <3>1, <3>2 DEF RankBefore
    <3>4. ~(i < k)
      BY <2>2, <3>2, <3>3
    <3>5. k # i
      <4>1. EvictionRank(p) \in Int
        BY RankType
      <4> QED BY <2>5, <3>1, <4>1
    <3>6. k \in 1..(i - 1) /\ k \in 1..Enough(q)
      BY <2>3, <3>2, <3>4, <3>5
    <3> QED BY <2>4, <3>1, <3>6
  <2> QED BY <2>4, <2>5 DEF InTierOrder
<1> QED BY <1>1, <1>2

LEMMA ProposalsOrdered ==
  ASSUME NEW S, IsFiniteSet(S), S \subseteq Pods, NEW p, NEW level, NEW stalled,
         NEW out \in Proposals(S, p, level, stalled), NEW done
  PROVE  InTierOrder(out, S, done)
<1>1. PICK a \in From(p, "cpu-suppression", CpuSuppression(S, stalled)),
           b \in From(p, "memory-pressure", MemoryPressure(S)),
           c \in From(p, "reclaimed-overrun", ReclaimedOverrun(S, level)) :
        out = a \o b \o c
  BY DEF Proposals
<1>2. <<>> \in Seq(VerdictsOn(S)) /\ InTierOrder(<<>>, S, done)
  BY DEF InTierOrder
<1>3. a \in Seq(VerdictsOn(S)) /\ InTierOrder(a, S, done)
  <2>1. CASE a = <<>>
    BY <1>2, <2>1
  <2>2. CASE a # <<>>
    <3>1. a \in CpuSuppression(S, stalled)
      BY <2>2 DEF From
    <3>2. a \in Seq(VerdictsOn(S))
      BY <3>1, CpuSuppressionType
    <3>3. PICK r \in S : Tier[r] = "reclaimed" /\ a = <<[pod |-> r, plugin |-> "cpu-suppression"]>>
      BY <2>2, <3>1 DEF CpuSuppression
    <3>4. \A i \in DOMAIN a : Tier[a[i].pod] = "reclaimed"
      BY <3>3
    <3> QED BY <3>2, <3>4, ReclaimedFirst
  <2> QED BY <2>1, <2>2
<1>4. b \in Seq(VerdictsOn(S)) /\ InTierOrder(b, S, done)
  BY <1>2, MemoryPressureType, MemoryPressureOrdered DEF From
<1>5. c \in Seq(VerdictsOn(S)) /\ InTierOrder(c, S, done)
  <2>1. CASE c = <<>>
    BY <1>2, <2>1
  <2>2. CASE c # <<>>
    <3>1. c \in ReclaimedOverrun(S, level)
      BY <2>2 DEF From
    <3>2. c \in Seq(VerdictsOn(S))
      BY <3>1, ReclaimedOverrunType
    <3> DEFINE over == {r \in S : /\ Tier[r] = "reclaimed"
                                  /\ Req[r] > 0 /\ CpuOf(r) >= 3 * Req[r]}
    <3>3. PICK q \in [1..Cardinality(over) -> over] : c = Verdicts(q, "reclaimed-overrun")
      BY <2>2, <3>1 DEF ReclaimedOverrun, Rankings
    <3>4. \A i \in DOMAIN c : Tier[c[i].pod] = "reclaimed"
      BY <3>3 DEF Verdicts
    <3> QED BY <3>2, <3>4, ReclaimedFirst
  <2> QED BY <2>1, <2>2
<1>6. a \o b \in Seq(VerdictsOn(S)) /\ InTierOrder(a \o b, S, done)
  BY <1>3, <1>4, OrderedConcat
<1> QED BY <1>1, <1>5, <1>6, OrderedConcat

\* Dealing with a verdict moves its pod from the queue to the pods seen.
LEMMA OrderedTail ==
  ASSUME TypeInv, TierInv, AtVerdict, NextVerdict
  PROVE  TierInv'
<1>1. /\ queue \in Seq(VerdictsOn(cand)) /\ queue # <<>>
      /\ queue' = Tail(queue) /\ seen' = seen \cup {Target} /\ cand' = cand
  BY DEF TypeInv, QueueOK, AtVerdict, NextVerdict
<1>2. /\ Len(queue) \in Nat /\ Len(queue) >= 1 /\ DOMAIN queue = 1..Len(queue)
      /\ DOMAIN queue' = 1..(Len(queue) - 1) /\ Target = queue[1].pod
      /\ \A i \in 1..(Len(queue) - 1) : queue'[i] = queue[i + 1]
  BY <1>1, HeadTailProperties, LenProperties DEF Target
<1>3. ASSUME NEW i \in DOMAIN queue', NEW p \in cand,
             EvictionRank(p) > EvictionRank(queue'[i].pod), p \notin seen'
      PROVE  \E j \in 1..(i - 1) : queue'[j].pod = p
  <2>1. i + 1 \in DOMAIN queue /\ queue'[i] = queue[i + 1] /\ p \notin seen
    <3>1. i \in 1..(Len(queue) - 1)
      BY <1>2
    <3> QED BY <1>1, <1>2, <1>3, <3>1
  <2>2. PICK j \in 1..i : queue[j].pod = p
    <3>1. \E j \in 1..((i + 1) - 1) : queue[j].pod = p
      BY <1>3, <2>1 DEF TierInv, InTierOrder
    <3>2. (i + 1) - 1 = i
      BY <1>2
    <3> QED BY <3>1, <3>2
  <2>3. j # 1
    BY <1>1, <1>2, <1>3, <2>2
  <2>4. j - 1 \in 1..(i - 1) /\ queue'[j - 1] = queue[j]
    BY <1>2, <2>2, <2>3
  <2> QED BY <2>2, <2>4
<1>4. InTierOrder(queue', cand', seen')
  BY <1>1, <1>3 DEF InTierOrder
<1> QED BY <1>4 DEF TierInv, InTierOrder, EvictionRank

LEMMA TierStep == TypeInv /\ TierInv /\ [Next]_vars => TierInv'
<1> SUFFICES ASSUME TypeInv, TierInv, [Next]_vars PROVE TierInv'
  OBVIOUS
<1>a. ASSUME UNCHANGED <<queue, cand, seen>> PROVE TierInv'
  BY <1>a DEF TierInv, InTierOrder, EvictionRank
<1>b. ASSUME queue' = <<>> PROVE TierInv'
  BY <1>b DEF TierInv, InTierOrder
<1>1. CASE TickFails \/ RunRefused \/ Advance \/ Environment \/ ObserverStarts \/ UNCHANGED vars
  <2>1. UNCHANGED <<queue, cand, seen>>
    BY <1>1 DEF TickFails, RunRefused, Advance, Environment, ObserverStarts, vars, PodDeleted, PodRemoved,
       PodEnds, PodReturns, CacheSyncs, LoadChanges, PolicyChanges, local
  <2> QED BY <1>a, <2>1
<1>2. CASE Measures
  <2>1. PICK p \in LoadPolicy, stalled \in BOOLEAN :
               \E level \in PressureLevels(stalled) :
                 \E out \in Proposals(Candidates, p, level, stalled) :
                   RunMeasures(p, level, out)
    BY <1>2 DEF Measures
  <2>2. PICK level \in PressureLevels(stalled) :
               \E out \in Proposals(Candidates, p, level, stalled) :
                 RunMeasures(p, level, out)
    BY <2>1
  <2>3. PICK out \in Proposals(Candidates, p, level, stalled) : RunMeasures(p, level, out)
    BY <2>2
  <2>4. CASE UNCHANGED <<tokens, local>>
    BY <1>a, <2>4 DEF local
  <2>5. CASE ~UNCHANGED <<tokens, local>>
    <3>1. cand' = Candidates /\ queue' = out /\ seen' = {}
      BY <2>3, <2>5 DEF RunMeasures
    <3>2. InTierOrder(out, Candidates, {})
      BY <2>3, CandidatesFinite, ProposalsOrdered
    <3>3. InTierOrder(queue', cand', seen')
      BY <3>1, <3>2
    <3> QED BY <3>3 DEF TierInv, InTierOrder, EvictionRank
  <2> QED BY <2>4, <2>5
<1>3. CASE SkipVerdict \/ EvictionRefused \/ Tells
  <2>1. AtVerdict /\ NextVerdict
    BY <1>3, TellsIsAccepted DEF SkipVerdict, EvictionRefused, Accepted, Due
  <2> QED BY <2>1, OrderedTail
<1>4. CASE RateLimited \/ RunEnds \/ Restart
  BY <1>4, <1>b DEF RateLimited, RunEnds, Restart, AtRest
<1> QED BY <1>1, <1>2, <1>3, <1>4 DEF Next, Loop

\* A pod is evicted only after every candidate of a tier that is cheaper to lose
\* was evicted, refused or vetoed in the same run, for any set of pods, any sizes
\* and any set of plugins (plugins.go, rankByTierThenUsage).
THEOREM TierOrderHolds == Spec => TierOrder
<1>1. Init => TierInv
  BY DEF Init, TierInv, InTierOrder
<1>2. TypeInv /\ TierInv /\ [Next]_vars
        => [Tells => \A q \in cand : EvictionRank(q) > EvictionRank(Target) => q \in seen]_vars
  <2> SUFFICES ASSUME TypeInv, TierInv, Tells, NEW q \in cand,
                      EvictionRank(q) > EvictionRank(Target)
               PROVE  q \in seen
    OBVIOUS
  <2>1. queue \in Seq(VerdictsOn(cand)) /\ queue # <<>>
    BY TellsIsAccepted DEF TypeInv, QueueOK, AtVerdict
  <2>2. 1 \in DOMAIN queue /\ Target = queue[1].pod
    BY <2>1, HeadTailProperties, LenProperties DEF Target
  <2>3. q \in seen \/ \E j \in 1..(1 - 1) : queue[j].pod = q
    BY <2>2 DEF TierInv, InTierOrder
  <2> QED BY <2>3
<1> QED BY <1>1, <1>2, TypeInit, TypeStep, TierStep, PTL DEF Spec, TierOrder

-----------------------------------------------------------------------------
(* Refinement.  Under the mapping of Eviction (the pods that were told to   *)
(* go, and the credit of the token bucket) every behaviour of the manager is one *)
(* of the limiter.                                                           *)

\* What the steps are mapped under.
SafeInv == TypeInv /\ VetoInv /\ Untouchable

LEMMA CreditType == TypeInv => Credit \in 0..Ceiling
  BY CreditBounded DEF TypeInv, TypeOK, Credit

LEMMA NextCreditType ==
  ASSUME TypeInv'
  PROVE  Credit' \in 0..Ceiling /\ Credit' = CreditOf(tokens', last')
<1>1. tokens' \in 0..(MaxBudget * Window) /\ last' \in {Never} \cup 0..LastMax
  BY DEF TypeInv, TypeOK, LastMax
<1>2. Credit' = CreditOf(tokens', last')
  BY DEF Credit, CreditOf, Ceiling
<1> QED BY <1>1, <1>2, CreditBounded

\* Steps that neither touch the bucket nor send a pod away are invisible.
LEMMA Invisible ==
  ASSUME UNCHANGED <<tokens, last, obsN, obsE>>, Terminating' = Terminating
  PROVE  UNCHANGED L!vars
  BY DEF L!vars, Credit

\* Steps that only take from the account.
LEMMA Forfeit ==
  ASSUME TypeInv, TypeInv', CreditOf(tokens', last') <= Credit,
         UNCHANGED <<pod, obsN, obsE>>
  PROVE  L!Forfeits
<1>1. Credit' \in 0..Ceiling /\ Credit \in 0..Ceiling
  BY NextCreditType, CreditType
<1>2. Ceiling \in Nat
  BY PolicyAssumption, TimeAssumption DEF Ceiling
<1>3. Credit' <= Credit
  BY NextCreditType
<1>4. Credit' \in 0..Credit
  BY <1>1, <1>2, <1>3
<1> QED BY <1>4 DEF L!Forfeits, L!observer, Terminating

LEMMA MeasuresForfeits ==
  ASSUME TypeInv, TypeInv', Measures
  PROVE  L!Forfeits
<1>1. PICK p \in LoadPolicy, stalled \in BOOLEAN :
             \E level \in PressureLevels(stalled) :
               \E out \in Proposals(Candidates, p, level, stalled) :
                 RunMeasures(p, level, out)
  BY DEF Measures
<1>2. PICK level, out : RunMeasures(p, level, out)
  BY <1>1
<1>3. UNCHANGED <<pod, last, obsN, obsE>> /\ tokens' \in {tokens, Min({tokens, p.max * Window})}
  BY <1>2 DEF RunMeasures, TickStarts, cluster
<1>4. tokens \in Nat /\ p.max * Window \in Nat
  <2>1. p \in PolicyType
    BY <1>1, PolicyAssumption DEF LoadPolicy, TypeInv, TypeOK
  <2> QED BY <2>1, ConstantsType DEF PolicyType, TypeInv, TypeOK
<1>5. tokens' \in Nat /\ tokens' <= tokens
  BY <1>3, <1>4, MinOfTwo
<1> QED BY <1>3, <1>5, ClampCostsNothing, Forfeit

LEMMA LoopForfeits ==
  ASSUME TypeInv, TypeInv', RateLimited \/ EvictionRefused
  PROVE  L!Forfeits
<1>1. UNCHANGED <<pod, obsN, obsE>>
  BY DEF RateLimited, EvictionRefused, cluster, history
<1>2. CreditOf(tokens', last') <= Credit
  <2>1. Credit \in Int /\ CreditOf(Refilled, nowAge) <= Credit
    BY TokensCostCredit
  <2>2. CASE UNCHANGED <<tokens, last>>
    BY <2>1, <2>2 DEF Credit
  <2>3. CASE tokens' = Refilled /\ last' = nowAge
    BY <2>1, <2>3
  <2>4. CASE EvictionRefused
    <3>1. HasToken /\ tokens' = Refilled - Window /\ last' = nowAge
      BY <2>4 DEF EvictionRefused, TakeToken
    <3>2. Window \in Nat /\ CreditOf(tokens', last') \in Int
      <4>1. tokens' \in 0..(MaxBudget * Window) /\ last' \in {Never} \cup 0..LastMax
        BY DEF TypeInv, TypeOK, LastMax
      <4>2. CreditOf(tokens', last') \in 0..Ceiling
        BY <4>1, CreditBounded
      <4> QED BY <4>2, TimeAssumption
    <3> QED BY <2>1, <3>1, <3>2, TokensCostCredit
  <2> QED BY <2>2, <2>3, <2>4 DEF RateLimited
<1> QED BY <1>1, <1>2, Forfeit

\* Telling a pod to go is paid for whether the reply comes or not.
LEMMA TellsPays ==
  ASSUME SafeInv, TypeInv', Tells
  PROVE  Target \in Pods /\ Target \notin Terminating \cup Protected /\ L!Pays
<1> USE DEF SafeInv
<1>1. Target \in Pods /\ Target \in cand /\ ~Veto(Target) /\ Target \notin seen /\ pc = "loop"
  BY TellsIsAccepted, TargetType DEF Due, AtVerdict
<1>2. Target \notin Terminating
  BY <1>1 DEF Veto, VetoInv, Terminating
<1>3. Target \notin Protected
  BY <1>1 DEF Veto, Protected
<1>4. Credit' + Window <= Credit /\ Credit' >= 0
  <2>1. HasToken /\ tokens' = Refilled - Window /\ last' = nowAge
    BY TellsIsAccepted DEF Accepted, TakeToken
  <2>2. Credit' = CreditOf(Refilled - Window, nowAge)
    BY <2>1 DEF Credit, CreditOf, Ceiling
  <2>3. Credit' \in 0..Ceiling
    BY NextCreditType
  <2>4. Ceiling \in Nat
    BY PolicyAssumption, TimeAssumption DEF Ceiling
  <2> QED BY <2>1, <2>2, <2>3, <2>4, TokensCostCredit
<1>5. obsN' = (IF obsE = Never THEN 0 ELSE obsN + 1) /\ obsE' = obsE
  BY TellsIsAccepted DEF Accepted
<1>6. L!Pays
  BY <1>4, <1>5 DEF L!Pays, L!Never, Never
<1> QED BY <1>1, <1>2, <1>3, <1>6

LEMMA EvictsTells ==
  ASSUME SafeInv, TypeInv', Tells
  PROVE  \E p \in Pods : L!Tells(p) \/ L!TellsUnheard(p)
<1> USE DEF SafeInv
<1>1. PICK t \in Pods : t = Target /\ t \notin Terminating \cup Protected /\ L!Pays
  BY TellsPays
<1>2. CASE Evicts
  <2>1. Terminating' = Terminating \cup {t}
    BY <1>1, <1>2 DEF Evicts, Terminating, TypeInv, TypeOK
  <2>2. L!Tells(t)
    BY <1>1, <2>1 DEF L!Tells
  <2> QED BY <1>1, <2>2
<1>3. CASE ReplyLost
  <2>1. pod' = [pod EXCEPT ![t] = "leaving"]
    BY <1>1, <1>3 DEF ReplyLost, Terminating
  <2>2. Terminating' = Terminating
    BY <1>1, <2>1 DEF Terminating, TypeInv, TypeOK
  <2>3. L!TellsUnheard(t)
    BY <1>1, <2>2 DEF L!TellsUnheard
  <2> QED BY <1>1, <2>3
<1> QED BY <1>2, <1>3 DEF Tells

LEMMA AdvanceTicks ==
  ASSUME TypeInv, TypeInv', Advance
  PROVE  L!Ticks
<1>1. tokens' = tokens /\ last' = Older(last, LastMax) /\ UNCHANGED pod
  BY DEF Advance
<1>2. Credit' <= Credit + MaxBudget
  <2>1. Credit' = CreditOf(tokens, Older(last, LastMax))
    BY <1>1 DEF Credit, CreditOf, Ceiling
  <2> QED BY <2>1, TimeAddsCredit
<1>3. Credit' \in 0..Ceiling
  BY NextCreditType
<1>4. Terminating' = Terminating
  BY <1>1 DEF Terminating
<1>5. IF obsE \in {Never, MaxObs} THEN obsE' = Never ELSE obsE' = obsE + 1
  BY TimeAssumption DEF Advance, Older, TypeInv, TypeOK, Never
<1>6. obsN' = IF obsE = MaxObs THEN 0 ELSE obsN
  BY DEF Advance
<1> QED BY <1>2, <1>3, <1>4, <1>5, <1>6 DEF L!Ticks, L!Never, Never, Ceiling

LEMMA Simulation == SafeInv /\ TypeInv' /\ [Next]_vars => [L!Next]_(L!vars)
<1> SUFFICES ASSUME SafeInv, TypeInv', [Next]_vars PROVE L!Next \/ UNCHANGED L!vars
  OBVIOUS
<1> USE DEF SafeInv
<1>1. CASE TickFails \/ RunRefused \/ SkipVerdict \/ RunEnds \/ UNCHANGED vars
  <2>1. UNCHANGED <<pod, tokens, last, obsN, obsE>>
    BY <1>1 DEF TickFails, RunRefused, TickStarts, SkipVerdict, RunEnds, vars, cluster, manager,
       history
  <2> QED BY <2>1, Invisible DEF Terminating
<1>2. CASE Environment
  <2>1. UNCHANGED <<tokens, last, obsN, obsE>>
    BY <1>2 DEF Environment, PodDeleted, PodRemoved, PodEnds, PodReturns, CacheSyncs, LoadChanges,
       PolicyChanges, manager, history
  <2>2. ASSUME NEW p \in Pods, PodRemoved(p), pod[p] = "terminating" PROVE L!Next
    <3>1. p \in Terminating /\ Terminating' = Terminating \ {p}
      BY <2>2 DEF PodRemoved, Terminating, TypeInv, TypeOK
    <3>2. Credit' = Credit
      BY <2>1 DEF Credit
    <3> QED BY <2>1, <3>1, <3>2 DEF L!Next, L!Goes, L!observer
  <2>3. ASSUME NEW p \in Pods, pod[p] # "terminating",
               PodDeleted(p) \/ PodRemoved(p) \/ PodEnds(p) \/ PodReturns(p)
        PROVE  Terminating' = Terminating
    BY <2>3 DEF PodDeleted, PodRemoved, PodEnds, PodReturns, Terminating, TypeInv, TypeOK
  <2>4. ASSUME (\E p \in Pods : CacheSyncs(p)) \/ LoadChanges \/ PolicyChanges
        PROVE  Terminating' = Terminating
    BY <2>4 DEF CacheSyncs, LoadChanges, PolicyChanges, Terminating
  <2>5. \A p \in Pods : pod[p] = "terminating" => ~PodDeleted(p) /\ ~PodEnds(p) /\ ~PodReturns(p)
    BY DEF PodDeleted, PodEnds, PodReturns
  <2> QED BY <1>2, <2>1, <2>2, <2>3, <2>4, <2>5, Invisible DEF Environment
<1>3. CASE Measures
  BY <1>3, MeasuresForfeits DEF L!Next
<1>4. CASE RateLimited \/ EvictionRefused
  BY <1>4, LoopForfeits DEF L!Next
<1>5. CASE Tells
  BY <1>5, EvictsTells DEF L!Next
<1>6. CASE Advance
  BY <1>6, AdvanceTicks DEF L!Next
<1>7. CASE Restart
  <2>1. Credit' \in 0..Ceiling
    BY NextCreditType
  <2>2. Terminating' = Terminating /\ obsN' = 0 /\ obsE' = Never
    BY <1>7 DEF Restart, Terminating
  <2> QED BY <2>1, <2>2 DEF L!Next, L!StartsOver, L!Never, Never, Ceiling
<1>8. CASE ObserverStarts
  <2>1. UNCHANGED <<pod, tokens, last>> /\ obsE = Never /\ obsE' = 0 /\ obsN' = 0
    BY <1>8 DEF ObserverStarts, cluster, manager
  <2>2. Terminating' = Terminating /\ Credit' = Credit
    BY <2>1 DEF Terminating, Credit
  <2> QED BY <2>1, <2>2 DEF L!Next, L!Observes, L!Never, Never
<1> QED BY <1>1, <1>2, <1>3, <1>4, <1>5, <1>6, <1>7, <1>8 DEF Next, Loop

\* A manager starts as a limiter does.
LEMMA InitSimulation == Init => L!Init
<1> SUFFICES ASSUME Init PROVE L!Init
  OBVIOUS
<1>1. Credit \in 0..Ceiling
  BY TypeInit, CreditType
<1>2. Terminating = {} /\ obsN = 0 /\ obsE = Never
  BY DEF Init, Terminating
<1> QED BY <1>1, <1>2 DEF L!Init, L!Never, Never

\* The eviction manager is a limiter, for every node, policy and choice of times.
THEOREM Refinement == Spec => Limited
<1>1. Init => VetoInv
  BY DEF Init, VetoInv
<1>2. Spec => []SafeInv
  BY <1>1, TypeInit, TypeStep, VetoStep, UntouchableHolds, PTL DEF Spec, SafeInv
<1>3. SafeInv => TypeInv
  BY DEF SafeInv
<1> QED BY <1>2, <1>3, InitSimulation, Simulation, PTL DEF Spec, L!Spec, Limited
=============================================================================
