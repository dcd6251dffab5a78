---------------------------- MODULE RollupProofs ----------------------------
(***************************************************************************)
(* Proofs about Rollup: within the settling time the status says what the  *)
(* profiles say, for every set of nodes, every liveness window, requeue,   *)
(* delay of a retry and lag of the caches.                                 *)
(***************************************************************************)
EXTENDS Rollup, FiniteSetTheorems, TLAPS

-----------------------------------------------------------------------------
(* The invariant.                                                           *)

\* Where no event is due, a cache is what it copies.
Synced == leader =>
  /\ "profiles" \notin news => seen = profile
  /\ "nodes" \notin news => labelSeen = labelled
  /\ "policy" \notin news => policySeen = policy

\* An event that is not due has not been waiting, and without a leader nothing is.
Calm ==
  /\ \A i \in Informers : i \notin news => lag[i] = 0
  /\ ~leader => since = 0 /\ news = {}

Has(n)    == profile[n] # NoProfile
Counts(n) == Has(n) /\ (policy.selective => n \in labelled)

\* A profile in the cache that is not the one on the server: reports made it younger
\* since, and it does not expire before the cache follows.
Younger(n) ==
  /\ profile[n].pressured <=> seen[n].pressured
  /\ profile[n].age <= seen[n].age
  /\ seen[n].age + MaxLag < Alive + lag["profiles"]

\* What was quiet for longer than a cache trails shows nothing else in the counts.
SeesProfiles == leader /\ since > lag["profiles"] =>
  \A n \in Nodes : /\ Has(n) <=> seen[n] # NoProfile
                   /\ Counts(n) => seen[n] = profile[n] \/ Younger(n)

SeesNodes == leader /\ since > lag["nodes"] /\ policy.selective =>
  \A n \in Nodes : Has(n) => (n \in labelSeen <=> n \in labelled)

SeesPolicy == leader /\ since > lag["policy"] =>
  policySeen.exists = policy.exists /\ policySeen.selective = policy.selective

Queued == leader /\ policySeen.exists => wake # Off

Behind == policy.exists /\ policy.status # Truth

\* A status that is behind is corrected by the event of a patch, by the next pass on
\* the timer, or by the pass that is ready.
Due == Behind =>
  /\ "policy" \in news => since <= lag["policy"] + MaxLag
  /\ since > MaxLag => \/ "policy" \in news
                       \/ wake # Off /\ wake + since <= MaxLag + Longest
                       \/ wake = 0 /\ since <= 2 * MaxLag

Inv == /\ TypeOK /\ Synced /\ Calm /\ SeesProfiles /\ SeesNodes /\ SeesPolicy /\ Queued
       /\ Due

-----------------------------------------------------------------------------
(* Types.                                                                   *)

LEMMA Times == /\ Alive \in Nat /\ Alive > 0 /\ Requeue \in Nat /\ Requeue > 0
               /\ Backoff \in Nat /\ Longest \in Nat /\ Requeue <= Longest /\ Backoff <= Longest
               /\ MaxLag \in Nat /\ MaxLag < Alive
               /\ Settling \in Nat /\ Settling > 0 /\ Settling > MaxLag + Longest
               /\ Settling > 2 * MaxLag /\ Off = -1
  BY TimeAssumption DEF Settling, Longest, Off

LEMMA ProfileTypes ==
  /\ NoProfile \in Profiles /\ NoProfile.age = Off
  /\ Blank \in Profiles /\ Blank # NoProfile
  /\ \A p \in Profiles : p # NoProfile => p.age \in 0..Alive /\ p \in [age : 0..Alive, pressured : BOOLEAN]
  /\ \A a \in 0..Alive, b \in BOOLEAN : LET p == [age |-> a, pressured |-> b]
                                        IN p \in Profiles /\ p # NoProfile
<1>1. NoProfile = [age |-> Off, pressured |-> TRUE]
  BY DEF NoProfile
<1>2. Blank = [age |-> Alive, pressured |-> TRUE] /\ Alive \in 0..Alive
  BY Times DEF Blank
<1>3. \A a \in 0..Alive, b \in BOOLEAN : [age |-> a, pressured |-> b] # NoProfile
  BY <1>1, Times
<1> QED BY <1>1, <1>2, <1>3 DEF Profiles

LEMMA OlderType ==
  ASSUME NEW ps \in [Nodes -> Profiles]
  PROVE  /\ Older(ps) \in [Nodes -> Profiles]
         /\ \A n \in Nodes : /\ ps[n] = NoProfile => Older(ps)[n] = NoProfile
                             /\ ps[n] # NoProfile =>
                                  /\ Older(ps)[n] # NoProfile
                                  /\ Older(ps)[n].pressured = ps[n].pressured
                                  /\ Older(ps)[n].age = IF ps[n].age = Alive THEN Alive ELSE ps[n].age + 1
<1>1. ASSUME NEW n \in Nodes, ps[n] = NoProfile PROVE Older(ps)[n] = NoProfile
  BY <1>1, ProfileTypes DEF Older
<1>2. ASSUME NEW n \in Nodes, ps[n] # NoProfile
      PROVE  /\ Older(ps)[n] \in Profiles /\ Older(ps)[n] # NoProfile
             /\ Older(ps)[n].pressured = ps[n].pressured
             /\ Older(ps)[n].age = IF ps[n].age = Alive THEN Alive ELSE ps[n].age + 1
  <2>1. ps[n] \in [age : 0..Alive, pressured : BOOLEAN] /\ ps[n].age \in 0..Alive
    BY <1>2, ProfileTypes
  <2>2. CASE ps[n].age = Alive
    BY <1>2, <2>1, <2>2 DEF Older
  <2>3. CASE ps[n].age # Alive
    <3>1. ps[n].age \notin {Off, Alive} /\ ps[n].age + 1 \in 0..Alive
      BY <2>1, <2>3, Times
    <3>2. Older(ps)[n] = [ps[n] EXCEPT !.age = ps[n].age + 1]
      BY <3>1 DEF Older
    <3>3. Older(ps)[n] = [age |-> ps[n].age + 1, pressured |-> ps[n].pressured]
      BY <2>1, <3>2
    <3> QED BY <2>1, <2>3, <3>1, <3>3, ProfileTypes
  <2> QED BY <2>2, <2>3
<1>3. Older(ps) = [n \in Nodes |-> Older(ps)[n]]
  BY DEF Older
<1>4. \A n \in Nodes : Older(ps)[n] \in Profiles
  BY <1>1, <1>2, ProfileTypes
<1> QED BY <1>1, <1>2, <1>3, <1>4

LEMMA RolledType == \A ps, ls, pol : Rolled(ps, ls, pol) \in [Fields -> Nat]
<1> TAKE ps, ls, pol
<1> DEFINE M == Matched(ps, ls, pol)
<1>1. IsFiniteSet(M) /\ M \subseteq Nodes
  BY NodesAssumption, FS_Subset DEF Matched
<1>2. /\ Cardinality(M) \in Nat /\ Cardinality({n \in M : Live(ps[n])}) \in Nat
      /\ Cardinality({n \in M : ps[n].pressured}) \in Nat
  BY <1>1, FS_Subset, FS_CardinalityType
<1> QED BY <1>2 DEF Rolled, Fields

LEMMA PolicyTypes ==
  /\ NoPolicy \in Policies /\ ~NoPolicy.exists /\ Unrolled \in [Fields -> Nat]
  /\ \A b \in BOOLEAN : Fresh(b) \in Policies
  BY DEF NoPolicy, Fresh, Unrolled, Policies

LEMMA NoTypes ==
  /\ [n \in Nodes |-> NoProfile] \in [Nodes -> Profiles]
  /\ [i \in Informers |-> 0] \in [Informers -> 0..MaxLag]
  /\ Off \in Off..Longest /\ 0 \in Off..Longest /\ 0 \in 0..Settling
<1>1. [n \in Nodes |-> NoProfile] \in [Nodes -> Profiles]
  BY ProfileTypes
<1>2. [i \in Informers |-> 0] \in [Informers -> 0..MaxLag]
  BY Times
<1>3. Off \in Off..Longest /\ 0 \in Off..Longest /\ 0 \in 0..Settling
  BY Times
<1> QED BY <1>1, <1>2, <1>3

LEMMA TypeInit == Init => TypeOK
<1> SUFFICES ASSUME Init PROVE TypeOK
  OBVIOUS
<1>1. profile \in [Nodes -> Profiles] /\ seen \in [Nodes -> Profiles]
  BY NoTypes DEF Init
<1>2. policy \in Policies /\ policySeen \in Policies
  BY PolicyTypes DEF Init
<1>3. lag \in [Informers -> 0..MaxLag] /\ wake \in Off..Longest /\ since \in 0..Settling
  BY NoTypes DEF Init
<1> QED BY <1>1, <1>2, <1>3 DEF Init, TypeOK

LEMMA MergedType ==
  ASSUME NEW s \in [Fields -> Nat], NEW b \in [Fields -> Nat], NEW r \in [Fields -> Nat]
  PROVE  Merged(s, b, r) \in [Fields -> Nat]
  BY DEF Merged

LEMMA PatchType ==
  ASSUME TypeOK, NEW stamped \in BOOLEAN, Patches(stamped)
  PROVE  LET r == Rolled(seen, labelSeen, policySeen)
         IN /\ policy'.exists = policy.exists /\ policy'.selective = policy.selective
            /\ policy'.status = Merged(policy.status, policySeen.status, r)
            /\ policy' \in Policies
<1> DEFINE status == Merged(policy.status, policySeen.status, Rolled(seen, labelSeen, policySeen))
<1>1. status \in [Fields -> Nat]
  BY RolledType, MergedType DEF TypeOK, Policies
<1>2. policy' = [policy EXCEPT !.status = status]
  BY DEF Patches
<1> HIDE DEF status
<1>3. policy'.exists = policy.exists /\ policy'.selective = policy.selective
      /\ policy'.status = status /\ policy' \in Policies
  BY <1>1, <1>2 DEF TypeOK, Policies
<1> QED BY <1>3 DEF status

LEMMA TypeStep == TypeOK /\ [Next]_vars => TypeOK'
<1> SUFFICES ASSUME TypeOK, [Next]_vars PROVE TypeOK'
  OBVIOUS
<1> USE DEF TypeOK
<1>1. CASE FindsNothing \/ PatchFails
  BY <1>1, Times DEF FindsNothing, PatchFails, server, caches
<1>2. ASSUME NEW stamped \in BOOLEAN, Patches(stamped) PROVE TypeOK'
  <2>1. policy' \in Policies
    BY <1>2, PatchType
  <2>2. wake' \in Off..Longest /\ news' \subseteq Informers
    BY <1>2, Times DEF Patches, NextPass, Informers
  <2> QED BY <1>2, <2>1, <2>2 DEF Patches
<1>3. CASE LeaderDies
  <2>1. seen' \in [Nodes -> Profiles] /\ policySeen' \in Policies
    BY <1>3, NoTypes, PolicyTypes DEF LeaderDies
  <2>2. lag' \in [Informers -> 0..MaxLag] /\ wake' \in Off..Longest /\ since' \in 0..Settling
    BY <1>3, NoTypes DEF LeaderDies
  <2> QED BY <1>3, <2>1, <2>2 DEF LeaderDies, server
<1>4. CASE LeaderStarts
  <2>1. CASE policy.exists
    BY <1>4, <2>1, NoTypes DEF LeaderStarts
  <2>2. CASE ~policy.exists
    <3>1. policy' \in Policies /\ news' \subseteq Informers
      BY <1>4, <2>2, PolicyTypes DEF LeaderStarts, Informers
    <3> QED BY <1>4, <2>2, <3>1, NoTypes DEF LeaderStarts
  <2> QED BY <2>1, <2>2
<1>5. CASE ProfilesSync \/ NodesSync \/ PolicySync
  <2>1. \A i \in Informers : Delivered(i) => lag' \in [Informers -> 0..MaxLag] /\ news' \subseteq Informers
    BY Times DEF Delivered
  <2> QED BY <1>5, <2>1, Times DEF ProfilesSync, NodesSync, PolicySync, Delivered, server, Informers
<1>6. ASSUME NEW i \in Informers, Happens(i) PROVE news' \subseteq Informers
  BY <1>6 DEF Happens
<1>7. ASSUME NEW n \in Nodes, NEW pressured \in BOOLEAN, Reported(n, pressured) PROVE TypeOK'
  <2>1. profile' \in [Nodes -> Profiles] /\ since' \in 0..Settling
    BY <1>7, ProfileTypes, Times DEF Reported, Resets
  <2> QED BY <1>6, <1>7, <2>1 DEF Reported, ctl, Informers
<1>8. ASSUME NEW n \in Nodes, ProfileCreated(n) \/ ProfileDeleted(n) PROVE TypeOK'
  <2>1. profile' \in [Nodes -> Profiles] /\ since' \in 0..Settling
    BY <1>8, ProfileTypes, Times DEF ProfileCreated, ProfileDeleted
  <2> QED BY <1>6, <1>8, <2>1 DEF ProfileCreated, ProfileDeleted, ctl, Informers
<1>9. ASSUME NEW n \in Nodes, Relabelled(n) PROVE TypeOK'
  <2>1. labelled' \subseteq Nodes /\ since' \in 0..Settling
    BY <1>9, Times DEF Relabelled, Resets
  <2> QED BY <1>6, <1>9, <2>1 DEF Relabelled, ctl, Informers
<1>10. CASE PolicyChanges
  <2>1. policy' \in Policies /\ since' \in 0..Settling
    BY <1>10, PolicyTypes, Times DEF PolicyChanges, Policies
  <2> QED BY <1>6, <1>10, <2>1 DEF PolicyChanges, ctl, Informers
<1>11. CASE Advance
  <2>1. profile' \in [Nodes -> Profiles] /\ seen' \in [Nodes -> Profiles]
    BY <1>11, OlderType DEF Advance
  <2>2. lag' \in [Informers -> 0..MaxLag]
    BY <1>11, Times DEF Advance
  <2>3. wake' \in Off..Longest /\ since' \in 0..Settling
    BY <1>11, Times DEF Advance
  <2> QED BY <1>11, <2>1, <2>2, <2>3 DEF Advance
<1>12. CASE UNCHANGED vars
  BY <1>12 DEF vars, server, caches, ctl
<1> QED BY <1>1, <1>2, <1>3, <1>4, <1>5, <1>7, <1>8, <1>9, <1>10, <1>11, <1>12
     DEF Next, Controller, Cluster

\* The counts stay counts of nodes, and no cache, no requeue and no clock runs past its
\* bound.
THEOREM TypeCorrect == Spec => []TypeOK
  BY TypeInit, TypeStep, PTL DEF Spec

-----------------------------------------------------------------------------
(* What the counts depend on.                                               *)

LEMMA RolledSame ==
  ASSUME NEW p1, NEW p2, NEW l1, NEW l2, NEW q1, NEW q2,
         \A n \in Nodes : (p1[n] # NoProfile /\ (q1.selective => n \in l1))
                      <=> (p2[n] # NoProfile /\ (q2.selective => n \in l2)),
         \A n \in Nodes : p1[n] # NoProfile /\ (q1.selective => n \in l1) =>
           (Live(p1[n]) <=> Live(p2[n])) /\ (p1[n].pressured <=> p2[n].pressured)
  PROVE  Rolled(p1, l1, q1) = Rolled(p2, l2, q2)
<1> DEFINE A == Matched(p1, l1, q1)
           B == Matched(p2, l2, q2)
<1>1. A = B
  BY DEF Matched
<1>2. {n \in A : Live(p1[n])} = {n \in B : Live(p2[n])}
  BY <1>1 DEF Matched
<1>3. {n \in A : p1[n].pressured} = {n \in B : p2[n].pressured}
  BY <1>1 DEF Matched
<1> QED BY <1>1, <1>2, <1>3 DEF Rolled

LEMMA TruthSame ==
  ASSUME profile' = profile, labelled' = labelled, policy'.selective = policy.selective
  PROVE  Truth' = Truth
<1>1. Rolled(profile', labelled', policy') = Rolled(profile, labelled, policy)
  <2>1. \A n \in Nodes : (profile'[n] # NoProfile /\ (policy'.selective => n \in labelled'))
                     <=> (profile[n] # NoProfile /\ (policy.selective => n \in labelled))
    OBVIOUS
  <2>2. \A n \in Nodes : profile'[n] # NoProfile /\ (policy'.selective => n \in labelled') =>
          /\ Live(profile'[n]) <=> Live(profile[n])
          /\ profile'[n].pressured <=> profile[n].pressured
    OBVIOUS
  <2> HIDE DEF Live
  <2> QED BY <2>1, <2>2, RolledSame
<1> QED BY <1>1 DEF Truth, Rolled, Matched, Live

\* A set and the same set without one of its elements do not count the same.
LEMMA OneLess ==
  ASSUME NEW S \in SUBSET Nodes, NEW x \in S
  PROVE  Cardinality(S \ {x}) # Cardinality(S)
<1>1. IsFiniteSet(S)
  BY NodesAssumption, FS_Subset
<1>2. Cardinality(S \ {x}) = Cardinality(S) - 1 /\ Cardinality(S) \in Nat
  BY <1>1, FS_RemoveElement, FS_CardinalityType
<1> QED BY <1>2

\* A report that leaves the counts as they are does not change the pressure of a node
\* that counts.
LEMMA ReportedSame ==
  ASSUME TypeOK, NEW n \in Nodes, NEW pressured \in BOOLEAN, Reported(n, pressured),
         Truth' = Truth, Counts(n)
  PROVE  pressured <=> profile[n].pressured
<1> DEFINE M  == Matched(profile, labelled, policy)
           M2 == Matched(profile', labelled', policy')
           S  == {m \in M : profile[m].pressured}
           T  == {m \in M2 : profile'[m].pressured}
<1>1. /\ profile' = [profile EXCEPT ![n] = [age |-> 0, pressured |-> pressured]]
      /\ labelled' = labelled /\ policy' = policy /\ profile[n] # NoProfile
  BY DEF Reported
<1>2. /\ profile'[n] = [age |-> 0, pressured |-> pressured] /\ profile'[n] # NoProfile
      /\ \A m \in Nodes : m # n => profile'[m] = profile[m]
  BY <1>1, ProfileTypes, Times DEF TypeOK
<1>3. profile'[n].pressured = pressured
  BY <1>2
<1>4. M2 = M /\ n \in M /\ M \subseteq Nodes
  BY <1>1, <1>2 DEF Matched, Counts, Has
<1>5. Cardinality(S) = Cardinality(T)
  <2>1. Rolled(profile, labelled, policy).pressured = Cardinality(S)
    BY DEF Rolled
  <2>2. Rolled(profile', labelled', policy').pressured = Cardinality(T)
    BY DEF Rolled
  <2>3. Rolled(profile', labelled', policy') = Rolled(profile, labelled, policy)
    BY DEF Truth, Rolled, Matched, Live
  <2> QED BY <2>1, <2>2, <2>3
<1>6. S \subseteq Nodes /\ T \subseteq Nodes
  BY <1>4
<1>7. ASSUME profile[n].pressured, ~pressured PROVE FALSE
  <2>1. T = S \ {n} /\ n \in S
    BY <1>2, <1>3, <1>4, <1>7
  <2> QED BY <1>5, <1>6, <2>1, OneLess
<1>8. ASSUME ~profile[n].pressured, pressured PROVE FALSE
  <2>1. S = T \ {n} /\ n \in T
    BY <1>2, <1>3, <1>4, <1>8
  <2> QED BY <1>5, <1>6, <2>1, OneLess
<1> HIDE DEF M, M2, S, T
<1> QED BY <1>7, <1>8

\* Nor does a change of labels that leaves them alone move a node that could count.
LEMMA RelabelledSame ==
  ASSUME TypeOK, NEW n \in Nodes, Relabelled(n), Truth' = Truth, policy.selective, Has(n)
  PROVE  FALSE
<1> DEFINE M  == Matched(profile, labelled, policy)
           M2 == Matched(profile', labelled', policy')
<1>1. /\ profile' = profile /\ policy' = policy
      /\ labelled' = IF n \in labelled THEN labelled \ {n} ELSE labelled \cup {n}
  BY DEF Relabelled
<1>2. Cardinality(M) = Cardinality(M2)
  <2>1. Rolled(profile, labelled, policy).observed = Cardinality(M)
    BY DEF Rolled
  <2>2. Rolled(profile', labelled', policy').observed = Cardinality(M2)
    BY DEF Rolled
  <2>3. Rolled(profile', labelled', policy') = Rolled(profile, labelled, policy)
    BY DEF Truth, Rolled, Matched, Live
  <2> QED BY <2>1, <2>2, <2>3
<1>3. M \subseteq Nodes /\ M2 \subseteq Nodes
  BY DEF Matched
<1>4. CASE n \in labelled
  <2>1. M2 = M \ {n} /\ n \in M
    BY <1>1, <1>4 DEF Matched, Has
  <2> QED BY <1>2, <1>3, <2>1, OneLess
<1>5. CASE n \notin labelled
  <2>1. M = M2 \ {n} /\ n \in M2
    BY <1>1, <1>5 DEF Matched, Has
  <2> QED BY <1>2, <1>3, <2>1, OneLess
<1> QED BY <1>4, <1>5

\* What a pass rolls up once the caches have followed.
LEMMA SeesTruth ==
  ASSUME TypeOK, SeesProfiles, SeesNodes, SeesPolicy, leader, since > MaxLag
  PROVE  Rolled(seen, labelSeen, policySeen) = Truth
<1>1. \A i \in Informers : lag[i] \in 0..MaxLag /\ since > lag[i]
  BY Times DEF TypeOK
<1>2. /\ since > lag["profiles"] /\ since > lag["nodes"] /\ since > lag["policy"]
      /\ lag["profiles"] \in 0..MaxLag
  BY <1>1 DEF Informers
<1>3. policySeen.selective = policy.selective
  BY <1>2 DEF SeesPolicy
<1>4. \A n \in Nodes : (seen[n] # NoProfile /\ (policySeen.selective => n \in labelSeen)) <=> Counts(n)
  BY <1>2, <1>3 DEF SeesProfiles, SeesNodes, Counts, Has
<1>5. ASSUME NEW n \in Nodes, Counts(n)
      PROVE  (Live(seen[n]) <=> Live(profile[n])) /\ (seen[n].pressured <=> profile[n].pressured)
  <2>1. CASE seen[n] = profile[n]
    BY <2>1
  <2>2. CASE Younger(n)
    <3>1. profile[n].age \in 0..Alive /\ seen[n].age \in 0..Alive
      BY <1>2, <1>4, <1>5, ProfileTypes DEF TypeOK, Counts, Has
    <3>2. profile[n].age < Alive /\ seen[n].age < Alive
      BY <1>2, <2>2, <3>1, Times DEF Younger
    <3> QED BY <2>2, <3>2 DEF Younger, Live
  <2> QED BY <1>2, <1>5, <2>1, <2>2 DEF SeesProfiles
<1> QED BY <1>4, <1>5, RolledSame DEF Truth, Counts, Has

-----------------------------------------------------------------------------
(* The invariant is inductive.                                              *)

\* Where something has just happened nothing is promised of the caches or the status.
LEMMA ZeroInv ==
  ASSUME TypeOK', Synced', Calm', Queued', since' = 0
  PROVE  Inv'
<1>1. \A i \in Informers : ~(since' > lag'[i])
  BY Times DEF TypeOK
<1>2. ~(since' > lag'["profiles"]) /\ ~(since' > lag'["nodes"]) /\ ~(since' > lag'["policy"])
  BY <1>1 DEF Informers
<1>3. SeesProfiles' /\ SeesNodes' /\ SeesPolicy'
  BY <1>2 DEF SeesProfiles, SeesNodes, SeesPolicy
<1>4. lag'["policy"] \in 0..MaxLag
  BY DEF TypeOK, Informers
<1>5. since' <= lag'["policy"] + MaxLag /\ ~(since' > MaxLag)
  BY <1>4, Times
<1>6. Due'
  BY <1>5 DEF Due
<1> QED BY <1>3, <1>6 DEF Inv

LEMMA InvInit == Init => Inv
<1> SUFFICES ASSUME Init PROVE Inv
  OBVIOUS
<1>1. TypeOK
  BY TypeInit
<1>2. ~leader /\ news = {} /\ since = 0 /\ \A i \in Informers : lag[i] = 0
  BY DEF Init
<1>3. ~policy.exists
  BY PolicyTypes DEF Init
<1> QED BY <1>1, <1>2, <1>3
     DEF Inv, Synced, Calm, SeesProfiles, SeesNodes, SeesPolicy, Queued, Due, Behind

\* The bounds a step may lean on.
LEMMA Bounds ==
  ASSUME TypeOK
  PROVE  /\ lag["profiles"] \in 0..MaxLag /\ lag["nodes"] \in 0..MaxLag
         /\ lag["policy"] \in 0..MaxLag
         /\ wake \in Off..Longest /\ since \in 0..Settling
  BY DEF TypeOK, Informers

LEMMA FindsNothingInv ==
  ASSUME Inv, TypeOK', FindsNothing
  PROVE  Inv'
<1>1. /\ leader /\ ~policySeen.exists /\ wake' = Off
      /\ UNCHANGED <<profile, labelled, policy, seen, labelSeen, policySeen, news, lag, leader, since>>
  BY DEF FindsNothing, Reconciles, server, caches
<1>2. Synced' /\ Calm' /\ SeesProfiles' /\ SeesNodes' /\ SeesPolicy'
  BY <1>1 DEF Inv, Synced, Calm, SeesProfiles, Younger, SeesNodes, SeesPolicy, Counts, Has
<1>3. Queued'
  BY <1>1 DEF Queued
<1>4. Due'
  <2>1. Behind' <=> Behind
    BY <1>1, TruthSame DEF Behind
  <2>2. Behind => "policy" \in news
    BY <1>1 DEF Inv, Synced, Behind
  <2> QED BY <1>1, <2>1, <2>2 DEF Inv, Due
<1> QED BY <1>2, <1>3, <1>4 DEF Inv

\* A pass that sees what there is to see corrects the status, or an event that it has
\* not seen yet will have it corrected.
LEMMA PatchesInv ==
  ASSUME Inv, TypeOK', NEW stamped \in BOOLEAN, Patches(stamped)
  PROVE  Inv'
<1> DEFINE r == Rolled(seen, labelSeen, policySeen)
<1>1. /\ leader /\ policySeen.exists /\ policy.exists /\ wake' = Requeue
      /\ UNCHANGED <<profile, labelled, seen, labelSeen, policySeen, lag, leader, since>>
      /\ news' = IF stamped \/ policy' # policy THEN news \cup {"policy"} ELSE news
  BY DEF Patches, Reconciles, NextPass
<1>2. /\ policy'.exists = policy.exists /\ policy'.selective = policy.selective
      /\ policy'.status = Merged(policy.status, policySeen.status, r)
  BY PatchType DEF Inv
<1>3. Synced' /\ Calm'
  BY <1>1 DEF Inv, Synced, Calm
<1>4. SeesProfiles' /\ SeesNodes' /\ SeesPolicy'
  BY <1>1, <1>2 DEF Inv, SeesProfiles, Younger, SeesNodes, SeesPolicy, Counts, Has
<1>5. Queued'
  BY <1>1, Times DEF Queued
<1>6. Truth' = Truth
  BY <1>1, <1>2, TruthSame
<1>7. lag["policy"] \in 0..MaxLag /\ since \in 0..Settling
  BY Bounds DEF Inv
<1>8. CASE since <= MaxLag
  <2>1. since' <= lag'["policy"] + MaxLag /\ ~(since' > MaxLag)
    BY <1>1, <1>7, <1>8, Times
  <2>2. Due'
    BY <2>1 DEF Due
  <2> QED BY <1>3, <1>4, <1>5, <2>2 DEF Inv
<1>9. CASE ~(since <= MaxLag)
  <2>1. since > MaxLag
    BY <1>7, <1>9, Times
  <2>2. r = Truth
    BY <1>1, <2>1, SeesTruth DEF Inv
  <2>3. Truth \in [Fields -> Nat] /\ policy.status \in [Fields -> Nat]
    BY RolledType DEF Truth, Inv, TypeOK, Policies
  <2>4. policy.status = Truth => policy'.status = Truth
    <3> HIDE DEF r
    <3>1. Merged(Truth, policySeen.status, Truth) = Truth
      BY <2>3 DEF Merged
    <3> QED BY <1>2, <2>2, <3>1
  <2>5. policySeen.status = policy.status => policy'.status = Truth
    <3>1. Merged(policy.status, policy.status, Truth) = Truth
      BY <2>3 DEF Merged
    <3> HIDE DEF r
    <3> QED BY <1>2, <2>2, <3>1
  <2>6. Behind' => Behind
    BY <1>1, <1>2, <1>6, <2>4 DEF Behind
  <2>7. Behind' => "policy" \in news
    BY <1>1, <1>6, <2>5 DEF Behind, Inv, Synced
  <2>8. Due'
    BY <1>1, <2>6, <2>7 DEF Inv, Due
  <2> QED BY <1>3, <1>4, <1>5, <2>8 DEF Inv
<1> QED BY <1>8, <1>9

LEMMA FailsInv ==
  ASSUME Inv, TypeOK', PatchFails
  PROVE  Inv'
<1>1. /\ leader /\ wake' \in 0..Backoff /\ since' = 0
      /\ UNCHANGED <<profile, labelled, policy, seen, labelSeen, policySeen, news, lag, leader>>
  BY DEF PatchFails, Reconciles, server, caches
<1>2. Synced' /\ Calm'
  BY <1>1 DEF Inv, Synced, Calm
<1>3. Queued'
  BY <1>1, Times DEF Queued
<1> QED BY <1>1, <1>2, <1>3, ZeroInv

LEMMA LeaderDiesInv ==
  ASSUME Inv, TypeOK', LeaderDies
  PROVE  Inv'
<1>1. ~leader' /\ since' = 0 /\ news' = {} /\ \A i \in Informers : lag'[i] = 0
  BY DEF LeaderDies
<1>2. Synced' /\ Calm' /\ Queued'
  BY <1>1 DEF Synced, Calm, Queued
<1> QED BY <1>1, <1>2, ZeroInv

LEMMA LeaderStartsInv ==
  ASSUME Inv, TypeOK', LeaderStarts
  PROVE  Inv'
<1>1. since' = 0 /\ news = {} /\ \A i \in Informers : lag[i] = 0
  BY DEF LeaderStarts, Inv, Calm
<1>2. /\ leader' /\ wake' = 0 /\ seen' = profile' /\ labelSeen' = labelled' /\ lag' = lag
      /\ "policy" \notin news' => policySeen' = policy'
  BY DEF LeaderStarts
<1>3. Synced' /\ Calm' /\ Queued'
  BY <1>1, <1>2, Times DEF Synced, Calm, Queued
<1> QED BY <1>1, <1>3, ZeroInv

\* An event that is delivered brings its cache up to date, and that of the policy the
\* pass that the status needs.
LEMMA DeliveredInv ==
  ASSUME Inv, TypeOK', ProfilesSync \/ NodesSync \/ PolicySync
  PROVE  Inv'
<1> DEFINE Delivers(i) == news' = news \ {i} /\ lag' = [lag EXCEPT ![i] = 0]
<1>1. UNCHANGED <<profile, labelled, policy, leader, since>> /\ leader
  BY DEF ProfilesSync, NodesSync, PolicySync, Delivered, server
<1>2. Behind' <=> Behind
  BY <1>1, TruthSame DEF Behind
<1>3. lag \in [Informers -> 0..MaxLag] /\ wake \in Off..Longest /\ since \in 0..Settling
  BY DEF Inv, TypeOK
<1>4. CASE ProfilesSync
  <2>1. /\ news' = news \ {"profiles"} /\ seen' = profile /\ wake' = 0
        /\ UNCHANGED <<labelSeen, policySeen>>
        /\ \A i \in Informers : lag'[i] = IF i = "profiles" THEN 0 ELSE lag[i]
    BY <1>3, <1>4 DEF ProfilesSync, Delivered
  <2>2. Synced' /\ Calm' /\ Queued'
    BY <1>1, <2>1, Times DEF Inv, Synced, Calm, Queued
  <2>3. SeesProfiles'
    BY <1>1, <2>1 DEF SeesProfiles, Has
  <2>4. lag'["nodes"] = lag["nodes"] /\ lag'["policy"] = lag["policy"]
    BY <2>1 DEF Informers
  <2>5. SeesNodes' /\ SeesPolicy'
    BY <1>1, <2>1, <2>4 DEF Inv, SeesNodes, SeesPolicy, Has
  <2>6. wake # Off /\ wake + since <= MaxLag + Longest => wake' + since' <= MaxLag + Longest
    BY <1>1, <1>3, <2>1, Times
  <2>7. Due'
    BY <1>1, <1>2, <2>1, <2>4, <2>6, Times DEF Inv, Due
  <2> QED BY <2>2, <2>3, <2>5, <2>7 DEF Inv
<1>5. CASE NodesSync
  <2>1. /\ news' = news \ {"nodes"} /\ labelSeen' = labelled
        /\ UNCHANGED <<seen, policySeen, wake>>
        /\ \A i \in Informers : lag'[i] = IF i = "nodes" THEN 0 ELSE lag[i]
    BY <1>3, <1>5 DEF NodesSync, Delivered
  <2>2. Synced' /\ Calm' /\ Queued'
    BY <1>1, <2>1 DEF Inv, Synced, Calm, Queued
  <2>3. lag'["profiles"] = lag["profiles"] /\ lag'["policy"] = lag["policy"]
    BY <2>1 DEF Informers
  <2>4. SeesProfiles' /\ SeesPolicy'
    BY <1>1, <2>1, <2>3 DEF Inv, SeesProfiles, Younger, SeesPolicy, Counts, Has
  <2>5. SeesNodes'
    BY <1>1, <2>1 DEF SeesNodes, Has
  <2>6. Due'
    BY <1>1, <1>2, <2>1, <2>3 DEF Inv, Due
  <2> QED BY <2>2, <2>4, <2>5, <2>6 DEF Inv
<1>6. CASE PolicySync
  <2>1. /\ news' = news \ {"policy"} /\ policySeen' = policy /\ wake' = 0
        /\ UNCHANGED <<seen, labelSeen>> /\ "policy" \in news
        /\ \A i \in Informers : lag'[i] = IF i = "policy" THEN 0 ELSE lag[i]
    BY <1>3, <1>6 DEF PolicySync, Delivered
  <2>2. Synced' /\ Calm' /\ Queued'
    BY <1>1, <2>1, Times DEF Inv, Synced, Calm, Queued
  <2>3. lag'["profiles"] = lag["profiles"] /\ lag'["nodes"] = lag["nodes"]
    BY <2>1 DEF Informers
  <2>4. SeesProfiles' /\ SeesNodes' /\ SeesPolicy'
    BY <1>1, <2>1, <2>3 DEF Inv, SeesProfiles, Younger, SeesNodes, SeesPolicy, Counts, Has
  <2>5. Behind => since <= 2 * MaxLag
    <3>1. lag["policy"] \in 0..MaxLag
      BY Bounds DEF Inv
    <3>2. Behind => since <= lag["policy"] + MaxLag
      BY <2>1 DEF Inv, Due
    <3> QED BY <1>3, <3>1, <3>2, Times
  <2>6. Due'
    BY <1>1, <1>2, <2>1, <2>5 DEF Due
  <2> QED BY <2>2, <2>4, <2>6 DEF Inv
<1> QED BY <1>4, <1>5, <1>6

\* A change that starts the settling over keeps the invariant, if its informer gets to
\* know of it.
LEMMA ChangedInv ==
  ASSUME Inv, TypeOK', NEW i \in Informers, Happens(i), since' = 0,
         UNCHANGED <<seen, labelSeen, policySeen, lag, ctl>>,
         i # "profiles" => profile' = profile,
         i # "nodes" => labelled' = labelled,
         i # "policy" => policy' = policy
  PROVE  Inv'
<1>1. leader => news' = news \cup {i}
  BY DEF Happens
<1>2. ~leader => news' = {} /\ news = {}
  BY DEF Happens, Inv, Calm
<1>3. Synced'
  BY <1>1 DEF Inv, Synced, ctl, Informers
<1>4. Calm'
  BY <1>1, <1>2 DEF Inv, Calm, ctl
<1>5. Queued'
  BY DEF Inv, Queued, ctl
<1> QED BY <1>3, <1>4, <1>5, ZeroInv

\* A report that changes no count makes a profile younger that would not have expired
\* before the cache follows.
LEMMA ReportedInv ==
  ASSUME Inv, TypeOK', NEW n \in Nodes, NEW pressured \in BOOLEAN, Reported(n, pressured)
  PROVE  Inv'
<1>1. /\ profile[n] # NoProfile /\ Happens("profiles")
      /\ profile' = [profile EXCEPT ![n] = [age |-> 0, pressured |-> pressured]]
      /\ UNCHANGED <<labelled, policy, seen, labelSeen, policySeen, lag, leader, wake>>
      /\ Resets(Truth' # Truth \/ profile[n].age + MaxLag >= Alive)
  BY DEF Reported, ctl
<1>2. CASE since' = 0
  BY <1>1, <1>2, ChangedInv DEF Informers, ctl
<1>3. CASE since' # 0
  <2>1. /\ since' = since /\ Truth' = Truth /\ ~(profile[n].age + MaxLag >= Alive)
        /\ leader /\ news' = news \cup {"profiles"}
    BY <1>1, <1>3 DEF Resets, Happens, Inv, Calm
  <2>2. /\ profile'[n] = [age |-> 0, pressured |-> pressured] /\ profile'[n] # NoProfile
        /\ \A m \in Nodes : m # n => profile'[m] = profile[m]
    BY <1>1, ProfileTypes, Times DEF Inv, TypeOK
  <2>3. Synced' /\ Calm' /\ Queued'
    BY <1>1, <2>1 DEF Inv, Synced, Calm, Queued
  <2>4. SeesNodes' /\ SeesPolicy'
    BY <1>1, <2>1, <2>2 DEF Inv, SeesNodes, SeesPolicy, Has
  <2>5. SeesProfiles'
    <3>1. SUFFICES ASSUME since' > lag'["profiles"], NEW m \in Nodes
                   PROVE  /\ Has(m)' <=> seen'[m] # NoProfile
                          /\ Counts(m)' => seen'[m] = profile'[m] \/ Younger(m)'
      BY DEF SeesProfiles
    <3>2. /\ Has(m) <=> seen[m] # NoProfile
          /\ Counts(m) => seen[m] = profile[m] \/ Younger(m)
      BY <1>1, <2>1, <3>1 DEF Inv, SeesProfiles
    <3>3. Has(m)' <=> Has(m)
      BY <1>1, <2>2 DEF Has
    <3>4. Counts(m)' <=> Counts(m)
      BY <1>1, <3>3 DEF Counts
    <3>5. CASE m # n
      BY <1>1, <2>2, <3>2, <3>3, <3>4, <3>5 DEF Younger
    <3>6. CASE m = n /\ Counts(n)
      <4>1. pressured <=> profile[n].pressured
        BY <2>1, <3>6, ReportedSame DEF Inv
      <4>2. profile'[n].age = 0 /\ (profile'[n].pressured <=> pressured)
        BY <2>2
      <4>3. /\ seen[n].age \in 0..Alive /\ profile[n].age \in 0..Alive
            /\ lag["profiles"] \in 0..MaxLag
        BY <1>1, <3>2, <3>6, ProfileTypes, Bounds DEF Inv, TypeOK, Counts
      <4>4. seen[n].age + MaxLag < Alive + lag["profiles"]
        <5>1. CASE seen[n] = profile[n]
          BY <2>1, <4>3, <5>1, Times
        <5>2. CASE Younger(n)
          BY <5>2 DEF Younger
        <5> QED BY <3>2, <3>6, <5>1, <5>2
      <4>5. seen[n].pressured <=> profile[n].pressured
        BY <3>2, <3>6 DEF Younger
      <4>6. Younger(n)'
        BY <1>1, <4>1, <4>2, <4>3, <4>4, <4>5, Times DEF Younger
      <4> QED BY <3>2, <3>3, <3>6, <1>1, <4>6
    <3> QED BY <1>1, <3>2, <3>3, <3>4, <3>5, <3>6
  <2>6. Due'
    BY <1>1, <2>1 DEF Inv, Due, Behind
  <2> QED BY <2>3, <2>4, <2>5, <2>6 DEF Inv
<1> QED BY <1>2, <1>3

\* Labels that change no count are those of a node without a profile, or of any node
\* while the policy has no selector.
LEMMA RelabelledInv ==
  ASSUME Inv, TypeOK', NEW n \in Nodes, Relabelled(n)
  PROVE  Inv'
<1>1. /\ Happens("nodes") /\ Resets(Truth' # Truth)
      /\ labelled' = IF n \in labelled THEN labelled \ {n} ELSE labelled \cup {n}
      /\ UNCHANGED <<profile, policy, seen, labelSeen, policySeen, lag, leader, wake>>
  BY DEF Relabelled, ctl
<1>2. CASE since' = 0
  BY <1>1, <1>2, ChangedInv DEF Informers, ctl
<1>3. CASE since' # 0
  <2>1. since' = since /\ Truth' = Truth /\ leader /\ news' = news \cup {"nodes"}
    BY <1>1, <1>3 DEF Resets, Happens, Inv, Calm
  <2>2. policy.selective => ~Has(n)
    BY <2>1, RelabelledSame DEF Inv
  <2>3. \A m \in Nodes : policy.selective /\ Has(m) => (m \in labelled' <=> m \in labelled)
    BY <1>1, <2>2
  <2>4. Synced' /\ Calm' /\ Queued'
    BY <1>1, <2>1 DEF Inv, Synced, Calm, Queued
  <2>5. SeesProfiles'
    BY <1>1, <2>1, <2>3 DEF Inv, SeesProfiles, Younger, Counts, Has
  <2>6. SeesNodes' /\ SeesPolicy'
    BY <1>1, <2>1, <2>3 DEF Inv, SeesNodes, SeesPolicy, Has
  <2>7. Due'
    BY <1>1, <2>1 DEF Inv, Due, Behind
  <2> QED BY <2>4, <2>5, <2>6, <2>7 DEF Inv
<1> QED BY <1>2, <1>3

\* Time that passes brings the cache and the server the same, and a pass nearer.
LEMMA AdvanceInv ==
  ASSUME Inv, TypeOK', Advance
  PROVE  Inv'
<1>1. /\ ~(leader /\ wake = 0) /\ profile' = Older(profile) /\ seen' = Older(seen)
      /\ wake' = IF wake = Off THEN Off ELSE wake - 1
      /\ UNCHANGED <<labelled, policy, labelSeen, policySeen, news, leader>>
      /\ since' = IF ~leader \/ Truth' # Truth THEN 0 ELSE IF since = Settling THEN since ELSE since + 1
      /\ \A i \in Informers : lag'[i] = IF i \in news THEN lag[i] + 1 ELSE 0
  BY DEF Advance
<1>2. wake \in Off..Longest /\ since \in 0..Settling /\ \A i \in Informers : lag[i] \in 0..MaxLag
  BY DEF Inv, TypeOK
<1>3. Synced'
  BY <1>1 DEF Inv, Synced
<1>4. Calm'
  BY <1>1 DEF Inv, Calm
<1>5. wake # Off /\ leader => wake > 0 /\ wake' = wake - 1 /\ wake' # Off
  BY <1>1, <1>2, Times
<1>6. Queued'
  BY <1>1, <1>5 DEF Inv, Queued
<1>7. CASE since' = 0
  BY <1>3, <1>4, <1>6, <1>7, ZeroInv
<1>8. CASE since' # 0
  <2>1. leader /\ Truth' = Truth /\ since' = IF since = Settling THEN since ELSE since + 1
    BY <1>1, <1>8
  <2>2. \A i \in Informers : i \in news => lag'[i] = lag[i] + 1 /\ (since' > lag'[i] => since > lag[i])
    BY <1>1, <1>2, <2>1, Times
  <2>3. /\ \A m \in Nodes : /\ Has(m)' <=> Has(m)
                            /\ Counts(m)' <=> Counts(m)
                            /\ seen'[m] # NoProfile <=> seen[m] # NoProfile
    BY <1>1, OlderType DEF Inv, TypeOK, Has, Counts
  <2>4. SeesProfiles'
    <3>1. SUFFICES ASSUME since' > lag'["profiles"], NEW m \in Nodes
                   PROVE  /\ Has(m)' <=> seen'[m] # NoProfile
                          /\ Counts(m)' => seen'[m] = profile'[m] \/ Younger(m)'
      BY DEF SeesProfiles
    <3>2. CASE "profiles" \notin news
      BY <1>1, <1>3, <2>1, <3>2 DEF Synced, Has
    <3>3. CASE "profiles" \in news
      <4>1. lag'["profiles"] = lag["profiles"] + 1 /\ since > lag["profiles"]
        BY <2>2, <3>1, <3>3 DEF Informers
      <4>2. /\ Has(m) <=> seen[m] # NoProfile
            /\ Counts(m) => seen[m] = profile[m] \/ Younger(m)
        BY <2>1, <4>1 DEF Inv, SeesProfiles
      <4>3. CASE Counts(m) /\ seen[m] = profile[m]
        BY <1>1, <2>3, <4>2, <4>3 DEF Older
      <4>4. CASE Counts(m) /\ Younger(m)
        <5>1. profile[m] # NoProfile /\ seen[m] # NoProfile
          BY <4>2, <4>4 DEF Counts, Has
        <5>2. /\ profile[m].age \in 0..Alive /\ seen[m].age \in 0..Alive
              /\ lag["profiles"] \in 0..MaxLag
          BY <5>1, ProfileTypes, Bounds DEF Inv, TypeOK
        <5>3. /\ profile'[m].pressured = profile[m].pressured
              /\ seen'[m].pressured = seen[m].pressured
              /\ profile'[m].age = IF profile[m].age = Alive THEN Alive ELSE profile[m].age + 1
              /\ seen'[m].age = IF seen[m].age = Alive THEN Alive ELSE seen[m].age + 1
          BY <1>1, <5>1, OlderType DEF Inv, TypeOK
        <5>4. profile'[m].age <= seen'[m].age
          BY <4>4, <5>2, <5>3, Times DEF Younger
        <5>5. seen'[m].age + MaxLag < Alive + lag'["profiles"]
          BY <4>1, <4>4, <5>2, <5>3, Times DEF Younger
        <5>6. Younger(m)'
          BY <4>4, <5>3, <5>4, <5>5 DEF Younger
        <5> QED BY <2>3, <4>2, <5>6
      <4> QED BY <2>3, <4>2, <4>3, <4>4
    <3> QED BY <3>2, <3>3
  <2>5. SeesNodes'
    <3>1. CASE "nodes" \notin news
      BY <1>1, <1>3, <2>1, <3>1 DEF Synced, SeesNodes
    <3>2. CASE "nodes" \in news
      <4>1. since' > lag'["nodes"] => since > lag["nodes"]
        BY <2>2, <3>2 DEF Informers
      <4> QED BY <1>1, <2>1, <2>3, <4>1 DEF Inv, SeesNodes
    <3> QED BY <3>1, <3>2
  <2>6. SeesPolicy'
    <3>1. CASE "policy" \notin news
      BY <1>1, <1>3, <2>1, <3>1 DEF Synced, SeesPolicy
    <3>2. CASE "policy" \in news
      <4>1. since' > lag'["policy"] => since > lag["policy"]
        BY <2>2, <3>2 DEF Informers
      <4> QED BY <1>1, <2>1, <4>1 DEF Inv, SeesPolicy
    <3> QED BY <3>1, <3>2
  <2>7. Behind' <=> Behind
    BY <1>1, <2>1 DEF Behind
  <2>8. CASE "policy" \in news
    <3>1. lag'["policy"] = lag["policy"] + 1 /\ lag["policy"] \in 0..MaxLag
      BY <1>2, <2>2, <2>8 DEF Informers
    <3>2. since <= lag["policy"] + MaxLag => since' <= lag'["policy"] + MaxLag
      BY <1>2, <2>1, <3>1, Times
    <3>3. Due'
      BY <1>1, <2>7, <2>8, <3>2 DEF Inv, Due
    <3> QED BY <1>3, <1>4, <1>6, <2>4, <2>5, <2>6, <3>3 DEF Inv
  <2>9. CASE "policy" \notin news
    <3>1. Behind => wake # Off
      BY <2>1, <2>9 DEF Inv, Behind, Synced, Queued
    <3>2. ASSUME Behind, since' > MaxLag PROVE wake' # Off /\ wake' + since' <= MaxLag + Longest
      <4>1. wake > 0 /\ wake' = wake - 1 /\ wake' # Off
        BY <1>5, <2>1, <3>1, <3>2
      <4>2. CASE since > MaxLag
        <5>1. wake + since <= MaxLag + Longest
          BY <2>9, <3>2, <4>1, <4>2 DEF Inv, Due
        <5> QED BY <1>2, <2>1, <4>1, <5>1, Times
      <4>3. CASE ~(since > MaxLag)
        BY <1>2, <2>1, <4>1, <4>3, Times
      <4> QED BY <4>2, <4>3
    <3>3. Due'
      BY <1>1, <2>7, <2>9, <3>2 DEF Due
    <3> QED BY <1>3, <1>4, <1>6, <2>4, <2>5, <2>6, <3>3 DEF Inv
  <2> QED BY <2>8, <2>9
<1> QED BY <1>7, <1>8

LEMMA InvStep == Inv /\ [Next]_vars => Inv'
<1> SUFFICES ASSUME Inv, [Next]_vars PROVE Inv'
  OBVIOUS
<1>1. TypeOK'
  BY TypeStep DEF Inv
<1>2. CASE Controller
  BY <1>1, <1>2, FindsNothingInv, PatchesInv, FailsInv, LeaderDiesInv, LeaderStartsInv,
     DeliveredInv DEF Controller
<1>3. ASSUME NEW n \in Nodes, NEW pressured \in BOOLEAN, Reported(n, pressured) PROVE Inv'
  BY <1>1, <1>3, ReportedInv
<1>4. ASSUME NEW n \in Nodes, ProfileCreated(n) \/ ProfileDeleted(n) PROVE Inv'
  BY <1>1, <1>4, ChangedInv DEF ProfileCreated, ProfileDeleted, Informers
<1>5. ASSUME NEW n \in Nodes, Relabelled(n) PROVE Inv'
  BY <1>1, <1>5, RelabelledInv
<1>6. CASE PolicyChanges
  BY <1>1, <1>6, ChangedInv DEF PolicyChanges, Informers
<1>7. CASE Advance
  BY <1>1, <1>7, AdvanceInv
<1>8. CASE UNCHANGED vars
  <2>1. UNCHANGED <<profile, labelled, policy, seen, labelSeen, policySeen, news, lag, leader,
                    wake, since>>
    BY <1>8 DEF vars, server, caches, ctl
  <2>2. Behind' <=> Behind
    BY <2>1, TruthSame DEF Behind
  <2>3. Synced' /\ Calm' /\ Queued' /\ Due'
    BY <2>1, <2>2 DEF Inv, Synced, Calm, Queued, Due
  <2>4. SeesProfiles' /\ SeesNodes' /\ SeesPolicy'
    BY <2>1 DEF Inv, SeesProfiles, Younger, SeesNodes, SeesPolicy, Counts, Has
  <2> QED BY <1>1, <2>3, <2>4 DEF Inv
<1> QED BY <1>2, <1>3, <1>4, <1>5, <1>6, <1>7, <1>8 DEF Next, Cluster

LEMMA InvCurrent == Inv => Current
<1> SUFFICES ASSUME Inv, since = Settling, Behind PROVE FALSE
  BY DEF Current, Behind
<1>1. lag["policy"] \in 0..MaxLag /\ wake \in Off..Longest
  BY Bounds DEF Inv
<1>2. "policy" \notin news
  BY <1>1, Times DEF Inv, Due
<1>3. \/ wake # Off /\ wake + since <= MaxLag + Longest
      \/ since <= 2 * MaxLag
  BY <1>2, Times DEF Inv, Due
<1> QED BY <1>1, <1>3, Times

\* Whatever nodes, agents, operators and leaders do: where nothing has changed or failed
\* for the settling time, the status of the policy says what the profiles of the matching
\* nodes say.
THEOREM CurrentHolds == Spec => []Current
  BY InvInit, InvStep, InvCurrent, PTL DEF Spec
=============================================================================
