-------------------------- MODULE AdvertiseProofs ---------------------------
(***************************************************************************)
(* Proofs about Advertise: within the settling time the Node advertises what *)
(* the last report of a live agent offers, or nothing, for every set of      *)
(* offers, every requeue, retry and staleness, and every lag of the caches.  *)
(***************************************************************************)
EXTENDS Advertise, TLAPS

-----------------------------------------------------------------------------
(* The invariant: what was quiet for how long says what.                    *)

\* A report written against a cache that was current for a moment.
ReportWhole == MaxLag

\* From then on the controller's copy of the profile says it, too, and a patch is right.
CopyWhole == 2 * MaxLag + 1

\* From then on its copy of the node is right, or does not matter.
NodeWhole == 3 * MaxLag + 1

WellFormed(p) == p = NoProfile \/ p.revision # -1

\* A node that is gone took agent and profile with it, and the controller notices before
\* they are back.
Registered ==
  /\ node = Absent => profile = NoProfile /\ ~agentUp
  /\ ctlUp /\ node # Absent /\ nodeSeen = Absent =>
       seen = NoProfile /\ profile = NoProfile /\ ~agentUp

Quiet == ~ctlUp => since = 0

Taken == agentUp /\ ~due

\* A tick that did not fail has reported.
Young == Fresh =>
  /\ Taken /\ since >= 1 => profile.age = 0
  /\ since >= 2 => profile.age <= 1

Says(p) == p.cpu = reported.cpu /\ p.mem = reported.mem

\* What the agent's copy leaves out of a patch, the profile says already.
BaseAgrees == Fresh /\ agentUp /\ since > lag["base"] =>
  /\ base.cpu = reported.cpu => profile.cpu = reported.cpu
  /\ base.mem = reported.mem => profile.mem = reported.mem

ProfileSays == Fresh /\ since > ReportWhole /\ (Taken \/ since > ReportWhole + 1) => Says(profile)

SeenSays == Fresh /\ ctlUp /\ since > lag["seen"] + ReportWhole + 1 => Says(seen)

SeenYoung == Fresh /\ ctlUp /\ since > lag["seen"] + 1 => seen.age <= lag["seen"] + 1

SeenStale == profile # NoProfile /\ ~Fresh /\ ctlUp /\ since > lag["seen"] =>
  Stale(seen) /\ seen # NoProfile

Present == profile # NoProfile /\ node # Absent

Right == ~Significant(node, Desired)

\* A patch on its way is right, and what the copy of the node does not show is.
PendingRight == Present /\ pending # NoPatch /\ since > CopyWhole => pending = Desired

NodeKnown == Present /\ ctlUp /\ since > CopyWhole + lag["node"] => nodeSeen = node \/ Right

Queued == ctlUp /\ seen # NoProfile /\ nodeSeen # Absent => wake # Off \/ pending # NoPatch

\* A node that is wrong is about to be patched, or the pass that decides to is in time.
Corrected == Present /\ since > NodeWhole /\ ~Right =>
  /\ since <= NodeWhole + Longest
  /\ pending = NoPatch => wake # Off /\ wake + since <= NodeWhole + Longest

Shape == /\ WellFormed(profile) /\ WellFormed(seen)
         /\ Registered /\ Quiet /\ Young

Inv == /\ TypeOK /\ Shape
       /\ BaseAgrees /\ ProfileSays /\ SeenSays /\ SeenYoung /\ SeenStale
       /\ PendingRight /\ NodeKnown /\ Queued /\ Corrected

-----------------------------------------------------------------------------
(* Numbers.                                                                 *)

LEMMA MinOfTwo ==
  ASSUME NEW a \in Int, NEW b \in Int
  PROVE  Min({a, b}) = IF a <= b THEN a ELSE b
<1> DEFINE m == IF a <= b THEN a ELSE b
<1>1. m \in {a, b} /\ \A y \in {a, b} : m <= y
  OBVIOUS
<1>2. \A x \in {a, b} : (\A y \in {a, b} : x <= y) => x = m
  OBVIOUS
<1> QED BY <1>1, <1>2 DEF Min

LEMMA MaxOfTwo ==
  ASSUME NEW a \in Int, NEW b \in Int
  PROVE  Max({a, b}) = IF a >= b THEN a ELSE b
<1> DEFINE m == IF a >= b THEN a ELSE b
<1>1. m \in {a, b} /\ \A y \in {a, b} : m >= y
  OBVIOUS
<1>2. \A x \in {a, b} : (\A y \in {a, b} : x >= y) => x = m
  OBVIOUS
<1> QED BY <1>1, <1>2 DEF Max

LEMMA Times ==
  /\ StaleAfter \in Nat /\ Requeue \in Nat /\ Backoff \in Nat /\ MaxLag \in Nat
  /\ MaxRevision \in Nat /\ MaxLag < Requeue /\ Requeue < StaleAfter
  /\ Longest \in Nat /\ Requeue <= Longest /\ Backoff <= Longest
  /\ Settling = NodeWhole + Longest + 1 /\ Settling \in Nat
<1>1. Longest = IF Requeue >= Backoff THEN Requeue ELSE Backoff
  BY TimeAssumption, MaxOfTwo DEF Longest
<1> QED BY <1>1, TimeAssumption DEF Settling, NodeWhole

\* What a pass wants of a profile is an amount.
LEMMA WantedType ==
  ASSUME NEW p \in Profiles
  PROVE  /\ DesiredFrom(p) = [cpu |-> IF p.cpu = Unset THEN 0 ELSE p.cpu,
                              mem |-> IF p.mem = Unset THEN 0 ELSE p.mem]
         /\ Wanted(p) \in Amount /\ Wanted(p) # NoPatch
<1>1. \A x \in Nat \cup {Unset} : Max({0, x}) = IF x = Unset THEN 0 ELSE x
  BY MaxOfTwo DEF Unset
<1>2. p.cpu \in Nat \cup {Unset} /\ p.mem \in Nat \cup {Unset}
  BY DEF Profiles
<1>3. DesiredFrom(p) = [cpu |-> IF p.cpu = Unset THEN 0 ELSE p.cpu,
                        mem |-> IF p.mem = Unset THEN 0 ELSE p.mem]
  BY <1>1, <1>2 DEF DesiredFrom
<1>4. \A a \in Amount : a # NoPatch
  BY DEF Amount, NoPatch, Absent, Unset
<1>5. Nothing \in Amount /\ DesiredFrom(p) \in Amount
  BY <1>2, <1>3 DEF Amount, Nothing, Unset
<1> QED BY <1>3, <1>4, <1>5 DEF Wanted

LEMMA WithRevision ==
  ASSUME NEW A, NEW B, NEW C, NEW D, NEW E, NEW F,
         NEW p \in [cpu : A, mem : B, level : C, healthy : D, revision : E, age : F], NEW x
  PROVE  [p EXCEPT !.revision = x] =
           [cpu |-> p.cpu, mem |-> p.mem, level |-> p.level, healthy |-> p.healthy,
            revision |-> x, age |-> p.age]
  OBVIOUS

LEMMA WithAge ==
  ASSUME NEW A, NEW B, NEW C, NEW D, NEW E, NEW F,
         NEW p \in [cpu : A, mem : B, level : C, healthy : D, revision : E, age : F], NEW x
  PROVE  [p EXCEPT !.age = x] =
           [cpu |-> p.cpu, mem |-> p.mem, level |-> p.level, healthy |-> p.healthy,
            revision |-> p.revision, age |-> x]
  OBVIOUS

LEMMA Fields ==
  ASSUME NEW p \in Profiles
  PROVE  /\ p.cpu \in Nat \cup {Unset} /\ p.mem \in Nat \cup {Unset}
         /\ p.level \in Levels \cup {""} /\ p.healthy \in {"", "True", "False"}
         /\ p.revision \in -1..MaxRevision /\ p.age \in 0..(StaleAfter + 1)
  BY DEF Profiles

LEMMA Built ==
  ASSUME NEW c \in Nat \cup {Unset}, NEW m \in Nat \cup {Unset}, NEW l \in Levels \cup {""},
         NEW h \in {"", "True", "False"}, NEW r \in -1..MaxRevision,
         NEW a \in 0..(StaleAfter + 1)
  PROVE  [cpu |-> c, mem |-> m, level |-> l, healthy |-> h, revision |-> r, age |-> a]
           \in Profiles
  BY DEF Profiles

LEMMA Shaped ==
  \E A, B, C, D, E, F :
    Profiles = [cpu : A, mem : B, level : C, healthy : D, revision : E, age : F]
  BY DEF Profiles

LEMMA BlankType == Blank \in Profiles
  BY TimeAssumption DEF Blank, Unset, Profiles

LEMMA NoProfileIs ==
  NoProfile = [cpu |-> Unset, mem |-> Unset, level |-> "", healthy |-> "", revision |-> -1,
               age |-> StaleAfter + 1]
<1>1. NoProfile = [cpu |-> Blank.cpu, mem |-> Blank.mem, level |-> Blank.level,
                   healthy |-> Blank.healthy, revision |-> -1, age |-> Blank.age]
  BY BlankType, Shaped, WithRevision DEF NoProfile
<1> QED BY <1>1 DEF Blank

LEMMA OlderIs ==
  ASSUME NEW p \in Profiles
  PROVE  Older(p) = [cpu |-> p.cpu, mem |-> p.mem, level |-> p.level, healthy |-> p.healthy,
                     revision |-> p.revision,
                     age |-> IF p.age > StaleAfter THEN p.age ELSE p.age + 1]
  BY Shaped, WithAge DEF Older

LEMMA TimelessIs ==
  ASSUME NEW p \in Profiles
  PROVE  Timeless(p) = [cpu |-> p.cpu, mem |-> p.mem, level |-> p.level,
                        healthy |-> p.healthy, revision |-> p.revision, age |-> 0]
  BY Shaped, WithAge DEF Timeless

LEMMA RevisionOfNone == NoProfile.revision = -1
  BY NoProfileIs

LEMMA ProfilesType ==
  /\ Blank \in Profiles /\ NoProfile \in Profiles
  /\ \A p \in Profiles : Timeless(p) \in Profiles /\ Older(p) \in Profiles
<1>2. NoProfile \in Profiles
  <2>1. -1 \in -1..MaxRevision /\ StaleAfter + 1 \in 0..(StaleAfter + 1)
    BY TimeAssumption
  <2> QED BY <2>1, NoProfileIs, Built
<1>3. ASSUME NEW p \in Profiles PROVE Timeless(p) \in Profiles /\ Older(p) \in Profiles
  <2> DEFINE a == IF p.age > StaleAfter THEN p.age ELSE p.age + 1
  <2>1. /\ p.cpu \in Nat \cup {Unset} /\ p.mem \in Nat \cup {Unset}
        /\ p.level \in Levels \cup {""} /\ p.healthy \in {"", "True", "False"}
        /\ p.revision \in -1..MaxRevision /\ p.age \in 0..(StaleAfter + 1)
    BY Fields
  <2>2. 0 \in 0..(StaleAfter + 1) /\ a \in 0..(StaleAfter + 1)
    <3>1. p.age \in 0..(StaleAfter + 1)
      BY <2>1
    <3> QED BY <3>1, TimeAssumption
  <2> HIDE DEF a
  <2>3. [cpu |-> p.cpu, mem |-> p.mem, level |-> p.level, healthy |-> p.healthy,
         revision |-> p.revision, age |-> 0] \in Profiles
    BY <2>1, <2>2, Built
  <2>4. [cpu |-> p.cpu, mem |-> p.mem, level |-> p.level, healthy |-> p.healthy,
         revision |-> p.revision, age |-> a] \in Profiles
    BY <2>1, <2>2, Built
  <2> QED BY <2>3, <2>4, OlderIs, TimelessIs DEF a
<1> QED BY BlankType, <1>2, <1>3

LEMMA NoProfileIsStale ==
  ASSUME NEW p \in Profiles, p.age <= StaleAfter PROVE p # NoProfile /\ ~Stale(p)
<1>1. p.age \in 0..(StaleAfter + 1)
  BY Fields
<1>2. NoProfile.age = StaleAfter + 1
  BY NoProfileIs
<1> QED BY <1>1, <1>2, TimeAssumption DEF Stale

LEMMA OlderKeeps ==
  ASSUME NEW p \in Profiles, WellFormed(p)
  PROVE  /\ Older(p) = NoProfile <=> p = NoProfile
         /\ WellFormed(Older(p))
         /\ Older(p).cpu = p.cpu /\ Older(p).mem = p.mem
         /\ Older(p).age = IF p.age > StaleAfter THEN p.age ELSE p.age + 1
         /\ Timeless(Older(p)) = Timeless(p)
<1>1. /\ Older(p).cpu = p.cpu /\ Older(p).mem = p.mem /\ Older(p).revision = p.revision
      /\ Older(p).level = p.level /\ Older(p).healthy = p.healthy
      /\ Older(p).age = IF p.age > StaleAfter THEN p.age ELSE p.age + 1
  BY OlderIs
<1>2. Older(p) \in Profiles
  BY ProfilesType
<1>3. Timeless(Older(p)) = Timeless(p)
  BY <1>1, <1>2, TimelessIs
<1>4. NoProfile.revision = -1 /\ NoProfile.age = StaleAfter + 1
  BY NoProfileIs
<1>5. CASE p = NoProfile
  <2>1. p.age > StaleAfter
    BY <1>4, <1>5, TimeAssumption
  <2>2. Older(p) = [cpu |-> p.cpu, mem |-> p.mem, level |-> p.level, healthy |-> p.healthy,
                    revision |-> p.revision, age |-> p.age]
    BY <2>1, OlderIs
  <2>3. Older(p) = p
    BY <2>2, <1>5, NoProfileIs
  <2> QED BY <1>1, <1>3, <1>5, <2>3 DEF WellFormed
<1>6. CASE p # NoProfile
  <2>1. Older(p).revision # -1
    BY <1>1, <1>6 DEF WellFormed
  <2> QED BY <1>1, <1>3, <1>4, <1>6, <2>1 DEF WellFormed
<1> QED BY <1>5, <1>6

-----------------------------------------------------------------------------
(* What the steps do to a profile.                                          *)

Kept(o) == Fresh /\ [cpu |-> o.cpu, mem |-> o.mem] = reported

LEMMA ReportsEffect ==
  ASSUME TypeOK, WellFormed(profile), NEW o \in Offers, Reports(o)
  PROVE  /\ agentUp /\ due /\ due' = FALSE /\ node # Absent /\ profile # NoProfile
         /\ profile' \in Profiles /\ profile' # NoProfile /\ WellFormed(profile')
         /\ profile'.age = 0
         /\ profile'.cpu = IF base.cpu = reported'.cpu THEN profile.cpu ELSE reported'.cpu
         /\ profile'.mem = IF base.mem = reported'.mem THEN profile.mem ELSE reported'.mem
         /\ reported' \in Amount /\ since' = IF Kept(o) THEN since ELSE 0
         /\ Kept(o) => reported' = reported
         /\ UNCHANGED <<agentUp, node, caches, ctl>>
<1>1. o \in Offer
  BY OffersAssumption
<1>2. o.cpu \in Nat /\ o.mem \in Nat /\ o.level \in Levels /\ o.healthy \in {"True", "False"}
  BY <1>1 DEF Offer
<1>3. /\ agentUp /\ due /\ due' = FALSE /\ node # Absent /\ profile # NoProfile
      /\ profile' = Merged(profile, base, Status(o))
      /\ reported' = [cpu |-> o.cpu, mem |-> o.mem]
      /\ UNCHANGED <<agentUp, node, caches, ctl>>
      /\ since' = IF Fresh /\ reported' = reported THEN since ELSE 0
  BY DEF Reports, Recommends
<1>4. revision' \in 0..MaxRevision
  <2>1. revision \in 0..MaxRevision /\ revision' <= MaxRevision
        /\ LET new == [cpu |-> o.cpu, mem |-> o.mem, level |-> o.level]
           IN  revision' = revision + (IF MateriallyDiffers(rec, new) THEN 1 ELSE 0)
    BY DEF Reports, Recommends, TypeOK
  <2> QED BY <2>1, TimeAssumption
<1>5. profile' = [cpu |-> IF base.cpu = o.cpu THEN profile.cpu ELSE o.cpu,
                  mem |-> IF base.mem = o.mem THEN profile.mem ELSE o.mem,
                  level |-> IF base.level = o.level THEN profile.level ELSE o.level,
                  healthy |-> IF base.healthy = o.healthy THEN profile.healthy ELSE o.healthy,
                  revision |-> IF base.revision = revision' THEN profile.revision ELSE revision',
                  age |-> 0]
  BY <1>3 DEF Merged, Status
<1>6. /\ profile.cpu \in Nat \cup {Unset} /\ profile.mem \in Nat \cup {Unset}
      /\ profile.level \in Levels \cup {""} /\ profile.healthy \in {"", "True", "False"}
      /\ profile.revision \in -1..MaxRevision
  BY Fields DEF TypeOK
<1>7. profile' \in Profiles
  <2> DEFINE c == IF base.cpu = o.cpu THEN profile.cpu ELSE o.cpu
             m == IF base.mem = o.mem THEN profile.mem ELSE o.mem
             l == IF base.level = o.level THEN profile.level ELSE o.level
             h == IF base.healthy = o.healthy THEN profile.healthy ELSE o.healthy
             r == IF base.revision = revision' THEN profile.revision ELSE revision'
  <2>1. c \in Nat \cup {Unset} /\ m \in Nat \cup {Unset} /\ l \in Levels \cup {""}
        /\ h \in {"", "True", "False"}
    BY <1>2, <1>6
  <2>2. r \in -1..MaxRevision /\ 0 \in 0..(StaleAfter + 1)
    <3>1. profile.revision \in -1..MaxRevision
      BY <1>6
    <3>2. revision' \in -1..MaxRevision
      BY <1>4, TimeAssumption
    <3>3. 0 \in 0..(StaleAfter + 1)
      BY TimeAssumption
    <3> QED BY <3>1, <3>2, <3>3
  <2>3. profile' = [cpu |-> c, mem |-> m, level |-> l, healthy |-> h, revision |-> r, age |-> 0]
    BY <1>5
  <2> HIDE DEF c, m, l, h, r
  <2> QED BY <2>1, <2>2, <2>3, Built
<1>8. profile'.age = 0 /\ profile'.revision # -1
  <2>1. profile.revision # -1
    BY <1>3 DEF WellFormed
  <2> QED BY <1>4, <1>5, <2>1
<1>9. profile' # NoProfile
  BY <1>8, RevisionOfNone
<1>10. reported' \in Amount
  BY <1>2, <1>3 DEF Amount
<1> QED BY <1>3, <1>5, <1>7, <1>8, <1>9, <1>10 DEF WellFormed, Kept

LEMMA CreatesEffect ==
  ASSUME TypeOK, WellFormed(profile), NEW o \in Offers, Creates(o)
  PROVE  /\ profile' \in Profiles /\ profile' # NoProfile /\ WellFormed(profile')
         /\ agentUp /\ due' = FALSE /\ node # Absent /\ since' = 0
         /\ UNCHANGED <<agentUp, node, caches, ctl, reported>>
<1>1. Blank # NoProfile /\ WellFormed(Blank)
  <2>1. Blank.revision = 0
    BY DEF Blank
  <2> QED BY <2>1, RevisionOfNone DEF WellFormed
<1> QED BY <1>1, BlankType DEF Creates, Recommends, TypeOK

LEMMA AdvanceEffect ==
  ASSUME TypeOK, WellFormed(profile), WellFormed(seen), Advance
  PROVE  /\ pending = NoPatch /\ (ctlUp => wake # 0)
         /\ \A c \in Caches : /\ Behind(c) => lag[c] < MaxLag
                              /\ lag'[c] = IF Behind(c) THEN lag[c] + 1 ELSE 0
         /\ lag' \in [Caches -> 0..MaxLag]
         /\ due' = agentUp
         /\ profile' = Older(profile) /\ seen' = Older(seen)
         /\ profile' \in Profiles /\ seen' \in Profiles
         /\ WellFormed(profile') /\ WellFormed(seen')
         /\ wake' = IF wake = Off THEN Off ELSE wake - 1
         /\ UNCHANGED <<agentUp, rec, revision, node, base, nodeSeen, ctlUp, pending, reported>>
<1> USE DEF Advance
<1>1. profile \in Profiles /\ seen \in Profiles
  BY DEF TypeOK
<1>2. profile' \in Profiles /\ seen' \in Profiles /\ WellFormed(profile') /\ WellFormed(seen')
  BY <1>1, ProfilesType, OlderKeeps
<1>3. lag' = [c \in Caches |-> IF Behind(c) THEN lag[c] + 1 ELSE 0]
      /\ \A c \in Caches : Behind(c) => lag[c] < MaxLag
  OBVIOUS
<1>4. \A c \in Caches : lag'[c] = IF Behind(c) THEN lag[c] + 1 ELSE 0
  BY <1>3
<1>5. lag' \in [Caches -> 0..MaxLag]
  <2>1. lag \in [Caches -> 0..MaxLag] /\ MaxLag \in Nat
    BY TimeAssumption DEF TypeOK
  <2> HIDE DEF Advance
  <2> QED BY <1>3, <2>1
<1> QED BY <1>2, <1>3, <1>4, <1>5

LEMMA AdvanceSince ==
  ASSUME TypeOK, Advance
  PROVE  /\ since' \in {0, since + 1, since}
         /\ since' = since => since = 0 \/ since = Settling
         /\ since' # 0 => ctlUp /\ (Fresh => ~due /\ agentUp /\ profile'.age <= StaleAfter)
         /\ since' \in 0..Settling
<1>1. since \in 0..Settling /\ Settling \in Nat
  BY Times DEF TypeOK
<1>2. Min({since + 1, Settling}) = IF since + 1 <= Settling THEN since + 1 ELSE Settling
  BY <1>1, MinOfTwo
<1> DEFINE stops == ~ctlUp \/ (Fresh /\ (due \/ ~agentUp \/ profile'.age > StaleAfter))
<1>3. since' = IF stops THEN 0 ELSE IF since + 1 <= Settling THEN since + 1 ELSE Settling
  BY <1>2 DEF Advance
<1>4. ~stops => ctlUp /\ (Fresh => ~due /\ agentUp /\ ~(profile'.age > StaleAfter))
  BY DEF TypeOK
<1>5. profile'.age > StaleAfter \/ profile'.age <= StaleAfter
  <2>1. profile' \in Profiles
    BY ProfilesType DEF Advance, TypeOK
  <2>2. profile'.age \in 0..(StaleAfter + 1)
    BY <2>1, Fields
  <2> QED BY <2>2, TimeAssumption
<1> HIDE DEF stops
<1>6. /\ since' \in {0, since + 1, since}
      /\ since' = since => since = 0 \/ since = Settling
      /\ since' \in 0..Settling
  BY <1>1, <1>3
<1>7. since' # 0 => ~stops
  BY <1>3
<1> QED BY <1>4, <1>5, <1>6, <1>7

-----------------------------------------------------------------------------
(* Types and shape.                                                         *)

LEMMA TypeInit == Init => TypeOK /\ Shape
<1> SUFFICES ASSUME Init PROVE TypeOK /\ Shape
  OBVIOUS
<1> USE DEF Init
<1>1. base \in Profiles /\ seen \in Profiles /\ profile \in Profiles
  BY ProfilesType
<1>2. rec.cpu \in Nat /\ rec.mem \in Nat /\ rec.level \in Levels \cup {""}
  BY DEF NoOffer
<1>3. node \in Amount \cup {Absent} /\ reported \in Amount /\ node # Absent
  BY DEF Amount, Nothing, Absent, Unset
<1>4. lag \in [Caches -> 0..MaxLag] /\ wake \in Off..Longest /\ since \in 0..Settling
      /\ revision \in 0..MaxRevision
  BY Times DEF Off
<1>5. TypeOK
  BY <1>1, <1>2, <1>3, <1>4 DEF TypeOK
<1>6. Shape
  BY <1>3 DEF Shape, WellFormed, Registered, Quiet, Young, Fresh
<1> QED BY <1>5, <1>6

LEMMA RecommendsType ==
  ASSUME TypeOK, NEW o \in Offers, Recommends(o)
  PROVE  /\ due' \in BOOLEAN /\ revision' \in 0..MaxRevision
         /\ rec'.cpu \in Nat /\ rec'.mem \in Nat /\ rec'.level \in Levels \cup {""}
<1>1. o.cpu \in Nat /\ o.mem \in Nat /\ o.level \in Levels
  BY OffersAssumption DEF Offer
<1>2. rec' = [cpu |-> o.cpu, mem |-> o.mem, level |-> o.level] /\ due' = FALSE
  BY DEF Recommends
<1>3. revision' \in 0..MaxRevision
  <2>1. revision \in 0..MaxRevision /\ revision' <= MaxRevision
        /\ revision' = revision + (IF MateriallyDiffers(rec, rec') THEN 1 ELSE 0)
    BY DEF Recommends, TypeOK
  <2> QED BY <2>1, TimeAssumption
<1> QED BY <1>1, <1>2, <1>3

LEMMA LagType ==
  ASSUME TypeOK
  PROVE  [lag EXCEPT !["base"] = 0] \in [Caches -> 0..MaxLag]
         /\ [lag EXCEPT !["seen"] = 0] \in [Caches -> 0..MaxLag]
         /\ [lag EXCEPT !["node"] = 0] \in [Caches -> 0..MaxLag]
         /\ [lag EXCEPT !["seen"] = 0, !["node"] = 0] \in [Caches -> 0..MaxLag]
<1>1. lag \in [Caches -> 0..MaxLag]
  BY DEF TypeOK
<1>2. 0 \in 0..MaxLag
  BY TimeAssumption
<1> QED BY <1>1, <1>2

LEMMA AgentLostType ==
  ASSUME TypeOK, AgentLost
  PROVE  /\ rec'.cpu \in Nat /\ rec'.mem \in Nat /\ rec'.level \in Levels \cup {""}
         /\ agentUp' \in BOOLEAN /\ due' \in BOOLEAN /\ revision' \in 0..MaxRevision
         /\ base' \in Profiles /\ lag' \in [Caches -> 0..MaxLag]
<1>1. rec' = [cpu |-> 0, mem |-> 0, level |-> ""]
  BY DEF AgentLost, NoOffer
<1>2. agentUp' = FALSE /\ due' = FALSE /\ revision' = 0
  BY DEF AgentLost
<1>3. 0 \in 0..MaxRevision
  BY TimeAssumption
<1>4. base' \in Profiles /\ lag' \in [Caches -> 0..MaxLag]
  BY LagType, ProfilesType DEF AgentLost
<1> QED BY <1>1, <1>2, <1>3, <1>4

LEMMA WakeType ==
  /\ 0 \in Off..Longest /\ Off \in Off..Longest /\ Requeue \in Off..Longest
  /\ \A d \in 0..Backoff : d \in Off..Longest
  /\ \A a, b \in Off..Longest : Earlier(a, b) \in Off..Longest
  BY Times DEF Off, Earlier

LEMMA TypeStep == TypeOK /\ Shape /\ [Next]_vars => TypeOK'
<1> SUFFICES ASSUME TypeOK, Shape, [Next]_vars PROVE TypeOK'
  OBVIOUS
<1>0. 0 \in 0..Settling /\ WellFormed(profile) /\ WellFormed(seen)
  <2>1. 0 \in 0..Settling
    BY Times
  <2> QED BY <2>1 DEF Shape
<1> USE DEF TypeOK
<1>1. ASSUME NEW o \in Offers, Reports(o) PROVE TypeOK'
  <2>1. Recommends(o)
    BY <1>1 DEF Reports
  <2> QED BY <1>0, <1>1, <2>1, ReportsEffect, RecommendsType DEF caches, ctl
<1>2. ASSUME NEW o \in Offers, Creates(o) PROVE TypeOK'
  <2>1. Recommends(o)
    BY <1>2 DEF Creates
  <2> QED BY <1>0, <1>2, <2>1, CreatesEffect, RecommendsType DEF caches, ctl
<1>3. ASSUME NEW o \in Offers, ReportFails(o) PROVE TypeOK'
  <2>1. Recommends(o)
    BY <1>3 DEF ReportFails
  <2>2. since' = 0 /\ UNCHANGED <<agentUp, server, caches, ctl, reported>>
    BY <1>3 DEF ReportFails
  <2>3. since' \in 0..Settling
    BY <1>0, <2>2
  <2>4. UNCHANGED <<agentUp, profile, node, base, seen, nodeSeen, lag, ctlUp, wake, pending,
                    reported>>
    BY <2>2 DEF server, caches, ctl
  <2>5. /\ due' \in BOOLEAN /\ revision' \in 0..MaxRevision
        /\ rec'.cpu \in Nat /\ rec'.mem \in Nat /\ rec'.level \in Levels \cup {""}
    BY <2>1, RecommendsType
  <2> QED BY <2>3, <2>4, <2>5
<1>4. CASE AgentDies
  <2>1. AgentLost /\ UNCHANGED <<server, seen, nodeSeen, ctl, history>>
    BY <1>4 DEF AgentDies
  <2> QED BY <2>1, AgentLostType DEF server, ctl, history
<1>5. CASE AgentStarts
  BY <1>5, LagType, ProfilesType DEF AgentStarts, server, ctl, history
<1>6. CASE SeenSyncs
  <2>1. wake' \in Off..Longest
    BY <1>6, WakeType DEF SeenSyncs
  <2> QED BY <1>6, <2>1, LagType DEF SeenSyncs, agent, server, history
<1>7. CASE NodeSyncs
  BY <1>7, LagType DEF NodeSyncs, agent, server, ctl, history
<1>8. CASE FindsNothing
  BY <1>8, WakeType DEF FindsNothing, agent, server, caches, history
<1>9. CASE InSync
  BY <1>9, WakeType DEF InSync, agent, server, caches, history
<1>10. CASE Decides
  BY <1>10, WakeType, WantedType DEF Decides, agent, server, caches, history
<1>11. CASE Patches
  <2>1. node' \in Amount \cup {Absent} /\ pending' \in Amount \cup {NoPatch}
    BY <1>11 DEF Patches, NoPatch
  <2>2. wake' \in Off..Longest
    BY <1>11, WakeType DEF Patches
  <2> QED BY <1>11, <2>1, <2>2 DEF Patches, agent, caches, history
<1>12. CASE PatchFails
  <2>1. wake' \in Off..Longest
    BY <1>12, WakeType DEF PatchFails
  <2> QED BY <1>0, <1>12, <2>1 DEF PatchFails, agent, server, caches
<1>13. CASE CtlDies
  BY <1>0, <1>13, LagType, WakeType, ProfilesType DEF CtlDies, agent, server
<1>14. CASE CtlStarts
  BY <1>14, LagType, WakeType DEF CtlStarts, agent, server, history
<1>15. CASE BaseSyncs
  BY <1>15, LagType, ProfilesType DEF BaseSyncs, agent, server, ctl, history
<1>16. CASE NodeLeaves
  <2>1. /\ node' = Absent /\ profile' = NoProfile /\ AgentLost
        /\ UNCHANGED <<seen, nodeSeen, ctlUp, wake, pending, reported, since>>
    BY <1>16 DEF NodeLeaves, ctl, history
  <2> QED BY <2>1, AgentLostType, ProfilesType
<1>17. CASE NodeReturns
  <2>1. Nothing \in Amount
    BY DEF Nothing, Amount
  <2>2. node' = Nothing /\ since' = 0 /\ UNCHANGED <<agent, profile, caches, ctl, reported>>
    BY <1>17 DEF NodeReturns
  <2> QED BY <1>0, <2>1, <2>2 DEF agent, caches, ctl
<1>18. CASE Advance
  <2>1. wake \in Off..Longest /\ wake' = IF wake = Off THEN Off ELSE wake - 1
    BY <1>18 DEF Advance
  <2> HIDE DEF TypeOK
  <2>2. wake' \in Off..Longest
    <3>1. Longest \in Nat
      BY Times
    <3> QED BY <2>1, <3>1 DEF Off
  <2>3. since' \in 0..Settling
    BY <1>18, AdvanceSince
  <2> QED BY <1>0, <1>18, <2>2, <2>3, AdvanceEffect DEF TypeOK
<1>19. CASE UNCHANGED vars
  BY <1>19 DEF vars, agent, server, caches, ctl, history
<1> QED BY <1>1, <1>2, <1>3, <1>4, <1>5, <1>6, <1>7, <1>8, <1>9, <1>10, <1>11, <1>12, <1>13,
           <1>14, <1>15, <1>16, <1>17, <1>18, <1>19 DEF Next, Agent, Controller, Cluster

LEMMA RegisteredStep ==
  ASSUME TypeOK, Shape, [Next]_vars PROVE Registered'
<1> USE DEF Registered
<1>0. /\ Registered /\ WellFormed(profile) /\ WellFormed(seen)
      /\ profile \in Profiles /\ seen \in Profiles
  BY DEF Shape, TypeOK
<1>1. ASSUME NEW o \in Offers, Reports(o) \/ Creates(o) PROVE Registered'
  <2>1. agentUp /\ UNCHANGED <<agentUp, node, nodeSeen, seen, ctlUp>>
    BY <1>0, <1>1, ReportsEffect, CreatesEffect DEF caches, ctl
  <2> QED BY <1>0, <2>1
<1>2. CASE UNCHANGED <<agentUp, node, nodeSeen, seen, ctlUp, profile>>
  BY <1>0, <1>2
<1>3. CASE AgentDies
  BY <1>0, <1>3 DEF AgentDies, AgentLost, server, ctl
<1>4. CASE AgentStarts
  BY <1>0, <1>4 DEF AgentStarts, server, ctl
<1>5. CASE SeenSyncs
  BY <1>0, <1>5 DEF SeenSyncs, agent, server
<1>6. CASE NodeSyncs
  BY <1>0, <1>6 DEF NodeSyncs, agent, server, ctl
<1>7. CASE Patches
  <2>1. pending # Absent
    BY <1>7 DEF Patches, NoPatch
  <2> QED BY <1>0, <1>7, <2>1 DEF Patches, agent, caches
<1>8. CASE CtlDies
  BY <1>0, <1>8 DEF CtlDies, agent, server
<1>9. CASE CtlStarts
  BY <1>0, <1>9 DEF CtlStarts, agent, server
<1>10. CASE NodeLeaves
  BY <1>0, <1>10 DEF NodeLeaves, AgentLost, ctl
<1>11. CASE NodeReturns
  BY <1>0, <1>11 DEF NodeReturns, agent, caches, ctl, Nothing, Absent, Unset
<1>12. CASE Advance
  <2>1. /\ UNCHANGED <<agentUp, node, nodeSeen, ctlUp>>
        /\ profile' = Older(profile) /\ seen' = Older(seen)
    BY <1>12 DEF Advance
  <2>2. (profile = NoProfile => profile' = NoProfile) /\ (seen = NoProfile => seen' = NoProfile)
    BY <1>0, <2>1, OlderKeeps
  <2> QED BY <1>0, <2>1, <2>2
<1>13. ASSUME (\E o \in Offers : ReportFails(o)) \/ FindsNothing \/ InSync \/ Decides
              \/ PatchFails \/ BaseSyncs
       PROVE  UNCHANGED <<agentUp, node, nodeSeen, seen, ctlUp, profile>>
  BY <1>13 DEF ReportFails, FindsNothing, InSync, Decides, PatchFails, BaseSyncs,
               agent, server, caches, ctl
<1> QED BY <1>1, <1>2, <1>3, <1>4, <1>5, <1>6, <1>7, <1>8, <1>9, <1>10, <1>11, <1>12, <1>13
        DEF Next, Agent, Controller, Cluster, vars, agent, server, caches, ctl

LEMMA WellFormedStep ==
  ASSUME TypeOK, Shape, [Next]_vars PROVE WellFormed(profile') /\ WellFormed(seen')
<1>0. WellFormed(profile) /\ WellFormed(seen) /\ WellFormed(NoProfile)
  BY DEF Shape, WellFormed
<1>1. ASSUME NEW o \in Offers, Reports(o) \/ Creates(o) PROVE WellFormed(profile') /\ seen' = seen
  BY <1>0, <1>1, ReportsEffect, CreatesEffect DEF caches
<1>2. ASSUME SeenSyncs \/ CtlStarts PROVE profile' = profile /\ seen' = profile
  BY <1>2 DEF SeenSyncs, CtlStarts, server
<1>3. ASSUME CtlDies PROVE profile' = profile /\ seen' = NoProfile
  BY <1>3 DEF CtlDies, server
<1>4. ASSUME NodeLeaves PROVE profile' = NoProfile /\ seen' = seen
  BY <1>4 DEF NodeLeaves
<1>5. ASSUME Advance PROVE WellFormed(profile') /\ WellFormed(seen')
  BY <1>0, <1>5, AdvanceEffect
<1>6. ASSUME (\E o \in Offers : ReportFails(o)) \/ AgentDies \/ AgentStarts \/ NodeSyncs
             \/ FindsNothing \/ InSync \/ Decides \/ Patches \/ PatchFails \/ BaseSyncs \/ NodeReturns \/ UNCHANGED vars
      PROVE  profile' = profile /\ seen' = seen
  BY <1>6 DEF ReportFails, AgentDies, AgentStarts, NodeSyncs, FindsNothing, InSync, Decides,
              Patches, PatchFails, BaseSyncs, NodeReturns, server, caches, vars
<1> QED BY <1>0, <1>1, <1>2, <1>3, <1>4, <1>5, <1>6 DEF Next, Agent, Controller, Cluster

LEMMA QuietStep ==
  ASSUME TypeOK, Shape, [Next]_vars PROVE Quiet'
<1>0. Quiet /\ WellFormed(profile) /\ ctlUp \in BOOLEAN
  BY DEF Shape, TypeOK
<1>1. ASSUME NEW o \in Offers, Reports(o) PROVE ctlUp' = ctlUp /\ since' \in {0, since}
  BY <1>0, <1>1, ReportsEffect DEF ctl
<1>2. ASSUME CtlDies \/ (\E o \in Offers : Creates(o) \/ ReportFails(o)) \/ PatchFails \/ NodeReturns
      PROVE  since' = 0
  BY <1>2 DEF CtlDies, Creates, ReportFails, PatchFails, NodeReturns
<1>3. ASSUME CtlStarts PROVE ctlUp'
  BY <1>3 DEF CtlStarts
<1>4. ASSUME Advance PROVE since' # 0 => ctlUp'
  <2>1. ctlUp' = ctlUp
    BY <1>4 DEF Advance
  <2> QED BY <1>4, <2>1, AdvanceSince
<1>5. ASSUME AgentDies \/ AgentStarts \/ SeenSyncs \/ NodeSyncs \/ FindsNothing \/ InSync \/ Decides
             \/ Patches \/ BaseSyncs \/ NodeLeaves \/ UNCHANGED vars
      PROVE  ctlUp' = ctlUp /\ since' = since
  BY <1>5 DEF AgentDies, AgentStarts, SeenSyncs, NodeSyncs, FindsNothing, InSync, Decides,
              Patches, BaseSyncs, NodeLeaves, ctl, history, vars
<1> QED BY <1>0, <1>1, <1>2, <1>3, <1>4, <1>5 DEF Next, Agent, Controller, Cluster, Quiet

-----------------------------------------------------------------------------
(* Steps that let the quiet go on.                                          *)

Still == \/ AgentDies \/ AgentStarts \/ BaseSyncs \/ SeenSyncs \/ NodeSyncs \/ FindsNothing
         \/ InSync \/ Decides \/ Patches \/ CtlStarts \/ UNCHANGED vars

LEMMA StillKeeps == ASSUME Still PROVE UNCHANGED <<profile, reported, since>>
  BY DEF Still, AgentDies, AgentStarts, BaseSyncs, SeenSyncs, NodeSyncs, FindsNothing, InSync,
         Decides, Patches, CtlStarts, server, history, vars

LEMMA Undisturbed ==
  ASSUME TypeOK, Shape, [Next]_vars, since' # 0
  PROVE  \/ \E o \in Offers : Reports(o) /\ Kept(o) /\ since' = since
         \/ Advance \/ NodeLeaves \/ Still
<1>1. ASSUME NEW o \in Offers, Reports(o) PROVE Kept(o) /\ since' = since
  BY <1>1, ReportsEffect DEF Shape
<1>2. ~(\E o \in Offers : Creates(o) \/ ReportFails(o)) /\ ~CtlDies /\ ~PatchFails /\ ~NodeReturns
  BY DEF Creates, ReportFails, CtlDies, PatchFails, NodeReturns
<1> QED BY <1>1, <1>2 DEF Next, Agent, Controller, Cluster, Still

LEMMA KeptReports ==
  ASSUME TypeOK, Shape, NEW o \in Offers, Reports(o), Kept(o), since' = since
  PROVE  /\ Fresh /\ Fresh' /\ agentUp /\ agentUp' /\ ~due' /\ profile'.age = 0
         /\ profile # NoProfile /\ profile' # NoProfile
         /\ reported' = reported
         /\ profile'.cpu = IF base.cpu = reported.cpu THEN profile.cpu ELSE reported.cpu
         /\ profile'.mem = IF base.mem = reported.mem THEN profile.mem ELSE reported.mem
         /\ UNCHANGED <<node, base, seen, nodeSeen, lag, ctlUp, wake, pending>>
<1>1. WellFormed(profile)
  BY DEF Shape
<1>2. 0 <= StaleAfter
  BY TimeAssumption
<1>3. Fresh
  BY DEF Kept
<1>4. /\ agentUp /\ due' = FALSE /\ profile # NoProfile /\ profile' # NoProfile
      /\ profile'.age = 0 /\ reported' = reported
      /\ profile'.cpu = IF base.cpu = reported'.cpu THEN profile.cpu ELSE reported'.cpu
      /\ profile'.mem = IF base.mem = reported'.mem THEN profile.mem ELSE reported'.mem
      /\ UNCHANGED <<agentUp, node, caches, ctl>>
  BY <1>1, ReportsEffect
<1>5. UNCHANGED <<node, base, seen, nodeSeen, lag, ctlUp, wake, pending>>
  BY <1>4 DEF caches, ctl
<1>6. Fresh'
  BY <1>2, <1>4 DEF Fresh
<1> QED BY <1>3, <1>4, <1>5, <1>6

LEMMA KeptAdvance ==
  ASSUME TypeOK, Shape, Advance, since' # 0
  PROVE  /\ Fresh' <=> Fresh
         /\ profile' = NoProfile <=> profile = NoProfile
         /\ reported' = reported
         /\ profile'.cpu = profile.cpu /\ profile'.mem = profile.mem
         /\ profile'.age = IF profile.age > StaleAfter THEN profile.age ELSE profile.age + 1
         /\ \/ since' = since + 1
            \/ since' = since /\ since = Settling
         /\ Fresh => Taken
         /\ due' = agentUp /\ ctlUp /\ ctlUp' = ctlUp
<1>1. WellFormed(profile) /\ WellFormed(seen) /\ profile \in Profiles
  BY DEF Shape, TypeOK
<1>2. profile' = Older(profile) /\ UNCHANGED <<reported, ctlUp>> /\ due' = agentUp
  BY <1>1, AdvanceEffect
<1>3. /\ profile' = NoProfile <=> profile = NoProfile
      /\ profile'.cpu = profile.cpu /\ profile'.mem = profile.mem
      /\ profile'.age = IF profile.age > StaleAfter THEN profile.age ELSE profile.age + 1
  BY <1>1, <1>2, OlderKeeps
<1>4. /\ ctlUp /\ (Fresh => ~due /\ agentUp /\ profile'.age <= StaleAfter)
      /\ \/ since' = since + 1
         \/ since' = since /\ since = Settling
  BY AdvanceSince
<1>5. profile.age \in 0..(StaleAfter + 1)
  BY <1>1, Fields
<1>6. Fresh' <=> Fresh
  <2>1. profile'.age <= StaleAfter => profile.age <= StaleAfter
    BY <1>3, <1>5, TimeAssumption
  <2> QED BY <1>3, <1>4, <2>1 DEF Fresh
<1> QED BY <1>2, <1>3, <1>4, <1>6 DEF Taken

LEMMA LeavesNothing == ASSUME NodeLeaves PROVE profile' = NoProfile /\ ~Fresh'
  BY DEF NodeLeaves, Fresh

LEMMA Numbers ==
  ASSUME TypeOK
  PROVE  /\ since \in 0..Settling
         /\ lag["base"] \in 0..MaxLag /\ lag["seen"] \in 0..MaxLag /\ lag["node"] \in 0..MaxLag
  BY DEF TypeOK, Caches

LEMMA YoungStep ==
  ASSUME TypeOK, Shape, [Next]_vars PROVE Young'
<1> USE DEF Young
<1>0. Young /\ since \in Nat /\ StaleAfter \in Nat
  BY Times, Numbers DEF Shape
<1>1. CASE since' = 0
  BY <1>1
<1>2. ASSUME NEW o \in Offers, Reports(o), Kept(o), since' = since PROVE Young'
  BY <1>2, KeptReports
<1>3. CASE Advance /\ since' # 0
  <2>1. SUFFICES ASSUME Fresh' PROVE (Taken' /\ since' >= 1 => profile'.age = 0)
                                     /\ (since' >= 2 => profile'.age <= 1)
    OBVIOUS
  <2>2. Fresh /\ Taken /\ due' = agentUp /\ agentUp' = agentUp
    BY <1>3, <2>1, KeptAdvance DEF Advance
  <2>3. ~Taken'
    BY <2>2 DEF Taken
  <2>4. since' >= 2 => since >= 1
    BY <1>0, <1>3, KeptAdvance, Times
  <2>5. profile'.age = IF profile.age > StaleAfter THEN profile.age ELSE profile.age + 1
    BY <1>3, KeptAdvance
  <2> QED BY <1>0, <2>2, <2>3, <2>4, <2>5
<1>4. CASE NodeLeaves
  BY <1>4, LeavesNothing
<1>5. CASE Still
  <2>1. UNCHANGED <<profile, since>> /\ Fresh' = Fresh
    BY <1>5, StillKeeps DEF Fresh
  <2>2. Taken' => Taken
    BY <1>5 DEF Still, AgentDies, AgentLost, AgentStarts, BaseSyncs, SeenSyncs, NodeSyncs,
           FindsNothing, InSync, Decides, Patches, CtlStarts, agent, vars, Taken
  <2> QED BY <1>0, <2>1, <2>2
<1> QED BY <1>1, <1>2, <1>3, <1>4, <1>5, Undisturbed

LEMMA ShapeStep == ASSUME TypeOK, Shape, [Next]_vars PROVE Shape'
  BY WellFormedStep, RegisteredStep, QuietStep, YoungStep DEF Shape

LEMMA StillCopies ==
  ASSUME TypeOK, Shape, Still, since' # 0
  PROVE  /\ \/ ~agentUp' \/ base' = Timeless(profile')
            \/ UNCHANGED <<agentUp, base>> /\ lag'["base"] = lag["base"]
         /\ \/ seen' = profile' /\ ctlUp' = ctlUp /\ lag'["seen"] = 0
            \/ UNCHANGED <<seen, ctlUp>> /\ lag'["seen"] = lag["seen"]
         /\ \/ nodeSeen' = node' /\ node' = node /\ ctlUp' = ctlUp /\ lag'["node"] = 0
            \/ UNCHANGED <<nodeSeen, ctlUp>> /\ lag'["node"] = lag["node"]
         /\ Taken' => Taken
         /\ node' # Absent => node # Absent
<1>0. lag \in [Caches -> 0..MaxLag] /\ pending \in Amount \cup {NoPatch}
  BY DEF TypeOK
<1>1. {"base", "seen", "node"} = Caches
  BY DEF Caches
<1>2. CASE AgentDies \/ AgentStarts \/ BaseSyncs
  <2>1. ~agentUp' \/ base' = Timeless(profile')
    BY <1>2 DEF AgentDies, AgentLost, AgentStarts, BaseSyncs, server
  <2>2. lag' = [lag EXCEPT !["base"] = 0] /\ UNCHANGED <<seen, nodeSeen, ctlUp, node>>
    BY <1>2 DEF AgentDies, AgentLost, AgentStarts, BaseSyncs, server, ctl
  <2>3. lag'["seen"] = lag["seen"] /\ lag'["node"] = lag["node"]
    BY <1>0, <1>1, <2>2
  <2>4. Taken' => Taken
    BY <1>2 DEF AgentDies, AgentLost, AgentStarts, BaseSyncs, agent, Taken
  <2> QED BY <2>1, <2>2, <2>3, <2>4
<1>3. CASE SeenSyncs
  <2>1. /\ lag' = [lag EXCEPT !["seen"] = 0] /\ seen' = profile'
        /\ UNCHANGED <<agentUp, due, base, nodeSeen, ctlUp, node>>
    BY <1>3 DEF SeenSyncs, agent, server
  <2>2. lag'["seen"] = 0 /\ lag'["base"] = lag["base"] /\ lag'["node"] = lag["node"]
    BY <1>0, <1>1, <2>1
  <2> QED BY <2>1, <2>2 DEF Taken
<1>4. CASE NodeSyncs
  <2>1. /\ lag' = [lag EXCEPT !["node"] = 0] /\ nodeSeen' = node'
        /\ UNCHANGED <<agentUp, due, base, seen, ctlUp, node>>
    BY <1>4 DEF NodeSyncs, agent, server, ctl
  <2>2. lag'["node"] = 0 /\ lag'["base"] = lag["base"] /\ lag'["seen"] = lag["seen"]
    BY <1>0, <1>1, <2>1
  <2> QED BY <2>1, <2>2 DEF Taken
<1>5. CASE FindsNothing \/ InSync \/ Decides \/ Patches \/ UNCHANGED vars
  <2>1. UNCHANGED <<agentUp, due, base, seen, nodeSeen, lag, ctlUp>>
    BY <1>5 DEF FindsNothing, InSync, Decides, Patches, agent, caches, ctl, vars
  <2>2. node' # Absent => node # Absent
    BY <1>5 DEF FindsNothing, InSync, Decides, Patches, server, vars
  <2> QED BY <2>1, <2>2 DEF Taken
<1>6. ~CtlStarts
  BY DEF CtlStarts, history, Shape, Quiet
<1> QED BY <1>2, <1>3, <1>4, <1>5, <1>6 DEF Still

LEMMA AdvanceCopies ==
  ASSUME TypeOK, Shape, Advance
  PROVE  /\ UNCHANGED <<agentUp, node, base, nodeSeen, ctlUp, pending, reported>>
         /\ agentUp => \/ base = Timeless(profile)
                       \/ lag'["base"] = lag["base"] + 1
         /\ ctlUp => \/ seen = profile
                     \/ lag'["seen"] = lag["seen"] + 1
         /\ ctlUp => \/ nodeSeen = node
                     \/ lag'["node"] = lag["node"] + 1
         /\ seen' = Older(seen)
<1>1. WellFormed(profile) /\ WellFormed(seen)
  BY DEF Shape
<1>2. "base" \in Caches /\ "seen" \in Caches /\ "node" \in Caches
  BY DEF Caches
<1>3. \A c \in Caches : lag'[c] = IF Behind(c) THEN lag[c] + 1 ELSE 0
  BY <1>1, AdvanceEffect
<1>4. /\ UNCHANGED <<agentUp, node, base, nodeSeen, ctlUp, pending, reported>>
      /\ seen' = Older(seen)
  BY <1>1, AdvanceEffect
<1>5. /\ Behind("base") <=> agentUp /\ base # Timeless(profile)
      /\ Behind("seen") <=> ctlUp /\ seen # profile
      /\ Behind("node") <=> ctlUp /\ nodeSeen # node
  BY DEF Behind
<1> QED BY <1>2, <1>3, <1>4, <1>5

LEMMA BaseAgreesStep ==
  ASSUME Inv, [Next]_vars PROVE BaseAgrees'
<1> USE DEF BaseAgrees
<1>0. TypeOK /\ Shape /\ BaseAgrees /\ since \in Nat /\ TypeOK'
  BY TypeStep, Numbers, Times DEF Inv
<1>1. CASE since' = 0
  <2>1. lag' \in [Caches -> 0..MaxLag] /\ "base" \in Caches
    BY <1>0 DEF TypeOK, Caches
  <2> QED BY <1>1, <2>1
<1>2. ASSUME base' = Timeless(profile') PROVE BaseAgrees'
  <2>1. profile' \in Profiles
    BY <1>0 DEF TypeOK
  <2>2. base'.cpu = profile'.cpu /\ base'.mem = profile'.mem
    BY <1>2, <2>1, TimelessIs
  <2> QED BY <2>2
<1>3. ASSUME NEW o \in Offers, Reports(o), Kept(o), since' = since PROVE BaseAgrees'
  BY <1>0, <1>3, KeptReports
<1>4. CASE Advance /\ since' # 0
  <2>1. /\ Fresh' <=> Fresh
        /\ profile'.cpu = profile.cpu /\ profile'.mem = profile.mem
        /\ UNCHANGED <<reported, agentUp, base>>
        /\ since' = since + 1 \/ since' = since
        /\ agentUp => base = Timeless(profile) \/ lag'["base"] = lag["base"] + 1
    BY <1>0, <1>4, KeptAdvance, AdvanceCopies
  <2>2. CASE base = Timeless(profile)
    <3>1. profile \in Profiles /\ WellFormed(profile) /\ profile' = Older(profile)
      BY <1>0, <1>4 DEF TypeOK, Shape, Advance
    <3> QED BY <1>2, <2>1, <2>2, <3>1, OlderKeeps
  <2>3. CASE lag'["base"] = lag["base"] + 1
    <3>1. lag["base"] \in Nat
      BY <1>0, Numbers
    <3>2. since' > lag'["base"] => since > lag["base"]
      BY <1>0, <2>1, <2>3, <3>1
    <3> QED BY <1>0, <2>1, <3>2
  <2> QED BY <2>1, <2>2, <2>3
<1>5. CASE NodeLeaves
  BY <1>5, LeavesNothing
<1>6. CASE Still /\ since' # 0
  <2>1. UNCHANGED <<profile, reported, since, Fresh>>
    BY <1>6, StillKeeps DEF Fresh
  <2>2. \/ ~agentUp' \/ base' = Timeless(profile')
        \/ UNCHANGED <<agentUp, base>> /\ lag'["base"] = lag["base"]
    BY <1>0, <1>6, StillCopies
  <2>3. CASE UNCHANGED <<agentUp, base>> /\ lag'["base"] = lag["base"]
    BY <1>0, <2>1, <2>3
  <2> QED BY <1>2, <2>2, <2>3
<1> QED BY <1>0, <1>1, <1>3, <1>4, <1>5, <1>6, Undisturbed

LEMMA ProfileSaysStep ==
  ASSUME Inv, [Next]_vars PROVE ProfileSays'
<1> USE DEF ProfileSays
<1>0. TypeOK /\ Shape /\ BaseAgrees /\ ProfileSays /\ since \in Nat /\ MaxLag \in Nat
      /\ lag["base"] \in 0..MaxLag /\ ReportWhole = MaxLag
  BY Numbers, Times DEF Inv, ReportWhole
<1>1. CASE since' = 0
  BY <1>0, <1>1
<1>2. ASSUME NEW o \in Offers, Reports(o), Kept(o), since' = since PROVE ProfileSays'
  <2>1. CASE since > MaxLag
    <3>1. since > lag["base"]
      BY <1>0, <2>1
    <3>2. /\ base.cpu = reported.cpu => profile.cpu = reported.cpu
          /\ base.mem = reported.mem => profile.mem = reported.mem
      BY <1>0, <1>2, <3>1, KeptReports DEF BaseAgrees
    <3>3. profile'.cpu = reported'.cpu /\ profile'.mem = reported'.mem
      BY <1>0, <1>2, <3>2, KeptReports
    <3> QED BY <3>3 DEF Says
  <2> QED BY <1>0, <1>2, <2>1
<1>3. CASE Advance /\ since' # 0
  <2>1. SUFFICES ASSUME Fresh', since' > MaxLag, Taken' \/ since' > MaxLag + 1 PROVE Says(profile)'
    BY <1>0 DEF Says
  <2>2. /\ Fresh /\ Taken /\ due' = agentUp /\ agentUp' = agentUp
        /\ profile'.cpu = profile.cpu /\ profile'.mem = profile.mem /\ reported' = reported
        /\ \/ since' = since + 1
           \/ since' = since /\ since = Settling
    BY <1>0, <1>3, <2>1, KeptAdvance DEF Advance
  <2>3. ~Taken'
    BY <2>2 DEF Taken
  <2>4. Settling > MaxLag
    BY Times DEF NodeWhole
  <2>5. since > MaxLag
    BY <1>0, <2>1, <2>2, <2>3, <2>4
  <2>6. Says(profile)
    BY <1>0, <2>2, <2>5
  <2> QED BY <2>2, <2>6 DEF Says
<1>4. CASE NodeLeaves
  BY <1>4, LeavesNothing
<1>5. CASE Still /\ since' # 0
  <2>1. UNCHANGED <<profile, reported, since, Fresh, Says(profile)>>
    BY <1>5, StillKeeps DEF Fresh, Says
  <2>2. Taken' => Taken
    BY <1>0, <1>5, StillCopies
  <2> QED BY <1>0, <2>1, <2>2 DEF Says
<1> QED BY <1>0, <1>1, <1>2, <1>3, <1>4, <1>5, Undisturbed

LEMMA SeenSaysStep ==
  ASSUME Inv, [Next]_vars PROVE SeenSays'
<1> USE DEF SeenSays
<1>0. /\ TypeOK /\ Shape /\ ProfileSays /\ SeenSays /\ since \in Nat /\ MaxLag \in Nat
      /\ lag["seen"] \in Nat /\ lag'["seen"] \in Nat /\ ReportWhole = MaxLag
  <2>1. TypeOK /\ TypeOK' /\ MaxLag \in Nat
    BY TypeStep, Times DEF Inv
  <2>2. lag["seen"] \in Nat /\ lag'["seen"] \in Nat
    <3>1. lag \in [Caches -> 0..MaxLag] /\ lag' \in [Caches -> 0..MaxLag] /\ "seen" \in Caches
      BY <2>1 DEF TypeOK, Caches
    <3> QED BY <2>1, <3>1
  <2> QED BY <2>1, <2>2, Numbers DEF Inv, ReportWhole
<1>1. CASE since' = 0
  BY <1>0, <1>1
<1>2. ASSUME NEW o \in Offers, Reports(o), Kept(o), since' = since PROVE SeenSays'
  BY <1>0, <1>2, KeptReports DEF Says
<1>3. CASE Advance /\ since' # 0
  <2>1. SUFFICES ASSUME Fresh', ctlUp', since' > lag'["seen"] + MaxLag + 1 PROVE Says(seen)'
    BY <1>0 DEF Says
  <2>2. /\ Fresh /\ Taken /\ ctlUp /\ reported' = reported
        /\ \/ since' = since + 1
           \/ since' = since /\ since = Settling
    BY <1>0, <1>3, <2>1, KeptAdvance
  <2>3. /\ seen' = Older(seen)
        /\ seen = profile \/ lag'["seen"] = lag["seen"] + 1
    BY <1>0, <1>3, <2>2, AdvanceCopies
  <2>4. seen'.cpu = seen.cpu /\ seen'.mem = seen.mem
    <3>1. seen \in Profiles /\ WellFormed(seen)
      BY <1>0 DEF TypeOK, Shape
    <3> QED BY <2>3, <3>1, OlderKeeps
  <2>5. Settling > MaxLag
    BY Times DEF NodeWhole
  <2>6. since > MaxLag
    BY <1>0, <2>1, <2>2, <2>5
  <2>7. Says(profile)
    BY <1>0, <2>2, <2>6 DEF ProfileSays
  <2>8. CASE lag'["seen"] = lag["seen"] + 1
    <3>1. since > lag["seen"] + MaxLag + 1
      BY <1>0, <2>1, <2>2, <2>8
    <3> QED BY <1>0, <2>2, <2>4, <3>1 DEF Says
  <2> QED BY <2>2, <2>3, <2>4, <2>7, <2>8 DEF Says
<1>4. CASE NodeLeaves
  BY <1>4, LeavesNothing
<1>5. CASE Still /\ since' # 0
  <2>1. UNCHANGED <<profile, reported, since, Fresh, Says(profile)>>
    BY <1>5, StillKeeps DEF Fresh, Says
  <2>2. \/ seen' = profile' /\ ctlUp' = ctlUp /\ lag'["seen"] = 0
        \/ UNCHANGED <<seen, ctlUp>> /\ lag'["seen"] = lag["seen"]
    BY <1>0, <1>5, StillCopies
  <2>3. CASE seen' = profile'
    <3>1. since' > lag'["seen"] + MaxLag + 1 => since > MaxLag + 1
      BY <1>0, <2>1
    <3>2. Fresh /\ since > MaxLag + 1 => Says(profile)
      BY <1>0 DEF ProfileSays
    <3> QED BY <1>0, <2>1, <2>3, <3>1, <3>2 DEF Says
  <2>4. CASE UNCHANGED <<seen, ctlUp>> /\ lag'["seen"] = lag["seen"]
    BY <1>0, <2>1, <2>4 DEF Says
  <2> QED BY <2>2, <2>3, <2>4
<1> QED BY <1>0, <1>1, <1>2, <1>3, <1>4, <1>5, Undisturbed

LEMMA SeenYoungStep ==
  ASSUME Inv, [Next]_vars PROVE SeenYoung'
<1> USE DEF SeenYoung
<1>0. /\ TypeOK /\ Shape /\ Young /\ SeenYoung /\ since \in Nat /\ MaxLag \in Nat
      /\ lag["seen"] \in Nat /\ lag'["seen"] \in Nat
  <2>1. TypeOK /\ TypeOK' /\ MaxLag \in Nat
    BY TypeStep, Times DEF Inv
  <2>2. lag["seen"] \in Nat /\ lag'["seen"] \in Nat
    <3>1. lag \in [Caches -> 0..MaxLag] /\ lag' \in [Caches -> 0..MaxLag] /\ "seen" \in Caches
      BY <2>1 DEF TypeOK, Caches
    <3> QED BY <2>1, <3>1
  <2> QED BY <2>1, <2>2, Numbers DEF Inv, Shape
<1>1. CASE since' = 0
  BY <1>0, <1>1
<1>2. ASSUME NEW o \in Offers, Reports(o), Kept(o), since' = since PROVE SeenYoung'
  BY <1>0, <1>2, KeptReports
<1>3. CASE Advance /\ since' # 0
  <2>1. SUFFICES ASSUME Fresh', ctlUp', since' > lag'["seen"] + 1 PROVE seen'.age <= lag'["seen"] + 1
    OBVIOUS
  <2>2. /\ Fresh /\ Taken /\ ctlUp
        /\ \/ since' = since + 1
           \/ since' = since /\ since = Settling
    BY <1>0, <1>3, <2>1, KeptAdvance
  <2>3. /\ seen' = Older(seen)
        /\ seen = profile \/ lag'["seen"] = lag["seen"] + 1
    BY <1>0, <1>3, <2>2, AdvanceCopies
  <2>4. /\ seen.age \in Nat /\ StaleAfter \in Nat
        /\ seen'.age = IF seen.age > StaleAfter THEN seen.age ELSE seen.age + 1
    <3>1. seen \in Profiles /\ WellFormed(seen)
      BY <1>0 DEF TypeOK, Shape
    <3>2. seen.age \in 0..(StaleAfter + 1)
      BY <3>1, Fields
    <3>3. seen'.age = IF seen.age > StaleAfter THEN seen.age ELSE seen.age + 1
      BY <2>3, <3>1, OlderKeeps
    <3> QED BY <3>2, <3>3, TimeAssumption
  <2>5. Settling >= 1
    BY Times DEF NodeWhole
  <2>6. profile.age = 0
    <3>1. since >= 1
      BY <1>0, <2>1, <2>2, <2>5
    <3> QED BY <1>0, <2>2, <3>1 DEF Young
  <2>7. CASE lag'["seen"] = lag["seen"] + 1
    <3>1. since > lag["seen"] + 1
      BY <1>0, <2>1, <2>2, <2>7
    <3>2. seen.age <= lag["seen"] + 1
      BY <1>0, <2>2, <3>1
    <3> QED BY <1>0, <2>4, <2>7, <3>2
  <2>8. CASE seen = profile
    <3>1. seen'.age = 1
      BY <2>4, <2>6, <2>8
    <3> QED BY <1>0, <3>1
  <2> QED BY <2>3, <2>7, <2>8
<1>4. CASE NodeLeaves
  BY <1>4, LeavesNothing
<1>5. CASE Still /\ since' # 0
  <2>1. UNCHANGED <<profile, since, Fresh>>
    BY <1>5, StillKeeps DEF Fresh
  <2>2. \/ seen' = profile' /\ ctlUp' = ctlUp /\ lag'["seen"] = 0
        \/ UNCHANGED <<seen, ctlUp>> /\ lag'["seen"] = lag["seen"]
    BY <1>0, <1>5, StillCopies
  <2>3. CASE seen' = profile' /\ lag'["seen"] = 0
    <3>1. Fresh /\ since > 1 => profile.age <= 1
      BY <1>0 DEF Young
    <3> QED BY <1>0, <2>1, <2>3, <3>1
  <2>4. CASE UNCHANGED <<seen, ctlUp>> /\ lag'["seen"] = lag["seen"]
    BY <1>0, <2>1, <2>4
  <2> QED BY <2>2, <2>3, <2>4
<1> QED BY <1>0, <1>1, <1>2, <1>3, <1>4, <1>5, Undisturbed

LEMMA SeenStaleStep ==
  ASSUME Inv, [Next]_vars PROVE SeenStale'
<1> USE DEF SeenStale
<1>0. /\ TypeOK /\ Shape /\ SeenStale /\ since \in Nat
      /\ lag["seen"] \in Nat /\ lag'["seen"] \in Nat
  <2>1. TypeOK /\ TypeOK' /\ MaxLag \in Nat
    BY TypeStep, Times DEF Inv
  <2>2. lag["seen"] \in Nat /\ lag'["seen"] \in Nat
    <3>1. lag \in [Caches -> 0..MaxLag] /\ lag' \in [Caches -> 0..MaxLag] /\ "seen" \in Caches
      BY <2>1 DEF TypeOK, Caches
    <3> QED BY <2>1, <3>1
  <2> QED BY <2>1, <2>2, Numbers DEF Inv
<1>1. profile # NoProfile /\ ~Fresh => Stale(profile)
  <2>1. profile.age \in 0..(StaleAfter + 1) /\ StaleAfter \in Nat
    <3>1. profile \in Profiles
      BY <1>0 DEF TypeOK
    <3> QED BY <3>1, Fields, TimeAssumption
  <2> QED BY <2>1 DEF Fresh, Stale
<1>2. CASE since' = 0
  BY <1>0, <1>2
<1>3. ASSUME NEW o \in Offers, Reports(o), Kept(o), since' = since PROVE SeenStale'
  BY <1>0, <1>3, KeptReports
<1>4. CASE Advance /\ since' # 0
  <2>1. SUFFICES ASSUME profile' # NoProfile, ~Fresh', ctlUp', since' > lag'["seen"]
                 PROVE  Stale(seen)' /\ seen' # NoProfile
    OBVIOUS
  <2>2. /\ ~Fresh /\ profile # NoProfile /\ ctlUp
        /\ since' = since + 1 \/ since' = since
    BY <1>0, <1>4, <2>1, KeptAdvance
  <2>3. /\ seen' = Older(seen)
        /\ seen = profile \/ lag'["seen"] = lag["seen"] + 1
    BY <1>0, <1>4, <2>2, AdvanceCopies
  <2>4. Stale(seen) /\ seen # NoProfile
    <3>1. CASE lag'["seen"] = lag["seen"] + 1
      <4>1. since > lag["seen"]
        BY <1>0, <2>1, <2>2, <3>1
      <4> QED BY <1>0, <2>2, <4>1
    <3> QED BY <1>1, <2>2, <2>3, <3>1
  <2>5. seen \in Profiles /\ WellFormed(seen)
    BY <1>0 DEF TypeOK, Shape
  <2>6. seen' # NoProfile /\ seen'.age = seen.age
    BY <2>3, <2>4, <2>5, OlderKeeps DEF Stale
  <2> QED BY <2>4, <2>6 DEF Stale
<1>5. CASE NodeLeaves
  BY <1>5, LeavesNothing
<1>6. CASE Still /\ since' # 0
  <2>1. UNCHANGED <<profile, since, Fresh>>
    BY <1>6, StillKeeps DEF Fresh
  <2>2. \/ seen' = profile' /\ ctlUp' = ctlUp /\ lag'["seen"] = 0
        \/ UNCHANGED <<seen, ctlUp>> /\ lag'["seen"] = lag["seen"]
    BY <1>0, <1>6, StillCopies
  <2>3. CASE seen' = profile'
    BY <1>1, <2>1, <2>3 DEF Stale
  <2>4. CASE UNCHANGED <<seen, ctlUp>> /\ lag'["seen"] = lag["seen"]
    BY <1>0, <2>1, <2>4 DEF Stale
  <2> QED BY <2>2, <2>3, <2>4
<1> QED BY <1>0, <1>2, <1>3, <1>4, <1>5, <1>6, Undisturbed

-----------------------------------------------------------------------------
(* What the controller makes of it.                                         *)

LEMMA DesiredType == TypeOK => Desired \in Amount
  BY DEF TypeOK, Desired, Amount, Nothing

\* What is as desired is not worth a patch.
LEMMA SameIsRight == ASSUME NEW a \in Amount PROVE ~Significant(a, a)
<1>1. a.cpu \in Nat /\ a.mem \in Nat
  BY DEF Amount
<1>2. Distance(a.cpu, a.cpu) = 0 /\ Distance(a.mem, a.mem) = 0
  BY <1>1 DEF Distance
<1> QED BY <1>2, ChangeAssumption DEF Significant

LEMMA SeesDesired ==
  ASSUME Inv, ctlUp, Present, since > CopyWhole
  PROVE  Wanted(seen) = Desired /\ seen # NoProfile
<1>0. /\ TypeOK /\ SeenSays /\ SeenYoung /\ SeenStale
      /\ since \in Nat /\ MaxLag \in Nat /\ lag["seen"] \in 0..MaxLag
      /\ MaxLag < Requeue /\ Requeue < StaleAfter /\ Requeue \in Nat /\ StaleAfter \in Nat
  BY Numbers, Times DEF Inv
<1>1. since > 2 * MaxLag + 1
  BY DEF CopyWhole
<1>2. since > lag["seen"] + MaxLag + 1 /\ since > lag["seen"] + 1 /\ since > lag["seen"]
  BY <1>0, <1>1
<1>3. seen \in Profiles /\ reported \in Amount
  BY <1>0 DEF TypeOK
<1>4. CASE Fresh
  <2>1. Says(seen) /\ seen.age <= lag["seen"] + 1
    BY <1>0, <1>2, <1>4 DEF SeenSays, SeenYoung, ReportWhole
  <2>2. seen.age <= StaleAfter
    <3>1. seen.age \in 0..(StaleAfter + 1)
      BY <1>3, Fields
    <3> QED BY <1>0, <2>1, <3>1
  <2>3. seen # NoProfile /\ ~Stale(seen)
    BY <1>3, <2>2, NoProfileIsStale
  <2>4. DesiredFrom(seen) = [cpu |-> reported.cpu, mem |-> reported.mem]
    <3>1. reported.cpu \in Nat /\ reported.mem \in Nat /\ Unset \notin Nat
      BY <1>3 DEF Amount, Unset
    <3> QED BY <1>3, <2>1, <3>1, WantedType DEF Says
  <2>5. reported = [cpu |-> reported.cpu, mem |-> reported.mem]
    BY <1>3 DEF Amount
  <2> QED BY <1>4, <2>3, <2>4, <2>5 DEF Wanted, Desired
<1>5. CASE ~Fresh
  <2>1. Stale(seen) /\ seen # NoProfile
    BY <1>0, <1>2, <1>5 DEF SeenStale, Present
  <2> QED BY <1>5, <2>1 DEF Wanted, Desired
<1> QED BY <1>4, <1>5

\* Nor does a step that lets the quiet go on change what is desired.
LEMMA DesiredKept ==
  ASSUME TypeOK, Shape, [Next]_vars, since' # 0
  PROVE  NodeLeaves \/ (Desired' = Desired /\ (Present' => Present))
<1>1. ASSUME NEW o \in Offers, Reports(o), Kept(o), since' = since
      PROVE  Desired' = Desired /\ (Present' => Present)
  BY <1>1, KeptReports DEF Desired, Present
<1>2. CASE Advance
  <2>1. /\ Fresh' <=> Fresh
        /\ reported' = reported /\ node' = node
        /\ profile' = NoProfile <=> profile = NoProfile
    BY <1>2, KeptAdvance DEF Advance
  <2> QED BY <2>1 DEF Desired, Present
<1>3. CASE Still
  <2>1. UNCHANGED <<profile, reported>> /\ (node' # Absent => node # Absent)
    BY <1>3, StillKeeps, StillCopies
  <2> QED BY <2>1 DEF Desired, Fresh, Present
<1> QED BY <1>1, <1>2, <1>3, Undisturbed

LEMMA LeavesAbsent == ASSUME NodeLeaves PROVE ~Present'
  BY DEF NodeLeaves, Present

LEMMA PendingRightStep ==
  ASSUME Inv, [Next]_vars PROVE PendingRight'
<1> USE DEF PendingRight
<1>0. TypeOK /\ Shape /\ PendingRight /\ since \in Nat /\ CopyWhole \in Nat
  BY Numbers, Times DEF Inv, CopyWhole
<1>1. CASE since' = 0
  BY <1>0, <1>1
<1>2. CASE NodeLeaves
  BY <1>2, LeavesAbsent
<1>3. ASSUME NEW o \in Offers, Reports(o), Kept(o), since' = since, ~NodeLeaves, since' # 0
      PROVE  PendingRight'
  <2>1. UNCHANGED <<pending, since>>
    BY <1>0, <1>3, KeptReports
  <2> QED BY <1>0, <1>3, <2>1, DesiredKept
<1>4. CASE Advance
  <2>1. pending' = NoPatch
    BY <1>4 DEF Advance
  <2> QED BY <2>1
<1>5. CASE Still /\ ~NodeLeaves /\ since' # 0
  <2>1. since' = since /\ Desired' = Desired /\ (Present' => Present)
    BY <1>0, <1>5, StillKeeps, DesiredKept
  <2>2. CASE Decides
    <3>1. ctlUp /\ pending' = Wanted(seen)
      BY <2>2 DEF Decides, Reconciles
    <3> QED BY <1>0, <2>1, <3>1, SeesDesired
  <2>3. CASE Patches
    BY <2>3 DEF Patches
  <2>4. ASSUME ~Decides, ~Patches PROVE pending' = pending
    BY <1>5, <2>4 DEF Still, AgentDies, AgentStarts, BaseSyncs, SeenSyncs, NodeSyncs, FindsNothing,
                      InSync, CtlStarts, ctl, vars
  <2> QED BY <1>0, <2>1, <2>2, <2>3, <2>4
<1> QED BY <1>0, <1>1, <1>2, <1>3, <1>4, <1>5, Undisturbed

\* A patch that is taken when it is right makes the node right.
LEMMA PatchIsRight ==
  ASSUME Inv, Patches, Present', since > CopyWhole PROVE Right'
<1>1. TypeOK /\ Shape /\ PendingRight /\ pending # NoPatch /\ node # Absent /\ node' = pending
  BY DEF Inv, Patches
<1>2. UNCHANGED <<profile, reported>>
  BY DEF Patches, history
<1>3. Desired' = Desired /\ Present
  BY <1>1, <1>2 DEF Desired, Fresh, Present
<1>4. node' = Desired
  BY <1>1, <1>3 DEF PendingRight
<1> QED BY <1>1, <1>3, <1>4, DesiredType, SameIsRight DEF Right

LEMMA NodeKnownStep ==
  ASSUME Inv, [Next]_vars PROVE NodeKnown'
<1> USE DEF NodeKnown
<1>0. /\ TypeOK /\ Shape /\ NodeKnown /\ since \in Nat /\ CopyWhole \in Nat
      /\ lag["node"] \in Nat /\ lag'["node"] \in Nat
  <2>1. TypeOK /\ TypeOK' /\ MaxLag \in Nat
    BY TypeStep, Times DEF Inv
  <2>2. lag["node"] \in Nat /\ lag'["node"] \in Nat
    <3>1. lag \in [Caches -> 0..MaxLag] /\ lag' \in [Caches -> 0..MaxLag] /\ "node" \in Caches
      BY <2>1 DEF TypeOK, Caches
    <3> QED BY <2>1, <3>1
  <2> QED BY <2>1, <2>2, Numbers DEF Inv, CopyWhole
<1>1. CASE since' = 0
  BY <1>0, <1>1
<1>2. CASE NodeLeaves
  BY <1>2, LeavesAbsent
<1>3. ASSUME NEW o \in Offers, Reports(o), Kept(o), since' = since, ~NodeLeaves, since' # 0
      PROVE  NodeKnown'
  <2>1. UNCHANGED <<node, nodeSeen, ctlUp, lag>>
    BY <1>0, <1>3, KeptReports
  <2>2. Desired' = Desired /\ (Present' => Present)
    BY <1>0, <1>3, DesiredKept
  <2> QED BY <1>0, <1>3, <2>1, <2>2 DEF Right
<1>4. CASE Advance /\ ~NodeLeaves /\ since' # 0
  <2>1. /\ UNCHANGED <<node, nodeSeen, ctlUp>>
        /\ ctlUp => nodeSeen = node \/ lag'["node"] = lag["node"] + 1
    BY <1>0, <1>4, AdvanceCopies
  <2>2. Desired' = Desired /\ (Present' => Present)
    BY <1>0, <1>4, DesiredKept
  <2>3. since' = since + 1 \/ since' = since
    BY <1>0, <1>4, KeptAdvance
  <2>4. since' > CopyWhole + lag'["node"] /\ lag'["node"] = lag["node"] + 1
          => since > CopyWhole + lag["node"]
    BY <1>0, <2>3
  <2> QED BY <1>0, <2>1, <2>2, <2>4 DEF Right
<1>5. CASE Still /\ ~NodeLeaves /\ since' # 0
  <2>1. since' = since /\ Desired' = Desired /\ (Present' => Present)
    BY <1>0, <1>5, StillKeeps, DesiredKept
  <2>2. \/ nodeSeen' = node'
        \/ UNCHANGED <<nodeSeen, ctlUp>> /\ lag'["node"] = lag["node"]
    BY <1>0, <1>5, StillCopies
  <2>3. CASE Patches
    <3>1. since' > CopyWhole + lag'["node"] => since > CopyWhole
      BY <1>0, <2>1
    <3> QED BY <2>3, <3>1, PatchIsRight
  <2>4. ASSUME ~Patches PROVE node' = node
    BY <1>5, <2>4 DEF Still, AgentDies, AgentStarts, BaseSyncs, SeenSyncs, NodeSyncs, FindsNothing,
                      InSync, Decides, CtlStarts, server, vars
  <2> QED BY <1>0, <2>1, <2>2, <2>3, <2>4 DEF Right
<1> QED BY <1>0, <1>1, <1>2, <1>3, <1>4, <1>5, Undisturbed

LEMMA QueuedStep ==
  ASSUME Inv, [Next]_vars PROVE Queued'
<1> USE DEF Queued
<1>0. /\ TypeOK /\ Queued /\ Registered /\ WellFormed(profile) /\ WellFormed(seen)
      /\ seen \in Profiles /\ wake \in Off..Longest
  BY DEF Inv, Shape, TypeOK
<1>1. \A a \in Off..Longest, b \in 0..Longest : Earlier(a, b) # Off
  BY Times DEF Earlier, Off
<1>2. /\ Off # 0 /\ Requeue # Off /\ Requeue \in 0..Longest
      /\ \A d \in 0..Backoff : d \in 0..Longest
  BY Times DEF Off
<1>3. ASSUME UNCHANGED <<seen, nodeSeen, ctlUp, wake, pending>> PROVE Queued'
  BY <1>0, <1>3
<1>4. ASSUME NEW o \in Offers, Reports(o) \/ Creates(o) \/ ReportFails(o)
      PROVE  UNCHANGED <<seen, nodeSeen, ctlUp, wake, pending>>
  BY <1>4 DEF Reports, Creates, ReportFails, caches, ctl
<1>5. ASSUME AgentDies \/ AgentStarts \/ BaseSyncs \/ NodeLeaves \/ NodeReturns \/ UNCHANGED vars
      PROVE  UNCHANGED <<seen, nodeSeen, ctlUp, wake, pending>>
  BY <1>5 DEF AgentDies, AgentStarts, BaseSyncs, NodeLeaves, NodeReturns, caches, ctl, vars
<1>6. CASE SeenSyncs
  BY <1>0, <1>2, <1>6 DEF SeenSyncs, ReclaimableChanged
<1>7. CASE NodeSyncs
  <2>1. /\ ctlUp /\ nodeSeen' = node /\ nodeSeen # node
        /\ UNCHANGED <<seen, ctlUp, wake, pending>>
    BY <1>7 DEF NodeSyncs, ctl
  <2>2. nodeSeen' # Absent /\ nodeSeen = Absent => seen = NoProfile
    BY <1>0, <2>1 DEF Registered
  <2> QED BY <1>0, <2>1, <2>2
<1>8. CASE FindsNothing
  BY <1>8 DEF FindsNothing, caches
<1>9. CASE InSync
  BY <1>2, <1>9 DEF InSync
<1>10. CASE Decides
  BY <1>0, <1>10, WantedType DEF Decides
<1>11. CASE Patches \/ PatchFails
  BY <1>0, <1>1, <1>2, <1>11 DEF Patches, PatchFails
<1>12. CASE CtlDies
  BY <1>12 DEF CtlDies
<1>13. CASE CtlStarts
  BY <1>2, <1>13 DEF CtlStarts
<1>14. CASE Advance
  <2>1. /\ UNCHANGED <<nodeSeen, ctlUp>> /\ pending = NoPatch /\ (ctlUp => wake # 0)
        /\ seen' = Older(seen) /\ wake' = IF wake = Off THEN Off ELSE wake - 1
    BY <1>0, <1>14, AdvanceEffect
  <2>2. seen' # NoProfile => seen # NoProfile
    BY <1>0, <2>1, OlderKeeps
  <2>3. ctlUp /\ wake # Off => wake' # Off
    <3>1. Longest \in Nat
      BY Times
    <3> QED BY <1>0, <2>1, <3>1 DEF Off
  <2> QED BY <1>0, <2>1, <2>2, <2>3
<1> QED BY <1>3, <1>4, <1>5, <1>6, <1>7, <1>8, <1>9, <1>10, <1>11, <1>12, <1>13, <1>14
        DEF Next, Agent, Controller, Cluster

\* The pass that sees it all corrects what is wrong.
LEMMA PassCorrects ==
  ASSUME Inv, Present, since > CopyWhole + MaxLag
  PROVE  ~FindsNothing /\ (InSync => Right)
<1>1. /\ TypeOK /\ Registered /\ NodeKnown /\ since \in Nat /\ MaxLag \in Nat /\ CopyWhole \in Nat
      /\ lag["node"] \in 0..MaxLag
  BY Numbers, Times DEF Inv, Shape, CopyWhole
<1>2. since > CopyWhole /\ since > CopyWhole + lag["node"]
  BY <1>1
<1>3. ASSUME FindsNothing PROVE FALSE
  <2>1. ctlUp /\ (seen = NoProfile \/ nodeSeen = Absent)
    BY <1>3 DEF FindsNothing, Reconciles
  <2>2. nodeSeen # Absent
    BY <1>1, <2>1 DEF Registered, Present
  <2> QED BY <1>2, <2>1, <2>2, SeesDesired
<1>4. ASSUME InSync PROVE Right
  <2>1. ctlUp /\ ~Significant(nodeSeen, Wanted(seen))
    BY <1>4 DEF InSync, Reconciles
  <2>2. ~Significant(nodeSeen, Desired)
    BY <1>2, <2>1, SeesDesired
  <2>3. nodeSeen = node \/ Right
    BY <1>1, <1>2, <2>1 DEF NodeKnown
  <2> QED BY <2>2, <2>3 DEF Right
<1> QED BY <1>3, <1>4

LEMMA CorrectedStep ==
  ASSUME Inv, [Next]_vars PROVE Corrected'
<1> USE DEF Corrected
<1>0. /\ TypeOK /\ TypeOK' /\ Shape /\ Corrected /\ Queued /\ since \in Nat /\ MaxLag \in Nat
      /\ Longest \in Nat /\ NodeWhole \in Nat /\ Settling = NodeWhole + Longest + 1
      /\ wake \in Off..Longest
  <2>1. TypeOK /\ TypeOK' /\ Shape /\ Corrected /\ Queued
    BY TypeStep DEF Inv
  <2>2. wake \in Off..Longest
    BY <2>1 DEF TypeOK
  <2>3. /\ MaxLag \in Nat /\ Longest \in Nat /\ Settling \in Nat
        /\ Settling = NodeWhole + Longest + 1
    BY Times
  <2>4. since \in Nat /\ NodeWhole \in Nat
    BY <2>1, <2>3, Numbers DEF NodeWhole
  <2> QED BY <2>1, <2>2, <2>3, <2>4
<1>00. CopyWhole + MaxLag = NodeWhole /\ CopyWhole \in Nat
  BY Times DEF CopyWhole, NodeWhole
<1>1. CASE since' = 0
  BY <1>0, <1>1
<1>2. CASE NodeLeaves
  BY <1>2, LeavesAbsent
<1>3. ASSUME NEW o \in Offers, Reports(o), Kept(o), since' = since, ~NodeLeaves, since' # 0
      PROVE  Corrected'
  <2>1. UNCHANGED <<node, wake, pending>>
    BY <1>0, <1>3, KeptReports
  <2>2. Desired' = Desired /\ (Present' => Present)
    BY <1>0, <1>3, DesiredKept
  <2> QED BY <1>0, <1>3, <2>1, <2>2 DEF Right
<1>4. CASE Advance /\ ~NodeLeaves /\ since' # 0
  <2>1. SUFFICES ASSUME Present', since' > NodeWhole, ~Right'
                 PROVE  /\ since' <= NodeWhole + Longest
                        /\ wake' # Off /\ wake' + since' <= NodeWhole + Longest
    OBVIOUS
  <2>2. Desired' = Desired /\ Present
    BY <1>0, <1>4, <2>1, DesiredKept
  <2>3. /\ ctlUp /\ node' = node /\ pending = NoPatch /\ wake # 0
        /\ wake' = IF wake = Off THEN Off ELSE wake - 1
        /\ \/ since' = since + 1
           \/ since' = since /\ since = Settling
    <3>1. WellFormed(profile) /\ WellFormed(seen)
      BY <1>0 DEF Shape
    <3> QED BY <1>0, <1>4, <3>1, KeptAdvance, AdvanceEffect
  <2>4. ~Right
    BY <2>1, <2>2, <2>3 DEF Right
  <2>5. CASE since > NodeWhole
    <3>1. since <= NodeWhole + Longest /\ wake # Off /\ wake + since <= NodeWhole + Longest
      BY <2>2, <2>3, <2>4, <2>5, <1>0
    <3> QED BY <1>0, <2>3, <3>1 DEF Off
  <2>6. CASE ~(since > NodeWhole)
    <3>1. since = NodeWhole /\ since' = NodeWhole + 1
      BY <1>0, <2>1, <2>3, <2>6
    <3>2. seen # NoProfile
      <4>1. CASE MaxLag = 0
        <5>1. seen = profile \/ lag'["seen"] = lag["seen"] + 1
          BY <1>0, <1>4, <2>3, AdvanceCopies
        <5>2. lag["seen"] \in 0..MaxLag
          BY <1>0, Numbers
        <5>3. lag'["seen"] \in 0..MaxLag
          <6>1. lag' \in [Caches -> 0..MaxLag] /\ "seen" \in Caches
            BY <1>0 DEF TypeOK, Caches
          <6> QED BY <6>1
        <5>4. seen = profile
          BY <4>1, <5>1, <5>2, <5>3
        <5> QED BY <2>2, <5>4 DEF Present
      <4>2. CASE MaxLag # 0
        <5>1. since > CopyWhole
          BY <1>0, <1>00, <3>1, <4>2
        <5> QED BY <2>2, <2>3, <5>1, SeesDesired
      <4> QED BY <4>1, <4>2
    <3>3. nodeSeen # Absent
      BY <1>0, <2>2, <2>3 DEF Shape, Registered, Present
    <3>4. wake # Off
      BY <1>0, <2>3, <3>2, <3>3 DEF Queued
    <3> QED BY <1>0, <2>3, <3>1, <3>4 DEF Off
  <2> QED BY <2>5, <2>6
<1>5. CASE Still /\ ~NodeLeaves /\ since' # 0
  <2>1. SUFFICES ASSUME Present', since' > NodeWhole, ~Right'
                 PROVE  /\ since' <= NodeWhole + Longest
                        /\ pending' = NoPatch =>
                             wake' # Off /\ wake' + since' <= NodeWhole + Longest
    OBVIOUS
  <2>2. since' = since /\ Desired' = Desired /\ Present
    BY <1>0, <1>5, <2>1, StillKeeps, DesiredKept
  <2>3. since > CopyWhole + MaxLag /\ since > CopyWhole
    BY <1>0, <1>00, <2>1, <2>2
  <2>4. ~Patches
    BY <2>1, <2>3, PatchIsRight
  <2>5. node' = node
    BY <1>5, <2>4 DEF Still, AgentDies, AgentStarts, BaseSyncs, SeenSyncs, NodeSyncs, FindsNothing,
                      InSync, Decides, CtlStarts, server, vars
  <2>6. ~Right
    BY <2>1, <2>2, <2>5 DEF Right
  <2>7. /\ since <= NodeWhole + Longest
        /\ pending = NoPatch => wake # Off /\ wake + since <= NodeWhole + Longest
    BY <1>0, <2>1, <2>2, <2>6
  <2>8. ~FindsNothing /\ ~InSync
    BY <2>2, <2>3, <2>6, PassCorrects
  <2>9. CASE Decides
    <3>1. pending' # NoPatch
      BY <1>0, <2>9, WantedType DEF Decides, TypeOK
    <3> QED BY <2>2, <2>7, <3>1
  <2>10. CASE SeenSyncs
    <3>1. pending' = pending /\ wake' \in {0, wake}
      BY <2>10 DEF SeenSyncs
    <3>2. CASE wake' = 0
      <4>1. wake' # Off /\ wake' + since' <= NodeWhole + Longest
        BY <1>0, <2>2, <2>7, <3>2 DEF Off
      <4> QED BY <2>2, <2>7, <4>1
    <3>3. CASE wake' = wake
      BY <2>2, <2>7, <3>1, <3>3
    <3> QED BY <3>1, <3>2, <3>3
  <2>11. ASSUME ~Decides, ~SeenSyncs, ~CtlStarts PROVE UNCHANGED <<wake, pending>>
    BY <1>5, <2>4, <2>8, <2>11 DEF Still, AgentDies, AgentStarts, BaseSyncs, NodeSyncs, ctl, vars
  <2>12. ~CtlStarts
    BY <1>0, <1>5, <2>2 DEF CtlStarts, Shape, Quiet
  <2> QED BY <2>2, <2>7, <2>9, <2>10, <2>11, <2>12
<1> QED BY <1>0, <1>1, <1>2, <1>3, <1>4, <1>5, Undisturbed

-----------------------------------------------------------------------------
(* The theorems.                                                            *)

LEMMA InvInit == Init => Inv
<1> SUFFICES ASSUME Init PROVE Inv
  OBVIOUS
<1>1. TypeOK /\ Shape
  BY TypeInit
<1>2. /\ lag["base"] = 0 /\ lag["seen"] = 0 /\ lag["node"] = 0
      /\ since = 0 /\ ~ctlUp /\ profile = NoProfile
  BY DEF Init, Caches
<1>3. BaseAgrees /\ ProfileSays /\ SeenSays /\ SeenYoung /\ SeenStale
  BY <1>2 DEF BaseAgrees, ProfileSays, SeenSays, SeenYoung, SeenStale, Fresh
<1>4. PendingRight /\ NodeKnown /\ Queued /\ Corrected
  BY <1>2 DEF PendingRight, NodeKnown, Queued, Corrected, Present
<1> QED BY <1>1, <1>3, <1>4 DEF Inv

LEMMA InvStep == Inv /\ [Next]_vars => Inv'
<1> SUFFICES ASSUME Inv, [Next]_vars PROVE Inv'
  OBVIOUS
<1>1. TypeOK /\ Shape
  BY DEF Inv
<1>2. TypeOK' /\ Shape'
  BY <1>1, TypeStep, ShapeStep
<1>3. BaseAgrees' /\ ProfileSays' /\ SeenSays' /\ SeenYoung' /\ SeenStale'
  BY BaseAgreesStep, ProfileSaysStep, SeenSaysStep, SeenYoungStep, SeenStaleStep
<1>4. PendingRight' /\ NodeKnown' /\ Queued' /\ Corrected'
  BY PendingRightStep, NodeKnownStep, QueuedStep, CorrectedStep
<1> QED BY <1>2, <1>3, <1>4 DEF Inv

\* What the quiet time says of every copy of the profile and of the node holds always
\* (the merge patch of report.go, the caches of controller-runtime, sync).
THEOREM Invariant == Spec => []Inv
  BY InvInit, InvStep, PTL DEF Spec

\* Every field has its type: profiles that were merged from a stale copy, aged or
\* blank are profiles, and no delay of the work queue is longer than the longest
\* requeue or retry (report.go, controller.go).
THEOREM TypeCorrect == Spec => []TypeOK
<1>1. Inv => TypeOK
  BY DEF Inv
<1> QED BY <1>1, Invariant, PTL

\* At the deadline the node is right.
LEMMA SettledRight == Inv /\ Settled => Right
<1>1. TypeOK /\ Inv => /\ since = Settling => since > NodeWhole /\ ~(since <= NodeWhole + Longest)
  BY Times DEF NodeWhole
<1> QED BY <1>1 DEF Inv, Settled, Corrected, Present

\* Whatever was lost, late, restarted or small before, capacity that the agent withdrew
\* or that a dead agent left behind is off the node within the settling time, for every
\* requeue, retry delay, staleness and lag of the caches (controller.go, staleAfter and
\* the requeue; report.go, the merge patch).
THEOREM WithdrawnHolds == Spec => []Withdrawn
<1>1. ASSUME Inv PROVE Withdrawn
  <2>1. SUFFICES ASSUME Settled, Desired = Nothing PROVE node = Nothing
    BY DEF Withdrawn
  <2>2. ~Significant(node, Nothing)
    BY <1>1, <2>1, SettledRight DEF Right
  <2>3. node \in Amount
    BY <1>1, <2>1 DEF Inv, TypeOK, Settled
  <2>4. node.cpu = 0 /\ node.mem = 0
    BY <2>2 DEF Significant, Nothing
  <2> QED BY <2>3, <2>4 DEF Amount, Nothing
<1> QED BY <1>1, Invariant, PTL

\* What a live agent keeps offering is on the node by then, up to the least change, with
\* the same generality: the events that are lost or filtered are made up for by the
\* requeue (controller.go, sync and reclaimableChanged).
THEOREM AdvertisedHolds == Spec => []Advertised
<1>1. ASSUME Inv PROVE Advertised
  <2>1. SUFFICES ASSUME Settled, Desired # Nothing
                 PROVE  node # Nothing /\ ~Significant(node, Desired)
    BY DEF Advertised
  <2>2. ~Significant(node, Desired)
    BY <1>1, <2>1, SettledRight DEF Right
  <2>3. Desired \in Amount
    BY <1>1, DesiredType DEF Inv
  <2>4. Desired.cpu # 0 \/ Desired.mem # 0
    BY <2>1, <2>3 DEF Amount, Nothing
  <2>5. node # Nothing
    BY <2>2, <2>4 DEF Significant, Nothing
  <2> QED BY <2>2, <2>5
<1> QED BY <1>1, Invariant, PTL
=============================================================================
