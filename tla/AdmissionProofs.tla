-------------------------- MODULE AdmissionProofs ---------------------------
(***************************************************************************)
(* Proofs about Admission, for every pod, every level asked for and every   *)
(* policy, through any number of submissions: what is oversold asks for no  *)
(* CPU and the agent reads from it what its author asked for, what is       *)
(* dedicated has whole cores, a critical pod is in the system tier, and     *)
(* what was admitted is admitted again.                                     *)
(***************************************************************************)
EXTENDS Admission, FiniteSetTheorems, WellFoundedInduction, TLAPS

-----------------------------------------------------------------------------
(* Least counterexamples, and the recursive function behind a sum.           *)

\* A set of naturals that is not empty has a least element.
LEMMA LeastNat ==
  ASSUME NEW T \in SUBSET Nat, T # {}
  PROVE  \E m \in T : \A n \in T : m <= n
<1> DEFINE Below == {0..n : n \in T}
           R == StrictSubsetOrdering(Nat)
<1>1. \A n \in Nat : 0..n \in SUBSET Nat /\ IsFiniteSet(0..n)
  BY FS_Interval
<1>2. Below \subseteq FiniteSubsetsOf(Nat) /\ Below # {}
  BY <1>1 DEF FiniteSubsetsOf
<1>3. IsWellFoundedOn(R, FiniteSubsetsOf(Nat))
  BY FS_StrictSubsetOrderingWellFounded
<1> HIDE DEF Below, R
<1>4. PICK X \in Below : \A Y \in Below : ~(<<Y, X>> \in R)
  BY <1>2, <1>3, WFMin
<1> USE DEF Below, R
<1>5. PICK m \in T : X = 0..m
  OBVIOUS
<1>6. ASSUME NEW n \in T, n < m PROVE FALSE
  <2>1. 0..n \subseteq 0..m /\ m \in 0..m /\ m \notin 0..n
    BY <1>6
  <2>2. <<0..n, 0..m>> \in R
    BY <1>1, <2>1 DEF StrictSubsetOrdering
  <2> QED BY <1>4, <1>5, <2>2
<1> QED BY <1>6

\* What SumFunction adds next, and the table of the sums of all parts.
One(s) == CHOOSE x \in s : TRUE

Row(f, sum, s) == IF s = {} THEN 0 ELSE f[One(s)] + sum[s \ {One(s)}]

Sums(f, sum, parts) == sum = [s \in parts |-> Row(f, sum, s)]

LEMMA SumsExist ==
  ASSUME NEW S, IsFiniteSet(S), NEW f
  PROVE  \E sum : Sums(f, sum, SUBSET S)
<1> DEFINE Small(n) == {s \in SUBSET S : Cardinality(s) <= n}
           T == {n \in Nat : ~ \E sum : Sums(f, sum, Small(n))}
<1>1. \A s \in SUBSET S : IsFiniteSet(s) /\ Cardinality(s) \in Nat /\ Cardinality(s) <= Cardinality(S)
  BY FS_Subset, FS_CardinalityType
<1>2. ASSUME T # {} PROVE FALSE
  <2>1. T \in SUBSET Nat
    OBVIOUS
  <2>2. PICK k \in T : \A n \in T : k <= n
    <3> HIDE DEF T
    <3> QED BY <1>2, <2>1, LeastNat
  <2>3. CASE k = 0
    <3> DEFINE sum == [s \in Small(0) |-> 0]
    <3>1. \A s \in Small(0) : s = {}
      BY <1>1, FS_EmptySet
    <3>2. sum = [s \in Small(0) |-> Row(f, sum, s)]
      BY <3>1 DEF Row
    <3> QED BY <2>3, <3>2 DEF Sums
  <2>4. CASE k # 0
    <3>1. k - 1 \in Nat /\ k - 1 \notin T
      <4> HIDE DEF T
      <4>1. k \in Nat /\ k - 1 \in Nat /\ ~(k <= k - 1)
        BY <2>1, <2>2, <2>4
      <4> QED BY <2>2, <4>1
    <3>2. PICK old : Sums(f, old, Small(k - 1))
      BY <3>1
    <3> DEFINE sum == [s \in Small(k) |-> Row(f, old, s)]
    <3>3. ASSUME NEW s \in Small(k), s # {} PROVE sum[s \ {One(s)}] = old[s \ {One(s)}]
      <4> DEFINE u == s \ {One(s)}
      <4>1. One(s) \in s
        BY <3>3 DEF One
      <4>2. Cardinality(u) = Cardinality(s) - 1
        BY <1>1, <4>1, FS_RemoveElement
      <4>3. u \in Small(k - 1) /\ u \in Small(k)
        BY <1>1, <4>2
      <4>4. old[u] = Row(f, old, u)
        BY <3>2, <4>3 DEF Sums
      <4> QED BY <4>3, <4>4
    <3>4. ASSUME NEW s \in Small(k) PROVE Row(f, sum, s) = Row(f, old, s)
      <4> HIDE DEF sum
      <4>1. CASE s = {}
        BY <4>1 DEF Row
      <4>2. CASE s # {}
        BY <3>3, <4>2, Zenon DEF Row
      <4> QED BY <4>1, <4>2
    <3>5. sum = [s \in Small(k) |-> Row(f, sum, s)]
      BY <3>4
    <3>6. Sums(f, sum, Small(k))
      BY <3>5 DEF Sums
    <3> QED BY <3>6
  <2> QED BY <2>3, <2>4
<1>3. Cardinality(S) \in Nat /\ Cardinality(S) \notin T
  BY <1>2, FS_CardinalityType
<1>4. Small(Cardinality(S)) = SUBSET S
  BY <1>1
<1> QED BY <1>3, <1>4

LEMMA SumIs ==
  ASSUME NEW S, IsFiniteSet(S), NEW f, DOMAIN f = S
  PROVE  \E sum : Sums(f, sum, SUBSET S) /\ SumFunction(f) = sum[S]
<1> DEFINE F == CHOOSE sum : Sums(f, sum, SUBSET S)
<1>1. Sums(f, F, SUBSET S)
  BY SumsExist
<1>2. SumFunction(f) = F[S]
  BY Zenon DEF SumFunction, SumFunctionOnSet, FoldFunctionOnSet, MapThenFoldSet, Sums, Row, One
<1> QED BY <1>1, <1>2

\* Every part of a finite set is reached one element at a time.
LEMMA PartByPart ==
  ASSUME NEW S, IsFiniteSet(S), NEW T \in SUBSET SUBSET S, {} \in T,
         \A s \in SUBSET S : s # {} /\ s \ {One(s)} \in T => s \in T
  PROVE  S \in T
<1> DEFINE Sizes == {Cardinality(s) : s \in (SUBSET S) \ T}
<1>1. \A s \in SUBSET S : IsFiniteSet(s) /\ Cardinality(s) \in Nat
  BY FS_Subset, FS_CardinalityType
<1>2. SUFFICES ASSUME S \notin T PROVE FALSE
  OBVIOUS
<1>3. Sizes \in SUBSET Nat /\ Sizes # {}
  BY <1>1, <1>2
<1>4. PICK k \in Sizes : \A n \in Sizes : k <= n
  <2> HIDE DEF Sizes
  <2> QED BY <1>3, LeastNat
<1>5. PICK s \in (SUBSET S) \ T : k = Cardinality(s)
  BY <1>4
<1>6. s # {} /\ One(s) \in s
  BY <1>5 DEF One
<1>7. Cardinality(s \ {One(s)}) = Cardinality(s) - 1 /\ s \ {One(s)} \in SUBSET S
  BY <1>1, <1>6, FS_RemoveElement
<1>8. s \ {One(s)} \in T
  BY <1>1, <1>4, <1>5, <1>7
<1> QED BY <1>5, <1>6, <1>8

LEMMA SumStays ==
  ASSUME NEW S, IsFiniteSet(S), NEW K, 0 \in K, \A a, b \in K : a + b \in K, NEW f \in [S -> K]
  PROVE  SumFunction(f) \in K
<1>1. PICK sum : Sums(f, sum, SUBSET S) /\ SumFunction(f) = sum[S]
  BY SumIs
<1> DEFINE T == {s \in SUBSET S : sum[s] \in K}
<1>2. {} \in T
  BY <1>1 DEF Sums, Row
<1>3. ASSUME NEW s \in SUBSET S, s # {}, s \ {One(s)} \in T PROVE s \in T
  <2>1. One(s) \in s
    BY <1>3 DEF One
  <2>2. sum[s] = f[One(s)] + sum[s \ {One(s)}]
    BY <1>1, <1>3 DEF Sums, Row
  <2>3. f[One(s)] \in K /\ sum[s \ {One(s)}] \in K
    BY <1>3, <2>1
  <2> QED BY <2>2, <2>3
<1>4. S \in T
  <2> HIDE DEF T
  <2>1. T \in SUBSET SUBSET S
    BY DEF T
  <2> QED BY <1>2, <1>3, <2>1, PartByPart
<1> QED BY <1>1, <1>4

LEMMA SumPositive ==
  ASSUME NEW S, IsFiniteSet(S), S # {}, NEW f \in [S -> Nat \ {0}]
  PROVE  SumFunction(f) \in Nat \ {0}
<1>1. PICK sum : Sums(f, sum, SUBSET S) /\ SumFunction(f) = sum[S]
  BY SumIs
<1> DEFINE T == {s \in SUBSET S : sum[s] \in Nat /\ (s # {} => sum[s] # 0)}
<1>2. {} \in T
  BY <1>1 DEF Sums, Row
<1>3. ASSUME NEW s \in SUBSET S, s # {}, s \ {One(s)} \in T PROVE s \in T
  <2>1. One(s) \in s
    BY <1>3 DEF One
  <2>2. sum[s] = f[One(s)] + sum[s \ {One(s)}]
    BY <1>1, <1>3 DEF Sums, Row
  <2>3. f[One(s)] \in Nat \ {0} /\ sum[s \ {One(s)}] \in Nat
    BY <1>3, <2>1
  <2>4. sum[s] \in Nat \ {0}
    BY <2>2, <2>3
  <2> QED BY <2>4
<1>4. S \in T
  <2> HIDE DEF T
  <2>1. T \in SUBSET SUBSET S
    BY DEF T
  <2> QED BY <1>2, <1>3, <2>1, PartByPart
<1> QED BY <1>1, <1>4

LEMMA SumGrows ==
  ASSUME NEW S, IsFiniteSet(S), NEW f \in [S -> Int], NEW g \in [S -> Int],
         \A x \in S : f[x] <= g[x]
  PROVE  SumFunction(f) \in Int /\ SumFunction(g) \in Int /\ SumFunction(f) <= SumFunction(g)
<1>1. PICK low : Sums(f, low, SUBSET S) /\ SumFunction(f) = low[S]
  BY SumIs
<1>2. PICK high : Sums(g, high, SUBSET S) /\ SumFunction(g) = high[S]
  BY SumIs
<1> DEFINE T == {s \in SUBSET S : low[s] \in Int /\ high[s] \in Int /\ low[s] <= high[s]}
<1>3. {} \in T
  <2>1. low[{}] = 0 /\ high[{}] = 0
    BY <1>1, <1>2 DEF Sums, Row
  <2> QED BY <2>1
<1>4. ASSUME NEW s \in SUBSET S, s # {}, s \ {One(s)} \in T PROVE s \in T
  <2> DEFINE x == One(s)
             u == s \ {x}
  <2>1. x \in S
    BY <1>4 DEF One
  <2>2. low[s] = f[x] + low[u] /\ high[s] = g[x] + high[u]
    BY <1>1, <1>2, <1>4 DEF Sums, Row
  <2>3. f[x] \in Int /\ g[x] \in Int /\ f[x] <= g[x]
    BY <2>1
  <2>4. low[u] \in Int /\ high[u] \in Int /\ low[u] <= high[u]
    BY <1>4
  <2>5. \A i, j, k, l \in Int : i <= j /\ k <= l => i + k <= j + l
    OBVIOUS
  <2> HIDE DEF x, u
  <2>6. low[s] \in Int /\ high[s] \in Int /\ low[s] <= high[s]
    BY <2>2, <2>3, <2>4, <2>5
  <2> QED BY <2>6
<1>5. S \in T
  <2> HIDE DEF T
  <2>1. T \in SUBSET SUBSET S
    BY DEF T
  <2> QED BY <1>3, <1>4, <2>1, PartByPart
<1> QED BY <1>1, <1>2, <1>5

\* A finite set of numbers has a largest one.
LEMMA MaxIs ==
  ASSUME NEW S \in SUBSET Int, IsFiniteSet(S), S # {}
  PROVE  Max(S) \in S /\ \A y \in S : Max(S) >= y
<1> DEFINE Top(s) == \E m \in s : \A y \in s : m >= y
           T == {s \in SUBSET S : s # {} => Top(s)}
<1>1. {} \in T
  OBVIOUS
<1>2. ASSUME NEW s \in SUBSET S, s # {}, s \ {One(s)} \in T PROVE s \in T
  <2> DEFINE x == One(s)
             u == s \ {x}
  <2>1. x \in s
    BY <1>2 DEF One
  <2>2. s \subseteq Int /\ u \subseteq Int /\ x \in Int
    BY <2>1
  <2> HIDE DEF x
  <2>3. CASE u = {}
    <3>1. \A y \in s : y = x
      BY <2>1, <2>3
    <3> QED BY <2>1, <2>2, <3>1
  <2>4. CASE u # {}
    <3>1. PICK m \in u : \A y \in u : m >= y
      BY <1>2, <2>4 DEF x
    <3>2. m \in s /\ m \in Int
      BY <2>2, <3>1
    <3>3. CASE m >= x
      <4>1. \A y \in s : m >= y
        BY <3>1, <3>3
      <4> QED BY <3>2, <4>1
    <3>4. CASE ~(m >= x)
      <4>1. \A y \in s : y \in u \/ y = x
        OBVIOUS
      <4>2. \A y \in u : y \in Int
        BY <2>2
      <4>3. \A y \in s : x >= y
        BY <2>2, <3>1, <3>2, <3>4, <4>1, <4>2
      <4> QED BY <2>1, <4>3
    <3> QED BY <3>3, <3>4
  <2> QED BY <2>3, <2>4
<1>3. S \in T
  <2> HIDE DEF T
  <2>1. T \in SUBSET SUBSET S
    BY DEF T
  <2> QED BY <1>1, <1>2, <2>1, PartByPart
<1> QED BY <1>3, Zenon DEF Max

-----------------------------------------------------------------------------
(* Shapes.                                                                  *)

\* The records of original resources: some of the containers, by their place.
Records == UNION {[D -> Container] : D \in SUBSET Nat}

PodType == [init : Seq(Container), main : Seq(Container), level : Asked \cup Levels,
            class : Classes \cup {"none"}, numa : BOOLEAN, original : Records]

\* Nothing is left for the API server to default.
Settled(c) == \A r \in Res : c.req[r] = None => c.lim[r] = None

\* p is oversold only without CPU requests.
Sound(p) ==
  /\ p \in PodType
  /\ DOMAIN p.original \subseteq DOMAIN p.main
  /\ \A i \in DOMAIN p.main :
       /\ Settled(p.main[i])
       /\ DOMAIN p.original # {} => p.main[i].req["cpu"] <= 0

\* What the webhook has admitted it would admit as it stands.
Kept(p) == Explicit(p) /\ Acceptable(p, p.level)

\* A critical pod without a level of its own has none or the system's.
Critical(a, p) ==
  a.class = "critical" /\ a.level \notin Levels
    => p.class = "critical" /\ (p.level \notin Levels \/ p.level = "system")

Inv ==
  /\ policy \in Policies /\ stage \in {"absent", "submitted", "stored", "denied", "invalid"}
  /\ passes \in {"new", "handled", "bypassed"}
  /\ Sound(asked) /\ Sound(pod)
  /\ passes = "handled" => Kept(pod)
  /\ Critical(asked, pod)
  /\ Readmitted

-----------------------------------------------------------------------------
(* Containers.                                                              *)

LEMMA ContainerParts ==
  ASSUME NEW c \in Container, NEW r \in Res
  PROVE  /\ c.req[r] \in Int /\ c.req[r] >= None
         /\ c.lim[r] \in Int /\ c.lim[r] >= None
         /\ c.ext[r] \in Int /\ c.ext[r] >= None
  BY DEF Container, Quantity

LEMMA MaxType == ASSUME NEW x \in Int PROVE Max({1, x}) \in Int /\ Max({1, x}) >= 1
<1>1. \E z \in {1, x} : \A y \in {1, x} : z >= y
  <2>1. CASE x >= 1
    BY <2>1
  <2>2. CASE ~(x >= 1)
    BY <2>2
  <2> QED BY <2>1, <2>2
<1>2. Max({1, x}) \in {1, x} /\ \A y \in {1, x} : Max({1, x}) >= y
  BY <1>1 DEF Max
<1> QED BY <1>2

LEMMA DefaultsSettle ==
  ASSUME NEW c \in Container
  PROVE  /\ WithDefaults(c) \in Container /\ Settled(WithDefaults(c))
         /\ WithDefaults(c).lim = c.lim
         /\ Settled(c) => WithDefaults(c).req = c.req
         /\ \A r \in Res : c.req[r] > 0 => WithDefaults(c).req[r] = c.req[r]
<1> DEFINE req == [r \in Res |-> IF c.req[r] = None THEN c.lim[r] ELSE c.req[r]]
<1>1. req \in [Res -> Quantity]
  BY DEF Container
<1>2. WithDefaults(c) = [c EXCEPT !.req = req]
  BY DEF WithDefaults
<1>3. WithDefaults(c) \in Container /\ WithDefaults(c).req = req /\ WithDefaults(c).lim = c.lim
  <2> HIDE DEF req
  <2> QED BY <1>1, <1>2 DEF Container
<1>4. c.req \in [Res -> Quantity]
  BY DEF Container
<1>5. Settled(WithDefaults(c))
  BY <1>3 DEF Settled
<1>6. Settled(c) => req = c.req
  BY <1>4 DEF Settled
<1>7. \A r \in Res : c.req[r] > 0 => req[r] = c.req[r]
  BY DEF None
<1> HIDE DEF req
<1> QED BY <1>3, <1>5, <1>6, <1>7

\* What is rewritten has no CPU request, none that its limit would bring back, and its
\* memory limit still says that it may be reclaimed.
LEMMA RewriteMoves ==
  ASSUME NEW c \in Container, Settled(c)
  PROVE  /\ Rewritten(c) \in Container
         /\ WithDefaults(Rewritten(c)).req["cpu"] <= 0
         /\ c.lim["mem"] # 0 => Rewritten(c).lim["mem"] # 0
<1> DEFINE moved == {r \in Res : c.req[r] > 0}
           req == [r \in Res |-> IF r \in moved THEN None ELSE c.req[r]]
           lim == [r \in Res |->
                     IF r \notin moved THEN c.lim[r]
                     ELSE IF r = "cpu" THEN None
                     ELSE IF c.lim[r] = None THEN c.req[r] ELSE c.lim[r]]
           ext == [r \in Res |-> IF r \in moved THEN Max({1, c.req[r] \div Unit[r]}) ELSE c.ext[r]]
<1>1. Rewritten(c) = [req |-> req, lim |-> lim, ext |-> ext]
  BY DEF Rewritten
<1>2. req \in [Res -> Quantity]
  BY ContainerParts DEF Quantity, None
<1>3. lim \in [Res -> Quantity]
  BY ContainerParts DEF Quantity, None
<1>4. ASSUME NEW r \in Res PROVE ext[r] \in Quantity
  <2>1. c.req[r] \div Unit[r] \in Int
    <3>1. Unit[r] = 1 \/ Unit[r] = 1024
      BY DEF Unit
    <3> QED BY <3>1, ContainerParts
  <2>2. Max({1, c.req[r] \div Unit[r]}) \in Quantity
    BY <2>1, MaxType DEF Quantity, None
  <2>3. c.ext[r] \in Quantity
    BY DEF Container
  <2> QED BY <2>2, <2>3
<1>5. ext \in [Res -> Quantity]
  BY <1>4
<1>6. req["cpu"] <= 0 /\ (req["cpu"] = None => lim["cpu"] = None)
  <2>1. "cpu" \in Res /\ c.req["cpu"] \in Int /\ (c.req["cpu"] = None => c.lim["cpu"] = None)
    BY ContainerParts DEF Res, Settled
  <2> QED BY <2>1 DEF None
<1>7. c.lim["mem"] # 0 => lim["mem"] # 0
  <2>1. "mem" \in Res /\ c.req["mem"] \in Int
    BY ContainerParts DEF Res
  <2> QED BY <2>1
<1> HIDE DEF req, lim, ext
<1>8. Rewritten(c) \in Container /\ Rewritten(c).req = req /\ Rewritten(c).lim = lim
  BY <1>1, <1>2, <1>3, <1>5 DEF Container
<1>9. WithDefaults(Rewritten(c)).req["cpu"] <= 0
  <2>1. WithDefaults(Rewritten(c)).req =
          [r \in Res |-> IF req[r] = None THEN lim[r] ELSE req[r]]
    BY <1>8 DEF WithDefaults, Container
  <2> QED BY <1>6, <2>1 DEF Res, None
<1> QED BY <1>7, <1>8, <1>9

-----------------------------------------------------------------------------
(* Pods.                                                                    *)

LEMMA DefaultedIs ==
  ASSUME NEW p \in PodType
  PROVE  /\ Defaulted(p) \in PodType
         /\ Defaulted(p).main = [i \in DOMAIN p.main |-> WithDefaults(p.main[i])]
         /\ Defaulted(p).level = p.level /\ Defaulted(p).class = p.class
         /\ Defaulted(p).numa = p.numa /\ Defaulted(p).original = p.original
<1> DEFINE init == [i \in DOMAIN p.init |-> WithDefaults(p.init[i])]
           main == [i \in DOMAIN p.main |-> WithDefaults(p.main[i])]
<1>1. p.init \in Seq(Container) /\ p.main \in Seq(Container)
  BY DEF PodType
<1>2. init \in Seq(Container) /\ main \in Seq(Container)
  BY <1>1, DefaultsSettle
<1>3. Defaulted(p) = [p EXCEPT !.init = init, !.main = main]
  BY DEF Defaulted
<1> HIDE DEF init, main
<1>4. /\ Defaulted(p) \in PodType /\ Defaulted(p).main = main
      /\ Defaulted(p).level = p.level /\ Defaulted(p).class = p.class
      /\ Defaulted(p).numa = p.numa /\ Defaulted(p).original = p.original
  BY <1>2, <1>3 DEF PodType
<1> QED BY <1>4 DEF main

\* Defaulting what was defaulted before changes nothing that matters.
LEMMA DefaultedSound ==
  ASSUME NEW p, Sound(p)
  PROVE  Sound(Defaulted(p))
<1>1. p \in PodType /\ p.main \in Seq(Container)
  BY DEF Sound, PodType
<1>2. \A i \in DOMAIN p.main :
        /\ Defaulted(p).main[i] = WithDefaults(p.main[i])
        /\ Settled(WithDefaults(p.main[i])) /\ WithDefaults(p.main[i]).req = p.main[i].req
  <2> TAKE i \in DOMAIN p.main
  <2>1. p.main[i] \in Container /\ Settled(p.main[i])
    BY <1>1 DEF Sound
  <2>2. Defaulted(p).main[i] = WithDefaults(p.main[i])
    BY <1>1, DefaultedIs
  <2> QED BY <2>1, <2>2, DefaultsSettle
<1>3. DOMAIN Defaulted(p).main = DOMAIN p.main /\ Defaulted(p).original = p.original
  BY <1>1, DefaultedIs
<1>4. Defaulted(p) \in PodType
  BY <1>1, DefaultedIs
<1>5. DOMAIN Defaulted(p).original \subseteq DOMAIN Defaulted(p).main
  BY <1>3 DEF Sound
<1>6. ASSUME NEW i \in DOMAIN Defaulted(p).main
      PROVE  /\ Settled(Defaulted(p).main[i])
             /\ DOMAIN Defaulted(p).original # {} => Defaulted(p).main[i].req["cpu"] <= 0
  <2>1. i \in DOMAIN p.main
    BY <1>3
  <2>2. DOMAIN p.original # {} => p.main[i].req["cpu"] <= 0
    BY <2>1 DEF Sound
  <2>3. Settled(Defaulted(p).main[i]) /\ Defaulted(p).main[i].req = p.main[i].req
    BY <1>2, <2>1
  <2> QED BY <1>3, <2>2, <2>3
<1> QED BY <1>4, <1>5, <1>6 DEF Sound

\* Neither does it touch what validation looks at.
LEMMA DefaultedKept ==
  ASSUME NEW p \in PodType, Kept(p)
  PROVE  Kept(Defaulted(p))
<1>1. p.main \in Seq(Container)
  BY DEF PodType
<1>2. DOMAIN Defaulted(p).main = DOMAIN p.main
      /\ \A i \in DOMAIN p.main : Defaulted(p).main[i] = WithDefaults(p.main[i])
  BY DefaultedIs
<1>3. WholeCores(p) => WholeCores(Defaulted(p))
  <2>1. \A i \in DOMAIN p.main : p.main[i].req["cpu"] > 0 =>
          Defaulted(p).main[i].req["cpu"] = p.main[i].req["cpu"]
    BY <1>1, <1>2, DefaultsSettle DEF Res
  <2> QED BY <1>2, <2>1 DEF WholeCores, Range
<1>4. Yields(p) => Yields(Defaulted(p))
  <2>1. \A i \in DOMAIN p.main : Defaulted(p).main[i].lim = p.main[i].lim
    BY <1>1, <1>2, DefaultsSettle
  <2>2. Defaulted(p).class = p.class
    BY DefaultedIs
  <2>3. ASSUME Yields(p), NEW c \in Range(Defaulted(p).main) PROVE c.lim["mem"] # 0
    <3>1. PICK i \in DOMAIN p.main : c = Defaulted(p).main[i]
      BY <1>2 DEF Range
    <3>2. p.main[i].lim["mem"] # 0
      BY <2>3 DEF Yields, Range
    <3> QED BY <2>1, <3>1, <3>2
  <2> QED BY <2>2, <2>3 DEF Yields
<1> QED BY <1>3, <1>4, DefaultedIs DEF Kept, Explicit, Acceptable

LEMMA RewriteIs ==
  ASSUME NEW p, Sound(p), p.level = "reclaimed"
  PROVE  LET q == RewriteReclaimed(p)
         IN /\ q \in PodType /\ DOMAIN q.original \subseteq DOMAIN q.main
            /\ q.level = "reclaimed" /\ q.class = p.class /\ q.numa = p.numa
            /\ q.main = [i \in DOMAIN p.main |-> Rewritten(p.main[i])]
<1> DEFINE main == [i \in DOMAIN p.main |-> Rewritten(p.main[i])]
           asking == {i \in DOMAIN p.main : \E r \in Res : p.main[i].req[r] # None}
           moving == \E i \in DOMAIN p.main, r \in Res : p.main[i].req[r] > 0
           original == IF moving THEN [i \in asking |-> p.main[i]] ELSE p.original
<1>1. p \in PodType /\ p.main \in Seq(Container)
  BY DEF Sound, PodType
<1>2. main \in Seq(Container)
  BY <1>1, RewriteMoves DEF Sound
<1>3. original \in Records /\ DOMAIN original \subseteq DOMAIN p.main
  <2>1. p.original \in Records /\ DOMAIN p.original \subseteq DOMAIN p.main
    BY DEF Sound, PodType
  <2>2. asking \in SUBSET Nat /\ [i \in asking |-> p.main[i]] \in [asking -> Container]
    BY <1>1
  <2>3. [i \in asking |-> p.main[i]] \in Records
    BY <2>2 DEF Records
  <2> QED BY <2>1, <2>3
<1>4. RewriteReclaimed(p) = [p EXCEPT !.main = main, !.original = original]
  BY DEF RewriteReclaimed
<1>5. DOMAIN main = DOMAIN p.main
  OBVIOUS
<1> HIDE DEF main, original
<1>6. LET q == RewriteReclaimed(p)
      IN /\ q \in PodType /\ q.main = main /\ q.original = original
         /\ q.level = p.level /\ q.class = p.class /\ q.numa = p.numa
  BY <1>1, <1>2, <1>3, <1>4 DEF PodType
<1> QED BY <1>3, <1>5, <1>6 DEF main

\* A pod that the webhook hands on is stored sound, and is one it would admit again.
LEMMA MutatedSound ==
  ASSUME NEW p, Sound(p), NEW level \in Levels, NEW rewrite, Acceptable(p, level)
  PROVE  LET q == Defaulted(Mutated(p, level, rewrite))
         IN Sound(q) /\ Kept(q) /\ q.level = level /\ q.class = p.class
<1> DEFINE a == [p EXCEPT !.level = level]
<1>1. p \in PodType /\ p.main \in Seq(Container)
  BY DEF Sound, PodType
<1>2. /\ a \in PodType /\ a.main = p.main /\ a.level = level /\ a.class = p.class
      /\ a.numa = p.numa /\ a.original = p.original
  BY <1>1 DEF PodType
<1> HIDE DEF a
<1>3. Sound(a) /\ Kept(a)
  BY <1>2 DEF Sound, Kept, Explicit, Acceptable, WholeCores, Yields
<1>4. CASE level = "reclaimed" /\ rewrite
  <2> DEFINE q == RewriteReclaimed(a)
  <2>1. Mutated(p, level, rewrite) = q
    BY <1>4 DEF Mutated, a
  <2>2. /\ q \in PodType /\ DOMAIN q.original \subseteq DOMAIN q.main
        /\ q.level = "reclaimed" /\ q.class = p.class /\ q.numa = p.numa
        /\ q.main = [i \in DOMAIN p.main |-> Rewritten(p.main[i])]
    BY <1>2, <1>3, <1>4, RewriteIs
  <2> HIDE DEF q
  <2>3. ASSUME NEW i \in DOMAIN p.main
        PROVE  /\ q.main[i] \in Container /\ WithDefaults(q.main[i]).req["cpu"] <= 0
               /\ p.main[i].lim["mem"] # 0 => q.main[i].lim["mem"] # 0
    <3>1. p.main[i] \in Container /\ Settled(p.main[i])
      BY <1>1 DEF Sound
    <3> QED BY <2>2, <3>1, RewriteMoves
  <2>4. Sound(Defaulted(q))
    <3>1. ASSUME NEW i \in DOMAIN q.main
          PROVE  Settled(Defaulted(q).main[i]) /\ Defaulted(q).main[i].req["cpu"] <= 0
      <4>1. Defaulted(q).main[i] = WithDefaults(q.main[i])
        BY <2>2, DefaultedIs
      <4> QED BY <2>2, <2>3, <4>1, DefaultsSettle
    <3>2. DOMAIN Defaulted(q).main = DOMAIN q.main /\ Defaulted(q).original = q.original
      BY <2>2, DefaultedIs
    <3> QED BY <2>2, <3>1, <3>2, DefaultedIs DEF Sound
  <2>5. Kept(q)
    <3>1. Yields(p)
      BY <1>4 DEF Acceptable
    <3>2. ASSUME NEW c \in Range(q.main) PROVE c.lim["mem"] # 0
      <4>1. PICK i \in DOMAIN p.main : c = q.main[i]
        BY <2>2 DEF Range
      <4>2. p.main[i].lim["mem"] # 0
        BY <3>1 DEF Yields, Range
      <4> QED BY <2>3, <4>1, <4>2
    <3>3. Yields(q)
      BY <2>2, <3>1, <3>2 DEF Yields
    <3> QED BY <1>4, <2>2, <3>3 DEF Kept, Explicit, Acceptable, Levels
  <2>6. Kept(Defaulted(q))
    BY <2>2, <2>5, DefaultedKept
  <2> QED BY <1>4, <2>1, <2>2, <2>4, <2>6, DefaultedIs
<1>5. CASE ~(level = "reclaimed" /\ rewrite)
  <2>1. Mutated(p, level, rewrite) = a
    BY <1>5 DEF Mutated, a
  <2> QED BY <1>2, <1>3, <2>1, DefaultedSound, DefaultedKept, DefaultedIs
<1> QED BY <1>4, <1>5

-----------------------------------------------------------------------------
(* The steps.                                                               *)

LEMMA ConfigLevel == policy \in Policies => \A cfg \in ReadConfig : cfg.level \in Levels
<1> SUFFICES ASSUME policy \in Policies PROVE Filled(policy).level \in Levels
  BY DEF ReadConfig, Defaults, Levels
<1>1. policy \in Config
  BY InputAssumption
<1> QED BY <1>1 DEF Filled, Config, Defaults, Levels

LEMMA ChosenLevel ==
  ASSUME NEW p, NEW cfg, cfg.level \in Levels
  PROVE  /\ Chosen(p, cfg) \in Levels
         /\ Explicit(p) => Chosen(p, cfg) = p.level
         /\ p.class = "critical" /\ p.level \notin Levels => Chosen(p, cfg) = "system"
  BY DEF Chosen, Explicit, LevelOf, Levels

LEMMA NothingSound == Sound(Nothing)
<1>1. <<>> \in Seq(Container) /\ DOMAIN <<>> = {}
  OBVIOUS
<1>2. Unrecorded \in [{} -> Container] /\ DOMAIN Unrecorded = {}
  BY DEF Unrecorded
<1>3. Unrecorded \in Records
  BY <1>2 DEF Records
<1> QED BY <1>1, <1>2, <1>3, InputAssumption DEF Nothing, Written, Sound, PodType

LEMMA WrittenSound ==
  ASSUME NEW s \in Specs, NEW level \in Asked, NEW class \in Classes, NEW numa \in BOOLEAN
  PROVE  Sound(Defaulted(Written(s, level, class, numa)))
<1> DEFINE p == Written(s, level, class, numa)
<1>1. s.init \in Seq(Container) /\ s.main \in Seq(Container)
  BY InputAssumption DEF PodSpec
<1>2. Unrecorded \in [{} -> Container] /\ DOMAIN Unrecorded = {}
  BY DEF Unrecorded
<1>3. Unrecorded \in Records
  BY <1>2 DEF Records
<1>4. p \in PodType /\ p.main = s.main /\ DOMAIN p.original = {}
  BY <1>1, <1>2, <1>3 DEF Written, PodType
<1> HIDE DEF p
<1>5. ASSUME NEW i \in DOMAIN p.main PROVE Settled(Defaulted(p).main[i])
  <2>1. p.main[i] \in Container
    BY <1>1, <1>4
  <2>2. Defaulted(p).main[i] = WithDefaults(p.main[i])
    BY <1>4, DefaultedIs
  <2> QED BY <2>1, <2>2, DefaultsSettle
<1>6. Sound(Defaulted(p))
  BY <1>4, <1>5, DefaultedIs DEF Sound
<1> QED BY <1>6 DEF p

LEMMA InitInv == Init => Inv
  BY NothingSound, InputAssumption
  DEF Init, Inv, Critical, Readmitted, Nothing, Written

LEMMA StepInv == Inv /\ [Next]_vars => Inv'
<1> SUFFICES ASSUME Inv, [Next]_vars PROVE Inv'
  OBVIOUS
<1> USE DEF Inv
<1>1. CASE Submit
  <2>1. Sound(asked') /\ pod' = asked' /\ passes' = "new" /\ stage' = "submitted" /\ policy' = policy
    BY <1>1, WrittenSound DEF Submit
  <2> QED BY <2>1 DEF Critical, Readmitted
<1>2. CASE Resubmit \/ PolicyChanges \/ UNCHANGED vars
  BY <1>2 DEF Resubmit, PolicyChanges, vars, Critical, Readmitted, Kept, Explicit
<1>3. CASE Deleted
  <2>1. Critical(Nothing, Nothing)
    BY DEF Critical, Nothing, Written
  <2> QED BY <1>3, <2>1, NothingSound DEF Deleted, Readmitted
<1>4. CASE Bypass
  <2>1. pod' = Defaulted(pod) /\ asked' = asked /\ passes' = "bypassed" /\ policy' = policy
        /\ stage' \in {"stored", "invalid"}
    BY <1>4 DEF Bypass, Store
  <2>2. Sound(pod') /\ pod'.level = pod.level /\ pod'.class = pod.class
    BY <2>1, DefaultedSound, DefaultedIs DEF Sound
  <2> QED BY <2>1, <2>2 DEF Critical, Readmitted
<1>5. ASSUME NEW cfg \in ReadConfig, Denies(cfg) PROVE Inv'
  <2>1. cfg.level \in Levels
    BY ConfigLevel
  <2>2. passes # "handled"
    BY <1>5, <2>1, ChosenLevel DEF Denies, Kept
  <2> QED BY <1>5, <2>2 DEF Denies, Critical, Readmitted
<1>6. ASSUME NEW cfg \in ReadConfig, Mutates(cfg) PROVE Inv'
  <2> DEFINE level == Chosen(pod, cfg)
  <2>1. cfg.level \in Levels
    BY ConfigLevel
  <2>2. level \in Levels /\ Acceptable(pod, level)
    BY <1>6, <2>1, ChosenLevel DEF Mutates
  <2>3. pod' = Defaulted(Mutated(pod, level, cfg.rewrite)) /\ asked' = asked /\ policy' = policy
        /\ stage' \in {"stored", "invalid"} /\ passes' \in {"handled", passes}
    BY <1>6 DEF Mutates, Store
  <2>4. Sound(pod') /\ Kept(pod') /\ pod'.level = level /\ pod'.class = pod.class
    <3> HIDE DEF level
    <3> QED BY <2>2, <2>3, MutatedSound
  <2>5. Critical(asked, pod')
    BY <2>1, <2>4, ChosenLevel DEF Critical, Explicit
  <2> QED BY <2>3, <2>4, <2>5 DEF Readmitted
<1> QED BY <1>1, <1>2, <1>3, <1>4, <1>5, <1>6 DEF Next

LEMMA InvHolds == Spec => []Inv
  BY InitInv, StepInv, PTL DEF Spec

\* A pod keeps its shape through any number of passes, and one that the webhook has
\* handled carries a level.
THEOREM TypeCorrect == Spec => []TypeOK
<1>1. Inv => TypeOK
  <2> SUFFICES ASSUME NEW p, Sound(p) PROVE IsPod(p)
    BY DEF Inv, TypeOK, Kept, Explicit
  <2>1. p \in PodType
    BY DEF Sound
  <2>2. \A i \in DOMAIN p.original : p.original[i] \in Container
    BY <2>1 DEF PodType, Records
  <2> QED BY <2>1, <2>2 DEF Sound, IsPod, PodType
<1> QED BY <1>1, InvHolds, PTL

\* An oversold pod asks for no CPU, not even for what the API server would make up from
\* a limit that was left: the webhook sees only pods that were defaulted before.
THEOREM NoCpuRequestHolds == Spec => []NoCpuRequest
<1>1. Inv => NoCpuRequest
  BY DEF Inv, Sound, NoCpuRequest, Oversold, Range
<1> QED BY <1>1, InvHolds, PTL

\* A critical pod that names no level is in the system tier, under every policy and
\* whether the webhook saw it or not.
THEOREM CriticalIsSystemHolds == Spec => []CriticalIsSystem
<1>1. Inv => CriticalIsSystem
  BY DEF Inv, Critical, CriticalIsSystem, LevelOf, Levels
<1> QED BY <1>1, InvHolds, PTL

\* What was admitted is admitted again under any later policy: the level it was given is
\* explicit, and the rewrite takes away nothing that validation asks for.
THEOREM ReadmittedHolds == Spec => []Readmitted
<1>1. Inv => Readmitted
  BY DEF Inv
<1> QED BY <1>1, InvHolds, PTL

-----------------------------------------------------------------------------
(* Sizes.                                                                   *)

\* What the webhook and the defaulting make of a container a that is now c: the CPU
\* request stays or has moved, the memory request has not become smaller.
CpuKept(a, c) ==
  \/ c.req["cpu"] = a.req["cpu"] /\ c.ext["cpu"] = None
  \/ /\ a.req["cpu"] > 0 /\ c.ext["cpu"] = a.req["cpu"]
     /\ c.req["cpu"] = None /\ c.lim["cpu"] = None

MemKept(a, c) ==
  (a.lim["mem"] # None => a.req["mem"] <= a.lim["mem"])
    => /\ c.req["mem"] = None <=> a.req["mem"] = None
       /\ c.req["mem"] >= a.req["mem"]
       /\ c.lim["mem"] # None => c.req["mem"] <= c.lim["mem"]

\* p is the pod a after any number of passes.
Linked(a, p) ==
  /\ DOMAIN p.init = DOMAIN a.init
  /\ \A i \in DOMAIN a.init : p.init[i].req = a.init[i].req /\ Settled(p.init[i])
  /\ DOMAIN p.main = DOMAIN a.main
  /\ \A i \in DOMAIN a.main : CpuKept(a.main[i], p.main[i]) /\ MemKept(a.main[i], p.main[i])

SizeInv ==
  /\ Inv /\ Linked(asked, pod)
  /\ stage # "absent" => asked.main # <<>>

LEMMA SettledStays ==
  ASSUME NEW c \in Container, Settled(c)
  PROVE  WithDefaults(c) = c
<1> DEFINE req == [r \in Res |-> IF c.req[r] = None THEN c.lim[r] ELSE c.req[r]]
<1>1. WithDefaults(c) = [c EXCEPT !.req = req]
  BY DEF WithDefaults
<1>2. c.req \in [Res -> Quantity]
  BY DEF Container
<1>3. req = c.req
  BY <1>2 DEF Settled
<1> HIDE DEF req
<1> QED BY <1>1, <1>3 DEF Container

LEMMA LargerOfOne ==
  ASSUME NEW x \in Int, x >= 1
  PROVE  Max({1, x}) = x
<1>1. {1, x} \in SUBSET Int /\ IsFiniteSet({1, x})
  <2>1. IsFiniteSet({1})
    BY FS_Singleton
  <2>2. IsFiniteSet({1} \cup {x})
    BY <2>1, FS_AddElement
  <2>3. {1, x} = {1} \cup {x}
    OBVIOUS
  <2> QED BY <2>2, <2>3
<1>2. Max({1, x}) \in {1, x} /\ \A y \in {1, x} : Max({1, x}) >= y
  BY <1>1, MaxIs
<1>3. Max({1, x}) >= x /\ (Max({1, x}) = 1 \/ Max({1, x}) = x)
  BY <1>2
<1> QED BY <1>3

LEMMA RewriteKeeps ==
  ASSUME NEW a \in Container, NEW c \in Container, Settled(c), CpuKept(a, c), MemKept(a, c)
  PROVE  LET d == WithDefaults(Rewritten(c)) IN CpuKept(a, d) /\ MemKept(a, d)
<1> DEFINE d == WithDefaults(Rewritten(c))
           moved == {r \in Res : c.req[r] > 0}
<1>1. /\ "cpu" \in Res /\ "mem" \in Res
      /\ a.req["cpu"] \in Int /\ a.req["mem"] \in Int /\ a.lim["mem"] \in Int
      /\ c.req["cpu"] \in Int /\ c.req["mem"] \in Int /\ c.lim["mem"] \in Int
      /\ c.req["cpu"] = None => c.lim["cpu"] = None
      /\ c.req["mem"] = None => c.lim["mem"] = None
  BY ContainerParts DEF Res, Settled
<1>2. Rewritten(c) \in Container
  BY RewriteMoves
<1>3. /\ d.lim = Rewritten(c).lim /\ d.ext = Rewritten(c).ext
      /\ \A r \in Res : d.req[r] = IF Rewritten(c).req[r] = None THEN Rewritten(c).lim[r]
                                   ELSE Rewritten(c).req[r]
  BY <1>2 DEF WithDefaults, Container
<1> HIDE DEF d
<1>4. /\ Rewritten(c).req["cpu"] = IF c.req["cpu"] > 0 THEN None ELSE c.req["cpu"]
      /\ Rewritten(c).lim["cpu"] = IF c.req["cpu"] > 0 THEN None ELSE c.lim["cpu"]
      /\ Rewritten(c).ext["cpu"] =
           IF c.req["cpu"] > 0 THEN Max({1, c.req["cpu"] \div 1}) ELSE c.ext["cpu"]
  <2>1. Rewritten(c).req["cpu"] = IF c.req["cpu"] > 0 THEN None ELSE c.req["cpu"]
    BY <1>1, Zenon DEF Rewritten
  <2>2. Rewritten(c).lim["cpu"] = IF c.req["cpu"] > 0 THEN None ELSE c.lim["cpu"]
    BY <1>1, Zenon DEF Rewritten
  <2>3. Rewritten(c).ext["cpu"] =
          IF c.req["cpu"] > 0 THEN Max({1, c.req["cpu"] \div Unit["cpu"]}) ELSE c.ext["cpu"]
    BY <1>1, Zenon DEF Rewritten
  <2>4. Unit["cpu"] = 1
    BY <1>1 DEF Unit
  <2> QED BY <2>1, <2>2, <2>3, <2>4, Zenon
<1>5. /\ Rewritten(c).req["mem"] = IF c.req["mem"] > 0 THEN None ELSE c.req["mem"]
      /\ Rewritten(c).lim["mem"] =
           IF c.req["mem"] > 0 THEN (IF c.lim["mem"] = None THEN c.req["mem"] ELSE c.lim["mem"])
           ELSE c.lim["mem"]
  BY <1>1 DEF Rewritten
<1>6. CpuKept(a, d)
  <2>1. CASE c.req["cpu"] > 0
    <3>1. c.req["cpu"] = a.req["cpu"] /\ a.req["cpu"] > 0
      BY <2>1 DEF CpuKept, None
    <3>2. c.req["cpu"] \div 1 = c.req["cpu"] /\ c.req["cpu"] >= 1
      BY <1>1, <2>1
    <3>3. Max({1, c.req["cpu"] \div 1}) = c.req["cpu"]
      BY <1>1, <3>2, LargerOfOne
    <3>4. d.req["cpu"] = None /\ d.lim["cpu"] = None /\ d.ext["cpu"] = a.req["cpu"]
      BY <1>1, <1>3, <1>4, <2>1, <3>1, <3>3
    <3> QED BY <3>1, <3>4 DEF CpuKept
  <2>2. CASE ~(c.req["cpu"] > 0)
    <3>1. d.req["cpu"] = c.req["cpu"] /\ d.lim["cpu"] = c.lim["cpu"] /\ d.ext["cpu"] = c.ext["cpu"]
      BY <1>1, <1>3, <1>4, <2>2
    <3> QED BY <3>1 DEF CpuKept
  <2> QED BY <2>1, <2>2
<1>7. MemKept(a, d)
  <2>1. CASE c.req["mem"] > 0
    <3>1. d.req["mem"] = d.lim["mem"]
          /\ d.lim["mem"] = IF c.lim["mem"] = None THEN c.req["mem"] ELSE c.lim["mem"]
      BY <1>1, <1>3, <1>5, <2>1
    <3>2. SUFFICES ASSUME a.lim["mem"] # None => a.req["mem"] <= a.lim["mem"]
          PROVE  /\ d.req["mem"] = None <=> a.req["mem"] = None
                 /\ d.req["mem"] >= a.req["mem"]
                 /\ d.lim["mem"] # None => d.req["mem"] <= d.lim["mem"]
      BY DEF MemKept
    <3>3. /\ c.req["mem"] >= a.req["mem"] /\ (c.req["mem"] = None <=> a.req["mem"] = None)
          /\ c.lim["mem"] # None => c.req["mem"] <= c.lim["mem"]
      BY <3>2 DEF MemKept
    <3>4. d.req["mem"] \in Int /\ d.req["mem"] >= c.req["mem"]
      BY <1>1, <3>1, <3>3
    <3> QED BY <1>1, <2>1, <3>1, <3>3, <3>4 DEF None
  <2>2. CASE ~(c.req["mem"] > 0)
    <3>1. d.req["mem"] = c.req["mem"] /\ d.lim["mem"] = c.lim["mem"]
      BY <1>1, <1>3, <1>5, <2>2
    <3> QED BY <3>1 DEF MemKept
  <2> QED BY <2>1, <2>2
<1> QED BY <1>6, <1>7 DEF d

-----------------------------------------------------------------------------
(* The steps, as far as sizes go.                                           *)

LEMMA DefaultedStays ==
  ASSUME NEW a, NEW p, Sound(p), Linked(a, p)
  PROVE  Linked(a, Defaulted(p))
<1>1. p.init \in Seq(Container) /\ p.main \in Seq(Container) /\ p \in PodType
  BY DEF Sound, PodType
<1>2. /\ Defaulted(p).main = [i \in DOMAIN p.main |-> WithDefaults(p.main[i])]
      /\ Defaulted(p).init = [i \in DOMAIN p.init |-> WithDefaults(p.init[i])]
  <2>1. p = [p EXCEPT !.init = p.init] /\ "init" \in DOMAIN p /\ "main" \in DOMAIN p
    BY <1>1 DEF PodType
  <2> QED BY <1>1, <2>1 DEF Defaulted, PodType
<1>3. \A i \in DOMAIN p.main : WithDefaults(p.main[i]) = p.main[i]
  BY <1>1, SettledStays DEF Sound
<1>4. \A i \in DOMAIN p.init : WithDefaults(p.init[i]) = p.init[i]
  BY <1>1, SettledStays DEF Linked
<1>5. Defaulted(p).main = p.main /\ Defaulted(p).init = p.init
  BY <1>1, <1>2, <1>3, <1>4
<1> QED BY <1>5 DEF Linked

LEMMA MutatedStays ==
  ASSUME NEW a \in PodType, NEW p, Sound(p), Linked(a, p), NEW level \in Levels, NEW rewrite
  PROVE  Linked(a, Defaulted(Mutated(p, level, rewrite)))
<1> DEFINE q == [p EXCEPT !.level = level]
<1>1. p \in PodType /\ p.main \in Seq(Container) /\ p.init \in Seq(Container)
  BY DEF Sound, PodType
<1>2. /\ q \in PodType /\ q.main = p.main /\ q.init = p.init /\ q.original = p.original
      /\ q.level = level
  BY <1>1 DEF PodType
<1> HIDE DEF q
<1>3. Sound(q) /\ Linked(a, q)
  BY <1>2 DEF Sound, Linked
<1>4. CASE level = "reclaimed" /\ rewrite
  <2> DEFINE s == RewriteReclaimed(q)
             t == Defaulted(s)
  <2>1. Mutated(p, level, rewrite) = s
    BY <1>4 DEF Mutated, q
  <2>2. s \in PodType /\ s.main = [i \in DOMAIN q.main |-> Rewritten(q.main[i])]
    BY <1>2, <1>3, <1>4, RewriteIs
  <2>3. s.init = q.init
    BY <1>2 DEF RewriteReclaimed, PodType
  <2> HIDE DEF s
  <2>4. /\ t.main = [i \in DOMAIN s.main |-> WithDefaults(s.main[i])]
        /\ t.init = [i \in DOMAIN s.init |-> WithDefaults(s.init[i])]
    BY <2>2 DEF Defaulted, PodType
  <2> HIDE DEF t
  <2>5. t.init = p.init
    <3>1. \A i \in DOMAIN p.init : WithDefaults(p.init[i]) = p.init[i]
      BY <1>1, SettledStays DEF Linked
    <3> QED BY <1>1, <1>2, <2>3, <2>4, <3>1
  <2>6. DOMAIN t.main = DOMAIN a.main
    BY <1>2, <2>2, <2>4 DEF Linked
  <2>7. ASSUME NEW i \in DOMAIN a.main
        PROVE  CpuKept(a.main[i], t.main[i]) /\ MemKept(a.main[i], t.main[i])
    <3>1. i \in DOMAIN p.main /\ CpuKept(a.main[i], p.main[i]) /\ MemKept(a.main[i], p.main[i])
      BY DEF Linked
    <3>2. a.main[i] \in Container /\ p.main[i] \in Container /\ Settled(p.main[i])
      BY <1>1, <3>1 DEF PodType, Sound
    <3>3. t.main[i] = WithDefaults(Rewritten(p.main[i]))
      BY <1>2, <2>2, <2>4, <3>1
    <3> QED BY <3>1, <3>2, <3>3, RewriteKeeps
  <2>8. Linked(a, t)
    BY <2>5, <2>6, <2>7 DEF Linked
  <2> QED BY <2>1, <2>8 DEF t
<1>5. CASE ~(level = "reclaimed" /\ rewrite)
  <2>1. Mutated(p, level, rewrite) = q
    BY <1>5 DEF Mutated, q
  <2> QED BY <1>3, <2>1, DefaultedStays
<1> QED BY <1>4, <1>5

LEMMA WrittenLinked ==
  ASSUME NEW s \in Specs, NEW level \in Asked, NEW class \in Classes, NEW numa \in BOOLEAN
  PROVE  LET p == Defaulted(Written(s, level, class, numa))
         IN Linked(p, p) /\ p.main # <<>>
<1> DEFINE w == Written(s, level, class, numa)
           p == Defaulted(w)
<1>1. /\ s.init \in Seq(Container) /\ s.main \in Seq(Container) /\ s.main # <<>>
      /\ \A i \in DOMAIN s.main, r \in Res : s.main[i].ext[r] = None
  BY InputAssumption DEF PodSpec, Range
<1>2. /\ p.main = [i \in DOMAIN s.main |-> WithDefaults(s.main[i])]
      /\ p.init = [i \in DOMAIN s.init |-> WithDefaults(s.init[i])]
  BY DEF Defaulted, Written
<1> HIDE DEF p
<1>3. ASSUME NEW i \in DOMAIN p.init PROVE Settled(p.init[i])
  <2>1. s.init[i] \in Container /\ p.init[i] = WithDefaults(s.init[i])
    BY <1>1, <1>2
  <2> QED BY <2>1, DefaultsSettle
<1>4. ASSUME NEW i \in DOMAIN p.main
      PROVE  CpuKept(p.main[i], p.main[i]) /\ MemKept(p.main[i], p.main[i])
  <2>1. s.main[i] \in Container /\ p.main[i] = WithDefaults(s.main[i]) /\ s.main[i].ext["cpu"] = None
    BY <1>1, <1>2 DEF Res
  <2>2. p.main[i] \in Container /\ p.main[i].ext = s.main[i].ext
    BY <2>1, DefaultsSettle DEF WithDefaults, Container
  <2>3. p.main[i].req["mem"] \in Int
    BY <2>2, ContainerParts DEF Res
  <2> QED BY <2>1, <2>2, <2>3 DEF CpuKept, MemKept
<1>5. DOMAIN p.main # {}
  BY <1>1, <1>2
<1>6. p.main # <<>>
  BY <1>5
<1> QED BY <1>3, <1>4, <1>6 DEF Linked, p

LEMMA SizeInit == Init => SizeInv
<1> SUFFICES ASSUME Init PROVE SizeInv
  OBVIOUS
<1>1. Linked(Nothing, Nothing)
  BY DEF Linked, Nothing, Written
<1> QED BY <1>1, InitInv DEF Init, SizeInv

LEMMA SizeStep == SizeInv /\ [Next]_vars => SizeInv'
<1> SUFFICES ASSUME SizeInv, [Next]_vars PROVE SizeInv'
  OBVIOUS
<1>1. Inv /\ Inv' /\ Sound(asked) /\ Sound(pod) /\ asked \in PodType
  BY StepInv DEF SizeInv, Inv, Sound
<1> USE DEF SizeInv
<1>2. CASE Submit
  <2>1. PICK s \in Specs, level \in Asked, class \in Classes, numa \in BOOLEAN :
          asked' = Defaulted(Written(s, level, class, numa)) /\ pod' = asked'
    BY <1>2 DEF Submit
  <2>2. Linked(asked', pod') /\ asked'.main # <<>>
    BY <2>1, WrittenLinked
  <2> QED BY <1>1, <2>2
<1>3. CASE Resubmit \/ PolicyChanges \/ UNCHANGED vars
  BY <1>1, <1>3 DEF Resubmit, PolicyChanges, vars
<1>4. CASE Deleted
  <2>1. Linked(Nothing, Nothing)
    BY DEF Linked, Nothing, Written
  <2> QED BY <1>1, <1>4, <2>1 DEF Deleted
<1>5. CASE Bypass
  <2>1. pod' = Defaulted(pod) /\ asked' = asked /\ stage # "absent"
    BY <1>5 DEF Bypass, Store
  <2>2. Linked(asked', pod')
    BY <1>1, <2>1, DefaultedStays
  <2> QED BY <1>1, <2>1, <2>2
<1>6. ASSUME NEW cfg \in ReadConfig, Denies(cfg) PROVE SizeInv'
  BY <1>1, <1>6 DEF Denies
<1>7. ASSUME NEW cfg \in ReadConfig, Mutates(cfg) PROVE SizeInv'
  <2> DEFINE level == Chosen(pod, cfg)
  <2>1. cfg.level \in Levels
    BY <1>1, ConfigLevel DEF Inv
  <2>2. level \in Levels
    BY <2>1, ChosenLevel
  <2>3. pod' = Defaulted(Mutated(pod, level, cfg.rewrite)) /\ asked' = asked /\ stage # "absent"
    BY <1>7 DEF Mutates, Store
  <2> HIDE DEF level
  <2>4. Linked(asked', pod')
    BY <1>1, <2>2, <2>3, MutatedStays
  <2> QED BY <1>1, <2>3, <2>4
<1> QED BY <1>2, <1>3, <1>4, <1>5, <1>6, <1>7 DEF Next

-----------------------------------------------------------------------------
(* What is read from a pod.                                                 *)

\* The quantities that PodRequest takes the largest of.
Parts(p, r) ==
  (IF Given(p.main, r) = {} THEN {None} ELSE {Total(p.main, r)})
    \cup {p.init[i].req[r] : i \in Given(p.init, r)}

LEMMA GivenType ==
  ASSUME NEW q \in Seq(Container), NEW r \in Res
  PROVE  /\ IsFiniteSet(DOMAIN q) /\ IsFiniteSet(Given(q, r)) /\ Given(q, r) \subseteq DOMAIN q
         /\ [i \in Given(q, r) |-> q[i].req[r]] \in [Given(q, r) -> Int]
         /\ Total(q, r) \in Int
<1>1. IsFiniteSet(DOMAIN q)
  <2>1. DOMAIN q = 1..Len(q) /\ Len(q) \in Int
    OBVIOUS
  <2> QED BY <2>1, FS_Interval
<1>2. Given(q, r) \in SUBSET DOMAIN q
  BY DEF Given
<1>3. IsFiniteSet(Given(q, r))
  BY <1>1, <1>2, FS_Subset
<1> DEFINE f == [i \in Given(q, r) |-> q[i].req[r]]
<1>4. f \in [Given(q, r) -> Int]
  <2> SUFFICES ASSUME NEW i \in Given(q, r) PROVE q[i].req[r] \in Int
    OBVIOUS
  <2>1. q[i] \in Container
    BY <1>2
  <2> QED BY <2>1, ContainerParts
<1>5. Total(q, r) = SumFunction(f)
  BY DEF Total
<1> HIDE DEF f
<1>6. SumFunction(f) \in Int
  <2>1. 0 \in Int /\ \A x, y \in Int : x + y \in Int
    OBVIOUS
  <2> QED BY <1>3, <1>4, <2>1, SumStays
<1> QED BY <1>1, <1>2, <1>3, <1>4, <1>5, <1>6 DEF f

LEMMA PodRequestIs ==
  ASSUME NEW p, p.init \in Seq(Container), p.main \in Seq(Container), NEW r \in Res
  PROVE  /\ Parts(p, r) \in SUBSET Int
         /\ PodRequest(p, r) \in Parts(p, r)
         /\ \A x \in Parts(p, r) : PodRequest(p, r) >= x
<1> DEFINE first == IF Given(p.main, r) = {} THEN {None} ELSE {Total(p.main, r)}
           inits == {p.init[i].req[r] : i \in Given(p.init, r)}
           f == [i \in Given(p.init, r) |-> p.init[i].req[r]]
<1>1. first \in SUBSET Int /\ IsFiniteSet(first) /\ first # {}
  <2>1. Total(p.main, r) \in Int /\ None \in Int
    BY GivenType DEF None
  <2>2. IsFiniteSet({None}) /\ IsFiniteSet({Total(p.main, r)})
    BY FS_Singleton
  <2> QED BY <2>1, <2>2
<1>2. f \in [Given(p.init, r) -> Int] /\ IsFiniteSet(Given(p.init, r))
  BY GivenType
<1>3. inits \in SUBSET Int
  <2>1. \A i \in Given(p.init, r) : p.init[i].req[r] = f[i] /\ f[i] \in Int
    BY <1>2
  <2> QED BY <2>1
<1>4. IsFiniteSet(inits)
  <2>1. f \in Surjection(Given(p.init, r), inits)
    <3>1. f \in [Given(p.init, r) -> inits]
      OBVIOUS
    <3>2. \A x \in inits : \E i \in Given(p.init, r) : f[i] = x
      OBVIOUS
    <3> HIDE DEF f, inits
    <3> QED BY <3>1, <3>2 DEF Surjection
  <2> HIDE DEF f, inits
  <2> QED BY <1>2, <2>1, FS_Surjection
<1>5. Parts(p, r) = first \cup inits
  BY DEF Parts
<1> HIDE DEF first, inits
<1>6. IsFiniteSet(first \cup inits) /\ first \cup inits # {} /\ first \cup inits \in SUBSET Int
  BY <1>1, <1>3, <1>4, FS_Union
<1>7. Max(Parts(p, r)) \in Parts(p, r) /\ \A x \in Parts(p, r) : Max(Parts(p, r)) >= x
  BY <1>5, <1>6, MaxIs
<1>8. PodRequest(p, r) = Max(Parts(p, r))
  BY DEF PodRequest, Parts
<1> QED BY <1>5, <1>6, <1>7, <1>8

LEMMA NothingGiven ==
  ASSUME NEW p, p.init \in Seq(Container), p.main \in Seq(Container), NEW r \in Res,
         Given(p.main, r) = {}, Given(p.init, r) = {}
  PROVE  PodRequest(p, r) = None
<1>1. Parts(p, r) = {None}
  BY DEF Parts
<1>2. PodRequest(p, r) \in Parts(p, r)
  BY PodRequestIs
<1> QED BY <1>1, <1>2

LEMMA ExtendedType ==
  ASSUME NEW p, p.main \in Seq(Container), NEW r \in Res
  PROVE  ExtendedTotal(p, r) \in Int
<1> DEFINE S == {i \in DOMAIN p.main : p.main[i].ext[r] # None}
           f == [i \in S |-> p.main[i].ext[r]]
<1>1. S \in SUBSET DOMAIN p.main /\ IsFiniteSet(DOMAIN p.main)
  BY GivenType
<1>2. IsFiniteSet(S)
  BY <1>1, FS_Subset
<1>3. f \in [S -> Int]
  <2> SUFFICES ASSUME NEW i \in S PROVE p.main[i].ext[r] \in Int
    OBVIOUS
  <2>1. p.main[i] \in Container
    BY <1>1
  <2> QED BY <2>1, ContainerParts
<1>4. ExtendedTotal(p, r) = SumFunction(f)
  BY DEF ExtendedTotal
<1> HIDE DEF f, S
<1>5. SumFunction(f) \in Int
  <2>1. 0 \in Int /\ \A x, y \in Int : x + y \in Int
    OBVIOUS
  <2> QED BY <1>2, <1>3, <2>1, SumStays
<1> QED BY <1>4, <1>5

\* The CPU of an oversold pod, where nothing hides it, is all in the extended resources.
LEMMA OversoldCpu ==
  ASSUME SizeInv, Oversold, Plain(asked)
  PROVE  EffectiveRequest(pod, "cpu") = PodRequest(asked, "cpu")
<1>1. "cpu" \in Res
  BY DEF Res
<1>2. /\ asked.init \in Seq(Container) /\ asked.main \in Seq(Container)
      /\ pod.init \in Seq(Container) /\ pod.main \in Seq(Container)
      /\ Sound(pod) /\ Linked(asked, pod)
  BY DEF SizeInv, Inv, Sound, PodType
<1>3. DOMAIN pod.main = DOMAIN asked.main /\ DOMAIN pod.init = DOMAIN asked.init
  BY <1>2 DEF Linked
<1>4. ASSUME NEW i \in DOMAIN asked.main
      PROVE  /\ asked.main[i].req["cpu"] = None \/ asked.main[i].req["cpu"] \in Nat \ {0}
             /\ pod.main[i].req["cpu"] = None
             /\ pod.main[i].ext["cpu"] = asked.main[i].req["cpu"]
  <2>1. /\ asked.main[i].req["cpu"] \in Int /\ asked.main[i].req["cpu"] >= None
        /\ pod.main[i].req["cpu"] \in Int /\ pod.main[i].req["cpu"] >= None
    BY <1>1, <1>2, <1>3, ContainerParts
  <2>2. asked.main[i].req["cpu"] # 0
    BY DEF Plain, Range
  <2>3. pod.main[i].req["cpu"] <= 0
    BY <1>2, <1>3 DEF Sound, Oversold
  <2>4. CpuKept(asked.main[i], pod.main[i])
    BY <1>2 DEF Linked
  <2> QED BY <2>1, <2>2, <2>3, <2>4 DEF CpuKept, None
<1>5. PodRequest(pod, "cpu") = None
  <2>1. Given(pod.main, "cpu") = {}
    BY <1>3, <1>4 DEF Given
  <2>2. Given(pod.init, "cpu") = {}
    BY <1>2, <1>3 DEF Given, Linked, Plain
  <2> QED BY <1>1, <1>2, <2>1, <2>2, NothingGiven
<1> DEFINE G == Given(asked.main, "cpu")
           S == {i \in DOMAIN pod.main : pod.main[i].ext["cpu"] # None}
<1>6. S = G /\ [i \in S |-> pod.main[i].ext["cpu"]] = [i \in G |-> asked.main[i].req["cpu"]]
  <2>1. S = G
    BY <1>3, <1>4 DEF Given
  <2>2. \A i \in G : pod.main[i].ext["cpu"] = asked.main[i].req["cpu"]
    BY <1>4 DEF Given
  <2> QED BY <2>1, <2>2
<1>7. ExtendedTotal(pod, "cpu") = Total(asked.main, "cpu")
  BY <1>6 DEF ExtendedTotal, Total
<1>8. IsFiniteSet(G) /\ Total(asked.main, "cpu") \in Int
  BY <1>1, <1>2, GivenType
<1>9. Given(asked.init, "cpu") = {}
  BY DEF Plain
<1>10. CASE G = {}
  <2> DEFINE f == [i \in G |-> asked.main[i].req["cpu"]]
  <2>1. SumFunction(f) \in {0}
    <3>1. f \in [G -> {0}] /\ 0 \in {0} /\ \A x, y \in {0} : x + y \in {0}
      BY <1>10
    <3> HIDE DEF f, G
    <3> QED BY <1>8, <3>1, SumStays
  <2>2. Total(asked.main, "cpu") = 0
    BY <2>1 DEF Total
  <2>3. EffectiveRequest(pod, "cpu") = None
    BY <1>5, <1>7, <2>2 DEF EffectiveRequest
  <2> QED BY <1>1, <1>2, <1>9, <1>10, <2>3, NothingGiven
<1>11. CASE G # {}
  <2> DEFINE f == [i \in G |-> asked.main[i].req["cpu"]]
  <2>1. SumFunction(f) \in Nat \ {0}
    <3>1. f \in [G -> Nat \ {0}]
      BY <1>4 DEF Given
    <3> HIDE DEF f, G
    <3> QED BY <1>8, <1>11, <3>1, SumPositive
  <2>2. Total(asked.main, "cpu") \in Nat \ {0}
    BY <2>1 DEF Total
  <2>3. EffectiveRequest(pod, "cpu") = Total(asked.main, "cpu")
    BY <1>1, <1>5, <1>7, <2>2 DEF EffectiveRequest, Unit
  <2>4. Parts(asked, "cpu") = {Total(asked.main, "cpu")}
    BY <1>9, <1>11 DEF Parts
  <2>5. PodRequest(asked, "cpu") \in Parts(asked, "cpu")
    BY <1>1, <1>2, PodRequestIs
  <2> QED BY <2>3, <2>4, <2>5
<1> QED BY <1>10, <1>11

\* Its memory is a request that was made up from the limit, or never moved.
LEMMA OversoldMem ==
  ASSUME SizeInv, Bounded(asked)
  PROVE  EffectiveRequest(pod, "mem") >= PodRequest(asked, "mem")
<1>1. "mem" \in Res
  BY DEF Res
<1>2. /\ asked.init \in Seq(Container) /\ asked.main \in Seq(Container)
      /\ pod.init \in Seq(Container) /\ pod.main \in Seq(Container)
      /\ Linked(asked, pod)
  BY DEF SizeInv, Inv, Sound, PodType
<1>3. DOMAIN pod.main = DOMAIN asked.main /\ DOMAIN pod.init = DOMAIN asked.init
  BY <1>2 DEF Linked
<1>4. ASSUME NEW i \in DOMAIN asked.main
      PROVE  /\ pod.main[i].req["mem"] = None <=> asked.main[i].req["mem"] = None
             /\ asked.main[i].req["mem"] <= pod.main[i].req["mem"]
  <2>1. asked.main[i].req["mem"] \in Int /\ pod.main[i].req["mem"] \in Int
    BY <1>1, <1>2, <1>3, ContainerParts
  <2>2. asked.main[i].lim["mem"] # None => asked.main[i].req["mem"] <= asked.main[i].lim["mem"]
    BY DEF Bounded, Range
  <2>3. MemKept(asked.main[i], pod.main[i])
    BY <1>2 DEF Linked
  <2> QED BY <2>1, <2>2, <2>3 DEF MemKept
<1> DEFINE G == Given(asked.main, "mem")
           f == [i \in G |-> asked.main[i].req["mem"]]
           g == [i \in G |-> pod.main[i].req["mem"]]
<1>5. Given(pod.main, "mem") = G
  BY <1>3, <1>4 DEF Given
<1>6. IsFiniteSet(G) /\ f \in [G -> Int] /\ g \in [G -> Int] /\ \A i \in G : f[i] <= g[i]
  <2>1. IsFiniteSet(G) /\ f \in [G -> Int]
    BY <1>1, <1>2, GivenType
  <2>2. g \in [G -> Int]
    BY <1>1, <1>2, <1>5, GivenType
  <2>3. \A i \in G : i \in DOMAIN asked.main
    BY DEF Given
  <2> QED BY <1>4, <2>1, <2>2, <2>3
<1>7. Total(asked.main, "mem") = SumFunction(f) /\ Total(pod.main, "mem") = SumFunction(g)
  BY <1>5 DEF Total
<1> HIDE DEF f, g, G
<1>8. /\ Total(asked.main, "mem") \in Int /\ Total(pod.main, "mem") \in Int
      /\ Total(asked.main, "mem") <= Total(pod.main, "mem")
  BY <1>6, <1>7, SumGrows
<1>9. {pod.init[i].req["mem"] : i \in Given(pod.init, "mem")}
        = {asked.init[i].req["mem"] : i \in Given(asked.init, "mem")}
  <2>1. \A i \in DOMAIN asked.init : pod.init[i].req["mem"] = asked.init[i].req["mem"]
    BY <1>2 DEF Linked
  <2>2. Given(pod.init, "mem") = Given(asked.init, "mem")
    BY <1>3, <2>1 DEF Given
  <2>3. \A i \in Given(asked.init, "mem") : pod.init[i].req["mem"] = asked.init[i].req["mem"]
    BY <2>1 DEF Given
  <2> QED BY <2>2, <2>3
<1>10. \A x \in Parts(asked, "mem") : \E y \in Parts(pod, "mem") : y >= x
  <2>1. ASSUME NEW x \in {asked.init[i].req["mem"] : i \in Given(asked.init, "mem")}
        PROVE  x \in Parts(pod, "mem") /\ x >= x
    <3>1. x \in Parts(asked, "mem") /\ x \in Parts(pod, "mem")
      BY <1>9 DEF Parts
    <3>2. Parts(asked, "mem") \in SUBSET Int
      BY <1>1, <1>2, PodRequestIs
    <3> QED BY <3>1, <3>2
  <2>2. CASE G = {}
    <3>1. None \in Parts(pod, "mem") /\ None >= None
      BY <1>5, <2>2 DEF Parts, None
    <3> QED BY <2>1, <2>2, <3>1 DEF Parts, G
  <2>3. CASE G # {}
    <3>1. Total(pod.main, "mem") \in Parts(pod, "mem")
      BY <1>5, <2>3 DEF Parts
    <3> QED BY <1>8, <2>1, <2>3, <3>1 DEF Parts, G
  <2> QED BY <2>2, <2>3
<1>11. /\ PodRequest(asked, "mem") \in Int /\ PodRequest(pod, "mem") \in Int
       /\ PodRequest(asked, "mem") <= PodRequest(pod, "mem")
  <2>1. /\ PodRequest(asked, "mem") \in Parts(asked, "mem") /\ Parts(asked, "mem") \in SUBSET Int
        /\ PodRequest(pod, "mem") \in Parts(pod, "mem") /\ Parts(pod, "mem") \in SUBSET Int
        /\ \A x \in Parts(pod, "mem") : PodRequest(pod, "mem") >= x
    BY <1>1, <1>2, PodRequestIs
  <2>2. PICK y \in Parts(pod, "mem") : y >= PodRequest(asked, "mem")
    BY <1>10, <2>1
  <2>3. PodRequest(pod, "mem") >= y /\ y \in Int
    BY <2>1, <2>2
  <2>4. PodRequest(asked, "mem") \in Int /\ PodRequest(pod, "mem") \in Int
    BY <2>1
  <2> QED BY <2>2, <2>3, <2>4
<1>12. ExtendedTotal(pod, "mem") \in Int
  BY <1>1, <1>2, ExtendedType
<1>13. EffectiveRequest(pod, "mem") =
         IF PodRequest(pod, "mem") # None THEN PodRequest(pod, "mem")
         ELSE IF ExtendedTotal(pod, "mem") > 0 THEN ExtendedTotal(pod, "mem") * 1024 ELSE None
  BY <1>1 DEF EffectiveRequest, Unit
<1> QED BY <1>11, <1>12, <1>13 DEF None

\* The agent reads from an oversold pod the CPU that its author asked for, and no less
\* memory, for all pods, passes, policies and answers: the record of the extended
\* resources stands for the CPU request it replaced, and the memory limit that was kept
\* or made up is never below the request.
THEOREM FootprintHolds == Spec => []Footprint
<1>1. SizeInv => Footprint
  BY OversoldCpu, OversoldMem DEF Footprint
<1> QED BY <1>1, SizeInit, SizeStep, PTL DEF Spec

\* A dedicated pod that the webhook admitted asks for whole cores, so that the pools
\* need not round: its containers do, each of them, and so does their sum.
THEOREM WholeCoresStoredHolds == Spec => []WholeCoresStored
<1>1. ASSUME SizeInv, stage = "stored", passes = "handled", LevelOf(pod) = "dedicated",
             \A c \in Range(pod.init) : c.req["cpu"] <= PodRequest([pod EXCEPT !.init = <<>>], "cpu")
      PROVE  EffectiveRequest(pod, "cpu") > 0 /\ EffectiveRequest(pod, "cpu") % 1000 = 0
  <2>1. "cpu" \in Res
    BY DEF Res
  <2>2. /\ pod \in PodType /\ pod.init \in Seq(Container) /\ pod.main \in Seq(Container)
        /\ Linked(asked, pod) /\ Kept(pod) /\ asked.main \in Seq(Container) /\ asked.main # <<>>
    BY <1>1 DEF SizeInv, Inv, Sound, PodType
  <2>3. WholeCores(pod)
    <3>1. pod.level = "dedicated"
      BY <1>1, <2>2 DEF Kept, Explicit, LevelOf
    <3> QED BY <2>2, <3>1 DEF Kept, Acceptable
  <2>4. \A i \in DOMAIN pod.main :
          pod.main[i].req["cpu"] > 0 /\ pod.main[i].req["cpu"] % 1000 = 0
    BY <2>3 DEF WholeCores, Range
  <2>5. DOMAIN pod.main # {}
    BY <2>2 DEF Linked
  <2> DEFINE D == DOMAIN pod.main
             f == [i \in Given(pod.main, "cpu") |-> pod.main[i].req["cpu"]]
             Thousands == {n \in Nat : n % 1000 = 0}
  <2>6. Given(pod.main, "cpu") = D /\ IsFiniteSet(D)
    <3>1. \A i \in D : pod.main[i].req["cpu"] # None
      BY <2>4 DEF None
    <3> QED BY <2>1, <2>2, <3>1, GivenType DEF Given
  <2>7. \A i \in D : pod.main[i].req["cpu"] \in Nat \ {0} /\ pod.main[i].req["cpu"] \in Thousands
    <3> SUFFICES ASSUME NEW i \in D PROVE pod.main[i].req["cpu"] \in Nat \ {0}
      BY <2>4
    <3>1. pod.main[i].req["cpu"] \in Int
      BY <2>1, <2>2, ContainerParts
    <3> QED BY <2>4, <3>1
  <2>8. Total(pod.main, "cpu") = SumFunction(f)
    BY DEF Total
  <2>9. f \in [D -> Nat \ {0}] /\ f \in [D -> Thousands]
    BY <2>6, <2>7
  <2>10. SumFunction(f) \in Nat \ {0} /\ SumFunction(f) \in Thousands
    <3>1. 0 \in Thousands /\ \A x, y \in Thousands : x + y \in Thousands
      OBVIOUS
    <3> HIDE DEF f, Thousands, D
    <3>2. SumFunction(f) \in Thousands
      BY <2>6, <2>9, <3>1, SumStays
    <3>3. SumFunction(f) \in Nat \ {0}
      BY <2>5, <2>6, <2>9, SumPositive DEF D
    <3> QED BY <3>2, <3>3
  <2> DEFINE total == Total(pod.main, "cpu")
  <2>11. total \in Nat \ {0} /\ total % 1000 = 0
    BY <2>8, <2>10
  <2> HIDE DEF total, f
  <2>12. Parts(pod, "cpu") = {total} \cup {pod.init[i].req["cpu"] : i \in Given(pod.init, "cpu")}
    BY <2>5, <2>6 DEF Parts, total
  <2>13. PodRequest([pod EXCEPT !.init = <<>>], "cpu") = total
    <3> DEFINE bare == [pod EXCEPT !.init = <<>>]
    <3>1. bare.init = <<>> /\ bare.main = pod.main
      BY <2>2 DEF PodType
    <3> HIDE DEF bare
    <3>2. bare.init \in Seq(Container) /\ bare.main \in Seq(Container)
      BY <2>2, <3>1
    <3>3. Given(bare.init, "cpu") = {} /\ Given(bare.main, "cpu") # {}
      BY <2>5, <2>6, <3>1 DEF Given
    <3>4. Parts(bare, "cpu") = {total}
      BY <3>1, <3>3 DEF Parts, total
    <3>5. PodRequest(bare, "cpu") \in Parts(bare, "cpu")
      BY <2>1, <3>2, PodRequestIs
    <3> QED BY <3>4, <3>5 DEF bare
  <2>14. \A x \in Parts(pod, "cpu") : x <= total
    <3>1. \A i \in Given(pod.init, "cpu") : pod.init[i].req["cpu"] <= total
      BY <1>1, <2>13 DEF Given, Range
    <3> QED BY <2>11, <2>12, <3>1
  <2>15. PodRequest(pod, "cpu") = total
    <3>1. /\ Parts(pod, "cpu") \in SUBSET Int /\ PodRequest(pod, "cpu") \in Parts(pod, "cpu")
          /\ \A x \in Parts(pod, "cpu") : PodRequest(pod, "cpu") >= x
      BY <2>1, <2>2, PodRequestIs
    <3>2. PodRequest(pod, "cpu") >= total /\ PodRequest(pod, "cpu") <= total
      BY <2>12, <2>14, <3>1
    <3>3. PodRequest(pod, "cpu") \in Int
      BY <3>1
    <3> QED BY <2>11, <3>2, <3>3
  <2>16. EffectiveRequest(pod, "cpu") = total
    BY <2>11, <2>15 DEF EffectiveRequest, None
  <2> QED BY <2>11, <2>16
<1>2. SizeInv => WholeCoresStored
  BY <1>1 DEF WholeCoresStored
<1> QED BY <1>2, SizeInit, SizeStep, PTL DEF Spec
=============================================================================
