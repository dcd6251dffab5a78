--------------------------- MODULE AdvisorProofs ----------------------------
(***************************************************************************)
(* Proofs about Advisor, for every capacity, every sequence of samples and  *)
(* every change of the policy: the ring is a list of the latest             *)
(* observations, nothing is on offer while one of them is hot, the memory   *)
(* on offer leaves room for the worst of them, and the offer grows in steps.*)
(***************************************************************************)
EXTENDS Advisor, FiniteSetTheorems, SequenceTheorems, WellFoundedInduction, TLAPS

-----------------------------------------------------------------------------
(* Least counterexamples, and the recursive functions behind sums and lists. *)

\* A set of naturals that is not empty has a least element.
LEMMA LeastNat ==
  ASSUME NEW T \in SUBSET Nat, T # {}
  PROVE  \E m \in T : \A n \in T : m <= n
<1> DEFINE Below == {0..n : n \in T}
           R == StrictSubsetOrdering(Nat)
<1>1. \A n \in Nat : 0..n \in SUBSET Nat /\ IsFiniteSet(0..n)
  BY FS_Interval
<1>2. Below \subseteq FiniteSubsetsOf(Nat) /\ Below # {}
  BY <1>1 DEF FiniteSubsetsOf
<1>3. IsWellFoundedOn(R, FiniteSubsetsOf(Nat))
  BY FS_StrictSubsetOrderingWellFounded
<1> HIDE DEF Below, R
<1>4. PICK X \in Below : \A Y \in Below : ~(<<Y, X>> \in R)
  BY <1>2, <1>3, WFMin
<1> USE DEF Below, R
<1>5. PICK m \in T : X = 0..m
  OBVIOUS
<1>6. ASSUME NEW n \in T, n < m PROVE FALSE
  <2>1. 0..n \subseteq 0..m /\ m \in 0..m /\ m \notin 0..n
    BY <1>6
  <2>2. <<0..n, 0..m>> \in R
    BY <1>1, <2>1 DEF StrictSubsetOrdering
  <2> QED BY <1>4, <1>5, <2>2
<1> QED BY <1>6

\* What SumFunction adds next, and the table of the sums of all parts.
One(s) == CHOOSE x \in s : TRUE

Row(f, sum, s) == IF s = {} THEN 0 ELSE f[One(s)] + sum[s \ {One(s)}]

Sums(f, sum, parts) == sum = [s \in parts |-> Row(f, sum, s)]

LEMMA SumsExist ==
  ASSUME NEW S, IsFiniteSet(S), NEW f
  PROVE  \E sum : Sums(f, sum, SUBSET S)
<1> DEFINE Small(n) == {s \in SUBSET S : Cardinality(s) <= n}
           T == {n \in Nat : ~ \E sum : Sums(f, sum, Small(n))}
<1>1. \A s \in SUBSET S : IsFiniteSet(s) /\ Cardinality(s) \in Nat /\ Cardinality(s) <= Cardinality(S)
  BY FS_Subset, FS_CardinalityType
<1>2. ASSUME T # {} PROVE FALSE
  <2>1. T \in SUBSET Nat
    OBVIOUS
  <2>2. PICK k \in T : \A n \in T : k <= n
    <3> HIDE DEF T
    <3> QED BY <1>2, <2>1, LeastNat
  <2>3. CASE k = 0
    <3> DEFINE sum == [s \in Small(0) |-> 0]
    <3>1. \A s \in Small(0) : s = {}
      BY <1>1, FS_EmptySet
    <3>2. sum = [s \in Small(0) |-> Row(f, sum, s)]
      BY <3>1 DEF Row
    <3> QED BY <2>3, <3>2 DEF Sums
  <2>4. CASE k # 0
    <3>1. k - 1 \in Nat /\ k - 1 \notin T
      <4> HIDE DEF T
      <4>1. k \in Nat /\ k - 1 \in Nat /\ ~(k <= k - 1)
        BY <2>1, <2>2, <2>4
      <4> QED BY <2>2, <4>1
    <3>2. PICK old : Sums(f, old, Small(k - 1))
      BY <3>1
    <3> DEFINE sum == [s \in Small(k) |-> Row(f, old, s)]
    <3>3. ASSUME NEW s \in Small(k), s # {} PROVE sum[s \ {One(s)}] = old[s \ {One(s)}]
      <4> DEFINE u == s \ {One(s)}
      <4>1. One(s) \in s
        BY <3>3 DEF One
      <4>2. Cardinality(u) = Cardinality(s) - 1
        BY <1>1, <4>1, FS_RemoveElement
      <4>3. u \in Small(k - 1) /\ u \in Small(k)
        BY <1>1, <4>2
      <4>4. old[u] = Row(f, old, u)
        BY <3>2, <4>3 DEF Sums
      <4> QED BY <4>3, <4>4
    <3>4. ASSUME NEW s \in Small(k) PROVE Row(f, sum, s) = Row(f, old, s)
      <4> HIDE DEF sum
      <4>1. CASE s = {}
        BY <4>1 DEF Row
      <4>2. CASE s # {}
        BY <3>3, <4>2, Zenon DEF Row
      <4> QED BY <4>1, <4>2
    <3>5. sum = [s \in Small(k) |-> Row(f, sum, s)]
      BY <3>4
    <3>6. Sums(f, sum, Small(k))
      BY <3>5 DEF Sums
    <3> QED BY <3>6
  <2> QED BY <2>3, <2>4
<1>3. Cardinality(S) \in Nat /\ Cardinality(S) \notin T
  BY <1>2, FS_CardinalityType
<1>4. Small(Cardinality(S)) = SUBSET S
  BY <1>1
<1> QED BY <1>3, <1>4

LEMMA SumIs ==
  ASSUME NEW S, IsFiniteSet(S), NEW f, DOMAIN f = S
  PROVE  \E sum : Sums(f, sum, SUBSET S) /\ SumFunction(f) = sum[S]
<1> DEFINE F == CHOOSE sum : Sums(f, sum, SUBSET S)
<1>1. Sums(f, F, SUBSET S)
  BY SumsExist
<1>2. SumFunction(f) = F[S]
  BY Zenon DEF SumFunction, SumFunctionOnSet, FoldFunctionOnSet, MapThenFoldSet, Sums, Row, One
<1> QED BY <1>1, <1>2

\* Every part of a finite set is reached one element at a time.
LEMMA PartByPart ==
  ASSUME NEW S, IsFiniteSet(S), NEW T \in SUBSET SUBSET S, {} \in T,
         \A s \in SUBSET S : s # {} /\ s \ {One(s)} \in T => s \in T
  PROVE  S \in T
<1> DEFINE Sizes == {Cardinality(s) : s \in (SUBSET S) \ T}
<1>1. \A s \in SUBSET S : IsFiniteSet(s) /\ Cardinality(s) \in Nat
  BY FS_Subset, FS_CardinalityType
<1>2. SUFFICES ASSUME S \notin T PROVE FALSE
  OBVIOUS
<1>3. Sizes \in SUBSET Nat /\ Sizes # {}
  BY <1>1, <1>2
<1>4. PICK k \in Sizes : \A n \in Sizes : k <= n
  <2> HIDE DEF Sizes
  <2> QED BY <1>3, LeastNat
<1>5. PICK s \in (SUBSET S) \ T : k = Cardinality(s)
  BY <1>4
<1>6. s # {} /\ One(s) \in s
  BY <1>5 DEF One
<1>7. Cardinality(s \ {One(s)}) = Cardinality(s) - 1 /\ s \ {One(s)} \in SUBSET S
  BY <1>1, <1>6, FS_RemoveElement
<1>8. s \ {One(s)} \in T
  BY <1>1, <1>4, <1>5, <1>7
<1> QED BY <1>5, <1>6, <1>8

LEMMA SumType ==
  ASSUME NEW S, IsFiniteSet(S), NEW K \in {Nat, Int}, NEW f \in [S -> K]
  PROVE  SumFunction(f) \in K
<1>1. PICK sum : Sums(f, sum, SUBSET S) /\ SumFunction(f) = sum[S]
  BY SumIs
<1> DEFINE T == {s \in SUBSET S : sum[s] \in K}
<1>2. {} \in T
  BY <1>1 DEF Sums, Row
<1>3. ASSUME NEW s \in SUBSET S, s # {}, s \ {One(s)} \in T PROVE s \in T
  <2>1. One(s) \in s
    BY <1>3 DEF One
  <2>2. sum[s] = f[One(s)] + sum[s \ {One(s)}]
    BY <1>1, <1>3 DEF Sums, Row
  <2>3. f[One(s)] \in K /\ sum[s \ {One(s)}] \in K
    BY <1>3, <2>1
  <2>4. \A a, b \in K : a + b \in K
    OBVIOUS
  <2> QED BY <2>2, <2>3, <2>4
<1>4. S \in T
  <2> HIDE DEF T
  <2>1. T \in SUBSET SUBSET S
    BY DEF T
  <2> QED BY <1>2, <1>3, <2>1, PartByPart
<1> QED BY <1>1, <1>4

-----------------------------------------------------------------------------
(* The ring and the list.                                                   *)

Entries == [value : Observations \cup {Blank}, age : 0..AgeMax]

Rings(n) == [slots : [0..(n - 1) -> Entries], next : 0..(n - 1), filled : BOOLEAN]

\* The slot of the i-th oldest observation in a ring of n.
Place(w, n, i) == IF w.filled THEN (w.next + i - 1) % n ELSE i - 1

Used(w, n) == IF w.filled THEN n ELSE w.next

\* The ring w of n slots holds the list q.
Holds(w, q, n) ==
  /\ w \in Rings(n) /\ q \in Seq(Entries) /\ Len(q) = Used(w, n)
  /\ \A i \in 1..Len(q) : q[i] = w.slots[Place(w, n, i)]

Inv == cfg \in ConfigType /\ Holds(win, log, Slots(cfg))

-----------------------------------------------------------------------------
(* Arithmetic and sizes.                                                    *)

LEMMA Wrapped ==
  ASSUME NEW n \in Nat \ {0}, NEW a \in Nat, a < 2 * n
  PROVE  a % n = IF a < n THEN a ELSE a - n
  OBVIOUS

LEMMA SlotsType == ASSUME NEW c \in ConfigType PROVE Slots(c) \in Nat /\ Slots(c) >= 3
<1>1. c.window \in Nat /\ MaxOf(1, c.interval) \in Nat \ {0}
  BY DEF ConfigType, MaxOf
<1>2. c.window \div MaxOf(1, c.interval) \in Nat
  BY <1>1
<1> QED BY <1>2 DEF Slots, MaxOf

LEMMA CapacityIs ==
  ASSUME NEW n \in Nat \ {0}, NEW w \in Rings(n)
  PROVE  Capacity(w) = n
<1>1. DOMAIN w.slots = 0..(n - 1)
  BY DEF Rings
<1> QED BY <1>1, FS_Interval DEF Capacity

LEMMA PlaceType ==
  ASSUME NEW n \in Nat \ {0}, NEW w \in Rings(n), NEW i \in 1..Used(w, n)
  PROVE  /\ Place(w, n, i) \in 0..(n - 1)
         /\ w.filled => Place(w, n, i) = IF w.next + i - 1 < n THEN w.next + i - 1
                                         ELSE w.next + i - 1 - n
<1>1. w.next \in 0..(n - 1) /\ w.filled \in BOOLEAN
  BY DEF Rings
<1>2. CASE w.filled
  <2>0. PICK a : a = w.next + i - 1
    OBVIOUS
  <2>1. a \in Nat /\ a < 2 * n
    BY <1>1, <1>2, <2>0 DEF Used
  <2>2. Place(w, n, i) = a % n
    BY <1>2, <2>0 DEF Place
  <2>3. a % n = IF a < n THEN a ELSE a - n
    BY <2>1, Wrapped
  <2>4. Place(w, n, i) \in 0..(n - 1) /\ Place(w, n, i) = IF a < n THEN a ELSE a - n
    BY <2>1, <2>2, <2>3
  <2>5. Place(w, n, i) = IF w.next + i - 1 < n THEN w.next + i - 1 ELSE w.next + i - 1 - n
    <3>1. w.next \in Int /\ i \in Int
      BY <1>1, <1>2 DEF Used
    <3> QED BY <2>0, <2>4, <3>1
  <2> QED BY <2>4, <2>5, Zenon
<1>3. CASE ~w.filled
  BY <1>1, <1>3 DEF Place, Used
<1> QED BY <1>2, <1>3

-----------------------------------------------------------------------------
(* The operations of the ring and of the list.                              *)

LEMMA NewHolds == ASSUME NEW n \in Nat \ {0} PROVE Holds(NewWindow(n, Blank), <<>>, n)
<1> DEFINE w == NewWindow(n, Blank)
<1>1. Slot(Blank, 0) \in Entries
  BY SizeAssumption DEF Slot, Entries
<1>2. w \in Rings(n) /\ w.next = 0 /\ w.filled = FALSE
  BY <1>1 DEF NewWindow, Rings
<1> HIDE DEF w
<1>3. Holds(w, <<>>, n)
  BY <1>2 DEF Holds, Used
<1> QED BY <1>3 DEF w

\* An entry that is one interval older.
Later(e) == Slot(e.value, IF e.age >= AgeMax THEN e.age ELSE e.age + 1)

LEMMA AgedHolds ==
  ASSUME NEW n \in Nat \ {0}, NEW w, NEW q, Holds(w, q, n)
  PROVE  Holds(Aged(w, AgeMax), [i \in DOMAIN q |-> Later(q[i])], n)
<1> DEFINE v == Aged(w, AgeMax)
           p == [i \in DOMAIN q |-> Later(q[i])]
<1>1. w \in Rings(n) /\ w.slots \in [0..(n - 1) -> Entries] /\ q \in Seq(Entries)
  BY DEF Holds, Rings
<1>2. \A e \in Entries : /\ Later(e) \in Entries
                         /\ e.age >= AgeMax => Later(e) = e
                         /\ ~(e.age >= AgeMax) => Later(e) = Slot(e.value, e.age + 1)
  BY SizeAssumption DEF Entries, Later, Slot
<1>3. /\ v \in Rings(n) /\ v.next = w.next /\ v.filled = w.filled
      /\ \A i \in 0..(n - 1) : v.slots[i] = Later(w.slots[i])
  <2> DEFINE slots == [i \in DOMAIN w.slots |->
                         IF w.slots[i].age >= AgeMax THEN w.slots[i]
                         ELSE Slot(w.slots[i].value, w.slots[i].age + 1)]
  <2>1. slots = [i \in 0..(n - 1) |-> Later(w.slots[i])]
    BY <1>1, <1>2
  <2>2. slots \in [0..(n - 1) -> Entries] /\ \A i \in 0..(n - 1) : slots[i] = Later(w.slots[i])
    BY <1>1, <1>2, <2>1
  <2>3. v = [w EXCEPT !.slots = slots]
    BY DEF Aged
  <2> HIDE DEF slots, v
  <2> QED BY <1>1, <2>2, <2>3 DEF Rings
<1>4. p \in Seq(Entries) /\ Len(p) = Len(q) /\ \A i \in 1..Len(q) : p[i] = Later(q[i])
  BY <1>1, <1>2
<1> HIDE DEF v, p
<1>5. Len(p) = Used(v, n)
  BY <1>3, <1>4 DEF Holds, Used
<1>6. ASSUME NEW i \in 1..Len(p) PROVE p[i] = v.slots[Place(v, n, i)]
  <2>1. i \in 1..Used(w, n) /\ q[i] = w.slots[Place(w, n, i)]
    BY <1>4, <1>6 DEF Holds
  <2>2. Place(w, n, i) \in 0..(n - 1) /\ Place(v, n, i) = Place(w, n, i)
    BY <1>1, <1>3, <2>1, PlaceType DEF Place
  <2> QED BY <1>3, <1>4, <1>6, <2>1, <2>2
<1>7. Holds(v, p, n)
  BY <1>3, <1>4, <1>5, <1>6 DEF Holds
<1> QED BY <1>7 DEF v, p

LEMMA PushHolds ==
  ASSUME NEW n \in Nat \ {0}, NEW w, NEW q, Holds(w, q, n), NEW o \in Observations
  PROVE  Holds(Push(w, o), Latest(Append(q, Slot(o, 0)), n), n)
<1> DEFINE v == Push(w, o)
           e == Slot(o, 0)
           long == Append(q, e)
           p == Latest(long, n)
           k == IF w.next = n - 1 THEN 0 ELSE w.next + 1
<1>1. /\ w \in Rings(n) /\ w.slots \in [0..(n - 1) -> Entries] /\ q \in Seq(Entries)
      /\ w.next \in 0..(n - 1) /\ w.filled \in BOOLEAN /\ Len(q) = Used(w, n)
      /\ Len(q) \in 0..n
  BY DEF Holds, Rings, Used
<1>2. e \in Entries
  BY SizeAssumption DEF Slot, Entries
<1>3. (w.next + 1) % Capacity(w) = k
  <2> DEFINE a == w.next + 1
  <2>1. a \in Nat /\ a <= n /\ a < 2 * n /\ k = IF a = n THEN 0 ELSE a
    BY <1>1
  <2>2. Capacity(w) = n
    BY <1>1, CapacityIs
  <2> HIDE DEF a, k
  <2>3. a % n = IF a < n THEN a ELSE a - n
    BY <2>1, Wrapped
  <2>4. a % n = k
    BY <2>1, <2>3
  <2> QED BY <2>2, <2>4 DEF a
<1>4. /\ v.slots = [w.slots EXCEPT ![w.next] = e] /\ v.next = k
      /\ v.filled = (w.filled \/ k = 0) /\ v = [slots |-> v.slots, next |-> v.next, filled |-> v.filled]
  BY <1>3 DEF Push
<1>5. /\ v.slots \in [0..(n - 1) -> Entries] /\ v.slots[w.next] = e /\ k \in 0..(n - 1)
      /\ \A i \in (0..(n - 1)) \ {w.next} : v.slots[i] = w.slots[i]
  BY <1>1, <1>2, <1>4
<1>6. v \in Rings(n)
  <2> HIDE DEF v, e
  <2> QED BY <1>1, <1>4, <1>5 DEF Rings
<1>7. /\ long \in Seq(Entries) /\ Len(long) = Len(q) + 1 /\ long[Len(q) + 1] = e
      /\ \A i \in 1..Len(q) : long[i] = q[i]
  BY <1>1, <1>2, AppendProperties
<1> HIDE DEF v, e, long
<1>8. CASE ~w.filled
  <2>1. Len(q) = w.next /\ p = long
    BY <1>1, <1>7, <1>8 DEF Used, Latest
  <2>2. Used(v, n) = w.next + 1
    <3>1. CASE w.next = n - 1
      <4>1. k = 0 /\ w.next + 1 = n
        BY <1>1, <3>1
      <4>2. v.filled = TRUE
        BY <1>4, <4>1, Zenon
      <4> QED BY <4>1, <4>2 DEF Used
    <3>2. CASE w.next # n - 1
      <4>1. k = w.next + 1 /\ k # 0
        BY <1>1, <3>2
      <4>2. v.filled = FALSE /\ v.next = w.next + 1
        BY <1>4, <1>8, <4>1
      <4> QED BY <4>2 DEF Used
    <3> QED BY <3>1, <3>2
  <2>3. ASSUME NEW i \in 1..(w.next + 1) PROVE long[i] = v.slots[Place(v, n, i)]
    <3>1. Place(v, n, i) = i - 1
      <4>1. CASE k = 0
        <5>1. v.next = 0 /\ v.filled /\ i \in 1..Used(v, n) /\ i <= n
          <6>1. w.next + 1 = n
            BY <1>1, <4>1
          <6>2. v.next = 0 /\ v.filled = TRUE
            BY <1>4, <4>1
          <6> QED BY <2>2, <2>3, <6>1, <6>2
        <5> QED BY <1>6, <5>1, PlaceType
      <4>2. CASE k # 0
        BY <1>4, <1>8, <4>2 DEF Place
      <4> QED BY <4>1, <4>2
    <3>2. CASE i = w.next + 1
      BY <1>1, <1>5, <1>7, <2>1, <3>1, <3>2
    <3>3. CASE i \in 1..w.next
      <4>1. q[i] = w.slots[i - 1]
        BY <1>8, <2>1, <3>3 DEF Holds, Place
      <4> QED BY <1>1, <1>5, <1>7, <2>1, <3>1, <3>3, <4>1
    <3> QED BY <1>1, <3>2, <3>3
  <2> QED BY <1>1, <1>6, <1>7, <2>1, <2>2, <2>3 DEF Holds, v, e, long
<1>9. CASE w.filled
  <2>1. Len(q) = n /\ Len(long) = n + 1 /\ Used(v, n) = n /\ Used(w, n) = n
    BY <1>1, <1>4, <1>7, <1>9 DEF Used
  <2>2. p = SubSeq(long, 2, n + 1)
    BY <2>1 DEF Latest
  <2>3. /\ p \in Seq(Entries) /\ Len(p) = n
        /\ \A i \in 1..n : p[i] = long[i + 1]
    BY <1>7, <2>1, <2>2
  <2> HIDE DEF p
  <2>4. ASSUME NEW i \in 1..n PROVE p[i] = v.slots[Place(v, n, i)]
    <3>1. Place(v, n, i) = IF k + i - 1 < n THEN k + i - 1 ELSE k + i - 1 - n
      <4>1. v.next = k /\ v.filled = TRUE /\ i \in 1..Used(v, n)
        BY <1>4, <1>9, <2>1, <2>4
      <4> HIDE DEF k
      <4> QED BY <1>6, <4>1, PlaceType
    <3>2. CASE i = n
      <4>1. Place(v, n, i) = w.next
        BY <1>1, <3>1, <3>2
      <4> QED BY <1>5, <1>7, <2>1, <2>3, <3>2, <4>1
    <3>3. CASE i < n
      <4>1. i + 1 \in 1..n /\ p[i] = q[i + 1]
        BY <1>7, <2>1, <2>3, <3>3
      <4>2. q[i + 1] = w.slots[Place(w, n, i + 1)]
        BY <2>1, <4>1 DEF Holds
      <4>3. Place(w, n, i + 1) = IF w.next + i < n THEN w.next + i ELSE w.next + i - n
        BY <1>1, <1>9, <2>1, <4>1, PlaceType
      <4>4. Place(w, n, i + 1) = Place(v, n, i) /\ Place(v, n, i) \in (0..(n - 1)) \ {w.next}
        BY <1>1, <3>1, <3>3, <4>3
      <4> QED BY <1>5, <4>1, <4>2, <4>4
    <3> QED BY <3>2, <3>3
  <2>5. Holds(v, p, n)
    BY <1>6, <2>1, <2>3, <2>4 DEF Holds
  <2> QED BY <2>5 DEF v, e, long, p
<1> QED BY <1>1, <1>8, <1>9

-----------------------------------------------------------------------------
(* The steps of the advisor.                                                *)

LEMMA AppliedType ==
  ASSUME cfg \in ConfigType, NEW p \in Policies
  PROVE  Applied(p) \in ConfigType
<1>1. p \in ConfigType
  BY ConfigAssumption
<1>2. cfg.cpuFloor \in Nat \cup {Unset} /\ cfg.memFloor \in Nat \cup {Unset}
  BY DEF ConfigType
<1> QED BY <1>1, <1>2 DEF Applied, ConfigType

\* A change of the window starts both over; otherwise both grow older.
LEMMA ConfiguredHolds ==
  ASSUME Inv, NEW c \in ConfigType
  PROVE  Holds(Configured(c), Remembered(c), Slots(c))
<1>1. Slots(c) \in Nat \ {0} /\ Slots(cfg) \in Nat \ {0}
  BY SlotsType DEF Inv
<1>2. CASE SameGeometry(c)
  <2>1. Slots(c) = Slots(cfg)
    BY <1>2 DEF SameGeometry, Slots
  <2>2. Remembered(c) = [i \in DOMAIN log |-> Later(log[i])]
    BY <1>2 DEF Remembered, Later
  <2>3. Configured(c) = Aged(win, AgeMax)
    BY <1>2 DEF Configured
  <2> QED BY <1>1, <2>1, <2>2, <2>3, AgedHolds DEF Inv
<1>3. CASE ~SameGeometry(c)
  BY <1>1, <1>3, NewHolds DEF Configured, Remembered
<1> QED BY <1>2, <1>3

LEMMA TicksHolds ==
  ASSUME Inv, NEW p \in Policies, NEW s \in Samples, Ticks(p, s)
  PROVE  Inv'
<1>1. PICK c \in ConfigType : c = Applied(p)
  BY AppliedType DEF Inv
<1>2. Slots(c) \in Nat \ {0} /\ Observation(s) \in Observations
  BY SlotsType DEF Observations
<1>3. cfg' = c /\ Holds(Configured(c), Remembered(c), Slots(c))
  BY <1>1, ConfiguredHolds DEF Ticks
<1>4. CASE s.valid
  <2>1. /\ win' = Push(Configured(c), Observation(s))
        /\ log' = Latest(Append(Remembered(c), Slot(Observation(s), 0)), Slots(c))
    BY <1>1, <1>4 DEF Ticks
  <2>2. Holds(win', log', Slots(c))
    BY <1>2, <1>3, <2>1, PushHolds
  <2> QED BY <1>3, <2>2 DEF Inv, Slots
<1>5. CASE ~s.valid
  <2>1. win' = Configured(c) /\ log' = Remembered(c)
    BY <1>1, <1>5 DEF Ticks
  <2> QED BY <1>3, <2>1 DEF Inv, Slots
<1> QED BY <1>4, <1>5

LEMMA InvInit == Init => Inv
<1>1. DefaultConfig \in ConfigType /\ Slots(DefaultConfig) \in Nat \ {0}
  BY ConfigAssumption, SlotsType
<1> QED BY <1>1, NewHolds DEF Init, Inv

LEMMA InvStep == Inv /\ [Next]_vars => Inv'
<1> SUFFICES ASSUME Inv, [Next]_vars PROVE Inv'
  OBVIOUS
<1>1. CASE Recommends
  BY <1>1, TicksHolds DEF Recommends
<1>2. ASSUME NEW p \in Policies, TickFails(p) PROVE Inv'
  <2>1. PICK c \in ConfigType : c = Applied(p)
    BY AppliedType DEF Inv
  <2>2. cfg' = c /\ win' = Configured(c) /\ log' = Remembered(c)
    BY <1>2, <2>1 DEF TickFails
  <2>3. Holds(Configured(c), Remembered(c), Slots(c))
    BY ConfiguredHolds
  <2> QED BY <2>2, <2>3 DEF Inv, Slots
<1>3. CASE Restart
  <2>1. DefaultConfig \in ConfigType /\ Slots(DefaultConfig) \in Nat \ {0}
    BY ConfigAssumption, SlotsType
  <2> QED BY <1>3, <2>1, NewHolds DEF Restart, Inv, Slots
<1>4. CASE UNCHANGED vars
  BY <1>4 DEF vars, Inv, Slots
<1> QED BY <1>1, <1>2, <1>3, <1>4 DEF Next

LEMMA LiveIs ==
  ASSUME NEW n \in Nat \ {0}, NEW w, NEW q, Holds(w, q, n), NEW horizon
  PROVE  Live(w, horizon) = Within(q, horizon)
<1> DEFINE size == IF w.filled THEN Capacity(w) ELSE w.next
           ring == [i \in 1..size |->
                      w.slots[IF w.filled THEN (w.next + i - 1) % Capacity(w) ELSE i - 1]]
<1>1. w \in Rings(n) /\ Capacity(w) = n /\ w.filled \in BOOLEAN
  BY CapacityIs DEF Holds, Rings
<1>2. Len(q) = size /\ q \in Seq(Entries)
  BY <1>1 DEF Holds, Used
<1>3. \A i \in 1..size : q[i] = ring[i]
  BY <1>1, <1>2 DEF Holds, Place
<1>4. DOMAIN q = 1..size /\ q = [i \in DOMAIN q |-> q[i]]
  BY <1>2
<1>5. q = ring
  <2> HIDE DEF size
  <2> QED BY <1>3, <1>4
<1>6. Live(w, horizon) = Within(ring, horizon)
  BY DEF Live
<1> HIDE DEF ring
<1> QED BY <1>5, <1>6

\* The ring yields exactly the latest observations inside the horizon, oldest first,
\* for every capacity: slot by slot it is the list, whatever is pushed, ages or is
\* thrown away with a change of the window.
THEOREM LiveIsRecentHolds == Spec => []LiveIsRecent
<1>1. Inv => LiveIsRecent
  BY SlotsType, LiveIs DEF Inv, LiveIsRecent, InHorizon
<1> QED BY <1>1, InvInit, InvStep, PTL DEF Spec

-----------------------------------------------------------------------------
(* What the aggregates look at.                                             *)

Kept(q, horizon, kept, n) ==
  IF n = 0 THEN <<>>
  ELSE IF q[n].age <= horizon THEN Append(kept[n - 1], q[n])
  ELSE kept[n - 1]

Keeps(q, horizon, kept, n) == kept = [i \in 0..n |-> Kept(q, horizon, kept, i)]

LEMMA KeepsExists ==
  ASSUME NEW q, NEW horizon, NEW m \in Nat
  PROVE  \E kept : Keeps(q, horizon, kept, m)
<1> DEFINE T == {n \in Nat : ~ \E kept : Keeps(q, horizon, kept, n)}
<1>1. SUFFICES ASSUME T # {} PROVE FALSE
  OBVIOUS
<1>2. T \in SUBSET Nat
  OBVIOUS
<1>3. PICK k \in T : \A n \in T : k <= n
  <2> HIDE DEF T
  <2> QED BY <1>1, <1>2, LeastNat
<1>4. CASE k = 0
  <2> DEFINE kept == [i \in 0..0 |-> <<>>]
  <2>1. \A i \in 0..0 : Kept(q, horizon, kept, i) = <<>>
    BY DEF Kept
  <2>2. Keeps(q, horizon, kept, 0)
    BY <2>1 DEF Keeps
  <2> QED BY <1>4, <2>2
<1>5. CASE k # 0
  <2>1. k - 1 \in Nat /\ k - 1 \notin T
    <3> HIDE DEF T
    <3>1. k \in Nat /\ k - 1 \in Nat /\ ~(k <= k - 1)
      BY <1>2, <1>3, <1>5
    <3> QED BY <1>3, <3>1
  <2>2. PICK old : Keeps(q, horizon, old, k - 1)
    BY <2>1
  <2> DEFINE kept == [i \in 0..k |-> IF i = k THEN Kept(q, horizon, old, k) ELSE old[i]]
  <2>3. \A i \in 0..k : Kept(q, horizon, kept, i) = Kept(q, horizon, old, i)
    <3> SUFFICES ASSUME NEW i \in 0..k, i # 0 PROVE kept[i - 1] = old[i - 1]
      BY DEF Kept
    <3> QED OBVIOUS
  <2>4. \A i \in 0..(k - 1) : old[i] = Kept(q, horizon, old, i)
    BY <2>2 DEF Keeps
  <2>5. kept = [i \in 0..k |-> Kept(q, horizon, kept, i)]
    BY <2>3, <2>4
  <2>6. Keeps(q, horizon, kept, k)
    BY <2>5 DEF Keeps
  <2> QED BY <2>6
<1> QED BY <1>4, <1>5

LEMMA WithinType ==
  ASSUME NEW E, NEW q \in Seq(E), NEW horizon
  PROVE  Within(q, horizon) \in Seq(E)
<1> DEFINE kept == CHOOSE f : Keeps(q, horizon, f, Len(q))
           T == {n \in 0..Len(q) : kept[n] \notin Seq(E)}
<1>1. Len(q) \in Nat
  OBVIOUS
<1>2. Keeps(q, horizon, kept, Len(q))
  BY <1>1, KeepsExists
<1>3. Within(q, horizon) = kept[Len(q)]
  BY DEF Within, Keeps, Kept
<1> HIDE DEF kept
<1>4. ASSUME T # {} PROVE FALSE
  <2>1. T \in SUBSET Nat
    OBVIOUS
  <2>2. PICK k \in T : \A n \in T : k <= n
    <3> HIDE DEF T
    <3> QED BY <1>4, <2>1, LeastNat
  <2>3. kept[k] = Kept(q, horizon, kept, k)
    BY <1>2 DEF Keeps
  <2>4. k # 0
    <3>1. k = 0 => kept[k] = <<>>
      BY <2>3 DEF Kept
    <3>2. kept[k] \notin Seq(E) /\ <<>> \in Seq(E)
      BY <2>2
    <3> HIDE DEF T
    <3> QED BY <3>1, <3>2
  <2>5. k - 1 \in 0..Len(q) /\ ~(k <= k - 1) /\ k \in 1..Len(q)
    BY <1>1, <2>4
  <2>6. kept[k - 1] \in Seq(E)
    BY <2>2, <2>5
  <2>7. q[k] \in E
    BY <2>5
  <2>8. kept[k] \in Seq(E)
    BY <2>3, <2>4, <2>6, <2>7 DEF Kept
  <2> QED BY <2>8
<1> QED BY <1>1, <1>3, <1>4

LEMMA LargestIs ==
  ASSUME NEW q \in Seq(Int)
  PROVE  Largest(q) \in Int /\ \A i \in 1..Len(q) : q[i] <= Largest(q)
<1> DEFINE Top(n) == \E m \in 1..n : \A i \in 1..n : q[i] <= q[m]
           T == {n \in 1..Len(q) : ~Top(n)}
<1>1. Len(q) \in Nat /\ DOMAIN q = 1..Len(q) /\ \A i \in 1..Len(q) : q[i] \in Int
  OBVIOUS
<1>2. ASSUME T # {} PROVE FALSE
  <2>1. T \in SUBSET Nat
    OBVIOUS
  <2>2. PICK k \in T : \A n \in T : k <= n
    <3> HIDE DEF T
    <3> QED BY <1>2, <2>1, LeastNat
  <2>3. k \in 1..Len(q) /\ k \in Int
    OBVIOUS
  <2>4. k # 1
    BY <1>1
  <2>5. k - 1 \in 1..Len(q) /\ ~(k <= k - 1)
    BY <1>1, <2>3, <2>4
  <2>6. PICK m \in 1..(k - 1) : \A i \in 1..(k - 1) : q[i] <= q[m]
    BY <2>2, <2>5
  <2>7. m \in 1..Len(q) /\ m \in 1..k /\ k \in 1..k
    BY <1>1, <2>3, <2>5
  <2>8. \A i \in 1..k : i \in 1..(k - 1) \/ i = k
    BY <2>3
  <2>9. CASE q[k] <= q[m]
    BY <2>6, <2>7, <2>8, <2>9
  <2>10. CASE ~(q[k] <= q[m])
    <3>1. ASSUME NEW i \in 1..k PROVE q[i] <= q[k]
      <4>1. i \in 1..Len(q)
        BY <1>1, <2>3
      <4>2. CASE i = k
        BY <1>1, <2>3, <4>2
      <4>3. CASE i \in 1..(k - 1)
        <5>1. q[i] <= q[m] /\ q[i] \in Int /\ q[m] \in Int /\ q[k] \in Int
          BY <1>1, <2>3, <2>6, <2>7, <4>1, <4>3
        <5>2. \A a, b, c \in Int : a <= b /\ ~(c <= b) => a <= c
          OBVIOUS
        <5> QED BY <2>10, <5>1, <5>2
      <4> QED BY <2>8, <4>2, <4>3
    <3> QED BY <2>7, <3>1
  <2> QED BY <2>9, <2>10
<1>3. ASSUME NEW i \in 1..Len(q)
      PROVE  Largest(q) \in Int /\ \A j \in 1..Len(q) : q[j] <= Largest(q)
  <2>1. Len(q) \in 1..Len(q)
    BY <1>1
  <2>2. PICK m \in 1..Len(q) : \A j \in 1..Len(q) : q[j] <= q[m]
    BY <1>2, <2>1
  <2>3. q[m] \in ValueSet(q) /\ \A v \in ValueSet(q) : v <= q[m]
    BY <1>1, <2>2 DEF ValueSet
  <2>4. Largest(q) \in ValueSet(q) /\ \A v \in ValueSet(q) : v <= Largest(q)
    BY <2>3, Zenon DEF Largest
  <2> QED BY <1>1, <2>4 DEF ValueSet
<1>4. CASE 1..Len(q) = {}
  <2>1. ValueSet(q) = {}
    BY <1>1, <1>4 DEF ValueSet
  <2>2. Largest(q) = 0
    BY <2>1 DEF Largest
  <2> QED BY <1>4, <2>2
<1> QED BY <1>3, <1>4

LEMMA PercentileType ==
  ASSUME NEW q \in Seq(Int), NEW p
  PROVE  Percentile(p, q) \in Int
<1>1. ValueSet(q) \subseteq Int
  BY DEF ValueSet
<1> DEFINE rank == (p * Len(q) + 99) \div 100
           reached == {v \in ValueSet(q) : Cardinality({i \in DOMAIN q : q[i] <= v}) >= rank}
<1>2. Percentile(p, q) = IF \E v \in reached : \A u \in reached : v <= u
                         THEN CHOOSE v \in reached : \A u \in reached : v <= u
                         ELSE 0
  BY Zenon DEF Percentile
<1>3. reached \subseteq Int
  BY <1>1
<1> HIDE DEF reached
<1>4. CASE \E v \in reached : \A u \in reached : v <= u
  <2>1. (CHOOSE v \in reached : \A u \in reached : v <= u) \in reached
    BY <1>4, Zenon
  <2> QED BY <1>2, <1>3, <1>4, <2>1, Zenon
<1>5. CASE ~ \E v \in reached : \A u \in reached : v <= u
  BY <1>2, <1>5
<1> QED BY <1>4, <1>5

LEMMA MeanType == ASSUME NEW q \in Seq(Int) PROVE Mean(q) \in Int
<1>1. CASE q = <<>>
  BY <1>1 DEF Mean
<1>2. CASE q # <<>>
  <2>1. Len(q) \in Nat \ {0} /\ q \in [1..Len(q) -> Int] /\ IsFiniteSet(1..Len(q))
    BY <1>2, EmptySeq, FS_Interval
  <2>2. SumFunction(q) \in Int
    <3> DEFINE S == 1..Len(q)
    <3>1. q \in [S -> Int] /\ IsFiniteSet(S)
      BY <2>1
    <3> HIDE DEF S
    <3> QED BY <3>1, SumType
  <2>3. \A a \in Int, b \in Nat \ {0} : a \div b \in Int
    OBVIOUS
  <2> QED BY <1>2, <2>1, <2>2, <2>3 DEF Mean
<1> QED BY <1>1, <1>2

\* The accumulator of Ewma as a fraction, and its next value.
Fractions == [num : Int, den : Nat \ {0}]

Blend(a, x, v) == [num |-> a * v * x.den + (10 - a) * x.num, den |-> 10 * x.den]

Blended(a, q, acc, i) == IF i = 1 THEN [num |-> q[1], den |-> 1] ELSE Blend(a, acc[i - 1], q[i])

Blends(a, q, acc, n) == acc = [i \in 1..n |-> Blended(a, q, acc, i)]

LEMMA BlendType ==
  ASSUME NEW a \in 1..10, NEW x \in Fractions, NEW v \in Int
  PROVE  Blend(a, x, v) \in Fractions
<1>1. x.num \in Int /\ x.den \in Int /\ x.den > 0 /\ a \in Int /\ 10 - a \in Int
  BY DEF Fractions
<1>2. \A i, j \in Int : i * j \in Int
  OBVIOUS
<1>3. a * v \in Int /\ (a * v) * x.den \in Int /\ (10 - a) * x.num \in Int
  BY <1>1, <1>2
<1>4. a * v * x.den + (10 - a) * x.num \in Int
  BY <1>3
<1>5. 10 * x.den \in Nat \ {0}
  BY <1>1
<1> QED BY <1>4, <1>5 DEF Blend, Fractions

LEMMA BlendsExists ==
  ASSUME NEW a, NEW q, NEW m \in Nat
  PROVE  \E acc : Blends(a, q, acc, m)
<1> DEFINE T == {n \in Nat : ~ \E acc : Blends(a, q, acc, n)}
<1>1. SUFFICES ASSUME T # {} PROVE FALSE
  OBVIOUS
<1>2. T \in SUBSET Nat
  OBVIOUS
<1>3. PICK k \in T : \A n \in T : k <= n
  <2> HIDE DEF T
  <2> QED BY <1>1, <1>2, LeastNat
<1>4. CASE k = 0
  <2> DEFINE acc == [i \in 1..0 |-> 0]
  <2>1. 1..0 = {}
    OBVIOUS
  <2>2. Blends(a, q, acc, 0)
    BY <2>1 DEF Blends
  <2> QED BY <1>4, <2>2
<1>5. CASE k # 0
  <2>1. k - 1 \in Nat /\ k - 1 \notin T
    <3> HIDE DEF T
    <3>1. k \in Nat /\ k - 1 \in Nat /\ ~(k <= k - 1)
      BY <1>2, <1>3, <1>5
    <3> QED BY <1>3, <3>1
  <2>2. PICK old : Blends(a, q, old, k - 1)
    BY <2>1
  <2> DEFINE acc == [i \in 1..k |-> IF i = k THEN Blended(a, q, old, k) ELSE old[i]]
  <2>3. ASSUME NEW i \in 1..k PROVE Blended(a, q, acc, i) = Blended(a, q, old, i)
    <3>1. CASE i = 1
      BY <3>1 DEF Blended
    <3>2. CASE i # 1
      <4>1. acc[i - 1] = old[i - 1]
        BY <3>2
      <4> HIDE DEF acc
      <4> QED BY <3>2, <4>1, Zenon DEF Blended
    <3> QED BY <3>1, <3>2
  <2>4. \A i \in 1..(k - 1) : old[i] = Blended(a, q, old, i)
    BY <2>2 DEF Blends
  <2>5. acc = [i \in 1..k |-> Blended(a, q, acc, i)]
    BY <2>3, <2>4
  <2>6. Blends(a, q, acc, k)
    BY <2>5 DEF Blends
  <2> QED BY <2>6
<1> QED BY <1>4, <1>5

LEMMA EwmaType ==
  ASSUME NEW q \in Seq(Int), NEW tenths
  PROVE  Ewma(tenths, q) \in Int
<1> DEFINE a == IF tenths \in 1..10 THEN tenths ELSE 3
           acc == CHOOSE f : Blends(a, q, f, Len(q))
           T == {n \in 1..Len(q) : acc[n] \notin Fractions}
<1>1. Len(q) \in Nat /\ a \in 1..10 /\ \A i \in 1..Len(q) : q[i] \in Int
  OBVIOUS
<1>2. Blends(a, q, acc, Len(q))
  BY <1>1, BlendsExists
<1>3. Ewma(tenths, q) = IF q = <<>> THEN 0 ELSE acc[Len(q)].num \div acc[Len(q)].den
  BY Zenon DEF Ewma, Blends, Blended, Blend
<1> HIDE DEF acc, a
<1>4. ASSUME T # {} PROVE FALSE
  <2>1. T \in SUBSET Nat
    OBVIOUS
  <2>2. PICK k \in T : \A n \in T : k <= n
    <3> HIDE DEF T
    <3> QED BY <1>4, <2>1, LeastNat
  <2>3. k \in 1..Len(q) /\ acc[k] \notin Fractions /\ acc[k] = Blended(a, q, acc, k)
    BY <1>2 DEF Blends
  <2>4. k # 1
    <3>1. q[1] \in Int
      BY <1>1, <2>3
    <3>2. [num |-> q[1], den |-> 1] \in Fractions
      BY <3>1 DEF Fractions
    <3> QED BY <2>3, <3>2 DEF Blended
  <2>5. k - 1 \in 1..Len(q) /\ ~(k <= k - 1)
    BY <1>1, <2>3, <2>4
  <2>6. acc[k - 1] \in Fractions /\ q[k] \in Int
    BY <1>1, <2>2, <2>3, <2>5
  <2>7. Blend(a, acc[k - 1], q[k]) \in Fractions
    BY <1>1, <2>6, BlendType
  <2> QED BY <2>3, <2>4, <2>7 DEF Blended
<1>5. CASE q # <<>>
  <2>1. Len(q) \in 1..Len(q)
    BY <1>1, <1>5, EmptySeq
  <2>2. acc[Len(q)] \in Fractions
    BY <1>4, <2>1
  <2>3. acc[Len(q)].num \in Int /\ acc[Len(q)].den \in Nat \ {0}
    BY <2>2 DEF Fractions
  <2>4. \A i \in Int, j \in Nat \ {0} : i \div j \in Int
    OBVIOUS
  <2> QED BY <1>3, <1>5, <2>3, <2>4
<1>6. CASE q = <<>>
  BY <1>3, <1>6
<1> QED BY <1>5, <1>6

LEMMA AggregateType ==
  ASSUME NEW q \in Seq(Int), NEW algorithm, NEW tenths
  PROVE  Aggregate(algorithm, tenths, q) \in Int
<1>1. /\ Percentile(99, q) \in Int /\ Percentile(95, q) \in Int /\ Largest(q) \in Int
      /\ Ewma(tenths, q) \in Int /\ Mean(q) \in Int
  BY PercentileType, LargestIs, EwmaType, MeanType
<1> QED BY <1>1, Zenon DEF Aggregate

-----------------------------------------------------------------------------
(* Arithmetic of the formula.                                               *)

LEMMA ProductGrows ==
  ASSUME NEW a \in Nat, NEW b \in Nat, NEW g \in Nat, a <= b
  PROVE  a * g \in Nat /\ b * g \in Nat /\ a * g <= b * g
<1>1. PICK d \in Nat : b = a + d
  <2>1. b - a \in Nat /\ b = a + (b - a)
    OBVIOUS
  <2> QED BY <2>1
<1>2. b * g = a * g + d * g /\ a * g \in Nat /\ d * g \in Nat
  BY <1>1
<1> QED BY <1>2

LEMMA QuotientGrows ==
  ASSUME NEW a \in Nat, NEW b \in Nat, NEW w \in Nat \ {0}, a <= b
  PROVE  a \div w \in Nat /\ b \div w \in Nat /\ a \div w <= b \div w
<1> DEFINE k == a \div w
           l == b \div w
<1>1. k \in Nat /\ l \in Nat /\ w * k <= a /\ b < w * (l + 1)
  OBVIOUS
<1> HIDE DEF k, l
<1>2. ASSUME l + 1 <= k PROVE FALSE
  <2>1. (l + 1) * w <= k * w
    BY <1>1, <1>2, ProductGrows
  <2> QED BY <1>1, <2>1
<1>3. k <= l
  BY <1>1, <1>2
<1> QED BY <1>1, <1>3 DEF k, l

LEMMA Share ==
  ASSUME NEW a \in Nat, NEW p \in Nat
  PROVE  (a * p) \div 100 \in Nat /\ (p <= 100 => (a * p) \div 100 <= a)
<1>1. a * p \in Nat
  OBVIOUS
<1>2. p <= 100 => a * p <= 100 * a
  <2>1. 100 * a = a * 100 /\ a * p = p * a
    OBVIOUS
  <2> QED BY <2>1, ProductGrows
<1> QED BY <1>1, <1>2

LEMMA PctGrows ==
  ASSUME NEW a \in Nat, NEW b \in Nat, NEW w \in Nat, a <= b
  PROVE  Pct(a, w) \in Nat /\ Pct(b, w) \in Nat /\ Pct(a, w) <= Pct(b, w)
<1>1. CASE w = 0
  BY <1>1 DEF Pct
<1>2. CASE w # 0
  <2>1. a * 100 \in Nat /\ b * 100 \in Nat /\ a * 100 <= b * 100
    OBVIOUS
  <2>2. /\ (a * 100) \div w \in Nat /\ (b * 100) \div w \in Nat
        /\ (a * 100) \div w <= (b * 100) \div w
    BY <1>2, <2>1, QuotientGrows
  <2> DEFINE k == (a * 100) \div w
             l == (b * 100) \div w
  <2>3. /\ Pct(a, w) = IF k > 100 THEN 100 ELSE k
        /\ Pct(b, w) = IF l > 100 THEN 100 ELSE l
    BY <1>2 DEF Pct
  <2> HIDE DEF k, l
  <2>4. k \in Nat /\ l \in Nat /\ k <= l
    BY <2>2 DEF k, l
  <2> QED BY <2>3, <2>4
<1> QED BY <1>1, <1>2

\* What is reclaimable fits under the cap, and next to what it must leave.
LEMMA ReclaimableIs ==
  ASSUME NEW c \in ConfigType, NEW alloc \in Nat, NEW protected \in Int,
         NEW target \in Nat, NEW floor \in Int
  PROVE  LET value == Reclaimable(c, alloc, protected, target, floor)
         IN /\ value \in Nat /\ value <= (alloc * c.maxReclaim) \div 100
            /\ value > 0 => value + protected + (alloc * c.headroom) \div 100
                              <= (alloc * target) \div 100
<1> DEFINE budget == (alloc * target) \div 100
           headroom == (alloc * c.headroom) \div 100
           cap == (alloc * c.maxReclaim) \div 100
           value == budget - protected - headroom
           kept == IF value > cap THEN cap ELSE value
           r == Reclaimable(c, alloc, protected, target, floor)
<1>1. budget \in Nat /\ headroom \in Nat /\ cap \in Nat
  <2>1. c.headroom \in Nat /\ c.maxReclaim \in Nat
    BY DEF ConfigType
  <2> QED BY <2>1, Share
<1>2. r = IF alloc <= 0 \/ value <= 0 \/ kept < floor THEN 0 ELSE kept
  BY DEF Reclaimable
<1> HIDE DEF budget, headroom, cap, r
<1>3. r \in Nat /\ r <= cap /\ (r > 0 => r + protected + headroom <= budget)
  BY <1>1, <1>2
<1> QED BY <1>3 DEF budget, headroom, cap, r

\* One step of the damping never passes the target, nor its share of the gap to a cap.
LEMMA DampIs ==
  ASSUME NEW current \in Nat, NEW target \in Nat, NEW cap \in Nat, target <= cap
  PROVE  LET next == Damp(current, target)
         IN next \in Nat /\ next <= target /\ InStep(current, next, cap)
<1> DEFINE next == Damp(current, target)
<1>1. GrowthStep \in Nat \ {0}
  BY SizeAssumption
<1>2. CASE target <= current
  <2>1. next = target
    BY <1>2 DEF Damp
  <2> QED BY <1>2, <2>1 DEF InStep
<1>3. CASE target > current
  <2> DEFINE gap == target - current
             room == cap - current
  <2>1. gap \in Nat \ {0} /\ room \in Nat /\ gap <= room
    BY <1>3
  <2>2. gap * GrowthStep \in Nat /\ room * GrowthStep \in Nat /\ gap * GrowthStep <= room * GrowthStep
    BY <1>1, <2>1, ProductGrows
  <2>3. GrowthStep * room = room * GrowthStep
    BY <1>1, <2>1
  <2>4. CASE GrowthStep >= 100
    <3>1. next = target
      BY <2>4 DEF Damp
    <3>2. 100 * room <= GrowthStep * room
      BY <1>1, <2>1, <2>4, ProductGrows
    <3>3. 100 * (next - current) <= GrowthStep * room
      BY <2>1, <2>2, <2>3, <3>1, <3>2
    <3>4. MaxOf(100, GrowthStep * room) >= GrowthStep * room
      BY <2>2, <2>3 DEF MaxOf
    <3> QED BY <2>2, <2>3, <3>1, <3>3, <3>4 DEF InStep, MaxOf
  <2>5. CASE GrowthStep < 100
    <3> DEFINE part == (gap * GrowthStep) \div 100
               delta == MaxOf(1, part)
    <3>1. next = IF current + delta > target THEN target ELSE current + delta
      BY <1>1, <1>3, <2>5 DEF Damp
    <3>2. part \in Nat /\ 100 * part <= gap * GrowthStep
      <4> HIDE DEF gap
      <4> QED BY <2>2
    <3>3. delta \in Nat /\ delta >= 1 /\ 100 * delta <= MaxOf(100, GrowthStep * room)
      <4> HIDE DEF part, gap, room
      <4> QED BY <2>2, <2>3, <3>2 DEF MaxOf
    <3> HIDE DEF delta, part, next
    <3>4. next \in Nat /\ next <= target /\ next - current <= delta
      BY <1>3, <3>1, <3>3
    <3>5. 100 * (next - current) <= 100 * delta
      BY <3>3, <3>4
    <3>6. MaxOf(100, GrowthStep * room) \in Nat
      <4> HIDE DEF room
      <4> QED BY <2>2, <2>3 DEF MaxOf
    <3>7. 100 * (next - current) <= MaxOf(100, GrowthStep * room)
      <4> HIDE DEF room
      <4> QED BY <3>3, <3>4, <3>5, <3>6
    <3> QED BY <3>4, <3>7 DEF InStep, next
  <2> QED BY <1>1, <2>4, <2>5
<1> QED BY <1>2, <1>3

-----------------------------------------------------------------------------
(* Observations, and what a recommendation makes of them.                   *)

Fields == {"protCpu", "protMem", "cpu", "mem", "cpuStall", "memStall"}

LEMMA ObservationType ==
  ASSUME NEW o \in Observations \cup {Blank}
  PROVE  /\ o.protCpu \in Nat /\ o.protMem \in Nat /\ o.cpu \in Nat /\ o.mem \in Nat
         /\ o.cpuStall \in Nat /\ o.memStall \in Nat
<1>1. CASE o = Blank
  BY <1>1 DEF Blank
<1>2. ASSUME NEW s \in Samples, o = Observation(s)
      PROVE  /\ o.protCpu \in Nat /\ o.protMem \in Nat /\ o.cpu \in Nat /\ o.mem \in Nat
             /\ o.cpuStall \in Nat /\ o.memStall \in Nat
  <2> DEFINE G == Guaranteed(s)
             cpus == [p \in G |-> IF p.valid THEN p.cpu ELSE 0]
             mems == [p \in G |-> p.mem]
  <2>1. s \in SampleType /\ IsFiniteSet(s.pods) /\ s.pods \subseteq PodUse
    BY SamplesAssumption DEF SampleType
  <2>2. G \in SUBSET s.pods
    BY DEF Guaranteed
  <2>3. IsFiniteSet(G) /\ G \subseteq PodUse
    BY <2>1, <2>2, FS_Subset
  <2>4. ProtectedCpu(s) = SumFunction(cpus) /\ ProtectedMem(s) = SumFunction(mems)
    BY DEF ProtectedCpu, ProtectedMem
  <2> HIDE DEF G
  <2>5. cpus \in [G -> Nat] /\ mems \in [G -> Nat]
    BY <2>3 DEF PodUse
  <2> HIDE DEF cpus, mems
  <2>6. ProtectedCpu(s) \in Nat /\ ProtectedMem(s) \in Nat
    BY <2>3, <2>4, <2>5, SumType
  <2> QED BY <1>2, <2>1, <2>6 DEF Observation, SampleType
<1> QED BY <1>1, <1>2 DEF Observations

LEMMA ValuesType ==
  ASSUME NEW n \in Nat \ {0}, NEW w, NEW q, Holds(w, q, n), NEW horizon, NEW field \in Fields
  PROVE  /\ Within(q, horizon) \in Seq(Entries)
         /\ Values(w, horizon, field) \in Seq(Int)
         /\ Len(Values(w, horizon, field)) = Len(Within(q, horizon))
         /\ \A i \in 1..Len(Within(q, horizon)) :
              Values(w, horizon, field)[i] = Within(q, horizon)[i].value[field]
<1> DEFINE live == Within(q, horizon)
<1>1. live \in Seq(Entries)
  BY WithinType DEF Holds
<1>2. Values(w, horizon, field) = [i \in DOMAIN live |-> live[i].value[field]]
  BY LiveIs DEF Values
<1> HIDE DEF live
<1>3. \A e \in Entries : e.value[field] \in Int
  BY ObservationType DEF Entries, Fields
<1>4. DOMAIN live = 1..Len(live) /\ Len(live) \in Nat /\ \A i \in 1..Len(live) : live[i] \in Entries
  BY <1>1
<1>5. [i \in 1..Len(live) |-> live[i].value[field]] \in Seq(Int)
  BY <1>3, <1>4
<1> QED BY <1>1, <1>2, <1>4, <1>5 DEF live

\* The largest value of a field is at least that of each observation in the window.
LEMMA LargestSeen ==
  ASSUME NEW n \in Nat \ {0}, NEW w, NEW q, Holds(w, q, n), NEW horizon, NEW field \in Fields
  PROVE  /\ Largest(Values(w, horizon, field)) \in Int
         /\ \A i \in 1..Len(Within(q, horizon)) :
              Within(q, horizon)[i].value[field] <= Largest(Values(w, horizon, field))
<1> DEFINE values == Values(w, horizon, field)
<1>1. /\ values \in Seq(Int) /\ Len(values) = Len(Within(q, horizon))
      /\ \A i \in 1..Len(Within(q, horizon)) : values[i] = Within(q, horizon)[i].value[field]
  BY ValuesType
<1> HIDE DEF values
<1>2. Largest(values) \in Int /\ \A i \in 1..Len(values) : values[i] <= Largest(values)
  BY <1>1, LargestIs
<1> QED BY <1>1, <1>2 DEF values

Caps(c) == [cpu |-> (CpuAlloc * c.maxReclaim) \div 100, mem |-> (MemAlloc * c.maxReclaim) \div 100]

LEMMA CapsType ==
  ASSUME NEW c \in ConfigType
  PROVE  Caps(c).cpu \in 0..CpuAlloc /\ Caps(c).mem \in 0..MemAlloc
<1>1. c.maxReclaim \in Nat /\ c.maxReclaim <= 100 /\ CpuAlloc \in Nat /\ MemAlloc \in Nat
  BY SizeAssumption DEF ConfigType
<1>2. /\ (CpuAlloc * c.maxReclaim) \div 100 \in 0..CpuAlloc
      /\ (MemAlloc * c.maxReclaim) \div 100 \in 0..MemAlloc
  BY <1>1, Share
<1> QED BY <1>2 DEF Caps

\* What the formula says, from a ring that holds a list.
LEMMA TargetsAre ==
  ASSUME NEW n \in Nat \ {0}, NEW w, NEW q, Holds(w, q, n), NEW c \in ConfigType
  PROVE  /\ TargetCpu(w, c) \in Nat /\ TargetCpu(w, c) <= Caps(c).cpu
         /\ TargetMem(w, c) \in Nat /\ TargetMem(w, c) <= Caps(c).mem
         /\ TargetMem(w, c) > 0 => \A i \in 1..Len(Within(q, c.window)) :
              TargetMem(w, c) + Within(q, c.window)[i].value.protMem
                + (MemAlloc * c.headroom) \div 100 <= (MemAlloc * c.memTarget) \div 100
<1>1. /\ CpuAlloc \in Nat /\ MemAlloc \in Nat /\ c.cpuTarget \in Nat /\ c.memTarget \in Nat
      /\ c.cpuFloor \in Int /\ c.memFloor \in Int /\ c.headroom \in Nat
  BY SizeAssumption DEF ConfigType, Unset
<1> DEFINE usedCpu == Aggregate(c.algorithm, c.alpha, Values(w, c.window, "protCpu"))
           usedMem == Largest(Values(w, c.window, "protMem"))
<1>2. "protCpu" \in Fields /\ "protMem" \in Fields
  BY DEF Fields
<1>3. usedCpu \in Int
  <2>1. Values(w, c.window, "protCpu") \in Seq(Int)
    BY <1>2, ValuesType
  <2> QED BY <2>1, AggregateType
<1>4. /\ usedMem \in Int
      /\ \A i \in 1..Len(Within(q, c.window)) :
           Within(q, c.window)[i].value["protMem"] <= usedMem
  BY <1>2, LargestSeen
<1>5. /\ TargetCpu(w, c) = Reclaimable(c, CpuAlloc, usedCpu, c.cpuTarget, c.cpuFloor)
      /\ TargetMem(w, c) = Reclaimable(c, MemAlloc, usedMem, c.memTarget, c.memFloor)
  BY DEF TargetCpu, TargetMem
<1> HIDE DEF usedCpu, usedMem
<1>6. TargetCpu(w, c) \in Nat /\ TargetCpu(w, c) <= Caps(c).cpu
  <2> DEFINE r == Reclaimable(c, CpuAlloc, usedCpu, c.cpuTarget, c.cpuFloor)
  <2>1. r \in Nat /\ r <= (CpuAlloc * c.maxReclaim) \div 100
    BY <1>1, <1>3, ReclaimableIs, Zenon
  <2> HIDE DEF r
  <2>2. TargetCpu(w, c) = r /\ Caps(c).cpu = (CpuAlloc * c.maxReclaim) \div 100
    BY <1>5 DEF Caps, r
  <2> QED BY <2>1, <2>2, Zenon
<1>7. /\ TargetMem(w, c) \in Nat /\ TargetMem(w, c) <= Caps(c).mem
      /\ TargetMem(w, c) > 0 =>
           TargetMem(w, c) + usedMem + (MemAlloc * c.headroom) \div 100
             <= (MemAlloc * c.memTarget) \div 100
  <2> DEFINE r == Reclaimable(c, MemAlloc, usedMem, c.memTarget, c.memFloor)
  <2>1. /\ r \in Nat /\ r <= (MemAlloc * c.maxReclaim) \div 100
        /\ r > 0 => r + usedMem + (MemAlloc * c.headroom) \div 100 <= (MemAlloc * c.memTarget) \div 100
    BY <1>1, <1>4, ReclaimableIs, Zenon
  <2> HIDE DEF r
  <2>2. TargetMem(w, c) = r /\ Caps(c).mem = (MemAlloc * c.maxReclaim) \div 100
    BY <1>5 DEF Caps, r
  <2> QED BY <2>1, <2>2, Zenon
<1>8. ASSUME TargetMem(w, c) > 0, NEW i \in 1..Len(Within(q, c.window))
      PROVE  TargetMem(w, c) + Within(q, c.window)[i].value.protMem
               + (MemAlloc * c.headroom) \div 100 <= (MemAlloc * c.memTarget) \div 100
  <2> DEFINE seen == Within(q, c.window)[i].value.protMem
             kept == (MemAlloc * c.headroom) \div 100
             goal == (MemAlloc * c.memTarget) \div 100
  <2>1. seen <= usedMem
    BY <1>4
  <2>2. seen \in Int
    <3>1. Within(q, c.window) \in Seq(Entries)
      BY <1>2, ValuesType
    <3>2. Within(q, c.window)[i] \in Entries
      BY <1>8, <3>1
    <3> QED BY <3>2, ObservationType DEF Entries
  <2>3. kept \in Nat /\ goal \in Nat
    BY <1>1, Share
  <2>4. TargetMem(w, c) + usedMem + kept <= goal
    BY <1>7, <1>8
  <2> HIDE DEF seen, kept, goal
  <2>5. TargetMem(w, c) + seen + kept <= goal
    BY <1>4, <1>7, <2>1, <2>2, <2>3, <2>4
  <2> QED BY <2>5 DEF seen, kept, goal
<1> QED BY <1>6, <1>7, <1>8

LEMMA LevelIs ==
  ASSUME NEW n \in Nat \ {0}, NEW w, NEW q, Holds(w, q, n), NEW c \in ConfigType
  PROVE  /\ Level(w, c) \in Levels
         /\ (\E i \in 1..Len(Within(q, c.window)) :
               Pct(Within(q, c.window)[i].value.mem, MemAlloc) >= c.memThreshold)
              => Level(w, c) = "Critical"
<1> DEFINE top == Largest(Values(w, c.window, "mem"))
<1>1. Level(w, c) \in Levels /\ (Pct(top, MemAlloc) >= c.memThreshold => Level(w, c) = "Critical")
  BY DEF Level, Levels
<1> HIDE DEF top
<1>2. ASSUME NEW i \in 1..Len(Within(q, c.window)),
             Pct(Within(q, c.window)[i].value.mem, MemAlloc) >= c.memThreshold
      PROVE  Pct(top, MemAlloc) >= c.memThreshold
  <2> DEFINE seen == Within(q, c.window)[i].value.mem
  <2>1. "mem" \in Fields
    BY DEF Fields
  <2>2. seen <= top /\ top \in Int
    BY <2>1, LargestSeen DEF top
  <2>3. seen \in Nat
    <3>1. Within(q, c.window) \in Seq(Entries)
      BY <2>1, ValuesType
    <3>2. Within(q, c.window)[i] \in Entries
      BY <1>2, <3>1
    <3> QED BY <3>2, ObservationType DEF Entries
  <2>4. MemAlloc \in Nat /\ c.memThreshold \in Nat
    BY SizeAssumption DEF ConfigType
  <2>5. Pct(seen, MemAlloc) >= c.memThreshold
    BY <1>2
  <2> HIDE DEF seen
  <2>6. top \in Nat
    BY <2>2, <2>3
  <2>7. /\ Pct(seen, MemAlloc) \in Nat /\ Pct(top, MemAlloc) \in Nat
        /\ Pct(seen, MemAlloc) <= Pct(top, MemAlloc)
    BY <2>2, <2>3, <2>4, <2>6, PctGrows
  <2> QED BY <2>4, <2>5, <2>7
<1> QED BY <1>1, <1>2

LEMMA OfferType ==
  ASSUME NEW offer \in Offers
  PROVE  offer.cpu \in Nat /\ offer.mem \in Nat
<1>1. offer.cpu \in 0..CpuAlloc /\ offer.mem \in 0..MemAlloc
  BY DEF Offers
<1> QED BY <1>1, SizeAssumption

\* A recommendation, whatever the one before it was.
LEMMA RecommendedIs ==
  ASSUME last \in Offers,
         NEW n \in Nat \ {0}, NEW w, NEW q, Holds(w, q, n), NEW c \in ConfigType
  PROVE  /\ Recommended(w, c) \in Offers
         /\ InStep(last.cpu, Recommended(w, c).cpu, Caps(c).cpu)
         /\ InStep(last.mem, Recommended(w, c).mem, Caps(c).mem)
         /\ Recommended(w, c).mem > 0 => Recommended(w, c).mem <= TargetMem(w, c)
         /\ Level(w, c) = "Critical" => Recommended(w, c).cpu = 0 /\ Recommended(w, c).mem = 0
<1> DEFINE r == Recommended(w, c)
           cpu == Damp(last.cpu, TargetCpu(w, c))
           mem == Damp(last.mem, TargetMem(w, c))
           sold == Level(w, c) # "Critical"
<1>1. r = [cpu |-> IF sold THEN cpu ELSE 0, mem |-> IF sold THEN mem ELSE 0,
           level |-> Level(w, c), confidence |-> Confidence(w, c)]
  BY DEF Recommended
<1>2. Level(w, c) \in Levels /\ Confidence(w, c) \in {"Low", "Medium", "High"}
  BY LevelIs DEF Confidence
<1>3. last.cpu \in Nat /\ last.mem \in Nat
  BY OfferType
<1>4. /\ TargetCpu(w, c) \in Nat /\ TargetCpu(w, c) <= Caps(c).cpu
      /\ TargetMem(w, c) \in Nat /\ TargetMem(w, c) <= Caps(c).mem
  BY TargetsAre
<1>5. Caps(c).cpu \in 0..CpuAlloc /\ Caps(c).mem \in 0..MemAlloc /\ CpuAlloc \in Nat /\ MemAlloc \in Nat
  BY CapsType, SizeAssumption
<1>6. Caps(c).cpu \in Nat /\ Caps(c).mem \in Nat
  BY <1>5
<1>7. cpu \in Nat /\ cpu <= TargetCpu(w, c) /\ InStep(last.cpu, cpu, Caps(c).cpu)
  BY <1>3, <1>4, <1>6, DampIs, Zenon
<1>8. mem \in Nat /\ mem <= TargetMem(w, c) /\ InStep(last.mem, mem, Caps(c).mem)
  BY <1>3, <1>4, <1>6, DampIs, Zenon
<1> HIDE DEF r, cpu, mem
<1>9. cpu \in 0..CpuAlloc /\ mem \in 0..MemAlloc
  BY <1>4, <1>5, <1>7, <1>8
<1>10. InStep(last.cpu, 0, Caps(c).cpu) /\ InStep(last.mem, 0, Caps(c).mem)
  BY <1>3 DEF InStep
<1>11. r \in Offers
  <2>1. 0 \in 0..CpuAlloc /\ 0 \in 0..MemAlloc
    BY <1>5
  <2>2. (IF sold THEN cpu ELSE 0) \in 0..CpuAlloc /\ (IF sold THEN mem ELSE 0) \in 0..MemAlloc
    BY <1>9, <2>1, Zenon
  <2> QED BY <1>1, <1>2, <2>2 DEF Offers
<1>12. CASE sold
  <2>1. r.cpu = cpu /\ r.mem = mem
    BY <1>1, <1>12
  <2> QED BY <1>7, <1>8, <1>11, <1>12, <2>1 DEF r
<1>13. CASE ~sold
  <2>1. r.cpu = 0 /\ r.mem = 0
    BY <1>1, <1>13
  <2>2. ~(r.mem > 0)
    BY <2>1
  <2> QED BY <1>10, <1>11, <2>1, <2>2 DEF r
<1> QED BY <1>12, <1>13

-----------------------------------------------------------------------------
(* The offer, tick after tick.                                              *)

\* What is on offer, and that every configuration in force has floors.
OfferInv ==
  /\ Inv
  /\ last \in Offers /\ revised \in BOOLEAN
  /\ cfg.cpuFloor # Unset /\ cfg.memFloor # Unset

\* What one recommendation adds to the steps of the ring and the list.
LEMMA TickIs ==
  ASSUME OfferInv, Recommends
  PROVE  /\ cfg' \in ConfigType /\ Slots(cfg') \in Nat \ {0}
         /\ Holds(win', log', Slots(cfg'))
         /\ last' = Recommended(win', cfg') /\ revised' \in BOOLEAN
<1>1. PICK p \in Policies, s \in Samples : Ticks(p, s)
  BY DEF Recommends
<1>2. Inv'
  BY <1>1, TicksHolds DEF OfferInv
<1>3. cfg' \in ConfigType /\ Holds(win', log', Slots(cfg'))
  BY <1>2 DEF Inv, Slots
<1>4. last' = Recommended(win', cfg') /\ revised' = MateriallyDiffers(last, last')
  BY <1>1 DEF Ticks
<1>5. revised' \in BOOLEAN
  BY <1>4 DEF MateriallyDiffers, RelDiffers
<1> QED BY <1>3, <1>4, <1>5, SlotsType

LEMMA AppliedFloors ==
  ASSUME cfg \in ConfigType, cfg.cpuFloor # Unset, cfg.memFloor # Unset, NEW p \in Policies
  PROVE  Applied(p).cpuFloor # Unset /\ Applied(p).memFloor # Unset
<1>1. p \in ConfigType
  BY ConfigAssumption
<1> QED BY <1>1 DEF Applied, ConfigType

LEMMA OfferInit == Init => OfferInv
<1> SUFFICES ASSUME Init PROVE OfferInv
  OBVIOUS
<1>1. Unsold \in Offers
  BY SizeAssumption DEF Unsold, Offers
<1> QED BY <1>1, InvInit, ConfigAssumption DEF Init, OfferInv

LEMMA OfferStep == OfferInv /\ [Next]_vars => OfferInv'
<1> SUFFICES ASSUME OfferInv, [Next]_vars PROVE OfferInv'
  OBVIOUS
<1>1. Inv'
  BY InvStep DEF OfferInv
<1>2. cfg \in ConfigType /\ cfg.cpuFloor # Unset /\ cfg.memFloor # Unset
  BY DEF OfferInv, Inv
<1>3. CASE Recommends
  <2>1. last' \in Offers /\ revised' \in BOOLEAN
    BY <1>3, TickIs, RecommendedIs DEF OfferInv
  <2>2. PICK p \in Policies, s \in Samples : cfg' = Applied(p)
    BY <1>3 DEF Recommends, Ticks
  <2>3. cfg'.cpuFloor # Unset /\ cfg'.memFloor # Unset
    BY <1>2, <2>2, AppliedFloors
  <2> QED BY <1>1, <2>1, <2>3 DEF OfferInv
<1>4. ASSUME NEW p \in Policies, TickFails(p) PROVE OfferInv'
  <2>1. cfg' = Applied(p) /\ last' = last /\ revised' = revised
    BY <1>4 DEF TickFails
  <2>2. cfg'.cpuFloor # Unset /\ cfg'.memFloor # Unset
    BY <1>2, <2>1, AppliedFloors
  <2> QED BY <1>1, <2>1, <2>2 DEF OfferInv, Offers
<1>5. CASE Restart
  <2>1. Unsold \in Offers
    BY SizeAssumption DEF Unsold, Offers
  <2> QED BY <1>1, <1>5, <2>1, ConfigAssumption DEF Restart, OfferInv, Offers
<1>6. CASE UNCHANGED vars
  BY <1>1, <1>6 DEF vars, OfferInv, Offers
<1> QED BY <1>3, <1>4, <1>5, <1>6 DEF Next

\* The types of everything the advisor keeps; with the CRD's bounds on the policy the
\* offer never exceeds the node.
THEOREM TypeOKHolds == Spec => []TypeOK
<1>1. OfferInv => TypeOK
  <2> SUFFICES ASSUME OfferInv PROVE TypeOK
    OBVIOUS
  <2>1. PICK n \in Nat \ {0} : n = Slots(cfg)
    BY SlotsType DEF OfferInv, Inv
  <2>2. Holds(win, log, n) /\ cfg \in ConfigType
    BY <2>1 DEF OfferInv, Inv
  <2>3. /\ DOMAIN win.slots = 0..(n - 1) /\ win.next \in 0..(n - 1) /\ win.filled \in BOOLEAN
        /\ \A i \in DOMAIN win.slots : win.slots[i] \in Entries
    BY <2>2 DEF Holds, Rings
  <2>4. Len(log) <= n
    BY <2>1, <2>2, <2>3 DEF Holds, Used
  <2> QED BY <2>1, <2>2, <2>3, <2>4 DEF OfferInv, TypeOK, Entries
<1> QED BY <1>1, OfferInit, OfferStep, PTL DEF Spec

\* As long as one observation in the window shows memory past the threshold, every
\* recommendation offers nothing: the largest value in the ring is at least that one.
THEOREM WithdrawnWhileHotHolds == Spec => WithdrawnWhileHot
<1> DEFINE Withdrawn ==
      Recommends => ((\E o \in Observed : Pct(o.mem, MemAlloc) >= cfg.memThreshold)
                       => last.cpu = 0 /\ last.mem = 0)'
<1>1. OfferInv /\ [Next]_vars => [Withdrawn]_vars
  <2> SUFFICES ASSUME OfferInv, Recommends, NEW o \in Observed',
                      Pct(o.mem, MemAlloc) >= cfg'.memThreshold
               PROVE  last'.cpu = 0 /\ last'.mem = 0
    OBVIOUS
  <2>1. PICK c \in ConfigType, n \in Nat \ {0} : c = cfg' /\ n = Slots(cfg')
    BY TickIs
  <2>2. Holds(win', log', n) /\ last' = Recommended(win', c)
    BY <2>1, TickIs
  <2>3. "mem" \in Fields
    BY DEF Fields
  <2>4. Within(log', c.window) \in Seq(Entries)
    BY <2>2, <2>3, ValuesType
  <2>5. PICK i \in 1..Len(Within(log', c.window)) : o = Within(log', c.window)[i].value
    BY <2>1, <2>4 DEF Observed, InHorizon
  <2>6. Level(win', c) = "Critical"
    BY <2>1, <2>2, <2>5, LevelIs
  <2> QED BY <2>2, <2>6, RecommendedIs DEF OfferInv
<1> QED BY <1>1, OfferInit, OfferStep, PTL DEF Spec, WithdrawnWhileHot

\* The memory on offer leaves room for the worst of the window and the headroom, under
\* the target: the formula subtracts the largest value, and the damping only lowers
\* what it says.
THEOREM OfferLeavesRoomHolds == Spec => OfferLeavesRoom
<1> DEFINE Fits ==
      Recommends => (last.mem > 0 => \A o \in Observed :
                       last.mem + o.protMem + (MemAlloc * cfg.headroom) \div 100
                         <= (MemAlloc * cfg.memTarget) \div 100)'
<1>1. OfferInv /\ [Next]_vars => [Fits]_vars
  <2> SUFFICES ASSUME OfferInv, Recommends, last'.mem > 0, NEW o \in Observed'
               PROVE  last'.mem + o.protMem + (MemAlloc * cfg'.headroom) \div 100
                        <= (MemAlloc * cfg'.memTarget) \div 100
    OBVIOUS
  <2>1. PICK c \in ConfigType, n \in Nat \ {0} : c = cfg' /\ n = Slots(cfg')
    BY TickIs
  <2>2. Holds(win', log', n) /\ last' = Recommended(win', c)
    BY <2>1, TickIs
  <2>3. "protMem" \in Fields
    BY DEF Fields
  <2>4. Within(log', c.window) \in Seq(Entries)
    BY <2>2, <2>3, ValuesType
  <2>5. PICK i \in 1..Len(Within(log', c.window)) : o = Within(log', c.window)[i].value
    BY <2>1, <2>4 DEF Observed, InHorizon
  <2> DEFINE offer == last'.mem
             target == TargetMem(win', c)
             seen == o.protMem
             kept == (MemAlloc * c.headroom) \div 100
             goal == (MemAlloc * c.memTarget) \div 100
  <2>6. last' \in Offers /\ offer <= target
    BY <2>2, RecommendedIs DEF OfferInv
  <2>7. target \in Nat /\ (target > 0 => target + seen + kept <= goal)
    BY <2>2, <2>5, TargetsAre
  <2>8. offer \in Nat
    BY <2>6, OfferType
  <2>9. seen \in Nat
    <3>1. Within(log', c.window)[i] \in Entries
      BY <2>4
    <3> QED BY <2>5, <3>1, ObservationType DEF Entries
  <2>10. kept \in Nat /\ goal \in Nat
    BY SizeAssumption, Share DEF ConfigType
  <2> HIDE DEF target, seen, kept, goal
  <2>11. offer + seen + kept <= goal
    BY <2>6, <2>7, <2>8, <2>9, <2>10
  <2> QED BY <2>1, <2>11 DEF seen, kept, goal
<1> QED BY <1>1, OfferInit, OfferStep, PTL DEF Spec, OfferLeavesRoom

\* From one recommendation to the next the offer closes at most a step of the gap to
\* the cap, whatever was sampled and whatever policy came in between.
THEOREM GradualGrowthHolds == Spec => GradualGrowth
<1> DEFINE Grows ==
      Recommends => /\ InStep(last.cpu, last'.cpu, (CpuAlloc * cfg'.maxReclaim) \div 100)
                    /\ InStep(last.mem, last'.mem, (MemAlloc * cfg'.maxReclaim) \div 100)
<1>1. OfferInv /\ [Next]_vars => [Grows]_vars
  <2> SUFFICES ASSUME OfferInv, Recommends PROVE Grows
    OBVIOUS
  <2>1. PICK c \in ConfigType, n \in Nat \ {0} : c = cfg' /\ n = Slots(cfg')
    BY TickIs
  <2>2. Holds(win', log', n) /\ last' = Recommended(win', c)
    BY <2>1, TickIs
  <2>3. InStep(last.cpu, last'.cpu, Caps(c).cpu) /\ InStep(last.mem, last'.mem, Caps(c).mem)
    BY <2>2, RecommendedIs DEF OfferInv
  <2> QED BY <2>1, <2>3 DEF Caps
<1> QED BY <1>1, OfferInit, OfferStep, PTL DEF Spec, GradualGrowth
=============================================================================
