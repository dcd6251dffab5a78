----------------------------- MODULE UsageProofs -----------------------------
(***************************************************************************)
(* Proofs about Usage, for any replicas, agents, clocks and sizes of the    *)
(* store: types, that the profile follows what the leader's store holds,    *)
(* that a leader which was reached for a window covers it, and that the     *)
(* capped series keeps what it should.                                      *)
(***************************************************************************)
EXTENDS Usage, FiniteSetTheorems, SequenceTheorems, WellFoundedInduction, TLAPS

-----------------------------------------------------------------------------
(* Arguments by induction take the least counterexample.                    *)

\* A set of naturals that is not empty has a least element.
LEMMA LeastNat ==
  ASSUME NEW T \in SUBSET Nat, T # {}
  PROVE  \E m \in T : \A n \in T : m <= n
<1> DEFINE Below == {0..n : n \in T}
           R == StrictSubsetOrdering(Nat)
<1>1. \A n \in Nat : 0..n \in SUBSET Nat /\ IsFiniteSet(0..n)
  BY FS_Interval
<1>2. Below \subseteq FiniteSubsetsOf(Nat) /\ Below # {}
  BY <1>1 DEF FiniteSubsetsOf
<1>3. IsWellFoundedOn(R, FiniteSubsetsOf(Nat))
  BY FS_StrictSubsetOrderingWellFounded
<1> HIDE DEF Below, R
<1>4. PICK X \in Below : \A Y \in Below : ~(<<Y, X>> \in R)
  BY <1>2, <1>3, WFMin
<1> USE DEF Below, R
<1>5. PICK m \in T : X = 0..m
  OBVIOUS
<1>6. ASSUME NEW n \in T, n < m PROVE FALSE
  <2>1. 0..n \subseteq 0..m /\ m \in 0..m /\ m \notin 0..n
    BY <1>6
  <2>2. <<0..n, 0..m>> \in R
    BY <1>1, <2>1 DEF StrictSubsetOrdering
  <2> QED BY <1>4, <1>5, <2>2
<1> QED BY <1>6

LEMMA MinOfTwo ==
  ASSUME NEW x \in Int, NEW y \in Int
  PROVE  Min({x, y}) = IF x <= y THEN x ELSE y
<1>1. \E m \in {x, y} : \A n \in {x, y} : m <= n
  OBVIOUS
<1>2. Min({x, y}) \in {x, y} /\ \A n \in {x, y} : Min({x, y}) <= n
  BY <1>1 DEF Min
<1> QED BY <1>2

LEMMA MaxOfTwo ==
  ASSUME NEW x \in Int, NEW y \in Int
  PROVE  Max({x, y}) = IF x >= y THEN x ELSE y
<1>1. \E m \in {x, y} : \A n \in {x, y} : m >= n
  OBVIOUS
<1>2. Max({x, y}) \in {x, y} /\ \A n \in {x, y} : Max({x, y}) >= n
  BY <1>1 DEF Max
<1> QED BY <1>2

\* The numbers among the constants.
LEMMA Numbers ==
  /\ Request \in Nat /\ Margin \in Nat /\ MinCpu \in Nat /\ MinMem \in Nat
  /\ Retention \in Nat /\ Medium \in Nat /\ High \in Nat /\ CacheFor \in Nat
  /\ Requeue \in Nat /\ Backoff \in Nat /\ MaxPerKey \in Nat \ {0}
<1>1. DOMAIN Nums = 1..10
  BY DEF Nums
<1>2. \A i \in 1..10 : Nums[i] \in Nat
  BY <1>1, NumbersAssumption
<1>3. /\ Nums[1] = Request /\ Nums[2] = Margin /\ Nums[3] = MinCpu
      /\ Nums[4] = MinMem /\ Nums[5] = Retention /\ Nums[6] = Medium
      /\ Nums[7] = High /\ Nums[8] = CacheFor /\ Nums[9] = Requeue
      /\ Nums[10] = Backoff
  BY DEF Nums
<1>4. \A i \in {1, 2, 3, 4, 5, 6, 7, 8, 9, 10} : Nums[i] \in Nat
  BY <1>2
<1> QED BY <1>3, <1>4, NumbersAssumption

-----------------------------------------------------------------------------
(* Live, one sample at a time.                                              *)

Selection(q, f, n) ==
  IF n = 0 THEN <<>>
  ELSE IF q[n].age <= Retention THEN Append(f[n - 1], q[n])
  ELSE f[n - 1]

Selects(q, f, m) == f = [n \in 0..m |-> Selection(q, f, n)]

LEMMA SelectionExists ==
  ASSUME NEW q, NEW m \in Nat
  PROVE  \E f : Selects(q, f, m)
<1> DEFINE T == {n \in Nat : ~ \E f : Selects(q, f, n)}
<1>1. SUFFICES ASSUME T # {} PROVE FALSE
  OBVIOUS
<1>2. PICK k \in T : \A n \in T : k <= n
  BY <1>1, LeastNat
<1>3. CASE k = 0
  <2> DEFINE f == [n \in 0..0 |-> <<>>]
  <2>1. \A n \in 0..0 : Selection(q, f, n) = <<>>
    BY DEF Selection
  <2>2. Selects(q, f, 0)
    BY <2>1 DEF Selects
  <2> QED BY <1>3, <2>2
<1>4. CASE k # 0
  <2>1. k - 1 \in Nat /\ k - 1 \notin T
    BY <1>2, <1>4
  <2>2. PICK f : Selects(q, f, k - 1)
    BY <2>1
  <2> DEFINE g == [n \in 0..k |-> IF n = k THEN Selection(q, f, k) ELSE f[n]]
  <2>3. \A n \in 0..k : Selection(q, g, n) = Selection(q, f, n)
    <3> SUFFICES ASSUME NEW n \in 0..k, n # 0 PROVE g[n - 1] = f[n - 1]
      BY DEF Selection
    <3> QED OBVIOUS
  <2>4. \A n \in 0..(k - 1) : f[n] = Selection(q, f, n)
    BY <2>2 DEF Selects
  <2>5. g = [n \in 0..k |-> Selection(q, g, n)]
    BY <2>3, <2>4
  <2>6. Selects(q, g, k)
    BY <2>5 DEF Selects
  <2> QED BY <2>6
<1> QED BY <1>3, <1>4

LEMMA LiveSelects ==
  ASSUME NEW q, Len(q) \in Nat
  PROVE  \E f : Selects(q, f, Len(q)) /\ Live(q) = f[Len(q)]
<1> DEFINE F == CHOOSE f : Selects(q, f, Len(q))
<1>1. Selects(q, F, Len(q))
  BY SelectionExists
<1>2. Live(q) = F[Len(q)]
  BY DEF Live, Selects, Selection
<1> QED BY <1>1, <1>2

\* A prefix selects alike.
LEMMA SelectionsAgree ==
  ASSUME NEW q, NEW r, NEW f, NEW g, NEW m \in Nat, NEW n \in Nat, m <= n,
         \A i \in 1..m : q[i] = r[i], Selects(q, f, m), Selects(r, g, n)
  PROVE  f[m] = g[m]
<1> DEFINE T == {k \in 0..m : f[k] # g[k]}
<1> SUFFICES ASSUME T # {} PROVE FALSE
  OBVIOUS
<1>1. T \in SUBSET Nat
  OBVIOUS
<1>2. PICK k \in T : \A i \in T : k <= i
  BY <1>1, LeastNat
<1>3. f[k] = Selection(q, f, k) /\ g[k] = Selection(r, g, k)
  BY DEF Selects
<1>4. CASE k = 0
  BY <1>3, <1>4 DEF Selection
<1>5. CASE k # 0
  <2>1. k - 1 \in 0..m /\ k - 1 \notin T /\ k \in 1..m
    BY <1>2, <1>5
  <2>2. f[k - 1] = g[k - 1] /\ q[k] = r[k]
    BY <2>1
  <2> QED BY <1>2, <1>3, <1>5, <2>2 DEF Selection
<1> QED BY <1>4, <1>5

LEMMA LiveEmpty == Live(<<>>) = <<>>
<1>1. Len(<<>>) = 0
  OBVIOUS
<1>2. PICK f : Selects(<<>>, f, 0) /\ Live(<<>>) = f[0]
  BY <1>1, LiveSelects
<1> QED BY <1>2 DEF Selects, Selection

LEMMA LiveAppend ==
  ASSUME NEW E, NEW q \in Seq(E), NEW s \in E
  PROVE  Live(Append(q, s)) = IF s.age <= Retention THEN Append(Live(q), s) ELSE Live(q)
<1> DEFINE r == Append(q, s)
<1>1. /\ Len(r) = Len(q) + 1 /\ Len(q) \in Nat /\ r[Len(r)] = s
      /\ \A i \in 1..Len(q) : q[i] = r[i]
  BY AppendProperties
<1> HIDE DEF r
<1>2. PICK f : Selects(q, f, Len(q)) /\ Live(q) = f[Len(q)]
  BY <1>1, LiveSelects
<1>3. PICK g : Selects(r, g, Len(r)) /\ Live(r) = g[Len(r)]
  BY <1>1, LiveSelects
<1>4. f[Len(q)] = g[Len(q)]
  <2> DEFINE m == Len(q)
             n == Len(r)
  <2>1. m \in Nat /\ n \in Nat /\ m <= n
    BY <1>1
  <2>2. \A i \in 1..m : q[i] = r[i]
    BY <1>1
  <2>3. Selects(q, f, m) /\ Selects(r, g, n)
    BY <1>2, <1>3
  <2> HIDE DEF m, n
  <2>4. f[m] = g[m]
    BY <2>1, <2>2, <2>3, SelectionsAgree
  <2> QED BY <2>4 DEF m
<1>5. Len(r) \in 0..Len(r) /\ Len(r) # 0 /\ Len(r) - 1 = Len(q)
  BY <1>1
<1>6. g[Len(r)] = Selection(r, g, Len(r))
  BY <1>3, <1>5 DEF Selects
<1> QED BY <1>1, <1>2, <1>3, <1>4, <1>5, <1>6 DEF Selection, r

\* What Live returns: the samples of q that are in the window, and no others.
Selected(E, q, l) ==
  /\ l \in Seq(E) /\ Len(l) <= Len(q)
  /\ \A j \in 1..Len(l) : l[j].age <= Retention
  /\ \A j \in 1..Len(l) : \E i \in 1..Len(q) : l[j] = q[i]
  /\ \A i \in 1..Len(q) : q[i].age <= Retention => \E j \in 1..Len(l) : l[j] = q[i]

LEMMA SelectedAppend ==
  ASSUME NEW E, NEW q \in Seq(E), NEW s \in E, Selected(E, q, Live(q))
  PROVE  Selected(E, Append(q, s), Live(Append(q, s)))
<1> DEFINE r == Append(q, s)
           l == Live(q)
<1>1. /\ r \in Seq(E) /\ Len(r) = Len(q) + 1 /\ Len(q) \in Nat /\ r[Len(q) + 1] = s
      /\ \A i \in 1..Len(q) : r[i] = q[i]
  BY AppendProperties
<1>2. Live(r) = IF s.age <= Retention THEN Append(l, s) ELSE l
  BY LiveAppend
<1>3. l \in Seq(E) /\ Len(l) \in Nat
  BY DEF Selected
<1>4. CASE s.age <= Retention
  <2> DEFINE m == Append(l, s)
  <2>1. /\ m \in Seq(E) /\ Len(m) = Len(l) + 1 /\ m[Len(l) + 1] = s
        /\ \A j \in 1..Len(l) : m[j] = l[j]
    BY <1>3, AppendProperties
  <2> HIDE DEF m, r, l
  <2>2. Selected(E, q, l)
    BY DEF l
  <2>3. \A j \in 1..Len(m) : j \in 1..Len(l) \/ j = Len(l) + 1
    BY <1>3, <2>1
  <2>4. \A i \in 1..Len(r) : i \in 1..Len(q) \/ i = Len(q) + 1
    BY <1>1
  <2>5. 1..Len(l) \subseteq 1..Len(m) /\ Len(l) + 1 \in 1..Len(m)
    BY <1>3, <2>1
  <2>6. 1..Len(q) \subseteq 1..Len(r) /\ Len(q) + 1 \in 1..Len(r)
    BY <1>1
  <2>7. \A j \in 1..Len(m) : m[j].age <= Retention
    BY <1>4, <2>1, <2>2, <2>3 DEF Selected
  <2>8. \A j \in 1..Len(m) : \E i \in 1..Len(r) : m[j] = r[i]
    BY <1>1, <2>1, <2>2, <2>3, <2>6 DEF Selected
  <2>9. ASSUME NEW i \in 1..Len(r), r[i].age <= Retention PROVE \E j \in 1..Len(m) : m[j] = r[i]
    <3>1. CASE i \in 1..Len(q)
      <4>1. r[i] = q[i]
        BY <1>1, <3>1
      <4>2. PICK j \in 1..Len(l) : l[j] = q[i]
        BY <2>2, <2>9, <3>1, <4>1 DEF Selected
      <4>3. j \in 1..Len(m) /\ m[j] = l[j]
        BY <2>1, <2>5
      <4> QED BY <4>1, <4>2, <4>3
    <3>2. CASE i = Len(q) + 1
      BY <1>1, <2>1, <2>5, <3>2
    <3> QED BY <2>4, <3>1, <3>2
  <2>10. Len(m) <= Len(r)
    BY <1>1, <1>3, <2>1, <2>2 DEF Selected
  <2>11. Selected(E, r, m)
    BY <2>1, <2>7, <2>8, <2>9, <2>10 DEF Selected
  <2> QED BY <1>2, <1>4, <2>11 DEF m, r, l
<1>5. CASE ~(s.age <= Retention)
  <2> HIDE DEF r, l
  <2>1. Selected(E, q, l)
    BY DEF l
  <2>2. \A i \in 1..Len(r) : i \in 1..Len(q) \/ i = Len(q) + 1
    BY <1>1
  <2>3. 1..Len(q) \subseteq 1..Len(r) /\ Len(l) <= Len(r)
    BY <1>1, <1>3, <2>1 DEF Selected
  <2>4. \A j \in 1..Len(l) : \E i \in 1..Len(r) : l[j] = r[i]
    BY <1>1, <2>1, <2>3 DEF Selected
  <2>5. ASSUME NEW i \in 1..Len(r), r[i].age <= Retention
        PROVE  \E j \in 1..Len(l) : l[j] = r[i]
    <3>1. i \in 1..Len(q)
      BY <1>1, <1>5, <2>2, <2>5
    <3>2. r[i] = q[i]
      BY <1>1, <3>1
    <3> QED BY <2>1, <2>5, <3>1, <3>2 DEF Selected
  <2>6. Selected(E, r, l)
    BY <2>1, <2>3, <2>4, <2>5 DEF Selected
  <2> QED BY <1>2, <1>5, <2>6 DEF r, l
<1> QED BY <1>4, <1>5

LEMMA LiveProperties ==
  ASSUME NEW E, NEW q \in Seq(E)
  PROVE  Selected(E, q, Live(q))
<1> DEFINE Bad(n) == \E s \in Seq(E) : Len(s) = n /\ ~Selected(E, s, Live(s))
           T == {n \in Nat : Bad(n)}
<1>1. SUFFICES ASSUME T # {} PROVE FALSE
  <2>1. Len(q) \in Nat
    OBVIOUS
  <2> QED BY <1>1, <2>1
<1>2. PICK k \in T : \A n \in T : k <= n
  <2>1. T \in SUBSET Nat
    OBVIOUS
  <2> HIDE DEF T
  <2> QED BY <1>1, <2>1, LeastNat
<1>3. PICK s \in Seq(E) : Len(s) = k /\ ~Selected(E, s, Live(s))
  BY <1>2
<1>4. CASE s = <<>>
  <2>1. Selected(E, <<>>, <<>>)
    BY DEF Selected
  <2> QED BY <1>3, <1>4, <2>1, LiveEmpty
<1>5. CASE s # <<>>
  <2>1. PICK w \in Seq(E), e \in E : s = Append(w, e)
    BY <1>5, SequenceEmptyOrAppend
  <2>2. Len(w) \in Nat /\ Len(w) < k
    BY <1>3, <2>1, AppendProperties
  <2>3. Len(w) \notin T
    BY <1>2, <2>2
  <2>4. Selected(E, w, Live(w))
    BY <2>2, <2>3
  <2> QED BY <1>3, <2>1, <2>4, SelectedAppend
<1> QED BY <1>4, <1>5

\* Nothing is in the window exactly when every sample is past it.
LEMMA LiveIsEmpty ==
  ASSUME NEW E, NEW q \in Seq(E)
  PROVE  Live(q) = <<>> <=> \A i \in 1..Len(q) : ~(q[i].age <= Retention)
<1>1. Selected(E, q, Live(q))
  BY LiveProperties
<1>2. Live(q) \in Seq(E)
  BY <1>1 DEF Selected
<1>3. Live(q) = <<>> <=> Len(Live(q)) = 0
  BY <1>2, EmptySeq
<1>4. Len(Live(q)) = 0 <=> 1..Len(Live(q)) = {}
  <2>1. Len(Live(q)) \in Nat
    BY <1>2, LenProperties
  <2>2. \A n \in Nat : n = 0 <=> 1..n = {}
    <3> SUFFICES ASSUME NEW n \in Nat, n # 0 PROVE 1 \in 1..n
      OBVIOUS
    <3> QED OBVIOUS
  <2> QED BY <2>1, <2>2
<1> QED BY <1>1, <1>2, <1>3, <1>4 DEF Selected

-----------------------------------------------------------------------------
(* Types.                                                                   *)

Shorts == {q \in Seq(Sample) : Len(q) <= MaxPerKey}

ProfileType ==
  [ready : BOOLEAN, confidence : {"", "Low", "Medium", "High"},
   samples : 0..MaxPerKey, pods : 0..Cardinality(Agents),
   cpu : Int, mem : Int, waste : Int]

ControllerType ==
  /\ up \subseteq Replicas /\ leader \in up \cup {None} /\ wake \in Off..Patience
  /\ profile \in ProfileType /\ same \in 0..(Patience + 1)

StoreType ==
  /\ store \in [Replicas -> Shorts] /\ intact \in [Replicas -> 0..Settling]

SenderType ==
  /\ due \subseteq Agents /\ cached \in [Agents -> SUBSET Replicas]
  /\ cachedAge \in [Agents -> 0..CacheFor]
  /\ sending \subseteq Agents /\ todo \in [Agents -> SUBSET Replicas]

TypeInv == ControllerType /\ StoreType /\ SenderType

LEMMA Bounds ==
  /\ Patience \in Nat /\ Requeue <= Patience /\ Backoff <= Patience
  /\ Settling \in Nat /\ Settling = CacheFor + Retention + 1
BY Numbers, MaxOfTwo DEF Patience, Settling

LEMMA StampedType ==
  ASSUME NEW a \in Agents
  PROVE  Stamped(a) \in Sample
<1>1. Skew[a] \in Nat /\ Retention \in Nat
  BY SetsAssumption, Numbers
<1>2. Min({Skew[a], Retention + 1}) \in 0..(Retention + 1)
  BY <1>1, MinOfTwo
<1> QED BY <1>2 DEF Stamped, Sample

\* The store grows by one, or forgets the first when it is full.
LEMMA IngestedIs ==
  ASSUME NEW q \in Shorts, NEW s \in Sample
  PROVE  /\ Ingested(q, s) \in Shorts
         /\ Len(q) < MaxPerKey => Ingested(q, s) = Append(q, s)
         /\ Len(q) = MaxPerKey => /\ Len(Ingested(q, s)) = Len(q)
                                  /\ \A i \in 1..Len(q) :
                                       Ingested(q, s)[i] = Append(q, s)[i + 1]
<1> DEFINE r == Append(q, s)
<1>1. /\ q \in Seq(Sample) /\ Len(q) \in Nat /\ Len(q) <= MaxPerKey
      /\ MaxPerKey \in Nat \ {0}
  BY Numbers, LenProperties DEF Shorts
<1>2. r \in Seq(Sample) /\ Len(r) = Len(q) + 1
  BY <1>1, AppendProperties
<1>3. Ingested(q, s) = IF Len(r) > MaxPerKey THEN SubSeq(r, Len(r) - MaxPerKey + 1, Len(r)) ELSE r
  BY DEF Ingested, Latest
<1> HIDE DEF r
<1>4. CASE Len(q) < MaxPerKey
  <2>1. Ingested(q, s) = r
    BY <1>1, <1>2, <1>3, <1>4
  <2> QED BY <1>1, <1>2, <1>4, <2>1 DEF Shorts, r
<1>5. CASE Len(q) = MaxPerKey
  <2>1. Ingested(q, s) = SubSeq(r, 2, Len(q) + 1)
    BY <1>1, <1>2, <1>3, <1>5
  <2>2. \A i \in 2..(Len(q) + 1) : r[i] \in Sample
    BY <1>1, <1>2, ElementOfSeq
  <2>3. /\ SubSeq(r, 2, Len(q) + 1) \in Seq(Sample)
        /\ Len(SubSeq(r, 2, Len(q) + 1)) = Len(q)
        /\ \A i \in 1..Len(q) : SubSeq(r, 2, Len(q) + 1)[i] = r[i + 1]
    <3> DEFINE n == Len(q) + 1
    <3>1. n \in Int /\ 2 \in Int /\ n >= 2 /\ n - 2 + 1 = Len(q)
      BY <1>1, <1>5
    <3> HIDE DEF n
    <3>2. /\ SubSeq(r, 2, n) \in Seq(Sample)
          /\ Len(SubSeq(r, 2, n)) = n - 2 + 1
          /\ \A i \in 1..(n - 2 + 1) : SubSeq(r, 2, n)[i] = r[2 + i - 1]
      BY <2>2, <3>1, SubSeqProperties DEF n
    <3>3. \A i \in 1..Len(q) : 2 + i - 1 = i + 1
      OBVIOUS
    <3> QED BY <3>1, <3>2, <3>3 DEF n
  <2> QED BY <1>1, <1>5, <2>1, <2>3 DEF Shorts, r
<1> QED BY <1>1, <1>4, <1>5

LEMMA AllOlderIs ==
  ASSUME NEW q \in Shorts
  PROVE  /\ AllOlder(q) \in Shorts /\ Len(AllOlder(q)) = Len(q)
         /\ \A i \in 1..Len(q) :
              /\ AllOlder(q)[i] = Older(q[i])
              /\ Older(q[i]).pod = q[i].pod
              /\ Older(q[i]).age = IF q[i].age <= Retention THEN q[i].age + 1
                                   ELSE Retention + 1
<1>1. q \in Seq(Sample) /\ Len(q) \in Nat /\ Len(q) <= MaxPerKey /\ Retention \in Nat
  BY Numbers, LenProperties DEF Shorts
<1>2. \A i \in 1..Len(q) : q[i] \in Sample
  BY <1>1, ElementOfSeq
<1>3. ASSUME NEW s \in Sample
      PROVE  /\ Older(s) \in Sample /\ Older(s).pod = s.pod
             /\ Older(s).age = IF s.age <= Retention THEN s.age + 1 ELSE Retention + 1
  <2>1. s.age \in 0..(Retention + 1) /\ s.pod \in Agents
    BY DEF Sample
  <2>2. Min({s.age + 1, Retention + 1}) = IF s.age <= Retention THEN s.age + 1 ELSE Retention + 1
    BY <1>1, <2>1, MinOfTwo
  <2>3. Older(s) = [s EXCEPT !.age = Min({s.age + 1, Retention + 1})]
    BY DEF Older
  <2>4. Min({s.age + 1, Retention + 1}) \in 0..(Retention + 1)
    BY <1>1, <2>1, <2>2
  <2>5. \A n \in 0..(Retention + 1) : /\ [s EXCEPT !.age = n] \in Sample
                                      /\ [s EXCEPT !.age = n].pod = s.pod
                                      /\ [s EXCEPT !.age = n].age = n
    BY DEF Sample
  <2>6. Older(s) \in Sample /\ Older(s).pod = s.pod
        /\ Older(s).age = Min({s.age + 1, Retention + 1})
    BY <2>3, <2>4, <2>5
  <2> QED BY <2>2, <2>6
<1>4. AllOlder(q) = [i \in 1..Len(q) |-> Older(q[i])]
  BY <1>1, LenProperties DEF AllOlder
<1>5. AllOlder(q) \in Seq(Sample) /\ Len(AllOlder(q)) = Len(q)
  BY <1>1, <1>2, <1>3, <1>4, IsASeq
<1> QED BY <1>1, <1>2, <1>3, <1>4, <1>5 DEF Shorts

LEMMA CollectedType ==
  ASSUME NEW q \in Shorts
  PROVE  Live(q) \in Shorts
<1>1. q \in Seq(Sample) /\ Len(q) <= MaxPerKey
  BY DEF Shorts
<1>2. Live(q) \in Seq(Sample) /\ Len(Live(q)) <= Len(q)
  BY <1>1, LiveProperties DEF Selected
<1>3. Len(q) \in Nat /\ Len(Live(q)) \in Nat /\ MaxPerKey \in Nat
  BY <1>1, <1>2, LenProperties, Numbers
<1> QED BY <1>1, <1>2, <1>3 DEF Shorts

\* The percentile of a distribution is one of its values, its peak the largest.
LEMMA Quantiles ==
  ASSUME NEW q, Dist!ValueSet(q) \subseteq Nat
  PROVE  Dist!Percentile(95, q) \in Nat /\ Dist!Largest(q) \in Nat
<1>1. Dist!Largest(q) \in Nat
  <2> DEFINE V == Dist!ValueSet(q)
  <2>1. CASE \E m \in V : \A v \in V : v <= m
    <3>1. Dist!Largest(q) = CHOOSE m \in V : \A v \in V : v <= m
      BY <2>1 DEF Dist!Largest
    <3>2. (CHOOSE m \in V : \A v \in V : v <= m) \in V
      BY <2>1
    <3> QED BY <3>1, <3>2
  <2>2. CASE ~ \E m \in V : \A v \in V : v <= m
    BY <2>2 DEF Dist!Largest
  <2> QED BY <2>1, <2>2
<1>2. Dist!Percentile(95, q) \in Dist!ValueSet(q) \cup {0}
  BY Zenon DEF Dist!Percentile
<1> QED BY <1>1, <1>2

LEMMA ProfiledType ==
  ASSUME NEW q \in Shorts, profile \in ProfileType
  PROVE  Profiled(q) \in ProfileType
<1>1. /\ q \in Seq(Sample) /\ Len(q) \in 0..MaxPerKey /\ DOMAIN q = 1..Len(q)
      /\ \A i \in 1..Len(q) : q[i] \in Sample
  BY Numbers, LenProperties, ElementOfSeq DEF Shorts
<1>2. \A i \in 1..Len(q) : q[i].pod \in Agents
  BY <1>1 DEF Sample
<1>3. /\ Dist!ValueSet(Cpus(q)) \subseteq Nat
      /\ Dist!ValueSet(Mems(q)) \subseteq Nat
  <2>1. \A a \in Agents : Use[a].cpu \in Nat /\ Use[a].mem \in Nat
    BY SetsAssumption DEF Usage
  <2> QED BY <1>1, <1>2, <2>1 DEF Cpus, Mems, Dist!ValueSet
<1>4. P95(q) \in Nat /\ Peak(q) \in Nat
  BY <1>3, Quantiles DEF P95, Peak
<1>5. Cardinality(PodsOf(q)) \in 0..Cardinality(Agents)
  <2>1. PodsOf(q) \in SUBSET Agents
    BY <1>1, <1>2 DEF PodsOf
  <2>2. IsFiniteSet(Agents)
    BY SetsAssumption
  <2>3. IsFiniteSet(PodsOf(q)) /\ Cardinality(PodsOf(q)) <= Cardinality(Agents)
    BY <2>1, <2>2, FS_Subset
  <2>4. Cardinality(PodsOf(q)) \in Nat /\ Cardinality(Agents) \in Nat
    BY <2>2, <2>3, FS_CardinalityType
  <2> QED BY <2>3, <2>4
<1>6. ASSUME NEW v \in Nat, NEW f \in Nat PROVE Padded(v, f) \in Int
  <2>1. (v * (100 + Margin)) \div 100 \in Int
    BY Numbers
  <2> HIDE DEF Padded
  <2>2. Max({f, (v * (100 + Margin)) \div 100}) \in Int
    BY <2>1, MaxOfTwo
  <2> QED BY <2>2 DEF Padded
<1>7. Padded(P95(q), MinCpu) \in Int /\ Padded(Peak(q), MinMem) \in Int
  BY <1>4, <1>6, Numbers
<1>8. Waste(P95(q)) \in Int
  <2>1. ASSUME NEW p \in Nat PROVE Waste(p) \in Int
    <3>1. CASE Request > p
      <4>1. Request \in Nat /\ Request > 0 /\ (Request - p) * 100 \in Int
        BY <3>1, Numbers
      <4> QED BY <3>1, <4>1 DEF Waste
    <3>2. CASE ~(Request > p)
      BY <3>2 DEF Waste
    <3> QED BY <3>1, <3>2
  <2> QED BY <1>4, <2>1
<1>9. Confidence(q) \in {"", "Low", "Medium", "High"}
  BY DEF Confidence
<1>10. CASE q = <<>>
  BY <1>10 DEF Profiled, ProfileType
<1>11. CASE q # <<>>
  BY <1>1, <1>5, <1>7, <1>8, <1>9, <1>11 DEF Profiled, ProfileType
<1> QED BY <1>10, <1>11

LEMMA BlankType == NoProfile \in ProfileType /\ Blank \in ProfileType
<1>1. 0 \in 0..MaxPerKey /\ 0 \in 0..Cardinality(Agents)
  BY Numbers, SetsAssumption, FS_CardinalityType
<1>2. NoProfile \in ProfileType
  BY <1>1 DEF NoProfile, ProfileType
<1>3. ASSUME NEW p \in ProfileType, NEW n \in Int
      PROVE  /\ [p EXCEPT !.cpu = n] \in ProfileType
             /\ [p EXCEPT !.mem = n] \in ProfileType
  BY <1>3 DEF ProfileType
<1>4. Blank = [[NoProfile EXCEPT !.cpu = 0] EXCEPT !.mem = 0]
  BY DEF Blank
<1>5. Blank \in ProfileType
  <2>1. 0 \in Int
    OBVIOUS
  <2>2. [NoProfile EXCEPT !.cpu = 0] \in ProfileType
    BY <1>2, <1>3, <2>1, Zenon
  <2>3. [[NoProfile EXCEPT !.cpu = 0] EXCEPT !.mem = 0] \in ProfileType
    BY <1>3, <2>1, <2>2, Zenon
  <2> QED BY <1>4, <2>3, Zenon
<1> QED BY <1>2, <1>5

LEMMA SoonerType ==
  ASSUME NEW d \in 0..Patience, wake \in Off..Patience
  PROVE  Sooner(d) \in 0..Patience /\ Sooner(d) <= d
<1>1. CASE wake \in {0, Off}
  BY <1>1, Bounds DEF Sooner
<1>2. CASE wake \notin {0, Off}
  <2>1. wake \in 1..Patience
    BY <1>2, Bounds DEF Off
  <2> QED BY <1>2, <2>1, Bounds, MinOfTwo DEF Sooner
<1> QED BY <1>1, <1>2

LEMMA TypeInit == Init => TypeInv
<1> SUFFICES ASSUME Init PROVE TypeInv
  OBVIOUS
<1>1. ControllerType
  BY BlankType, Bounds DEF Init, ControllerType, Off
<1>2. StoreType
  <2>1. <<>> \in Shorts
    BY Numbers, EmptySeq DEF Shorts
  <2> QED BY <2>1, Bounds DEF Init, StoreType
<1>3. SenderType
  BY Numbers DEF Init, SenderType
<1> QED BY <1>1, <1>2, <1>3 DEF TypeInv

LEMMA PublishTypes ==
  ASSUME TypeInv, NEW a \in Agents,
         PublishMemoised(a) \/ PublishResolved(a) \/ PublishBlind(a)
  PROVE  TypeInv'
<1> USE DEF TypeInv, ControllerType, StoreType, SenderType, cluster
<1>1. CASE PublishMemoised(a)
  BY <1>1 DEF PublishMemoised, Departs
<1>2. CASE PublishResolved(a)
  BY <1>2, Numbers DEF PublishResolved, Departs
<1>3. CASE PublishBlind(a)
  <2>1. PICK targets : /\ targets \in IF Known(a) THEN {cached[a]} ELSE {{}} \cup {{r} : r \in up}
                       /\ Departs(a, targets)
                       /\ intact' = [r \in Replicas |-> IF r \in targets THEN intact[r] ELSE 0]
    BY <1>3 DEF PublishBlind
  <2>2. targets \in SUBSET Replicas
    BY <2>1
  <2>3. intact' \in [Replicas -> 0..Settling]
    BY <2>1, Bounds
  <2> QED BY <1>3, <2>1, <2>2, <2>3 DEF PublishBlind, Departs
<1> QED BY <1>1, <1>2, <1>3

LEMMA PostTypes ==
  ASSUME TypeInv, NEW a \in Agents, NEW r \in Replicas, Posts(a, r) \/ PostFails(a, r)
  PROVE  TypeInv'
<1> USE DEF TypeInv, ControllerType, StoreType, SenderType, cluster
<1>1. CASE Posts(a, r)
  <2>1. Ingested(store[r], Stamped(a)) \in Shorts
    BY StampedType, IngestedIs
  <2>2. store' \in [Replicas -> Shorts]
    BY <1>1, <2>1 DEF Posts
  <2>3. intact' \in [Replicas -> 0..Settling]
    BY <1>1, Bounds DEF Posts
  <2>4. same' \in 0..(Patience + 1)
    BY <1>1, Bounds DEF Posts
  <2> QED BY <1>1, <2>2, <2>3, <2>4 DEF Posts
<1>2. CASE PostFails(a, r)
  BY <1>2, Bounds DEF PostFails
<1> QED BY <1>1, <1>2

LEMMA ReconcileTypes ==
  ASSUME TypeInv, Discovers \/ Profiles \/ ProfileFails
  PROVE  TypeInv'
<1> USE DEF TypeInv, ControllerType, StoreType, SenderType, senders
<1>1. CASE Discovers
  BY <1>1, BlankType, Bounds DEF Discovers, Off
<1>2. CASE Profiles
  <2>1. leader \in Replicas
    BY <1>2 DEF Profiles
  <2>2. Evidence \in Shorts
    BY <2>1, CollectedType DEF Evidence
  <2>3. profile' \in ProfileType
    BY <1>2, <2>2, ProfiledType DEF Profiles
  <2>4. Sooner(Requeue) \in 0..Patience
    BY SoonerType, Bounds, Numbers
  <2>5. wake' \in Off..Patience
    BY <1>2, <2>4, Bounds DEF Profiles, Off
  <2> QED BY <1>2, <2>3, <2>5 DEF Profiles, history
<1>3. CASE ProfileFails
  <2>1. PICK d \in 1..Backoff : wake' = Sooner(d)
    BY <1>3 DEF ProfileFails
  <2>2. d \in 0..Patience
    BY Bounds, Numbers
  <2>3. wake' \in Off..Patience
    BY <2>1, <2>2, SoonerType, Bounds DEF Off
  <2> QED BY <1>3, <2>3, Bounds DEF ProfileFails
<1> QED BY <1>1, <1>2, <1>3

LEMMA ReplicaTypes ==
  ASSUME TypeInv, NEW r \in Replicas, GC(r) \/ Elected(r) \/ ReplicaStarts(r) \/ ReplicaDies(r)
  PROVE  TypeInv'
<1> USE DEF TypeInv, ControllerType, StoreType, SenderType, cluster, senders
<1>1. CASE GC(r)
  <2>1. Live(store[r]) \in Shorts
    BY CollectedType
  <2>2. store' \in [Replicas -> Shorts]
    BY <1>1, <2>1 DEF GC, Collected
  <2> QED BY <1>1, <2>2 DEF GC, history
<1>2. CASE Elected(r)
  BY <1>2, Bounds DEF Elected, Off
<1>3. CASE ReplicaStarts(r)
  BY <1>3 DEF ReplicaStarts, history
<1>4. CASE ReplicaDies(r)
  <2>1. <<>> \in Shorts
    BY Numbers, EmptySeq DEF Shorts
  <2>2. StoreType'
    BY <1>4, <2>1, Bounds DEF ReplicaDies
  <2>3. SenderType'
    BY <1>4 DEF ReplicaDies
  <2>4. ControllerType'
    BY <1>4, Bounds DEF ReplicaDies, Off
  <2> QED BY <2>2, <2>3, <2>4
<1> QED BY <1>1, <1>2, <1>3, <1>4

LEMMA AdvanceTypes ==
  ASSUME TypeInv, Advance
  PROVE  TypeInv'
<1> USE DEF TypeInv
<1>1. store' \in [Replicas -> Shorts]
  BY AllOlderIs DEF Advance, StoreType
<1>2. intact' \in [Replicas -> 0..Settling]
  <2>1. \A n \in 0..Settling : Min({n + 1, Settling}) \in 0..Settling
    BY Bounds, MinOfTwo
  <2> QED BY <2>1, Bounds DEF Advance, StoreType
<1>3. cachedAge' \in [Agents -> 0..CacheFor]
  <2>1. \A n \in 0..CacheFor : Min({n + 1, CacheFor}) \in 0..CacheFor
    BY Numbers, MinOfTwo
  <2>2. cachedAge' = [a \in Agents |-> IF Known(a) THEN Min({cachedAge[a] + 1, CacheFor}) ELSE 0]
    BY DEF Advance
  <2>3. \A a \in Agents : cachedAge[a] \in 0..CacheFor /\ 0 \in 0..CacheFor
    BY Numbers DEF SenderType
  <2> HIDE DEF TypeInv
  <2> QED BY <2>1, <2>2, <2>3
<1>4. wake' \in Off..Patience
  BY Bounds DEF Advance, ControllerType, Off
<1>5. same' \in 0..(Patience + 1)
  <2>1. \A n \in 0..(Patience + 1) : Min({n + 1, Patience + 1}) \in 0..(Patience + 1)
    BY Bounds, MinOfTwo
  <2> QED BY <2>1, Bounds DEF Advance, ControllerType
<1>6. ControllerType'
  BY <1>4, <1>5 DEF Advance, ControllerType
<1>7. SenderType'
  BY <1>3 DEF Advance, SenderType
<1> QED BY <1>1, <1>2, <1>6, <1>7 DEF StoreType

LEMMA TypeStep ==
  ASSUME TypeInv, [Next]_vars
  PROVE  TypeInv'
<1>1. CASE Publishing
  <2>1. PICK a \in Agents :
          \/ PublishMemoised(a) \/ PublishResolved(a) \/ PublishBlind(a)
          \/ \E r \in Replicas : Posts(a, r) \/ PostFails(a, r)
          \/ PublishEnds(a) \/ AgentRestarts(a)
    BY <1>1 DEF Publishing
  <2>2. CASE PublishEnds(a)
    BY <2>2 DEF PublishEnds, TypeInv, ControllerType, StoreType, SenderType, cluster
  <2>3. CASE AgentRestarts(a)
    BY <2>3, Numbers DEF AgentRestarts, TypeInv, ControllerType, StoreType, SenderType,
                         cluster, history
  <2> QED BY <2>1, <2>2, <2>3, PublishTypes, PostTypes
<1>2. CASE Controller
  BY <1>2, ReconcileTypes, ReplicaTypes DEF Controller
<1>3. CASE Cluster
  BY <1>3, ReplicaTypes DEF Cluster
<1>4. CASE Advance
  BY <1>4, AdvanceTypes
<1>5. CASE UNCHANGED vars
  BY <1>5 DEF vars, cluster, senders, history, TypeInv, ControllerType, StoreType, SenderType
<1> QED BY <1>1, <1>2, <1>3, <1>4, <1>5 DEF Next

LEMMA TypeInvariant == Spec => []TypeInv
<1> QED BY TypeInit, TypeStep, PTL DEF Spec

\* Every variable keeps its type; in particular no series is longer than the store's
\* cap, however the posts of the agents arrive (store.go, Ingest).
THEOREM TypeOKHolds == Spec => []TypeOK
<1>1. TypeInv => TypeOK
  <2> SUFFICES ASSUME TypeInv PROVE TypeOK
    OBVIOUS
  <2>1. /\ profile.ready \in BOOLEAN /\ profile.confidence \in {"", "Low", "Medium", "High"}
        /\ profile.samples \in 0..MaxPerKey /\ profile.pods \in 0..Cardinality(Agents)
    BY DEF TypeInv, ControllerType, ProfileType
  <2>2. \A r \in Replicas : store[r] \in Seq(Sample) /\ Len(store[r]) <= MaxPerKey
    BY DEF TypeInv, StoreType, Shorts
  <2> QED BY <2>1, <2>2 DEF TypeOK, TypeInv, ControllerType, StoreType, SenderType
<1> QED BY <1>1, TypeInvariant, PTL

-----------------------------------------------------------------------------
(* Following.  While the profile does not say what the leader's store holds,  *)
(* the next look at it is due before the patience with it ends.              *)

Watched == leader # None /\ profile # NoProfile

Fits == /\ profile.ready <=> Evidence # <<>>
        /\ Evidence = <<>> => profile.confidence = "Low"

FollowInv ==
  /\ same > 0 => Watched
  /\ Watched => wake # Off
  /\ Watched /\ ~Fits => same + wake <= Patience

LEMMA ProfiledFits ==
  ASSUME NEW q, profile \in ProfileType
  PROVE  /\ Profiled(q) # NoProfile
         /\ Profiled(q).ready <=> q # <<>>
         /\ q = <<>> => Profiled(q).confidence = "Low"
<1> NoProfile.ready = FALSE /\ NoProfile.confidence = ""
  BY DEF NoProfile
<1>1. CASE q = <<>>
  <2>1. Profiled(q) = [profile EXCEPT !.ready = FALSE, !.confidence = "Low"]
    BY <1>1 DEF Profiled
  <2>2. Profiled(q).ready = FALSE /\ Profiled(q).confidence = "Low"
    BY <2>1 DEF ProfileType
  <2> QED BY <1>1, <2>2
<1>2. CASE q # <<>>
  <2>1. Profiled(q).ready = TRUE
    BY <1>2 DEF Profiled
  <2> QED BY <1>2, <2>1
<1> QED BY <1>1, <1>2

\* Nothing happens to what the leader's store answers, to the profile and to the clocks.
LEMMA NothingToFollow ==
  ASSUME FollowInv, UNCHANGED <<leader, wake, profile, same>>,
         Watched => (Evidence = <<>>) = (Evidence' = <<>>)
  PROVE  FollowInv'
BY DEF FollowInv, Watched, Fits

LEMMA CollectedAnswers ==
  ASSUME NEW q \in Shorts
  PROVE  Live(Live(q)) = <<>> <=> Live(q) = <<>>
<1>1. q \in Seq(Sample)
  BY DEF Shorts
<1>2. Selected(Sample, q, Live(q))
  BY <1>1, LiveProperties
<1>3. Live(q) \in Seq(Sample) /\ \A j \in 1..Len(Live(q)) : Live(q)[j].age <= Retention
  BY <1>2 DEF Selected
<1>4. Live(Live(q)) = <<>> <=> \A i \in 1..Len(Live(q)) : ~(Live(q)[i].age <= Retention)
  BY <1>3, LiveIsEmpty
<1>5. Live(q) # <<>> => 1 \in 1..Len(Live(q))
  BY <1>3, EmptySeq
<1> QED BY <1>3, <1>4, <1>5, LiveEmpty

LEMMA FollowPublishing ==
  ASSUME TypeInv, FollowInv, Publishing
  PROVE  FollowInv'
<1>1. PICK a \in Agents :
        \/ PublishMemoised(a) \/ PublishResolved(a) \/ PublishBlind(a)
        \/ \E r \in Replicas : Posts(a, r) \/ PostFails(a, r)
        \/ PublishEnds(a) \/ AgentRestarts(a)
  BY DEF Publishing
<1>2. CASE \E r \in Replicas : Posts(a, r)
  <2>1. PICK r \in Replicas : Posts(a, r)
    BY <1>2
  <2>2. UNCHANGED <<leader, wake, profile>>
    BY <2>1 DEF Posts, cluster
  <2>3. CASE r = leader /\ (Evidence = <<>>) # (Evidence' = <<>>)
    <3>1. same' = 0
      BY <2>1, <2>3 DEF Posts
    <3> QED BY <2>2, <3>1, Bounds DEF FollowInv, Watched, TypeInv, ControllerType, Off
  <2>4. CASE ~(r = leader /\ (Evidence = <<>>) # (Evidence' = <<>>))
    <3>1. same' = same
      BY <2>1, <2>4 DEF Posts
    <3>2. Watched => (Evidence = <<>>) = (Evidence' = <<>>)
      <4> SUFFICES ASSUME Watched, r # leader PROVE Evidence' = Evidence
        BY <2>4
      <4>1. leader \in Replicas
        BY DEF Watched, TypeInv, ControllerType
      <4>2. store'[leader] = store[leader]
        BY <2>1, <4>1 DEF Posts, TypeInv, StoreType
      <4> QED BY <2>2, <4>2 DEF Evidence
    <3> QED BY <2>2, <3>1, <3>2, NothingToFollow
  <2> QED BY <2>3, <2>4
<1>3. CASE ~ \E r \in Replicas : Posts(a, r)
  <2>1. UNCHANGED <<leader, wake, profile, same, store>>
    BY <1>1, <1>3 DEF PublishMemoised, PublishResolved, PublishBlind, Departs, PostFails,
                      PublishEnds, AgentRestarts, cluster, history
  <2>2. Evidence' = Evidence
    BY <2>1 DEF Evidence
  <2> QED BY <2>1, <2>2, NothingToFollow
<1> QED BY <1>2, <1>3

LEMMA FollowReconciling ==
  ASSUME TypeInv, FollowInv, Discovers \/ Profiles \/ ProfileFails
  PROVE  FollowInv'
<1>1. CASE Discovers
  <2>1. same' = 0 /\ wake' = 0
    BY <1>1 DEF Discovers
  <2> QED BY <2>1, Bounds DEF FollowInv, Off
<1>2. CASE Profiles
  <2>1. profile' = Profiled(Evidence) /\ UNCHANGED <<leader, store, same>>
    BY <1>2 DEF Profiles, history
  <2>2. Evidence' = Evidence
    BY <2>1 DEF Evidence
  <2>3. Fits' /\ profile' # NoProfile
    BY <2>1, <2>2, ProfiledFits DEF Fits, TypeInv, ControllerType
  <2>4. wake' \in 0..Patience
    BY <1>2, SoonerType, Bounds, Numbers DEF Profiles, TypeInv, ControllerType
  <2>5. leader' # None
    BY <1>2 DEF Profiles
  <2> QED BY <2>3, <2>4, <2>5 DEF FollowInv, Watched, Off
<1>3. CASE ProfileFails
  <2>1. PICK d \in 1..Backoff : wake' = Sooner(d)
    BY <1>3 DEF ProfileFails
  <2>2. d \in 0..Patience
    BY Bounds, Numbers
  <2>3. wake' \in 0..Patience
    BY <2>1, <2>2, SoonerType DEF TypeInv, ControllerType
  <2>4. same' = 0 /\ same' \in Int
    BY <1>3 DEF ProfileFails
  <2>5. Patience \in Nat
    BY Bounds
  <2>6. wake' # Off
    BY <2>3, <2>5 DEF Off
  <2>7. same' + wake' <= Patience
    <3>1. \A w \in 0..Patience : 0 + w <= Patience
      BY <2>5
    <3> QED BY <2>3, <2>4, <3>1
  <2>8. ~(same' > 0)
    BY <2>4
  <2> QED BY <2>6, <2>7, <2>8 DEF FollowInv
<1> QED BY <1>1, <1>2, <1>3

LEMMA FollowReplicas ==
  ASSUME TypeInv, FollowInv, NEW r \in Replicas,
         GC(r) \/ Elected(r) \/ ReplicaStarts(r) \/ ReplicaDies(r)
  PROVE  FollowInv'
<1>1. CASE GC(r)
  <2>1. UNCHANGED <<leader, wake, profile, same>>
    BY <1>1 DEF GC, cluster, history
  <2>2. Watched => (Evidence = <<>>) = (Evidence' = <<>>)
    <3> SUFFICES ASSUME Watched PROVE (Evidence = <<>>) = (Evidence' = <<>>)
      OBVIOUS
    <3>1. leader \in Replicas /\ store[leader] \in Shorts
      BY DEF Watched, TypeInv, ControllerType, StoreType
    <3>2. store'[leader] = store[leader] \/ store'[leader] = Live(store[leader])
      BY <1>1, <3>1 DEF GC, Collected, TypeInv, StoreType
    <3> QED BY <2>1, <3>1, <3>2, CollectedAnswers DEF Evidence
  <2> QED BY <2>1, <2>2, NothingToFollow
<1>2. CASE Elected(r)
  BY <1>2, Bounds DEF Elected, FollowInv, Watched, Off
<1>3. CASE ReplicaStarts(r)
  <2>1. UNCHANGED <<leader, wake, profile, same, store>>
    BY <1>3 DEF ReplicaStarts, history
  <2>2. Evidence' = Evidence
    BY <2>1 DEF Evidence
  <2> QED BY <2>1, <2>2, NothingToFollow
<1>4. CASE ReplicaDies(r)
  <2>1. CASE r = leader
    BY <1>4, <2>1 DEF ReplicaDies, FollowInv, Watched
  <2>2. CASE r # leader
    <3>1. UNCHANGED <<leader, wake, profile, same>>
      BY <1>4, <2>2 DEF ReplicaDies
    <3>2. Watched => store'[leader] = store[leader]
      BY <1>4, <2>2 DEF ReplicaDies, Watched, TypeInv, ControllerType, StoreType
    <3>3. Watched => Evidence' = Evidence
      BY <3>1, <3>2 DEF Evidence
    <3> QED BY <3>1, <3>3, NothingToFollow
  <2> QED BY <2>1, <2>2
<1> QED BY <1>1, <1>2, <1>3, <1>4

\* Time passes only while no look at the profile is due, and brings the next one closer.
LEMMA FollowAdvance ==
  ASSUME TypeInv, FollowInv, Advance
  PROVE  FollowInv'
<1>1. UNCHANGED <<leader, profile>>
  BY DEF Advance
<1>2. wake' = IF wake = Off THEN Off ELSE wake - 1
  BY DEF Advance
<1>3. wake \in Off..Patience /\ wake # 0 /\ same \in 0..(Patience + 1)
  BY DEF Advance, TypeInv, ControllerType
<1>4. CASE ~Watched
  <2>1. same' = 0
    BY <1>4 DEF Advance, Watched
  <2> QED BY <1>1, <1>4, <2>1 DEF FollowInv, Watched
<1>5. CASE Watched
  <2>1. wake \in 1..Patience /\ wake' = wake - 1 /\ Watched'
    BY <1>1, <1>2, <1>3, <1>5, Bounds DEF FollowInv, Watched, Off
  <2>2. CASE (Evidence = <<>>) # (Evidence' = <<>>)
    <3>1. same' = 0
      BY <1>5, <2>2 DEF Advance, Watched
    <3> QED BY <2>1, <3>1, Bounds DEF FollowInv, Off
  <2>3. CASE (Evidence = <<>>) = (Evidence' = <<>>)
    <3>1. same' = Min({same + 1, Patience + 1})
      BY <1>5, <2>3 DEF Advance, Watched
    <3>2. same' <= same + 1
      BY <1>3, <3>1, MinOfTwo, Bounds
    <3>3. Fits' = Fits
      BY <1>1, <2>3 DEF Fits
    <3>4. same' \in Int
      BY <1>3, <3>1, MinOfTwo, Bounds
    <3>5. Watched' /\ wake' # Off
      BY <2>1, Bounds DEF Off
    <3>6. ~Fits => same' + wake' <= Patience
      <4> SUFFICES ASSUME ~Fits PROVE same' + wake' <= Patience
        OBVIOUS
      <4>1. same + wake <= Patience
        BY <1>5 DEF FollowInv
      <4>2. /\ wake \in Int /\ wake' = wake - 1 /\ wake' \in Int
            /\ same \in Int /\ Patience \in Int
        BY <1>3, <2>1, Bounds
      <4>3. \A n \in Int : n <= same + 1 => n + (wake - 1) <= Patience
        BY <4>1, <4>2
      <4> QED BY <3>2, <3>4, <4>2, <4>3
    <3> QED BY <3>3, <3>5, <3>6 DEF FollowInv
  <2> QED BY <2>2, <2>3
<1> QED BY <1>4, <1>5

\* The profile says within a requeue, or the delay of a retry, whether there is anything
\* behind it, through elections, failed patches and the store's garbage collection
\* (controller.go, Reconcile).
THEOREM FollowsHolds == Spec => []Follows
<1>1. Init => FollowInv
  BY Bounds DEF Init, FollowInv, Watched
<1>2. TypeInv /\ FollowInv /\ [Next]_vars => FollowInv'
  <2> SUFFICES ASSUME TypeInv, FollowInv, [Next]_vars PROVE FollowInv'
    OBVIOUS
  <2>1. CASE UNCHANGED vars
    <3>1. UNCHANGED <<leader, wake, profile, same, store>>
      BY <2>1 DEF vars, cluster, history
    <3>2. Evidence' = Evidence
      BY <3>1 DEF Evidence
    <3> QED BY <3>1, <3>2, NothingToFollow
  <2>2. CASE Controller
    BY <2>2, FollowReconciling, FollowReplicas DEF Controller
  <2>3. CASE Cluster
    BY <2>3, FollowReplicas DEF Cluster
  <2> QED BY <2>1, <2>2, <2>3, FollowPublishing, FollowAdvance DEF Next
<1>3. TypeInv /\ FollowInv => Follows
  <2> SUFFICES ASSUME TypeInv, FollowInv, same > Patience PROVE Fits
    BY DEF Follows, Fits
  <2>1. same \in Nat /\ wake \in Off..Patience /\ same > 0
    BY Bounds DEF TypeInv, ControllerType
  <2>2. Watched /\ wake >= 0
    BY <2>1, Bounds DEF FollowInv, Off
  <2> QED BY <2>1, <2>2, Bounds DEF FollowInv, Off
<1> QED BY <1>1, <1>2, <1>3, TypeInvariant, PTL DEF Spec

-----------------------------------------------------------------------------
(* Covering.  Whatever an agent still memoises was looked up while every      *)
(* replica that has been reached since was up; so such a replica is among the *)
(* targets of every publish, and what the publish delivered stays in its      *)
(* store for as long as it is in the window.                                  *)

Holds(r, s) == s.age <= Retention => \E i \in 1..Len(store[r]) : store[r][i] = s

CachesCover ==
  \A r \in Replicas, a \in Agents :
    Known(a) /\ cachedAge[a] < CacheFor /\ cachedAge[a] < intact[r] => r \in cached[a]

SendersCover ==
  \A r \in Replicas, a \in sending :
    intact[r] > CacheFor => r \in todo[a] \/ Holds(r, Stamped(a))

StoresCover ==
  \A r \in Replicas, m \in measured : intact[r] > CacheFor + m.age => Holds(r, m)

CoverInv ==
  /\ measured \subseteq {s \in Sample : s.age <= Retention}
  /\ \A r \in Replicas : intact[r] > 0 => r \in up
  /\ CachesCover /\ SendersCover /\ StoresCover

\* A sample that is in the window and in the store stays there when another arrives, but
\* for one that the cap drops, and the other is there as well.
LEMMA IngestedHolds ==
  ASSUME NEW q \in Shorts, NEW s \in Sample, ~Overflows(q),
         NEW i \in 1..Len(q), q[i].age <= Retention
  PROVE  \E j \in 1..Len(Ingested(q, s)) : Ingested(q, s)[j] = q[i]
<1>1. /\ q \in Seq(Sample) /\ Len(q) \in Nat /\ Len(q) <= MaxPerKey
      /\ MaxPerKey \in Nat \ {0}
  BY Numbers, LenProperties DEF Shorts
<1>2. /\ Len(Append(q, s)) = Len(q) + 1
      /\ \A k \in 1..Len(q) : Append(q, s)[k] = q[k]
  BY <1>1, AppendProperties
<1>3. CASE Len(q) < MaxPerKey
  <2>1. Ingested(q, s) = Append(q, s)
    BY <1>3, IngestedIs
  <2> QED BY <1>1, <1>2, <2>1
<1>4. CASE Len(q) = MaxPerKey
  <2>1. Head(q) = q[1]
    BY <1>1
  <2>2. i # 1
    BY <1>1, <1>4, <2>1 DEF Overflows
  <2>3. i - 1 \in 1..Len(q) /\ (i - 1) + 1 = i
    BY <1>1, <2>2
  <2>4. Len(Ingested(q, s)) = Len(q) /\ Ingested(q, s)[i - 1] = Append(q, s)[i]
    BY <1>4, <2>3, IngestedIs
  <2> QED BY <1>2, <2>3, <2>4
<1> QED BY <1>1, <1>3, <1>4

LEMMA IngestedLast ==
  ASSUME NEW q \in Shorts, NEW s \in Sample
  PROVE  \E j \in 1..Len(Ingested(q, s)) : Ingested(q, s)[j] = s
<1>1. /\ q \in Seq(Sample) /\ Len(q) \in Nat /\ Len(q) <= MaxPerKey
      /\ MaxPerKey \in Nat \ {0}
  BY Numbers, LenProperties DEF Shorts
<1>2. Len(Append(q, s)) = Len(q) + 1 /\ Append(q, s)[Len(q) + 1] = s
  BY <1>1, AppendProperties
<1>3. CASE Len(q) < MaxPerKey
  <2>1. Ingested(q, s) = Append(q, s)
    BY <1>3, IngestedIs
  <2> QED BY <1>1, <1>2, <2>1
<1>4. CASE Len(q) = MaxPerKey
  <2>1. Len(q) \in 1..Len(q)
    BY <1>1, <1>4
  <2>2. Len(Ingested(q, s)) = Len(q) /\ Ingested(q, s)[Len(q)] = Append(q, s)[Len(q) + 1]
    BY <1>4, <2>1, IngestedIs
  <2> QED BY <1>2, <2>1, <2>2
<1> QED BY <1>1, <1>3, <1>4

LEMMA CoverInit == Init => CoverInv
<1> SUFFICES ASSUME Init PROVE CoverInv
  OBVIOUS
<1>1. measured = {} /\ sending = {} /\ \A r \in Replicas : intact[r] = 0
  BY DEF Init
<1>2. \A a \in Agents : ~Known(a)
  BY DEF Init, Known
<1> QED BY <1>1, <1>2 DEF CoverInv, CachesCover, SendersCover, StoresCover

\* What a sender starts with reaches everybody who has been reached for long.
LEMMA CoverDeparts ==
  ASSUME TypeInv, CoverInv, NEW a \in Agents, NEW targets, Departs(a, targets),
         intact' \in [Replicas -> 0..Settling],
         \A r \in Replicas : intact'[r] = intact[r] \/ intact'[r] = 0,
         \A r \in Replicas : intact'[r] > CacheFor => r \in targets
  PROVE  /\ measured' \subseteq {s \in Sample : s.age <= Retention}
         /\ \A r \in Replicas : intact'[r] > 0 => r \in up'
         /\ SendersCover' /\ StoresCover'
<1>1. UNCHANGED <<store, measured, up>>
  BY DEF Departs, cluster
<1>2. \A r \in Replicas : intact[r] \in 0..Settling
  BY DEF TypeInv, StoreType
<1>3. \A r \in Replicas, s \in Sample : Holds(r, s)' = Holds(r, s)
  BY <1>1 DEF Holds
<1>4. SendersCover'
  <2> SUFFICES ASSUME NEW r \in Replicas, NEW b \in sending', intact'[r] > CacheFor
               PROVE  r \in todo'[b] \/ Holds(r, Stamped(b))'
    BY DEF SendersCover
  <2>1. CASE b = a
    BY <2>1 DEF Departs, TypeInv, SenderType
  <2>2. CASE b # a
    <3>1. b \in sending /\ b \in Agents /\ todo'[b] = todo[b]
      BY <2>2 DEF Departs, TypeInv, SenderType
    <3>2. intact[r] > CacheFor
      BY <1>2, Numbers
    <3>3. Holds(r, Stamped(b))' = Holds(r, Stamped(b))
      BY <1>1, <3>1 DEF Holds, Stamped
    <3> QED BY <3>1, <3>2, <3>3 DEF CoverInv, SendersCover
  <2> QED BY <2>1, <2>2
<1>5. StoresCover'
  <2> SUFFICES ASSUME NEW r \in Replicas, NEW m \in measured', intact'[r] > CacheFor + m.age
               PROVE  Holds(r, m)'
    BY DEF StoresCover
  <2>1. m \in measured /\ m \in Sample /\ m.age \in Nat
    BY <1>1, Numbers DEF CoverInv, Sample
  <2>2. intact[r] > CacheFor + m.age
    BY <1>2, <2>1, Numbers
  <2> QED BY <1>3, <2>1, <2>2 DEF CoverInv, StoresCover
<1>6. \A r \in Replicas : intact'[r] > 0 => r \in up'
  BY <1>1, <1>2 DEF CoverInv
<1> QED BY <1>1, <1>4, <1>5, <1>6 DEF CoverInv

LEMMA CoverPublish ==
  ASSUME TypeInv, TypeInv', CoverInv, NEW a \in Agents,
         PublishMemoised(a) \/ PublishResolved(a) \/ PublishBlind(a)
  PROVE  CoverInv'
<1>1. \A r \in Replicas : intact[r] \in 0..Settling /\ intact'[r] \in 0..Settling
  BY DEF TypeInv, StoreType
<1>2. cachedAge \in [Agents -> 0..CacheFor] /\ CacheFor \in Nat
  BY Numbers DEF TypeInv, SenderType
<1>3. CASE PublishMemoised(a)
  <2>1. Departs(a, cached[a]) /\ UNCHANGED <<cached, cachedAge, intact>>
    BY <1>3 DEF PublishMemoised
  <2>2. \A r \in Replicas : intact[r] > CacheFor => r \in cached[a]
    BY <1>1, <1>2, <1>3 DEF PublishMemoised, Memoised, CoverInv, CachesCover
  <2>3. CachesCover'
    BY <2>1 DEF CoverInv, CachesCover, Known
  <2> QED BY <2>1, <2>2, <2>3, CoverDeparts DEF CoverInv, TypeInv, StoreType
<1>4. CASE PublishResolved(a)
  <2>1. /\ Departs(a, up) /\ UNCHANGED intact
        /\ cached' = [cached EXCEPT ![a] = up] /\ cachedAge' = [cachedAge EXCEPT ![a] = 0]
    BY <1>4 DEF PublishResolved
  <2>2. \A r \in Replicas : intact[r] > CacheFor => r \in up
    BY <1>1, <1>2 DEF CoverInv
  <2>3. CachesCover'
    <3> SUFFICES ASSUME NEW r \in Replicas, NEW b \in Agents, Known(b)',
                        cachedAge'[b] < CacheFor, cachedAge'[b] < intact'[r]
                 PROVE  r \in cached'[b]
      BY DEF CachesCover
    <3>1. CASE b = a
      <4>1. cached'[b] = up /\ cachedAge'[b] = 0
        BY <2>1, <3>1 DEF TypeInv, SenderType
      <4>2. intact[r] > 0
        BY <1>1, <2>1, <4>1
      <4> QED BY <4>1, <4>2 DEF CoverInv
    <3>2. CASE b # a
      <4>1. cached'[b] = cached[b] /\ cachedAge'[b] = cachedAge[b]
        BY <2>1, <3>2 DEF TypeInv, SenderType
      <4> QED BY <2>1, <4>1 DEF CoverInv, CachesCover, Known
    <3> QED BY <3>1, <3>2
  <2> QED BY <2>1, <2>2, <2>3, CoverDeparts DEF CoverInv, TypeInv, StoreType
<1>5. CASE PublishBlind(a)
  <2>1. PICK targets : /\ Departs(a, targets)
                       /\ intact' = [r \in Replicas |-> IF r \in targets THEN intact[r] ELSE 0]
    BY <1>5 DEF PublishBlind
  <2>2. UNCHANGED <<cached, cachedAge>>
    BY <1>5 DEF PublishBlind
  <2>3. \A r \in Replicas : intact'[r] > CacheFor => r \in targets
    BY <1>1, <1>2, <2>1
  <2>4. \A r \in Replicas : intact'[r] = intact[r] \/ intact'[r] = 0
    BY <2>1
  <2>5. CachesCover'
    <3> SUFFICES ASSUME NEW r \in Replicas, NEW b \in Agents, Known(b)',
                        cachedAge'[b] < CacheFor, cachedAge'[b] < intact'[r]
                 PROVE  r \in cached'[b]
      BY DEF CachesCover
    <3>1. Known(b) /\ cachedAge[b] < CacheFor /\ cachedAge[b] \in Nat
      BY <1>2, <2>2 DEF Known
    <3>2. cachedAge[b] < intact[r]
      BY <1>1, <2>2, <2>4, <3>1
    <3> QED BY <2>2, <3>1, <3>2 DEF CoverInv, CachesCover
  <2> QED BY <2>1, <2>3, <2>4, <2>5, CoverDeparts DEF CoverInv, TypeInv, StoreType
<1> QED BY <1>3, <1>4, <1>5

\* What changes neither caches nor measurements, and takes nothing from the store of
\* anybody who is still reached.
LEMMA CoverKeeps ==
  ASSUME TypeInv, TypeInv', CoverInv, UNCHANGED <<cached, cachedAge, sending, measured>>,
         \A r \in Replicas : intact'[r] > 0 => intact'[r] = intact[r] /\ r \in up',
         \A r \in Replicas, s \in Sample : intact'[r] > 0 /\ Holds(r, s) => Holds(r, s)',
         \A r \in Replicas, b \in sending :
           intact'[r] > 0 /\ r \in todo[b] => r \in todo'[b] \/ Holds(r, Stamped(b))'
  PROVE  CoverInv'
<1>1. \A r \in Replicas : intact[r] \in 0..Settling /\ intact'[r] \in 0..Settling
  BY DEF TypeInv, StoreType
<1>2. cachedAge \in [Agents -> 0..CacheFor] /\ CacheFor \in Nat
  BY Numbers DEF TypeInv, SenderType
<1>3. CachesCover'
  <2> SUFFICES ASSUME NEW r \in Replicas, NEW b \in Agents, Known(b)',
                      cachedAge'[b] < CacheFor, cachedAge'[b] < intact'[r]
               PROVE  r \in cached'[b]
    BY DEF CachesCover
  <2>1. Known(b) /\ cachedAge[b] < CacheFor /\ cachedAge[b] < intact'[r]
    BY DEF Known
  <2>2. cachedAge[b] \in Nat /\ intact'[r] \in Nat
    BY <1>1, <1>2
  <2>3. intact'[r] = intact[r]
    BY <2>1, <2>2
  <2> QED BY <2>1, <2>3 DEF CoverInv, CachesCover
<1>4. SendersCover'
  <2> SUFFICES ASSUME NEW r \in Replicas, NEW b \in sending', intact'[r] > CacheFor
               PROVE  r \in todo'[b] \/ Holds(r, Stamped(b))'
    BY DEF SendersCover
  <2>1. b \in sending /\ b \in Agents
    BY DEF TypeInv, SenderType
  <2>2. intact'[r] > 0 /\ intact'[r] = intact[r]
    BY <1>1, <1>2
  <2>3. r \in todo[b] \/ Holds(r, Stamped(b))
    BY <2>1, <2>2 DEF CoverInv, SendersCover
  <2>4. Stamped(b) \in Sample /\ Stamped(b)' = Stamped(b)
    BY <2>1, StampedType DEF Stamped
  <2>5. Holds(r, Stamped(b)) => Holds(r, Stamped(b))'
    BY <2>2, <2>4
  <2> QED BY <2>1, <2>2, <2>3, <2>5
<1>5. StoresCover'
  <2> SUFFICES ASSUME NEW r \in Replicas, NEW m \in measured', intact'[r] > CacheFor + m.age
               PROVE  Holds(r, m)'
    BY DEF StoresCover
  <2>1. m \in measured /\ m \in Sample /\ m.age \in Nat
    BY Numbers DEF CoverInv, Sample
  <2>2. intact'[r] > 0 /\ intact'[r] = intact[r]
    BY <1>1, <1>2, <2>1
  <2>3. Holds(r, m)
    BY <2>1, <2>2 DEF CoverInv, StoresCover
  <2> QED BY <2>1, <2>2, <2>3
<1> QED BY <1>3, <1>4, <1>5 DEF CoverInv

\* Nothing at all happens to what is reached, sent, stored and measured.
LEMMA CoverSame ==
  ASSUME TypeInv, TypeInv', CoverInv, UNCHANGED <<up, store, intact, senders, measured>>
  PROVE  CoverInv'
<1>1. \A r \in Replicas, s \in Sample : Holds(r, s)' = Holds(r, s)
  BY DEF Holds
<1>2. \A r \in Replicas : intact'[r] > 0 => intact'[r] = intact[r] /\ r \in up'
  BY DEF CoverInv
<1>3. UNCHANGED <<cached, cachedAge, sending, todo, measured>>
  BY DEF senders
<1> QED BY <1>1, <1>2, <1>3, CoverKeeps

LEMMA CoverPosts ==
  ASSUME TypeInv, TypeInv', CoverInv, NEW a \in Agents, NEW r \in Replicas,
         Posts(a, r) \/ PostFails(a, r)
  PROVE  CoverInv'
<1>1. \A q \in Replicas : intact[q] \in 0..Settling
  BY DEF TypeInv, StoreType
<1>2. UNCHANGED <<cached, cachedAge, sending, measured, up>>
  BY DEF Posts, PostFails, cluster
<1>3. /\ \A b \in Agents \ {a} : todo'[b] = todo[b]
      /\ todo'[a] = todo[a] \ {r}
  BY DEF Posts, PostFails, TypeInv, SenderType
<1>4. sending \subseteq Agents
  BY DEF TypeInv, SenderType
<1>5. CASE PostFails(a, r)
  <2>1. store' = store /\ intact' = [intact EXCEPT ![r] = 0]
    BY <1>5 DEF PostFails
  <2>2. \A q \in Replicas : intact'[q] = IF q = r THEN 0 ELSE intact[q]
    BY <2>1 DEF TypeInv, StoreType
  <2>3. \A q \in Replicas : intact'[q] > 0 => intact'[q] = intact[q] /\ q \in up' /\ q # r
    BY <1>2, <2>2 DEF CoverInv
  <2>4. \A q \in Replicas, s \in Sample : Holds(q, s) => Holds(q, s)'
    BY <2>1 DEF Holds
  <2>5. \A q \in Replicas, b \in sending : q # r /\ q \in todo[b] => q \in todo'[b]
    BY <1>3, <1>4
  <2> QED BY <1>2, <2>3, <2>4, <2>5, CoverKeeps
<1>6. CASE Posts(a, r)
  <2> DEFINE s0 == Stamped(a)
             q0 == store[r]
  <2>1. /\ store' = [store EXCEPT ![r] = Ingested(q0, s0)]
        /\ intact' = IF Overflows(q0) THEN [intact EXCEPT ![r] = 0] ELSE intact
    BY <1>6 DEF Posts
  <2>2. /\ \A q \in Replicas \ {r} : store'[q] = store[q]
        /\ store'[r] = Ingested(q0, s0) /\ q0 \in Shorts /\ s0 \in Sample
    BY <2>1, StampedType DEF TypeInv, StoreType
  <2>3. \A q \in Replicas : intact'[q] = IF q = r /\ Overflows(q0) THEN 0 ELSE intact[q]
    BY <2>1 DEF TypeInv, StoreType
  <2> HIDE DEF s0, q0
  <2>4. \A q \in Replicas : intact'[q] > 0 => intact'[q] = intact[q] /\ q \in up'
    BY <1>2, <2>3 DEF CoverInv
  <2>5. ASSUME NEW q \in Replicas, NEW s \in Sample, intact'[q] > 0, Holds(q, s)
        PROVE  Holds(q, s)'
    <3>1. CASE q # r
      BY <2>2, <2>5, <3>1 DEF Holds
    <3>2. CASE q = r
      <4>1. ~Overflows(q0)
        BY <2>3, <2>5, <3>2
      <4> SUFFICES ASSUME s.age <= Retention
                   PROVE  \E j \in 1..Len(store'[r]) : store'[r][j] = s
        BY <3>2 DEF Holds
      <4>2. PICK i \in 1..Len(q0) : q0[i] = s
        BY <2>5, <3>2 DEF Holds, q0
      <4> QED BY <2>2, <4>1, <4>2, IngestedHolds
    <3> QED BY <3>1, <3>2
  <2>6. Holds(r, s0)'
    BY <2>2, IngestedLast DEF Holds, s0, Stamped
  <2>7. ASSUME NEW q \in Replicas, NEW b \in sending, q \in todo[b]
        PROVE  q \in todo'[b] \/ Holds(q, Stamped(b))'
    <3>1. CASE q = r /\ b = a
      BY <2>6, <3>1 DEF s0
    <3>2. CASE ~(q = r /\ b = a)
      BY <1>3, <1>4, <2>7, <3>2
    <3> QED BY <3>1, <3>2
  <2> QED BY <1>2, <2>4, <2>5, <2>7, CoverKeeps
<1> QED BY <1>5, <1>6

LEMMA CoverEnds ==
  ASSUME TypeInv, TypeInv', CoverInv, NEW a \in Agents, PublishEnds(a)
  PROVE  CoverInv'
<1>1. /\ UNCHANGED <<up, store, cached, cachedAge, todo, intact>>
      /\ sending' = sending \ {a} /\ a \in sending /\ todo[a] = {}
      /\ measured' = measured \cup {m \in {Stamped(a)} : m.age <= Retention}
  BY DEF PublishEnds, cluster
<1>2. \A r \in Replicas : \A s : Holds(r, s)' = Holds(r, s)
  BY <1>1 DEF Holds
<1>3. Stamped(a) \in Sample
  BY StampedType
<1>4. \A r \in Replicas : intact[r] \in Nat /\ CacheFor \in Nat
  BY Bounds, Numbers DEF TypeInv, StoreType
<1>5. StoresCover'
  <2> SUFFICES ASSUME NEW r \in Replicas, NEW m \in measured', intact'[r] > CacheFor + m.age
               PROVE  Holds(r, m)
    BY <1>2 DEF StoresCover
  <2>1. CASE m \in measured
    BY <1>1, <2>1 DEF CoverInv, StoresCover
  <2>2. CASE m = Stamped(a)
    <3>1. m.age \in Nat
      BY <1>3, <2>2, Numbers DEF Sample
    <3>2. intact[r] > CacheFor
      BY <1>1, <1>4, <3>1
    <3> QED BY <1>1, <2>2, <3>2 DEF CoverInv, SendersCover
  <2> QED BY <1>1, <2>1, <2>2
<1>6. CachesCover'
  BY <1>1 DEF CoverInv, CachesCover, Known
<1>7. SendersCover'
  <2>1. \A b \in sending' : b \in sending /\ Stamped(b)' = Stamped(b)
    BY <1>1 DEF Stamped
  <2> QED BY <1>1, <1>2, <2>1 DEF CoverInv, SendersCover
<1> QED BY <1>1, <1>3, <1>5, <1>6, <1>7 DEF CoverInv

LEMMA CoverRestarts ==
  ASSUME TypeInv, TypeInv', CoverInv, NEW a \in Agents, AgentRestarts(a)
  PROVE  CoverInv'
<1>1. /\ UNCHANGED <<up, store, intact, measured>> /\ sending' = sending \ {a}
      /\ todo' = [todo EXCEPT ![a] = {}] /\ cachedAge' = [cachedAge EXCEPT ![a] = 0]
  BY DEF AgentRestarts, cluster, history
<1>2. PICK answer \in {{}, up} : cached' = [cached EXCEPT ![a] = answer]
  BY DEF AgentRestarts
<1>3. \A r \in Replicas : \A s : Holds(r, s)' = Holds(r, s)
  BY <1>1 DEF Holds
<1>4. CachesCover'
  <2> SUFFICES ASSUME NEW r \in Replicas, NEW b \in Agents, Known(b)',
                      cachedAge'[b] < CacheFor, cachedAge'[b] < intact'[r]
               PROVE  r \in cached'[b]
    BY DEF CachesCover
  <2>1. CASE b = a
    <3>1. cached'[b] = answer /\ cachedAge'[b] = 0
      BY <1>1, <1>2, <2>1 DEF TypeInv, SenderType
    <3>2. answer = up
      BY <1>2, <3>1 DEF Known
    <3>3. intact[r] > 0
      BY <1>1, <3>1, Bounds DEF TypeInv, StoreType
    <3> QED BY <3>1, <3>2, <3>3 DEF CoverInv
  <2>2. CASE b # a
    <3>1. cached'[b] = cached[b] /\ cachedAge'[b] = cachedAge[b]
      BY <1>1, <1>2, <2>2 DEF TypeInv, SenderType
    <3> QED BY <1>1, <3>1 DEF CoverInv, CachesCover, Known
  <2> QED BY <2>1, <2>2
<1>5. SendersCover'
  <2>1. \A b \in sending' : b \in sending /\ b # a /\ Stamped(b)' = Stamped(b)
    BY <1>1 DEF Stamped
  <2>2. \A b \in sending' : todo'[b] = todo[b]
    BY <1>1, <2>1 DEF TypeInv, SenderType
  <2> QED BY <1>1, <1>3, <2>1, <2>2 DEF CoverInv, SendersCover
<1>6. StoresCover'
  BY <1>1, <1>3 DEF CoverInv, StoresCover
<1> QED BY <1>1, <1>4, <1>5, <1>6 DEF CoverInv

LEMMA CoverReplicas ==
  ASSUME TypeInv, TypeInv', CoverInv, NEW r \in Replicas,
         GC(r) \/ Elected(r) \/ ReplicaStarts(r) \/ ReplicaDies(r)
  PROVE  CoverInv'
<1>1. CASE GC(r)
  <2>1. /\ UNCHANGED <<up, intact, cached, cachedAge, sending, todo, measured>>
        /\ store' = [store EXCEPT ![r] = Live(store[r])]
    BY <1>1 DEF GC, Collected, cluster, senders, history
  <2>2. ASSUME NEW q \in Replicas, NEW s \in Sample, Holds(q, s)
        PROVE  Holds(q, s)'
    <3>1. CASE q # r
      BY <2>1, <2>2, <3>1 DEF Holds, TypeInv, StoreType
    <3>2. CASE q = r
      <4> SUFFICES ASSUME s.age <= Retention
                   PROVE  \E j \in 1..Len(store'[r]) : store'[r][j] = s
        BY <3>2 DEF Holds
      <4>1. store[r] \in Seq(Sample) /\ store'[r] = Live(store[r])
        BY <2>1 DEF TypeInv, StoreType, Shorts
      <4>2. PICK i \in 1..Len(store[r]) : store[r][i] = s
        BY <2>2, <3>2 DEF Holds
      <4>3. Selected(Sample, store[r], Live(store[r]))
        BY <4>1, LiveProperties
      <4> QED BY <4>1, <4>2, <4>3 DEF Selected
    <3> QED BY <3>1, <3>2
  <2>3. \A q \in Replicas : intact'[q] > 0 => intact'[q] = intact[q] /\ q \in up'
    BY <2>1 DEF CoverInv
  <2> QED BY <2>1, <2>2, <2>3, CoverKeeps
<1>2. CASE Elected(r)
  BY <1>2, CoverSame DEF Elected
<1>3. CASE ReplicaStarts(r)
  <2>1. /\ UNCHANGED <<store, intact, cached, cachedAge, sending, todo, measured>>
        /\ up \subseteq up'
    BY <1>3 DEF ReplicaStarts, senders, history
  <2>2. \A q \in Replicas, s \in Sample : Holds(q, s)' = Holds(q, s)
    BY <2>1 DEF Holds
  <2>3. \A q \in Replicas : intact'[q] > 0 => intact'[q] = intact[q] /\ q \in up'
    BY <2>1 DEF CoverInv
  <2> QED BY <2>1, <2>2, <2>3, CoverKeeps
<1>4. CASE ReplicaDies(r)
  <2>1. /\ UNCHANGED <<cached, cachedAge, sending, todo, measured>>
        /\ up' = up \ {r} /\ store' = [store EXCEPT ![r] = <<>>]
        /\ intact' = [intact EXCEPT ![r] = 0]
    BY <1>4 DEF ReplicaDies, senders
  <2>2. \A q \in Replicas : intact'[q] = IF q = r THEN 0 ELSE intact[q]
    BY <2>1 DEF TypeInv, StoreType
  <2>3. \A q \in Replicas : intact'[q] > 0 => intact'[q] = intact[q] /\ q \in up' /\ q # r
    BY <2>1, <2>2 DEF CoverInv
  <2>4. \A q \in Replicas : q # r => store'[q] = store[q]
    BY <2>1 DEF TypeInv, StoreType
  <2>5. \A q \in Replicas, s \in Sample : q # r /\ Holds(q, s) => Holds(q, s)'
    BY <2>4 DEF Holds
  <2> QED BY <2>1, <2>3, <2>5, CoverKeeps
<1> QED BY <1>1, <1>2, <1>3, <1>4

\* An interval later everything is an interval older.
LEMMA CoverAdvance ==
  ASSUME TypeInv, TypeInv', CoverInv, Advance
  PROVE  CoverInv'
<1>1. /\ UNCHANGED <<up, cached, sending>> /\ sending = {}
      /\ cachedAge' = [a \in Agents |-> IF Known(a) THEN Min({cachedAge[a] + 1, CacheFor}) ELSE 0]
      /\ store' = [r \in Replicas |-> AllOlder(store[r])]
      /\ measured' = {m \in {Older(n) : n \in measured} : m.age <= Retention}
      /\ intact' = [r \in Replicas |-> IF r \in up THEN Min({intact[r] + 1, Settling}) ELSE 0]
  BY DEF Advance
<1>2. /\ \A r \in Replicas : intact[r] \in 0..Settling /\ intact'[r] \in 0..Settling
      /\ Settling \in Nat /\ CacheFor \in Nat /\ Retention \in Nat
      /\ Settling = CacheFor + Retention + 1
  BY Bounds, Numbers DEF TypeInv, StoreType
<1>3. \A r \in Replicas : /\ intact'[r] > 0 => r \in up'
                          /\ intact'[r] <= intact[r] + 1
                          /\ intact'[r] <= intact[r] \/ intact'[r] = intact[r] + 1
  <2>1. \A n \in 0..Settling : /\ Min({n + 1, Settling}) <= n + 1
                               /\ Min({n + 1, Settling}) <= n \/ Min({n + 1, Settling}) = n + 1
    BY <1>2, MinOfTwo
  <2> QED BY <1>1, <1>2, <2>1
<1>4. CachesCover'
  <2> SUFFICES ASSUME NEW r \in Replicas, NEW b \in Agents, Known(b)',
                      cachedAge'[b] < CacheFor, cachedAge'[b] < intact'[r]
               PROVE  r \in cached'[b]
    BY DEF CachesCover
  <2>1. Known(b) /\ cachedAge[b] \in 0..CacheFor
    BY <1>1 DEF Known, TypeInv, SenderType
  <2>2. cachedAge'[b] = Min({cachedAge[b] + 1, CacheFor})
    BY <1>1, <2>1
  <2>3. cachedAge'[b] = cachedAge[b] + 1
    BY <1>2, <2>1, <2>2, MinOfTwo
  <2>4. cachedAge[b] < CacheFor /\ cachedAge[b] < intact[r]
    BY <1>2, <1>3, <2>1, <2>3
  <2> QED BY <1>1, <2>1, <2>4 DEF CoverInv, CachesCover
<1>5. ASSUME NEW n \in measured
      PROVE  /\ n \in Sample /\ Older(n) \in Sample /\ n.age \in 0..Retention
             /\ Older(n).age = n.age + 1
  <2>1. n \in Sample /\ n.age <= Retention
    BY DEF CoverInv
  <2>2. <<n>> \in Shorts /\ Len(<<n>>) = 1 /\ <<n>>[1] = n
    BY <2>1, Numbers DEF Shorts
  <2>3. /\ AllOlder(<<n>>) \in Shorts /\ Len(AllOlder(<<n>>)) = 1
        /\ AllOlder(<<n>>)[1] = Older(n) /\ Older(n).age = n.age + 1
    BY <2>1, <2>2, AllOlderIs
  <2>4. Older(n) \in Sample
    BY <2>3, ElementOfSeq DEF Shorts
  <2> QED BY <1>2, <2>1, <2>3, <2>4 DEF Sample
<1>6. StoresCover'
  <2> SUFFICES ASSUME NEW r \in Replicas, NEW m \in measured', intact'[r] > CacheFor + m.age
               PROVE  Holds(r, m)'
    BY DEF StoresCover
  <2>1. PICK n \in measured : m = Older(n)
    BY <1>1
  <2>2. intact[r] > CacheFor + n.age
    <3>1. n.age \in 0..Retention /\ m.age = n.age + 1 /\ m.age <= Retention
      BY <1>1, <1>5, <2>1
    <3> QED BY <1>2, <1>3, <3>1
  <2>3. Holds(r, n) /\ n.age <= Retention
    BY <1>2, <1>5, <2>2 DEF CoverInv, StoresCover
  <2>4. PICK i \in 1..Len(store[r]) : store[r][i] = n
    BY <2>3 DEF Holds
  <2>5. store[r] \in Shorts /\ store'[r] = AllOlder(store[r])
    BY <1>1 DEF TypeInv, StoreType
  <2>6. Len(store'[r]) = Len(store[r]) /\ store'[r][i] = m
    BY <2>1, <2>4, <2>5, AllOlderIs
  <2> QED BY <2>4, <2>6 DEF Holds
<1>7. measured' \subseteq {s \in Sample : s.age <= Retention}
  BY <1>1, <1>5
<1>8. SendersCover'
  BY <1>1 DEF SendersCover
<1> QED BY <1>3, <1>4, <1>6, <1>7, <1>8 DEF CoverInv

LEMMA CoverInvariant == Spec => [](TypeInv /\ CoverInv)
<1>1. TypeInv /\ CoverInv /\ [Next]_vars => TypeInv' /\ CoverInv'
  <2> SUFFICES ASSUME TypeInv, CoverInv, [Next]_vars PROVE TypeInv' /\ CoverInv'
    OBVIOUS
  <2>1. TypeInv'
    BY TypeStep
  <2>2. CASE Publishing
    BY <2>1, <2>2, CoverPublish, CoverPosts, CoverEnds, CoverRestarts DEF Publishing
  <2>3. CASE Discovers \/ Profiles \/ ProfileFails
    <3>1. UNCHANGED <<up, store, intact, senders, measured>>
      BY <2>3 DEF Discovers, Profiles, ProfileFails, history
    <3> QED BY <2>1, <3>1, CoverSame
  <2>4. CASE \E r \in Replicas : GC(r) \/ Elected(r)
    BY <2>1, <2>4, CoverReplicas
  <2>5. CASE Cluster
    BY <2>1, <2>5, CoverReplicas DEF Cluster
  <2>6. CASE UNCHANGED vars
    <3>1. UNCHANGED <<up, store, intact, senders, measured>>
      BY <2>6 DEF vars, cluster, history
    <3> QED BY <2>1, <3>1, CoverSame
  <2> QED BY <2>1, <2>2, <2>3, <2>4, <2>5, <2>6, CoverAdvance DEF Next, Controller
<1> QED BY <1>1, TypeInit, CoverInit, PTL DEF Spec

\* A distribution over some numbers has a largest one.
LEMMA LargestBounds ==
  ASSUME NEW q, IsFiniteSet(Dist!ValueSet(q)), Dist!ValueSet(q) \subseteq Nat,
         NEW v \in Dist!ValueSet(q)
  PROVE  v <= Dist!Largest(q)
<1> DEFINE V == Dist!ValueSet(q)
           Up(m) == {u \in V : u >= m}
           T == {Up(m) : m \in V}
           R == StrictSubsetOrdering(Nat)
<1>1. \A m \in V : Up(m) \in SUBSET Nat /\ IsFiniteSet(Up(m))
  BY FS_Subset
<1>2. T \subseteq FiniteSubsetsOf(Nat) /\ T # {}
  BY <1>1 DEF FiniteSubsetsOf
<1>3. IsWellFoundedOn(R, FiniteSubsetsOf(Nat))
  BY FS_StrictSubsetOrderingWellFounded
<1> HIDE DEF T, R
<1>4. PICK X \in T : \A Y \in T : ~(<<Y, X>> \in R)
  BY <1>2, <1>3, WFMin
<1> USE DEF T, R
<1>5. PICK m \in V : X = Up(m)
  OBVIOUS
<1>6. ASSUME NEW u \in V, u > m PROVE FALSE
  <2>1. Up(u) \subseteq Up(m) /\ m \in Up(m) /\ m \notin Up(u)
    BY <1>6
  <2>2. <<Up(u), Up(m)>> \in R
    BY <1>1, <2>1 DEF StrictSubsetOrdering
  <2> QED BY <1>4, <1>5, <2>2
<1> HIDE DEF T, R, V, Up
<1>7. V \subseteq Nat
  BY DEF V
<1>8. \A u \in V : u <= m
  BY <1>6, <1>7
<1>9. Dist!Largest(q) = CHOOSE k \in V : \A u \in V : u <= k
  BY <1>8 DEF Dist!Largest, V
<1>10. \A u \in V : u <= CHOOSE k \in V : \A w \in V : w <= k
  BY <1>8
<1> QED BY <1>9, <1>10 DEF V

LEMMA PaddedBounds ==
  ASSUME NEW v \in Nat, NEW f \in Nat
  PROVE  Padded(v, f) >= v
<1> DEFINE w == (v * (100 + Margin)) \div 100
<1>1. v * (100 + Margin) >= v * 100 /\ v * (100 + Margin) \in Nat
  <2>1. \A m \in Nat : v * (100 + m) = v * 100 + v * m /\ v * m \in Nat
    OBVIOUS
  <2> QED BY <2>1, Numbers
<1>2. w >= v /\ w \in Int
  <2>1. \A n \in Nat : n >= v * 100 => n \div 100 >= v /\ n \div 100 \in Int
    OBVIOUS
  <2> QED BY <1>1, <2>1
<1>3. Padded(v, f) = Max({f, w})
  BY DEF Padded
<1> HIDE DEF w
<1> QED BY <1>2, <1>3, MaxOfTwo

\* The profile of samples among which every one of M is found.
LEMMA ProfileCovers ==
  ASSUME NEW q \in Shorts, profile \in ProfileType, NEW M \in SUBSET Sample,
         \A m \in M : \E j \in 1..Len(q) : q[j] = m
  PROVE  /\ Profiled(q).samples >= Cardinality(M)
         /\ \A m \in M : Profiled(q).mem >= Use[m.pod].mem
<1>1. /\ q \in Seq(Sample) /\ Len(q) \in Nat /\ DOMAIN q = 1..Len(q)
      /\ \A i \in 1..Len(q) : q[i] \in Sample
  BY LenProperties, ElementOfSeq DEF Shorts
<1>2. IsFiniteSet(1..Len(q)) /\ Cardinality(1..Len(q)) = Len(q)
  <2>1. CASE Len(q) = 0
    BY <2>1, FS_Interval
  <2>2. CASE Len(q) > 0
    BY <1>1, <2>2, FS_Interval
  <2> QED BY <1>1, <2>1, <2>2
<1>3. Cardinality(M) <= Len(q)
  <2> DEFINE f == [m \in M |-> CHOOSE j \in 1..Len(q) : q[j] = m]
  <2>1. \A m \in M : f[m] \in 1..Len(q) /\ q[f[m]] = m
    OBVIOUS
  <2>2. f \in [M -> 1..Len(q)]
    BY <2>1
  <2> HIDE DEF f
  <2>3. f \in Injection(M, 1..Len(q))
    BY <2>1, <2>2 DEF Injection, IsInjective
  <2> QED BY <1>2, <2>3, FS_Injection
<1>4. CASE q = <<>>
  <2>1. M = {}
    BY <1>4, EmptySeq
  <2>2. Profiled(q).samples = profile.samples
    BY <1>4 DEF Profiled, ProfileType
  <2>3. profile.samples \in Nat
    <3>1. profile.samples \in 0..MaxPerKey
      BY DEF ProfileType
    <3> QED BY <3>1, Numbers
  <2> QED BY <2>1, <2>2, <2>3, FS_EmptySet
<1>5. CASE q # <<>>
  <2>1. Profiled(q).samples = Len(q) /\ Profiled(q).mem = Padded(Peak(q), MinMem)
    BY <1>5 DEF Profiled
  <2>2. ASSUME NEW m \in M PROVE Padded(Peak(q), MinMem) >= Use[m.pod].mem
    <3> DEFINE V == Dist!ValueSet(Mems(q))
    <3>1. \A a \in Agents : Use[a].mem \in Nat
      BY SetsAssumption DEF Usage
    <3>2. \A i \in 1..Len(q) : q[i].pod \in Agents
      BY <1>1 DEF Sample
    <3>3. V = {Use[q[i].pod].mem : i \in 1..Len(q)}
      BY <1>1 DEF Mems, Dist!ValueSet
    <3>4. V \subseteq Nat
      BY <3>1, <3>2, <3>3
    <3>5. IsFiniteSet(V)
      <4> DEFINE g == [i \in 1..Len(q) |-> Use[q[i].pod].mem]
      <4>1. g \in Surjection(1..Len(q), V)
        BY <3>3 DEF Surjection
      <4> QED BY <1>2, <4>1, FS_Surjection
    <3>6. Use[m.pod].mem \in V
      <4>1. PICK j \in 1..Len(q) : q[j] = m
        OBVIOUS
      <4> QED BY <3>3, <4>1
    <3> HIDE DEF V
    <3>7. Use[m.pod].mem <= Peak(q)
      BY <3>4, <3>5, <3>6, LargestBounds DEF V, Peak
    <3>8. Peak(q) \in Nat
      BY <3>4, Quantiles DEF V, Peak
    <3>9. Padded(Peak(q), MinMem) >= Peak(q) /\ Padded(Peak(q), MinMem) \in Int
      <4>1. Profiled(q) \in ProfileType
        BY ProfiledType
      <4>2. Profiled(q).mem \in Int
        BY <4>1 DEF ProfileType
      <4> QED BY <2>1, <3>8, <4>2, PaddedBounds, Numbers
    <3>10. \A x \in Int, y \in Nat, z \in Nat : x >= y /\ z <= y => x >= z
      OBVIOUS
    <3>11. Use[m.pod].mem \in Nat
      BY <3>4, <3>6
    <3> QED BY <3>7, <3>8, <3>9, <3>10, <3>11
  <2> QED BY <1>1, <1>3, <2>1, <2>2
<1> QED BY <1>4, <1>5

\* A leader that every agent has reached for a whole window, while it was a follower or
\* after, recommends from every measurement in the window: lookups that are memoised,
\* lookups that fail, agents and replicas that restart, late stamps and the store's cap
\* take nothing from it (publisher.go, Targets and Publish; store.go, Ingest and GC;
\* controller.go, Reconcile).
THEOREM CoversHolds == Spec => Covers
<1>1. ASSUME TypeInv, CoverInv, Profiles, intact[leader] = Settling
      PROVE  /\ profile'.samples >= Cardinality(measured)
             /\ \A m \in measured : profile'.mem >= Use[m.pod].mem
  <2>1. leader \in Replicas
    BY <1>1 DEF Profiles, TypeInv, ControllerType
  <2>2. store[leader] \in Shorts /\ store[leader] \in Seq(Sample)
    BY <1>1, <2>1 DEF TypeInv, StoreType, Shorts
  <2>3. Evidence \in Shorts
    BY <2>2, CollectedType DEF Evidence
  <2>4. ASSUME NEW m \in measured
        PROVE  \E j \in 1..Len(Evidence) : Evidence[j] = m
    <3>1. m \in Sample /\ m.age \in 0..Retention
      BY <1>1 DEF CoverInv, Sample
    <3>2. intact[leader] > CacheFor + m.age
      BY <1>1, <3>1, Bounds, Numbers
    <3>3. m.age <= Retention
      BY <3>1, Numbers
    <3>4. PICK i \in 1..Len(store[leader]) : store[leader][i] = m
      BY <1>1, <2>1, <3>2, <3>3 DEF CoverInv, StoresCover, Holds
    <3>5. Selected(Sample, store[leader], Evidence)
      BY <2>2, LiveProperties DEF Evidence
    <3> QED BY <3>3, <3>4, <3>5 DEF Selected
  <2>5. profile' = Profiled(Evidence)
    BY <1>1 DEF Profiles
  <2>6. measured \in SUBSET Sample
    BY <1>1 DEF CoverInv
  <2>7. profile \in ProfileType
    BY <1>1 DEF TypeInv, ControllerType
  <2> QED BY <2>3, <2>4, <2>5, <2>6, <2>7, ProfileCovers
<1>2. TypeInv /\ CoverInv /\ [Next]_vars =>
        [Profiles /\ intact[leader] = Settling =>
           /\ profile'.samples >= Cardinality(measured)
           /\ \A m \in measured : profile'.mem >= Use[m.pod].mem]_vars
  BY <1>1
<1> QED BY <1>2, CoverInvariant, PTL DEF Spec, Covers

-----------------------------------------------------------------------------
(* Live and the sequences it is applied to.                                 *)

\* A set of sequences that holds the empty one and every extension of its own holds all.
LEMMA SeqInduction ==
  ASSUME NEW E, NEW P \in SUBSET Seq(E), <<>> \in P,
         \A q \in P, e \in E : Append(q, e) \in P
  PROVE  \A q \in Seq(E) : q \in P
<1> DEFINE T == {n \in Nat : \E q \in Seq(E) : Len(q) = n /\ q \notin P}
<1>1. SUFFICES ASSUME T # {} PROVE FALSE
  <2>1. \A q \in Seq(E) : Len(q) \in Nat
    OBVIOUS
  <2> QED BY <1>1, <2>1
<1>2. PICK k \in T : \A n \in T : k <= n
  <2>1. T \in SUBSET Nat
    OBVIOUS
  <2> HIDE DEF T
  <2> QED BY <1>1, <2>1, LeastNat
<1>3. PICK q \in Seq(E) : Len(q) = k /\ q \notin P
  OBVIOUS
<1>4. PICK w \in Seq(E), e \in E : q = Append(w, e)
  BY <1>3, SequenceEmptyOrAppend
<1>5. Len(w) \in Nat /\ Len(w) < k
  <2>1. Len(w) \in Nat /\ Len(q) = Len(w) + 1
    BY <1>4, AppendProperties
  <2> QED BY <1>3, <2>1
<1>6. Len(w) \notin T
  BY <1>2, <1>5
<1>7. w \in P
  BY <1>5, <1>6
<1> QED BY <1>3, <1>4, <1>7

Mapped(q, f) == [i \in 1..Len(q) |-> f[q[i]]]

LEMMA MappedIs ==
  ASSUME NEW E, NEW F, NEW f \in [E -> F], NEW q \in Seq(E)
  PROVE  /\ Mapped(q, f) \in Seq(F) /\ Len(Mapped(q, f)) = Len(q)
         /\ \A i \in 1..Len(q) : Mapped(q, f)[i] = f[q[i]]
<1>1. Len(q) \in Nat /\ \A i \in 1..Len(q) : f[q[i]] \in F
  BY ElementOfSeq, LenProperties
<1>2. Mapped(q, f) \in Seq(F)
  BY <1>1, IsASeq DEF Mapped
<1>3. DOMAIN Mapped(q, f) = 1..Len(q)
  BY DEF Mapped
<1>4. Len(Mapped(q, f)) = Len(q)
  BY <1>1, <1>2, <1>3, LenProperties
<1> QED BY <1>2, <1>4 DEF Mapped

LEMMA MappedAppend ==
  ASSUME NEW E, NEW F, NEW f \in [E -> F], NEW q \in Seq(E), NEW e \in E
  PROVE  Mapped(Append(q, e), f) = Append(Mapped(q, f), f[e])
<1>1. PICK r \in Seq(E) : r = Append(q, e)
  BY AppendProperties
<1>2. /\ Len(r) = Len(q) + 1 /\ Len(q) \in Nat /\ r[Len(q) + 1] = e
      /\ \A i \in 1..Len(q) : r[i] = q[i]
  BY <1>1, AppendProperties, LenProperties
<1>3. PICK s \in Seq(F) : s = Mapped(q, f) /\ Len(s) = Len(q) /\ \A i \in 1..Len(q) : s[i] = f[q[i]]
  <2>1. q \in Seq(E) /\ f \in [E -> F]
    OBVIOUS
  <2>2. Mapped(q, f) \in Seq(F)
    BY <2>1, MappedIs
  <2>3. DOMAIN Mapped(q, f) = 1..Len(q) /\ Len(q) \in Nat
    BY <2>1, LenProperties DEF Mapped
  <2>4. \A i \in 1..Len(q) : Mapped(q, f)[i] = f[q[i]]
    BY DEF Mapped
  <2> QED BY <2>2, <2>3, <2>4, LenProperties
<1>4. /\ Append(s, f[e]) \in Seq(F) /\ Len(Append(s, f[e])) = Len(q) + 1
      /\ Append(s, f[e])[Len(q) + 1] = f[e]
      /\ \A i \in 1..Len(q) : Append(s, f[e])[i] = f[q[i]]
  BY <1>3, AppendProperties
<1>5. /\ Mapped(r, f) \in Seq(F) /\ Len(Mapped(r, f)) = Len(q) + 1
      /\ \A i \in 1..(Len(q) + 1) : Mapped(r, f)[i] = f[r[i]]
  BY <1>2, MappedIs
<1>6. \A i \in 1..(Len(q) + 1) : i \in 1..Len(q) \/ i = Len(q) + 1
  BY <1>2
<1>7. \A i \in 1..(Len(q) + 1) : Mapped(r, f)[i] = Append(s, f[e])[i]
  BY <1>2, <1>4, <1>5, <1>6
<1>8. Mapped(r, f) = Append(s, f[e])
  BY <1>4, <1>5, <1>7, SeqEqual
<1> QED BY <1>1, <1>3, <1>8

LEMMA MappedEmpty ==
  ASSUME NEW f
  PROVE  Mapped(<<>>, f) = <<>>
BY DEF Mapped

\* A change that leaves the samples where they are with respect to the window.
LEMMA LiveMapped ==
  ASSUME NEW E, NEW F, NEW f \in [E -> F],
         \A e \in E : f[e].age <= Retention <=> e.age <= Retention
  PROVE  \A q \in Seq(E) : Live(Mapped(q, f)) = Mapped(Live(q), f)
<1> DEFINE P == {q \in Seq(E) : Live(Mapped(q, f)) = Mapped(Live(q), f)}
<1>1. <<>> \in P
  BY EmptySeq, MappedEmpty, LiveEmpty
<1>2. ASSUME NEW q \in P, NEW e \in E PROVE Append(q, e) \in P
  <2>1. q \in Seq(E) /\ Append(q, e) \in Seq(E) /\ Live(q) \in Seq(E)
    BY AppendProperties, LiveProperties DEF Selected
  <2>2. Mapped(Append(q, e), f) = Append(Mapped(q, f), f[e]) /\ f[e] \in F
    BY <2>1, MappedAppend
  <2>3. Mapped(q, f) \in Seq(F)
    BY <2>1, MappedIs
  <2>4. Live(Append(Mapped(q, f), f[e])) =
          IF f[e].age <= Retention THEN Append(Live(Mapped(q, f)), f[e]) ELSE Live(Mapped(q, f))
    BY <2>2, <2>3, LiveAppend
  <2>5. Live(Append(q, e)) = IF e.age <= Retention THEN Append(Live(q), e) ELSE Live(q)
    BY <2>1, LiveAppend
  <2>6. Mapped(Append(Live(q), e), f) = Append(Mapped(Live(q), f), f[e])
    BY <2>1, MappedAppend
  <2>7. Live(Mapped(q, f)) = Mapped(Live(q), f)
    OBVIOUS
  <2>8. f[e].age <= Retention <=> e.age <= Retention
    OBVIOUS
  <2> HIDE DEF P
  <2>9. Live(Mapped(Append(q, e), f)) = Mapped(Live(Append(q, e)), f)
    BY <2>2, <2>4, <2>5, <2>6, <2>7, <2>8
  <2> QED BY <2>1, <2>9 DEF P
<1>3. P \in SUBSET Seq(E)
  OBVIOUS
<1> HIDE DEF P
<1>4. \A q \in Seq(E) : q \in P
  BY <1>1, <1>2, <1>3, SeqInduction
<1> QED BY <1>4 DEF P

\* What becomes of the samples that were in the window is what becomes of all, when the
\* others stay out of it.
LEMMA LiveTwice ==
  ASSUME NEW E, NEW F, NEW f \in [E -> F],
         \A e \in E : f[e].age <= Retention => e.age <= Retention
  PROVE  \A q \in Seq(E) : Live(Mapped(Live(q), f)) = Live(Mapped(q, f))
<1> DEFINE P == {q \in Seq(E) : Live(Mapped(Live(q), f)) = Live(Mapped(q, f))}
<1>1. <<>> \in P
  BY EmptySeq, MappedEmpty, LiveEmpty
<1>2. ASSUME NEW q \in P, NEW e \in E PROVE Append(q, e) \in P
  <2>1. q \in Seq(E) /\ Append(q, e) \in Seq(E) /\ Live(q) \in Seq(E)
    BY AppendProperties, LiveProperties DEF Selected
  <2>2. /\ Mapped(Append(q, e), f) = Append(Mapped(q, f), f[e]) /\ f[e] \in F
        /\ Mapped(Append(Live(q), e), f) = Append(Mapped(Live(q), f), f[e])
    <3>1. Mapped(Append(q, e), f) = Append(Mapped(q, f), f[e])
      BY <2>1, MappedAppend
    <3>2. Mapped(Append(Live(q), e), f) = Append(Mapped(Live(q), f), f[e])
      BY <2>1, MappedAppend
    <3> QED BY <3>1, <3>2
  <2>3. Mapped(q, f) \in Seq(F) /\ Mapped(Live(q), f) \in Seq(F)
    BY <2>1, MappedIs
  <2>4. Live(Append(Mapped(q, f), f[e])) =
          IF f[e].age <= Retention THEN Append(Live(Mapped(q, f)), f[e]) ELSE Live(Mapped(q, f))
    BY <2>2, <2>3, LiveAppend
  <2>5. Live(Append(Mapped(Live(q), f), f[e])) =
          IF f[e].age <= Retention THEN Append(Live(Mapped(Live(q), f)), f[e])
          ELSE Live(Mapped(Live(q), f))
    BY <2>2, <2>3, LiveAppend
  <2>6. Live(Append(q, e)) = IF e.age <= Retention THEN Append(Live(q), e) ELSE Live(q)
    BY <2>1, LiveAppend
  <2>7. Live(Mapped(Live(q), f)) = Live(Mapped(q, f))
    OBVIOUS
  <2>8. f[e].age <= Retention => e.age <= Retention
    OBVIOUS
  <2> HIDE DEF P
  <2>9. Live(Mapped(Live(Append(q, e)), f)) = Live(Mapped(Append(q, e), f))
    BY <2>2, <2>4, <2>5, <2>6, <2>7, <2>8
  <2> QED BY <2>1, <2>9 DEF P
<1>3. P \in SUBSET Seq(E)
  OBVIOUS
<1> HIDE DEF P
<1>4. \A q \in Seq(E) : q \in P
  BY <1>1, <1>2, <1>3, SeqInduction
<1> QED BY <1>4 DEF P

\* Samples that are all in the window are all returned.
LEMMA LiveOfFresh ==
  ASSUME NEW E, \A e \in E : e.age <= Retention
  PROVE  \A q \in Seq(E) : Live(q) = q
<1> DEFINE P == {q \in Seq(E) : Live(q) = q}
<1>1. <<>> \in P
  BY EmptySeq, LiveEmpty
<1>2. ASSUME NEW q \in P, NEW e \in E PROVE Append(q, e) \in P
  BY AppendProperties, LiveAppend
<1>3. P \in SUBSET Seq(E)
  OBVIOUS
<1> HIDE DEF P
<1>4. \A q \in Seq(E) : q \in P
  BY <1>1, <1>2, <1>3, SeqInduction
<1> QED BY <1>4 DEF P

\* The first sample is returned first, or not at all.
LEMMA LiveHead ==
  ASSUME NEW E
  PROVE  \A q \in Seq(E) : q # <<>> =>
           IF Head(q).age <= Retention
           THEN Live(q) # <<>> /\ Head(Live(q)) = Head(q) /\ Tail(Live(q)) = Live(Tail(q))
           ELSE Live(q) = Live(Tail(q))
<1> DEFINE First(q) == IF Head(q).age <= Retention
                       THEN /\ Live(q) # <<>> /\ Head(Live(q)) = Head(q)
                            /\ Tail(Live(q)) = Live(Tail(q))
                       ELSE Live(q) = Live(Tail(q))
           P == {q \in Seq(E) : q # <<>> => First(q)}
<1>1. <<>> \in P
  BY EmptySeq
<1>2. ASSUME NEW q \in P, NEW e \in E PROVE Append(q, e) \in P
  <2>1. q \in Seq(E) /\ Append(q, e) \in Seq(E) /\ Live(q) \in Seq(E)
    BY AppendProperties, LiveProperties DEF Selected
  <2>2. Live(Append(q, e)) = IF e.age <= Retention THEN Append(Live(q), e) ELSE Live(q)
    BY <2>1, LiveAppend
  <2>3. CASE q = <<>>
    <3>1. Head(Append(q, e)) = e /\ Tail(Append(q, e)) = <<>> /\ Append(q, e) = <<e>>
      BY <2>3
    <3>2. Live(q) = <<>>
      BY <2>3, LiveEmpty
    <3>3. CASE e.age <= Retention
      <4>1. Live(Append(q, e)) = Append(q, e) /\ Append(q, e) # <<>>
        BY <2>2, <2>3, <3>2, <3>3, AppendProperties
      <4>2. First(Append(q, e))
        BY <3>1, <3>3, <4>1, LiveEmpty, Zenon
      <4> QED BY <2>1, <4>2
    <3>4. CASE ~(e.age <= Retention)
      <4>1. First(Append(q, e))
        BY <2>2, <3>1, <3>2, <3>4, LiveEmpty
      <4> QED BY <2>1, <4>1
    <3> QED BY <3>3, <3>4
  <2>4. CASE q # <<>>
    <3>1. /\ Head(Append(q, e)) = Head(q) /\ Tail(Append(q, e)) = Append(Tail(q), e)
          /\ Tail(q) \in Seq(E)
      BY <2>1, <2>4, HeadTailAppend, HeadTailProperties
    <3>2. Live(Append(Tail(q), e)) =
            IF e.age <= Retention THEN Append(Live(Tail(q)), e) ELSE Live(Tail(q))
      BY <3>1, LiveAppend
    <3>3. First(q)
      BY <2>4
    <3>4. CASE Head(q).age <= Retention
      <4>1. Live(q) # <<>> /\ Head(Live(q)) = Head(q) /\ Tail(Live(q)) = Live(Tail(q))
        BY <3>3, <3>4
      <4>2. /\ Append(Live(q), e) # <<>> /\ Head(Append(Live(q), e)) = Head(q)
            /\ Tail(Append(Live(q), e)) = Append(Live(Tail(q)), e)
        BY <2>1, <4>1, HeadTailAppend, AppendProperties
      <4>3. Head(Append(q, e)).age <= Retention
        BY <3>1, <3>4
      <4>4. CASE e.age <= Retention
        <5>1. /\ Live(Append(q, e)) = Append(Live(q), e)
              /\ Live(Tail(Append(q, e))) = Append(Live(Tail(q)), e)
          BY <2>2, <3>1, <3>2, <4>4
        <5>2. /\ Live(Append(q, e)) # <<>>
              /\ Head(Live(Append(q, e))) = Head(Append(q, e))
              /\ Tail(Live(Append(q, e))) = Live(Tail(Append(q, e)))
          BY <3>1, <4>2, <5>1, Zenon
        <5>3. First(Append(q, e))
          BY <4>3, <5>2, Zenon
        <5> QED BY <2>1, <5>3
      <4>5. CASE ~(e.age <= Retention)
        <5>1. /\ Live(Append(q, e)) = Live(q)
              /\ Live(Tail(Append(q, e))) = Live(Tail(q))
          BY <2>2, <3>1, <3>2, <4>5
        <5>2. First(Append(q, e))
          BY <3>1, <4>1, <4>3, <5>1
        <5> QED BY <2>1, <5>2
      <4> QED BY <4>4, <4>5
    <3>5. CASE ~(Head(q).age <= Retention)
      <4>1. First(Append(q, e))
        BY <2>2, <3>1, <3>2, <3>3, <3>5
      <4> QED BY <2>1, <4>1
    <3> QED BY <3>4, <3>5
  <2> QED BY <2>3, <2>4
<1>3. P \in SUBSET Seq(E)
  OBVIOUS
<1> HIDE DEF P
<1>4. \A q \in Seq(E) : q \in P
  BY <1>1, <1>2, <1>3, SeqInduction
<1> QED BY <1>4 DEF P

-----------------------------------------------------------------------------
(* Keeping.  A sample of the store is ranked by how many have arrived after   *)
(* it and are kept; the log counts how many have arrived at all.  The ranked  *)
(* samples in the window are the last of the log's, and whatever the log has  *)
(* before them was followed by the cap's worth of arrivals.                   *)

Entry == [pod : Agents, age : 0..(Retention + 1), later : Nat]

Zero(s) == [pod |-> s.pod, age |-> s.age, later |-> 0]

Ranked(q) ==
  [i \in 1..Len(q) |-> [pod |-> q[i].pod, age |-> q[i].age, later |-> Len(q) - i]]

Raise == [e \in Entry |-> [e EXCEPT !.later = @ + 1]]
Cap   == [e \in Entry |-> [e EXCEPT !.later = Min({@ + 1, MaxPerKey})]]
Elder == [e \in Entry |-> Older(e)]

Matches(e, f) == e.pod = f.pod /\ e.age = f.age /\ e.later <= f.later

Tracks(w, t) ==
  /\ Len(w) <= Len(t)
  /\ \A k \in 1..Len(w) : Matches(w[k], t[Len(t) - Len(w) + k])
  /\ \A i \in 1..(Len(t) - Len(w)) : t[i].later >= MaxPerKey

LEMMA EntryMaps ==
  /\ Raise \in [Entry -> Entry] /\ Cap \in [Entry -> Entry] /\ Elder \in [Entry -> Entry]
  /\ \A e \in Entry :
       /\ Raise[e].pod = e.pod /\ Raise[e].age = e.age /\ Raise[e].later = e.later + 1
       /\ Cap[e].pod = e.pod /\ Cap[e].age = e.age
       /\ Cap[e].later = IF e.later < MaxPerKey THEN e.later + 1 ELSE MaxPerKey
       /\ Elder[e].pod = e.pod /\ Elder[e].later = e.later
       /\ Elder[e].age = IF e.age <= Retention THEN e.age + 1 ELSE Retention + 1
<1> SUFFICES ASSUME NEW e \in Entry
    PROVE  /\ Raise[e] \in Entry /\ Cap[e] \in Entry /\ Elder[e] \in Entry
           /\ Raise[e].pod = e.pod /\ Raise[e].age = e.age /\ Raise[e].later = e.later + 1
           /\ Cap[e].pod = e.pod /\ Cap[e].age = e.age
           /\ Cap[e].later = IF e.later < MaxPerKey THEN e.later + 1 ELSE MaxPerKey
           /\ Elder[e].pod = e.pod /\ Elder[e].later = e.later
           /\ Elder[e].age = IF e.age <= Retention THEN e.age + 1 ELSE Retention + 1
  BY DEF Raise, Cap, Elder
<1>1. /\ e.pod \in Agents /\ e.age \in 0..(Retention + 1) /\ e.later \in Nat
      /\ Retention \in Nat /\ MaxPerKey \in Nat \ {0}
  BY Numbers DEF Entry
<1>2. \A n \in Nat : /\ [e EXCEPT !.later = n] \in Entry
                     /\ [e EXCEPT !.later = n].pod = e.pod
                     /\ [e EXCEPT !.later = n].age = e.age
                     /\ [e EXCEPT !.later = n].later = n
  BY DEF Entry
<1>3. \A n \in 0..(Retention + 1) : /\ [e EXCEPT !.age = n] \in Entry
                                    /\ [e EXCEPT !.age = n].pod = e.pod
                                    /\ [e EXCEPT !.age = n].later = e.later
                                    /\ [e EXCEPT !.age = n].age = n
  BY DEF Entry
<1>4. Raise[e] = [e EXCEPT !.later = e.later + 1] /\ e.later + 1 \in Nat
  BY <1>1 DEF Raise
<1>5. /\ Cap[e] = [e EXCEPT !.later = Min({e.later + 1, MaxPerKey})]
      /\ Min({e.later + 1, MaxPerKey}) = IF e.later < MaxPerKey THEN e.later + 1 ELSE MaxPerKey
      /\ Min({e.later + 1, MaxPerKey}) \in Nat
  BY <1>1, MinOfTwo DEF Cap
<1>6. /\ Elder[e] = [e EXCEPT !.age = Min({e.age + 1, Retention + 1})]
      /\ Min({e.age + 1, Retention + 1}) = IF e.age <= Retention THEN e.age + 1 ELSE Retention + 1
      /\ Min({e.age + 1, Retention + 1}) \in 0..(Retention + 1)
  BY <1>1, MinOfTwo DEF Elder, Older
<1>7. /\ Raise[e] \in Entry /\ Raise[e].pod = e.pod /\ Raise[e].age = e.age
      /\ Raise[e].later = e.later + 1
  BY <1>2, <1>4
<1>8. /\ Cap[e] \in Entry /\ Cap[e].pod = e.pod /\ Cap[e].age = e.age
      /\ Cap[e].later = IF e.later < MaxPerKey THEN e.later + 1 ELSE MaxPerKey
  BY <1>2, <1>5
<1>9. /\ Elder[e] \in Entry /\ Elder[e].pod = e.pod /\ Elder[e].later = e.later
      /\ Elder[e].age = IF e.age <= Retention THEN e.age + 1 ELSE Retention + 1
  BY <1>3, <1>6
<1> QED BY <1>7, <1>8, <1>9

LEMMA EntriesMapped ==
  ASSUME NEW f \in [Entry -> Entry], NEW q \in Seq(Entry)
  PROVE  /\ Mapped(q, f) \in Seq(Entry) /\ Len(Mapped(q, f)) = Len(q)
         /\ \A i \in 1..Len(q) : q[i] \in Entry /\ Mapped(q, f)[i] = f[q[i]]
<1>1. Len(q) \in Nat /\ \A i \in 1..Len(q) : q[i] \in Entry
  BY ElementOfSeq, LenProperties
<1>2. Mapped(q, f) \in Seq(Entry)
  BY <1>1, IsASeq DEF Mapped
<1>3. DOMAIN Mapped(q, f) = 1..Len(q)
  BY DEF Mapped
<1>4. Len(Mapped(q, f)) = Len(q)
  BY <1>1, <1>2, <1>3, LenProperties
<1> QED BY <1>1, <1>2, <1>4 DEF Mapped

LEMMA RankedIs ==
  ASSUME NEW q \in Seq(Sample)
  PROVE  /\ Ranked(q) \in Seq(Entry) /\ Len(Ranked(q)) = Len(q) /\ Len(q) \in Nat
         /\ \A i \in 1..Len(q) : /\ q[i] \in Sample
                                 /\ Ranked(q)[i].pod = q[i].pod
                                 /\ Ranked(q)[i].age = q[i].age
                                 /\ Ranked(q)[i].later = Len(q) - i
<1>1. Len(q) \in Nat /\ \A i \in 1..Len(q) : q[i] \in Sample
  BY ElementOfSeq, LenProperties
<1>2. \A i \in 1..Len(q) :
        [pod |-> q[i].pod, age |-> q[i].age, later |-> Len(q) - i] \in Entry
  BY <1>1 DEF Sample, Entry
<1>3. Ranked(q) \in Seq(Entry)
  BY <1>1, <1>2, IsASeq DEF Ranked
<1>4. DOMAIN Ranked(q) = 1..Len(q)
  BY DEF Ranked
<1>5. Len(Ranked(q)) = Len(q)
  BY <1>1, <1>3, <1>4, LenProperties
<1> QED BY <1>1, <1>3, <1>5 DEF Ranked

\* An entry is its fields.
LEMMA EntryEqual ==
  ASSUME NEW e \in Entry, NEW f \in Entry, e.pod = f.pod, e.age = f.age, e.later = f.later
  PROVE  e = f
BY DEF Entry

LEMMA ZeroType ==
  ASSUME NEW s \in Sample
  PROVE  Zero(s) \in Entry /\ Zero(s).age = s.age /\ Zero(s).pod = s.pod /\ Zero(s).later = 0
BY DEF Sample, Entry, Zero

\* One more arrival raises the ranks of the others.
LEMMA RankedAppend ==
  ASSUME NEW q \in Seq(Sample), NEW s \in Sample
  PROVE  Ranked(Append(q, s)) = Append(Mapped(Ranked(q), Raise), Zero(s))
<1>1. PICK r \in Seq(Sample) : r = Append(q, s)
  BY AppendProperties
<1>2. /\ Len(r) = Len(q) + 1 /\ Len(q) \in Nat /\ r[Len(q) + 1] = s
      /\ \A i \in 1..Len(q) : r[i] = q[i]
  BY <1>1, AppendProperties, LenProperties
<1>3. /\ Ranked(q) \in Seq(Entry) /\ Len(Ranked(q)) = Len(q)
      /\ \A i \in 1..Len(q) : /\ Ranked(q)[i] \in Entry
                              /\ Ranked(q)[i].pod = q[i].pod
                              /\ Ranked(q)[i].age = q[i].age
                              /\ Ranked(q)[i].later = Len(q) - i
  BY RankedIs, ElementOfSeq
<1>4. PICK u \in Seq(Entry) : /\ u = Mapped(Ranked(q), Raise) /\ Len(u) = Len(q)
                              /\ \A i \in 1..Len(q) : u[i] = Raise[Ranked(q)[i]]
  <2>1. /\ Mapped(Ranked(q), Raise) \in Seq(Entry)
        /\ Len(Mapped(Ranked(q), Raise)) = Len(Ranked(q))
        /\ \A i \in 1..Len(Ranked(q)) : Mapped(Ranked(q), Raise)[i] = Raise[Ranked(q)[i]]
    BY <1>3, EntryMaps, EntriesMapped
  <2> QED BY <1>3, <2>1
<1>5. PICK v \in Seq(Entry) : /\ v = Append(u, Zero(s)) /\ Len(v) = Len(q) + 1
                              /\ \A i \in 1..Len(q) : v[i] = u[i]
                              /\ v[Len(q) + 1] = Zero(s)
  <2>1. Zero(s) \in Entry
    BY ZeroType
  <2>2. /\ Append(u, Zero(s)) \in Seq(Entry) /\ Len(Append(u, Zero(s))) = Len(u) + 1
        /\ \A i \in 1..Len(u) : Append(u, Zero(s))[i] = u[i]
        /\ Append(u, Zero(s))[Len(u) + 1] = Zero(s)
    BY <2>1, AppendProperties
  <2> QED BY <1>4, <2>2
<1>6. /\ Ranked(r) \in Seq(Entry) /\ Len(Ranked(r)) = Len(q) + 1
      /\ \A i \in 1..(Len(q) + 1) : /\ Ranked(r)[i] \in Entry
                                    /\ Ranked(r)[i].pod = r[i].pod
                                    /\ Ranked(r)[i].age = r[i].age
                                    /\ Ranked(r)[i].later = Len(q) + 1 - i
  BY <1>2, RankedIs, ElementOfSeq
<1>7. ASSUME NEW i \in 1..(Len(q) + 1) PROVE Ranked(r)[i] = v[i]
  <2>1. CASE i \in 1..Len(q)
    <3>1. v[i] \in Entry /\ v[i] = Raise[Ranked(q)[i]]
      <4>1. v[i] = Raise[Ranked(q)[i]]
        BY <1>4, <1>5, <2>1
      <4> QED BY <1>3, <2>1, <4>1, EntryMaps
    <3>2. v[i].pod = q[i].pod /\ v[i].age = q[i].age /\ v[i].later = Len(q) - i + 1
      <4>1. PICK e \in Entry : e = Ranked(q)[i]
        BY <1>3, <2>1
      <4>2. e.pod = q[i].pod /\ e.age = q[i].age /\ e.later = Len(q) - i
        BY <1>3, <2>1, <4>1
      <4>3. Raise[e].pod = e.pod /\ Raise[e].age = e.age /\ Raise[e].later = e.later + 1
        BY EntryMaps
      <4> QED BY <3>1, <4>1, <4>2, <4>3
    <3>3. Len(q) + 1 - i = Len(q) - i + 1
      BY <1>2, <2>1
    <3>4. /\ Ranked(r)[i] \in Entry /\ Ranked(r)[i].pod = v[i].pod
          /\ Ranked(r)[i].age = v[i].age /\ Ranked(r)[i].later = v[i].later
      BY <1>2, <1>6, <2>1, <3>2, <3>3
    <3> QED BY <3>1, <3>4, EntryEqual
  <2>2. CASE i = Len(q) + 1
    <3>1. v[i] = Zero(s) /\ r[i] = s /\ Len(q) + 1 - i = 0
      BY <1>2, <1>5, <2>2
    <3>2. /\ Ranked(r)[i] \in Entry /\ Ranked(r)[i].pod = s.pod
          /\ Ranked(r)[i].age = s.age /\ Ranked(r)[i].later = 0
      BY <1>6, <3>1
    <3>3. Zero(s) \in Entry /\ Zero(s).age = s.age /\ Zero(s).pod = s.pod /\ Zero(s).later = 0
      BY ZeroType
    <3> QED BY <3>1, <3>2, <3>3, EntryEqual
  <2> QED BY <1>2, <2>1, <2>2
<1>8. Ranked(r) = v
  BY <1>5, <1>6, <1>7, SeqEqual
<1> QED BY <1>1, <1>4, <1>5, <1>8

LEMMA RankedTail ==
  ASSUME NEW q \in Seq(Sample), q # <<>>
  PROVE  Ranked(Tail(q)) = Tail(Ranked(q)) /\ Ranked(q) # <<>>
<1>1. PICK r \in Seq(Sample) : r = Tail(q)
  BY HeadTailProperties
<1>2. /\ Len(r) = Len(q) - 1 /\ Len(q) \in Nat \ {0}
      /\ \A i \in 1..Len(r) : r[i] = q[i + 1]
  BY <1>1, HeadTailProperties, EmptySeq
<1>3. /\ Ranked(q) \in Seq(Entry) /\ Len(Ranked(q)) = Len(q)
      /\ \A i \in 1..Len(q) : /\ Ranked(q)[i] \in Entry
                              /\ Ranked(q)[i].pod = q[i].pod
                              /\ Ranked(q)[i].age = q[i].age
                              /\ Ranked(q)[i].later = Len(q) - i
  BY RankedIs, ElementOfSeq
<1>4. Ranked(q) # <<>>
  BY <1>2, <1>3, EmptySeq
<1>5. PICK v \in Seq(Entry) : /\ v = Tail(Ranked(q)) /\ Len(v) = Len(r)
                              /\ \A i \in 1..Len(r) : v[i] = Ranked(q)[i + 1]
  <2>1. /\ Tail(Ranked(q)) \in Seq(Entry) /\ Len(Tail(Ranked(q))) = Len(Ranked(q)) - 1
        /\ \A i \in 1..Len(Tail(Ranked(q))) : Tail(Ranked(q))[i] = Ranked(q)[i + 1]
    BY <1>3, <1>4, HeadTailProperties
  <2>2. Len(Ranked(q)) - 1 = Len(r)
    BY <1>2, <1>3
  <2> QED BY <2>1, <2>2
<1>6. /\ Ranked(r) \in Seq(Entry) /\ Len(Ranked(r)) = Len(r)
      /\ \A i \in 1..Len(r) : /\ Ranked(r)[i] \in Entry
                              /\ Ranked(r)[i].pod = r[i].pod
                              /\ Ranked(r)[i].age = r[i].age
                              /\ Ranked(r)[i].later = Len(r) - i
  BY RankedIs, ElementOfSeq
<1>7. ASSUME NEW i \in 1..Len(r) PROVE Ranked(r)[i] = v[i]
  <2>1. i + 1 \in 1..Len(q) /\ Len(q) - (i + 1) = Len(r) - i
    BY <1>2
  <2>2. v[i] \in Entry /\ v[i] = Ranked(q)[i + 1]
    BY <1>3, <1>5, <2>1
  <2>3. /\ v[i].pod = r[i].pod /\ v[i].age = r[i].age /\ v[i].later = Len(r) - i
    BY <1>2, <1>3, <2>1, <2>2
  <2> QED BY <1>6, <2>2, <2>3, EntryEqual
<1>8. Ranked(r) = v
  BY <1>5, <1>6, <1>7, SeqEqual
<1> QED BY <1>1, <1>4, <1>5, <1>8

LEMMA RankedOlder ==
  ASSUME NEW q \in Shorts
  PROVE  Ranked(AllOlder(q)) = Mapped(Ranked(q), Elder)
<1>1. q \in Seq(Sample)
  BY DEF Shorts
<1>2. PICK r \in Seq(Sample) :
        /\ r = AllOlder(q) /\ Len(r) = Len(q)
        /\ \A i \in 1..Len(q) :
             /\ r[i].pod = q[i].pod
             /\ r[i].age = IF q[i].age <= Retention THEN q[i].age + 1 ELSE Retention + 1
  <2>1. AllOlder(q) \in Seq(Sample)
    BY AllOlderIs DEF Shorts
  <2> QED BY <2>1, AllOlderIs
<1>3. /\ Ranked(q) \in Seq(Entry) /\ Len(Ranked(q)) = Len(q)
      /\ \A i \in 1..Len(q) : /\ Ranked(q)[i] \in Entry
                              /\ Ranked(q)[i].pod = q[i].pod
                              /\ Ranked(q)[i].age = q[i].age
                              /\ Ranked(q)[i].later = Len(q) - i
  BY <1>1, RankedIs, ElementOfSeq
<1>4. PICK v \in Seq(Entry) : /\ v = Mapped(Ranked(q), Elder) /\ Len(v) = Len(q)
                              /\ \A i \in 1..Len(q) : v[i] = Elder[Ranked(q)[i]]
  <2>1. /\ Mapped(Ranked(q), Elder) \in Seq(Entry)
        /\ Len(Mapped(Ranked(q), Elder)) = Len(Ranked(q))
        /\ \A i \in 1..Len(Ranked(q)) : Mapped(Ranked(q), Elder)[i] = Elder[Ranked(q)[i]]
    BY <1>3, EntryMaps, EntriesMapped
  <2> QED BY <1>3, <2>1
<1>5. /\ Ranked(r) \in Seq(Entry) /\ Len(Ranked(r)) = Len(q)
      /\ \A i \in 1..Len(q) : /\ Ranked(r)[i] \in Entry
                              /\ Ranked(r)[i].pod = r[i].pod
                              /\ Ranked(r)[i].age = r[i].age
                              /\ Ranked(r)[i].later = Len(q) - i
  BY <1>2, RankedIs, ElementOfSeq
<1>6. ASSUME NEW i \in 1..Len(q) PROVE Ranked(r)[i] = v[i]
  <2>1. /\ v[i] \in Entry /\ v[i].pod = q[i].pod /\ v[i].later = Len(q) - i
        /\ v[i].age = IF q[i].age <= Retention THEN q[i].age + 1 ELSE Retention + 1
    <3>1. PICK e \in Entry : e = Ranked(q)[i] /\ v[i] = Elder[e]
      BY <1>3, <1>4
    <3>2. e.pod = q[i].pod /\ e.age = q[i].age /\ e.later = Len(q) - i
      BY <1>3, <3>1
    <3>3. /\ Elder[e] \in Entry /\ Elder[e].pod = e.pod /\ Elder[e].later = e.later
          /\ Elder[e].age = IF e.age <= Retention THEN e.age + 1 ELSE Retention + 1
      BY EntryMaps
    <3> QED BY <3>1, <3>2, <3>3
  <2>2. /\ Ranked(r)[i] \in Entry /\ Ranked(r)[i].pod = v[i].pod
        /\ Ranked(r)[i].age = v[i].age /\ Ranked(r)[i].later = v[i].later
    BY <1>2, <1>5, <2>1
  <2> QED BY <2>1, <2>2, EntryEqual
<1>7. Ranked(r) = v
  BY <1>4, <1>5, <1>6, SeqEqual
<1> QED BY <1>2, <1>4, <1>7

LEMMA LoggedIs ==
  ASSUME NEW q \in Seq(Entry), NEW s \in Sample
  PROVE  Logged(q, s) = Append(Mapped(q, Cap), Zero(s))
<1>1. Len(q) \in Nat /\ DOMAIN q = 1..Len(q) /\ \A i \in 1..Len(q) : q[i] \in Entry
  BY ElementOfSeq, LenProperties
<1>2. \A i \in 1..Len(q) : [q[i] EXCEPT !.later = Min({@ + 1, MaxPerKey})] = Cap[q[i]]
  BY <1>1 DEF Cap
<1>3. [i \in DOMAIN q |-> [q[i] EXCEPT !.later = Min({@ + 1, MaxPerKey})]] = Mapped(q, Cap)
  BY <1>1, <1>2 DEF Mapped
<1> QED BY <1>3 DEF Logged, Zero

LEMMA LogOlder ==
  ASSUME NEW q \in Seq(Entry)
  PROVE  AllOlder(q) = Mapped(q, Elder)
<1>1. Len(q) \in Nat /\ DOMAIN q = 1..Len(q) /\ \A i \in 1..Len(q) : q[i] \in Entry
  BY ElementOfSeq, LenProperties
<1>2. \A i \in 1..Len(q) : Older(q[i]) = Elder[q[i]]
  BY <1>1 DEF Elder
<1> QED BY <1>1, <1>2 DEF AllOlder, Mapped

LEMMA LiveRankedAppend ==
  ASSUME NEW q \in Seq(Sample), NEW s \in Sample
  PROVE  /\ Live(Ranked(q)) \in Seq(Entry)
         /\ Live(Ranked(Append(q, s))) =
              IF s.age <= Retention THEN Append(Mapped(Live(Ranked(q)), Raise), Zero(s))
              ELSE Mapped(Live(Ranked(q)), Raise)
<1>1. Ranked(q) \in Seq(Entry) /\ Raise \in [Entry -> Entry]
  BY RankedIs, EntryMaps
<1>2. Mapped(Ranked(q), Raise) \in Seq(Entry)
  BY <1>1, EntriesMapped
<1>3. Zero(s) \in Entry /\ Zero(s).age = s.age
  BY ZeroType
<1>4. \A e \in Entry : Raise[e].age <= Retention <=> e.age <= Retention
  BY EntryMaps
<1>5. Live(Mapped(Ranked(q), Raise)) = Mapped(Live(Ranked(q)), Raise)
  BY <1>1, <1>4, LiveMapped
<1>6. Live(Append(Mapped(Ranked(q), Raise), Zero(s))) =
        IF Zero(s).age <= Retention THEN Append(Live(Mapped(Ranked(q), Raise)), Zero(s))
        ELSE Live(Mapped(Ranked(q), Raise))
  BY <1>2, <1>3, LiveAppend
<1>7. Ranked(Append(q, s)) = Append(Mapped(Ranked(q), Raise), Zero(s))
  BY RankedAppend
<1>8. Live(Ranked(q)) \in Seq(Entry)
  BY <1>1, LiveProperties DEF Selected
<1> QED BY <1>3, <1>5, <1>6, <1>7, <1>8

LEMMA LiveLogged ==
  ASSUME NEW q \in Seq(Entry), NEW s \in Sample
  PROVE  /\ Logged(q, s) \in Seq(Entry) /\ Live(q) \in Seq(Entry)
         /\ Live(Logged(q, s)) =
              IF s.age <= Retention THEN Append(Mapped(Live(q), Cap), Zero(s))
              ELSE Mapped(Live(q), Cap)
<1>1. Cap \in [Entry -> Entry]
  BY EntryMaps
<1>2. Mapped(q, Cap) \in Seq(Entry)
  BY <1>1, EntriesMapped
<1>3. Zero(s) \in Entry /\ Zero(s).age = s.age
  BY ZeroType
<1>4. \A e \in Entry : Cap[e].age <= Retention <=> e.age <= Retention
  BY EntryMaps
<1>5. Live(Mapped(q, Cap)) = Mapped(Live(q), Cap)
  BY <1>1, <1>4, LiveMapped
<1>6. Live(Append(Mapped(q, Cap), Zero(s))) =
        IF Zero(s).age <= Retention THEN Append(Live(Mapped(q, Cap)), Zero(s))
        ELSE Live(Mapped(q, Cap))
  BY <1>2, <1>3, LiveAppend
<1>7. Logged(q, s) = Append(Mapped(q, Cap), Zero(s))
  BY LoggedIs
<1>8. Live(q) \in Seq(Entry)
  BY LiveProperties DEF Selected
<1>9. Logged(q, s) \in Seq(Entry)
  BY <1>2, <1>3, <1>7, AppendProperties
<1> QED BY <1>3, <1>5, <1>6, <1>7, <1>8, <1>9

\* A ranked sample of the window outranks what follows it there.
Outranks(w, l) ==
  /\ Len(w) = Len(l)
  /\ \A k \in 1..Len(l) :
       w[k].pod = l[k].pod /\ w[k].age = l[k].age /\ w[k].later >= Len(l) - k

LEMMA LiveRanked == \A q \in Seq(Sample) : Outranks(Live(Ranked(q)), Live(q))
<1> DEFINE P == {q \in Seq(Sample) : Outranks(Live(Ranked(q)), Live(q))}
<1>1. <<>> \in P
  <2>1. Ranked(<<>>) = <<>>
    BY DEF Ranked
  <2> QED BY <2>1, LiveEmpty, EmptySeq DEF Outranks
<1>2. ASSUME NEW q \in P, NEW s \in Sample PROVE Append(q, s) \in P
  <2>1. q \in Seq(Sample) /\ Append(q, s) \in Seq(Sample)
    BY AppendProperties
  <2>2. PICK l \in Seq(Sample) : l = Live(q)
    BY <2>1, LiveProperties DEF Selected
  <2>3. PICK w \in Seq(Entry) : w = Live(Ranked(q))
    BY <2>1, LiveRankedAppend
  <2>4. Outranks(w, l)
    BY <2>2, <2>3
  <2>5. Live(Append(q, s)) = IF s.age <= Retention THEN Append(l, s) ELSE l
    BY <2>1, <2>2, LiveAppend
  <2>6. Live(Ranked(Append(q, s))) =
          IF s.age <= Retention THEN Append(Mapped(w, Raise), Zero(s)) ELSE Mapped(w, Raise)
    BY <2>1, <2>3, LiveRankedAppend
  <2>7. PICK v \in Seq(Entry) : v = Mapped(w, Raise)
    BY EntryMaps, EntriesMapped
  <2>8. Len(v) = Len(l) /\ Len(l) \in Nat
    BY <2>4, <2>7, EntryMaps, EntriesMapped, LenProperties DEF Outranks
  <2>9. ASSUME NEW k \in 1..Len(l)
        PROVE  v[k].pod = l[k].pod /\ v[k].age = l[k].age /\ v[k].later >= Len(l) + 1 - k
    <3>1. v[k] = Raise[w[k]] /\ w[k] \in Entry
      <4>1. k \in 1..Len(w)
        BY <2>4 DEF Outranks
      <4>2. \A i \in 1..Len(w) : Mapped(w, Raise)[i] = Raise[w[i]]
        BY EntryMaps, EntriesMapped
      <4>3. w[k] \in Entry
        BY <4>1, ElementOfSeq
      <4> QED BY <2>7, <4>1, <4>2, <4>3
    <3>2. w[k].pod = l[k].pod /\ w[k].age = l[k].age /\ w[k].later >= Len(l) - k
      BY <2>4 DEF Outranks
    <3>3. PICK e \in Entry : e = w[k]
      BY <3>1
    <3>4. Raise[e].pod = e.pod /\ Raise[e].age = e.age /\ Raise[e].later = e.later + 1
      BY EntryMaps
    <3>5. e.later \in Nat
      BY DEF Entry
    <3> QED BY <2>8, <3>1, <3>2, <3>3, <3>4, <3>5
  <2>10. CASE s.age <= Retention
    <3>1. PICK m \in Seq(Sample) : /\ m = Append(l, s) /\ Len(m) = Len(l) + 1
                                   /\ m[Len(l) + 1] = s /\ \A k \in 1..Len(l) : m[k] = l[k]
      <4>1. /\ Append(l, s) \in Seq(Sample) /\ Len(Append(l, s)) = Len(l) + 1
            /\ Append(l, s)[Len(l) + 1] = s
            /\ \A k \in 1..Len(l) : Append(l, s)[k] = l[k]
        BY AppendProperties
      <4> QED BY <4>1
    <3>2. Zero(s) \in Entry
      BY ZeroType
    <3>3. PICK u \in Seq(Entry) : /\ u = Append(v, Zero(s)) /\ Len(u) = Len(v) + 1
                                  /\ u[Len(v) + 1] = Zero(s) /\ \A k \in 1..Len(v) : u[k] = v[k]
      <4>1. /\ Append(v, Zero(s)) \in Seq(Entry) /\ Len(Append(v, Zero(s))) = Len(v) + 1
            /\ Append(v, Zero(s))[Len(v) + 1] = Zero(s)
            /\ \A k \in 1..Len(v) : Append(v, Zero(s))[k] = v[k]
        BY <3>2, AppendProperties
      <4> QED BY <4>1
    <3>4. ASSUME NEW k \in 1..Len(m)
          PROVE  u[k].pod = m[k].pod /\ u[k].age = m[k].age /\ u[k].later >= Len(m) - k
      <4>1. CASE k \in 1..Len(l)
        BY <2>8, <2>9, <3>1, <3>3, <4>1
      <4>2. CASE k = Len(l) + 1
        <5>1. u[k] = Zero(s) /\ m[k] = s /\ Len(m) - k = 0
          BY <2>8, <3>1, <3>3, <4>2
        <5>2. 0 >= 0
          OBVIOUS
        <5> QED BY <5>1, <5>2, ZeroType
      <4> QED BY <2>8, <3>1, <4>1, <4>2
    <3>5. Outranks(u, m)
      BY <2>8, <3>1, <3>3, <3>4 DEF Outranks
    <3>6. Live(Append(q, s)) = m /\ Live(Ranked(Append(q, s))) = u
      BY <2>5, <2>6, <2>7, <2>10, <3>1, <3>3
    <3> QED BY <2>1, <3>5, <3>6
  <2>11. CASE ~(s.age <= Retention)
    <3>1. Live(Append(q, s)) = l /\ Live(Ranked(Append(q, s))) = v
      BY <2>5, <2>6, <2>7, <2>11
    <3>2. ASSUME NEW k \in 1..Len(l) PROVE v[k].later >= Len(l) - k
      <4>1. v[k].later >= Len(l) + 1 - k /\ v[k] \in Entry
        BY <2>8, <2>9, ElementOfSeq
      <4>2. v[k].later \in Nat
        BY <4>1 DEF Entry
      <4> QED BY <2>8, <4>1, <4>2
    <3>3. Outranks(v, l)
      BY <2>8, <2>9, <3>2 DEF Outranks
    <3> QED BY <2>1, <3>1, <3>3
  <2> QED BY <2>10, <2>11
<1>3. P \in SUBSET Seq(Sample)
  OBVIOUS
<1> HIDE DEF P
<1>4. \A q \in Seq(Sample) : q \in P
  BY <1>1, <1>2, <1>3, SeqInduction
<1> QED BY <1>4 DEF P

LEMMA EntryAppended ==
  ASSUME NEW q \in Seq(Entry), NEW e \in Entry
  PROVE  /\ Append(q, e) \in Seq(Entry) /\ Len(q) \in Nat /\ Len(Append(q, e)) = Len(q) + 1
         /\ \A i \in 1..Len(q) : Append(q, e)[i] = q[i]
         /\ Append(q, e)[Len(q) + 1] = e
         /\ \A i \in 1..(Len(q) + 1) : i \in 1..Len(q) \/ i = Len(q) + 1
<1>1. Len(q) \in Nat
  BY LenProperties
<1>2. \A i \in 1..(Len(q) + 1) : i \in 1..Len(q) \/ i = Len(q) + 1
  BY <1>1
<1> QED BY <1>1, <1>2, AppendProperties

\* What is kept follows the log when both grow by the same sample.
LEMMA TracksAppend ==
  ASSUME NEW w \in Seq(Entry), NEW t \in Seq(Entry), NEW e \in Entry, NEW f \in Entry,
         Tracks(w, t), Matches(e, f)
  PROVE  Tracks(Append(w, e), Append(t, f))
<1>1. PICK v \in Seq(Entry) : /\ v = Append(w, e) /\ Len(v) = Len(w) + 1
                              /\ \A k \in 1..Len(w) : v[k] = w[k]
                              /\ v[Len(w) + 1] = e
  BY EntryAppended
<1>2. PICK u \in Seq(Entry) : /\ u = Append(t, f) /\ Len(u) = Len(t) + 1
                              /\ \A k \in 1..Len(t) : u[k] = t[k]
                              /\ u[Len(t) + 1] = f
  BY EntryAppended
<1>3. Len(w) \in Nat /\ Len(t) \in Nat /\ Len(w) <= Len(t)
  BY LenProperties DEF Tracks
<1>4. Len(u) - Len(v) = Len(t) - Len(w) /\ Len(v) <= Len(u)
  BY <1>1, <1>2, <1>3
<1>5. ASSUME NEW k \in 1..Len(v) PROVE Matches(v[k], u[Len(u) - Len(v) + k])
  <2>1. CASE k \in 1..Len(w)
    <3>1. Len(t) - Len(w) + k \in 1..Len(t)
      BY <1>3, <2>1
    <3>2. v[k] = w[k] /\ u[Len(t) - Len(w) + k] = t[Len(t) - Len(w) + k]
      BY <1>1, <1>2, <2>1, <3>1
    <3> QED BY <1>4, <2>1, <3>2 DEF Tracks
  <2>2. CASE k = Len(w) + 1
    <3>1. Len(t) - Len(w) + k = Len(t) + 1
      BY <1>3, <2>2
    <3> QED BY <1>1, <1>2, <1>4, <2>2, <3>1
  <2> QED BY <1>1, <1>3, <2>1, <2>2
<1>6. ASSUME NEW i \in 1..(Len(u) - Len(v)) PROVE u[i].later >= MaxPerKey
  <2>1. i \in 1..(Len(t) - Len(w)) /\ i \in 1..Len(t)
    BY <1>3, <1>4
  <2> QED BY <1>2, <2>1 DEF Tracks
<1>7. Tracks(v, u)
  BY <1>4, <1>5, <1>6 DEF Tracks
<1> QED BY <1>1, <1>2, <1>7

\* And before both did.
LEMMA TracksShorter ==
  ASSUME NEW w \in Seq(Entry), NEW t \in Seq(Entry), NEW e \in Entry, NEW f \in Entry,
         Tracks(Append(w, e), Append(t, f))
  PROVE  Tracks(w, t) /\ Matches(e, f)
<1>1. PICK v \in Seq(Entry) : /\ v = Append(w, e) /\ Len(v) = Len(w) + 1
                              /\ \A k \in 1..Len(w) : v[k] = w[k]
                              /\ v[Len(w) + 1] = e
  BY EntryAppended
<1>2. PICK u \in Seq(Entry) : /\ u = Append(t, f) /\ Len(u) = Len(t) + 1
                              /\ \A k \in 1..Len(t) : u[k] = t[k]
                              /\ u[Len(t) + 1] = f
  BY EntryAppended
<1>3. Tracks(v, u)
  BY <1>1, <1>2
<1>4. Len(w) \in Nat /\ Len(t) \in Nat
  BY LenProperties
<1>5. Len(w) <= Len(t) /\ Len(u) - Len(v) = Len(t) - Len(w)
  BY <1>1, <1>2, <1>3, <1>4 DEF Tracks
<1>6. Matches(e, f)
  <2>1. Len(w) + 1 \in 1..Len(v) /\ Len(u) - Len(v) + (Len(w) + 1) = Len(t) + 1
    BY <1>1, <1>2, <1>4
  <2>2. Matches(v[Len(w) + 1], u[Len(u) - Len(v) + (Len(w) + 1)])
    BY <1>3, <2>1 DEF Tracks
  <2> QED BY <1>1, <1>2, <2>1, <2>2
<1>7. ASSUME NEW k \in 1..Len(w) PROVE Matches(w[k], t[Len(t) - Len(w) + k])
  <2>1. k \in 1..Len(v) /\ Len(t) - Len(w) + k \in 1..Len(t)
    BY <1>1, <1>4, <1>5
  <2>2. Matches(v[k], u[Len(u) - Len(v) + k])
    BY <1>3, <2>1 DEF Tracks
  <2> QED BY <1>1, <1>2, <1>5, <2>1, <2>2
<1>8. ASSUME NEW i \in 1..(Len(t) - Len(w)) PROVE t[i].later >= MaxPerKey
  <2>1. i \in 1..(Len(u) - Len(v)) /\ i \in 1..Len(t)
    BY <1>4, <1>5
  <2> QED BY <1>2, <1>3, <2>1 DEF Tracks
<1> QED BY <1>5, <1>6, <1>7, <1>8 DEF Tracks

\* An arrival raises the ranks of what is kept and the counts of the log alike.
LEMMA TracksRaise ==
  ASSUME NEW w \in Seq(Entry), NEW t \in Seq(Entry), Tracks(w, t),
         \A k \in 1..Len(w) : w[k].later < MaxPerKey
  PROVE  Tracks(Mapped(w, Raise), Mapped(t, Cap))
<1>1. PICK v \in Seq(Entry) : /\ v = Mapped(w, Raise) /\ Len(v) = Len(w)
                              /\ \A k \in 1..Len(w) : w[k] \in Entry /\ v[k] = Raise[w[k]]
  <2>1. Raise \in [Entry -> Entry]
    BY EntryMaps
  <2>2. /\ Mapped(w, Raise) \in Seq(Entry) /\ Len(Mapped(w, Raise)) = Len(w)
        /\ \A k \in 1..Len(w) : w[k] \in Entry /\ Mapped(w, Raise)[k] = Raise[w[k]]
    BY <2>1, EntriesMapped
  <2> QED BY <2>2
<1>2. PICK u \in Seq(Entry) : /\ u = Mapped(t, Cap) /\ Len(u) = Len(t)
                              /\ \A k \in 1..Len(t) : t[k] \in Entry /\ u[k] = Cap[t[k]]
  <2>1. Cap \in [Entry -> Entry]
    BY EntryMaps
  <2>2. /\ Mapped(t, Cap) \in Seq(Entry) /\ Len(Mapped(t, Cap)) = Len(t)
        /\ \A k \in 1..Len(t) : t[k] \in Entry /\ Mapped(t, Cap)[k] = Cap[t[k]]
    BY <2>1, EntriesMapped
  <2> QED BY <2>2
<1>3. Len(w) \in Nat /\ Len(t) \in Nat /\ Len(w) <= Len(t)
  BY LenProperties DEF Tracks
<1>4. ASSUME NEW k \in 1..Len(w) PROVE Matches(v[k], u[Len(t) - Len(w) + k])
  <2>1. PICK j \in 1..Len(t) : j = Len(t) - Len(w) + k
    <3>1. Len(t) - Len(w) + k \in 1..Len(t)
      BY <1>3
    <3> QED BY <3>1
  <2>2. PICK e \in Entry, f \in Entry : e = w[k] /\ f = t[j]
    BY <1>1, <1>2
  <2>3. Matches(e, f) /\ e.later < MaxPerKey
    BY <2>1, <2>2 DEF Tracks
  <2>4. e.later \in Nat /\ f.later \in Nat /\ MaxPerKey \in Nat
    BY Numbers DEF Entry
  <2>5. /\ Raise[e].pod = e.pod /\ Raise[e].age = e.age /\ Raise[e].later = e.later + 1
        /\ Cap[f].pod = f.pod /\ Cap[f].age = f.age
        /\ Cap[f].later = IF f.later < MaxPerKey THEN f.later + 1 ELSE MaxPerKey
    BY EntryMaps
  <2>6. Raise[e].later <= Cap[f].later
    <3>1. e.later <= f.later
      BY <2>3 DEF Matches
    <3>2. e.later + 1 <= (IF f.later < MaxPerKey THEN f.later + 1 ELSE MaxPerKey)
      BY <2>3, <2>4, <3>1
    <3> QED BY <2>5, <3>2
  <2>7. Matches(Raise[e], Cap[f])
    BY <2>3, <2>5, <2>6 DEF Matches
  <2> QED BY <1>1, <1>2, <2>1, <2>2, <2>7
<1>5. ASSUME NEW i \in 1..(Len(t) - Len(w)) PROVE u[i].later >= MaxPerKey
  <2>1. i \in 1..Len(t)
    BY <1>3
  <2>2. PICK f \in Entry : f = t[i]
    BY <1>2, <2>1
  <2>3. f.later >= MaxPerKey
    BY <2>2 DEF Tracks
  <2>4. f.later \in Nat /\ MaxPerKey \in Nat
    BY Numbers DEF Entry
  <2>5. Cap[f].later = IF f.later < MaxPerKey THEN f.later + 1 ELSE MaxPerKey
    BY EntryMaps
  <2>6. Cap[f].later >= MaxPerKey
    BY <2>3, <2>4, <2>5
  <2> QED BY <1>2, <2>1, <2>2, <2>6
<1>6. Tracks(v, u)
  BY <1>1, <1>2, <1>3, <1>4, <1>5 DEF Tracks
<1> QED BY <1>1, <1>2, <1>6

\* The cap may drop the first sample kept once the cap's worth came after it.
LEMMA TracksTail ==
  ASSUME NEW w \in Seq(Entry), NEW t \in Seq(Entry), Tracks(w, t),
         w # <<>>, Head(w).later >= MaxPerKey
  PROVE  Tracks(Tail(w), t)
<1>1. PICK v \in Seq(Entry) : /\ v = Tail(w) /\ Len(v) = Len(w) - 1
                              /\ \A k \in 1..Len(v) : v[k] = w[k + 1]
  <2>1. /\ Tail(w) \in Seq(Entry) /\ Len(Tail(w)) = Len(w) - 1
        /\ \A k \in 1..Len(Tail(w)) : Tail(w)[k] = w[k + 1]
    BY HeadTailProperties
  <2> DEFINE r == Tail(w)
  <2>2. r \in Seq(Entry) /\ Len(r) = Len(w) - 1 /\ \A k \in 1..Len(r) : r[k] = w[k + 1]
    BY <2>1
  <2>3. r = Tail(w)
    OBVIOUS
  <2> HIDE DEF r
  <2> QED BY <2>2, <2>3, Zenon
<1>2. Len(w) \in Nat \ {0} /\ Len(t) \in Nat /\ Len(w) <= Len(t) /\ Head(w) = w[1]
  BY LenProperties, EmptySeq DEF Tracks
<1>3. ASSUME NEW k \in 1..Len(v) PROVE Matches(v[k], t[Len(t) - Len(v) + k])
  <2>1. k + 1 \in 1..Len(w) /\ Len(t) - Len(w) + (k + 1) = Len(t) - Len(v) + k
    BY <1>1, <1>2
  <2> QED BY <1>1, <2>1 DEF Tracks
<1>4. ASSUME NEW i \in 1..(Len(t) - Len(v)) PROVE t[i].later >= MaxPerKey
  <2>1. CASE i \in 1..(Len(t) - Len(w))
    BY <2>1 DEF Tracks
  <2>2. CASE i = Len(t) - Len(w) + 1
    <3>1. 1 \in 1..Len(w) /\ i \in 1..Len(t)
      BY <1>2, <2>2
    <3>2. Matches(w[1], t[i])
      BY <2>2, <3>1 DEF Tracks
    <3>3. w[1] \in Entry /\ t[i] \in Entry
      BY <3>1, ElementOfSeq
    <3>4. w[1].later \in Nat /\ t[i].later \in Nat /\ MaxPerKey \in Nat
      BY <3>3, Numbers DEF Entry
    <3>5. w[1].later >= MaxPerKey /\ w[1].later <= t[i].later
      BY <1>2, <3>2 DEF Matches
    <3>6. \A a, c \in Nat : a >= MaxPerKey /\ a <= c => c >= MaxPerKey
      BY <3>4
    <3> QED BY <3>4, <3>5, <3>6
  <2> QED BY <1>1, <1>2, <2>1, <2>2
<1>5. Len(v) <= Len(t)
  BY <1>1, <1>2
<1>6. Tracks(v, t)
  BY <1>3, <1>4, <1>5 DEF Tracks
<1> QED BY <1>1, <1>6

\* Lower ranks claim less.
LEMMA TracksLower ==
  ASSUME NEW w \in Seq(Entry), NEW v \in Seq(Entry), NEW t \in Seq(Entry), Tracks(w, t),
         Len(v) = Len(w),
         \A k \in 1..Len(w) : /\ v[k].pod = w[k].pod /\ v[k].age = w[k].age
                              /\ v[k].later <= w[k].later
  PROVE  Tracks(v, t)
<1>1. Len(w) \in Nat /\ Len(t) \in Nat /\ Len(w) <= Len(t)
  BY LenProperties DEF Tracks
<1>2. ASSUME NEW k \in 1..Len(w) PROVE Matches(v[k], t[Len(t) - Len(w) + k])
  <2>1. PICK j \in 1..Len(t) : j = Len(t) - Len(w) + k
    <3>1. Len(t) - Len(w) + k \in 1..Len(t)
      BY <1>1
    <3> QED BY <3>1
  <2>2. v[k] \in Entry /\ w[k] \in Entry /\ t[j] \in Entry
    BY ElementOfSeq
  <2>3. v[k].later \in Nat /\ w[k].later \in Nat /\ t[j].later \in Nat
    BY <2>2 DEF Entry
  <2>4. Matches(w[k], t[j])
    BY <2>1 DEF Tracks
  <2>5. v[k].later <= t[j].later
    BY <2>3, <2>4 DEF Matches
  <2> QED BY <2>1, <2>4, <2>5 DEF Matches
<1> QED BY <1>1, <1>2 DEF Tracks

\* Time takes the same samples out of what is kept and out of the log.
LEMMA TracksOlder ==
  \A t \in Seq(Entry) : \A w \in Seq(Entry) :
    Tracks(w, t) => Tracks(Live(Mapped(w, Elder)), Live(Mapped(t, Elder)))
<1> DEFINE Aged(q) == Live(Mapped(q, Elder))
           P == {t \in Seq(Entry) : \A w \in Seq(Entry) : Tracks(w, t) => Tracks(Aged(w), Aged(t))}
<1>1. Elder \in [Entry -> Entry]
  BY EntryMaps
<1>2. Aged(<<>>) = <<>>
  BY MappedEmpty, LiveEmpty
<1>3. ASSUME NEW t \in Seq(Entry), Tracks(<<>>, t)
      PROVE  Tracks(Aged(<<>>), Aged(t))
  <2>1. PICK u \in Seq(Entry) : u = Mapped(t, Elder)
    BY <1>1, EntriesMapped
  <2>2. Len(u) = Len(t) /\ \A i \in 1..Len(t) : t[i] \in Entry /\ u[i] = Elder[t[i]]
    BY <1>1, <2>1, EntriesMapped
  <2>3. PICK v \in Seq(Entry) : v = Live(u)
    BY LiveProperties DEF Selected
  <2>4. \A j \in 1..Len(v) : \E i \in 1..Len(u) : v[j] = u[i]
    BY <2>3, LiveProperties DEF Selected
  <2>5. Len(t) \in Nat /\ Len(v) \in Nat
    BY LenProperties
  <2>6. \A i \in 1..Len(t) : t[i].later >= MaxPerKey
    <3>1. Len(<<>>) = 0 /\ Len(t) - 0 = Len(t)
      BY <2>5
    <3>2. \A i \in 1..(Len(t) - Len(<<>>)) : t[i].later >= MaxPerKey
      BY <1>3 DEF Tracks
    <3> QED BY <3>1, <3>2
  <2>7. \A j \in 1..Len(v) : v[j].later >= MaxPerKey
    <3>1. \A i \in 1..Len(u) : u[i].later = t[i].later
      BY <2>2, EntryMaps
    <3> QED BY <2>2, <2>4, <2>6, <3>1
  <2>8. Tracks(<<>>, v)
    BY <2>5, <2>7, EmptySeq DEF Tracks
  <2> QED BY <1>2, <2>1, <2>3, <2>8
<1>4. ASSUME NEW q \in Seq(Entry), NEW e \in Entry
      PROVE  /\ Aged(q) \in Seq(Entry) /\ Elder[e] \in Entry
             /\ Aged(Append(q, e)) = IF Elder[e].age <= Retention THEN Append(Aged(q), Elder[e])
                                     ELSE Aged(q)
  <2>1. Mapped(q, Elder) \in Seq(Entry)
    BY <1>1, EntriesMapped
  <2>2. Elder[e] \in Entry
    BY <1>1
  <2>3. Mapped(Append(q, e), Elder) = Append(Mapped(q, Elder), Elder[e])
    BY <1>1, MappedAppend
  <2>4. Live(Mapped(q, Elder)) \in Seq(Entry)
    BY <2>1, LiveProperties DEF Selected
  <2> QED BY <2>1, <2>2, <2>3, <2>4, LiveAppend
<1> HIDE DEF Aged
<1>5. <<>> \in P
  <2>1. \A w \in Seq(Entry) : Tracks(w, <<>>) => w = <<>>
    <3> SUFFICES ASSUME NEW w \in Seq(Entry), Tracks(w, <<>>) PROVE w = <<>>
      OBVIOUS
    <3>1. Len(w) \in Nat /\ Len(w) <= 0
      BY LenProperties, EmptySeq DEF Tracks
    <3> QED BY <3>1, EmptySeq
  <2> QED BY <1>3, <2>1, EmptySeq
<1>6. ASSUME NEW t \in P, NEW f \in Entry PROVE Append(t, f) \in P
  <2>1. t \in Seq(Entry) /\ Append(t, f) \in Seq(Entry)
    BY AppendProperties
  <2>2. \A w \in Seq(Entry) : Tracks(w, t) => Tracks(Aged(w), Aged(t))
    OBVIOUS
  <2>3. ASSUME NEW w \in Seq(Entry), Tracks(w, Append(t, f))
        PROVE  Tracks(Aged(w), Aged(Append(t, f)))
    <3>1. CASE w = <<>>
      BY <1>3, <2>1, <2>3, <3>1
    <3>2. CASE w # <<>>
      <4>1. PICK v \in Seq(Entry), e \in Entry : w = Append(v, e)
        BY <3>2, SequenceEmptyOrAppend
      <4>2. Tracks(v, t) /\ Matches(e, f)
        BY <2>1, <2>3, <4>1, TracksShorter
      <4>3. Tracks(Aged(v), Aged(t))
        BY <2>2, <4>2
      <4>4. Elder[e].age = Elder[f].age /\ Matches(Elder[e], Elder[f])
        <5>1. e.pod = f.pod /\ e.age = f.age /\ e.later <= f.later
          BY <4>2 DEF Matches
        <5>2. /\ Elder[e].pod = e.pod /\ Elder[e].later = e.later
              /\ Elder[e].age = IF e.age <= Retention THEN e.age + 1 ELSE Retention + 1
          BY EntryMaps
        <5>3. /\ Elder[f].pod = f.pod /\ Elder[f].later = f.later
              /\ Elder[f].age = IF f.age <= Retention THEN f.age + 1 ELSE Retention + 1
          BY EntryMaps
        <5>4. Elder[e].age = Elder[f].age
          BY <5>1, <5>2, <5>3
        <5> QED BY <5>1, <5>2, <5>3, <5>4 DEF Matches
      <4>5. /\ Aged(v) \in Seq(Entry) /\ Elder[e] \in Entry
            /\ Aged(w) = IF Elder[e].age <= Retention THEN Append(Aged(v), Elder[e]) ELSE Aged(v)
        BY <1>4, <4>1
      <4>6. /\ Aged(t) \in Seq(Entry) /\ Elder[f] \in Entry
            /\ Aged(Append(t, f)) = IF Elder[f].age <= Retention THEN Append(Aged(t), Elder[f])
                                    ELSE Aged(t)
        BY <1>4, <2>1
      <4>7. Tracks(Append(Aged(v), Elder[e]), Append(Aged(t), Elder[f]))
        BY <4>3, <4>4, <4>5, <4>6, TracksAppend
      <4> QED BY <4>3, <4>4, <4>5, <4>6, <4>7
    <3> QED BY <3>1, <3>2
  <2> QED BY <2>1, <2>3
<1>7. P \in SUBSET Seq(Entry)
  OBVIOUS
<1> HIDE DEF P
<1>8. \A t \in Seq(Entry) : t \in P
  BY <1>5, <1>6, <1>7, SeqInduction
<1> QED BY <1>8 DEF P, Aged

Kept(q, g) == Tracks(Live(Ranked(q)), Live(g))

LEMMA KeptEmpty == Kept(<<>>, <<>>)
<1>1. Ranked(<<>>) = <<>>
  BY DEF Ranked
<1> QED BY <1>1, LiveEmpty, EmptySeq DEF Kept, Tracks

LEMMA KeptPosted ==
  ASSUME NEW q \in Shorts, NEW g \in Seq(Entry), NEW s \in Sample, Kept(q, g)
  PROVE  Kept(Ingested(q, s), Logged(g, s))
<1>1. /\ q \in Seq(Sample) /\ Len(q) \in Nat /\ Len(q) <= MaxPerKey
      /\ MaxPerKey \in Nat \ {0}
  BY Numbers, LenProperties DEF Shorts
<1>2. PICK w \in Seq(Entry) : w = Live(Ranked(q))
  BY <1>1, LiveRankedAppend
<1>3. PICK t \in Seq(Entry) : t = Live(g)
  BY LiveLogged
<1>4. \A k \in 1..Len(w) : w[k].later < MaxPerKey
  <2>1. Ranked(q) \in Seq(Entry) /\ Len(Ranked(q)) = Len(q)
        /\ \A i \in 1..Len(q) : Ranked(q)[i].later = Len(q) - i
    BY <1>1, RankedIs
  <2>2. \A k \in 1..Len(w) : \E i \in 1..Len(q) : w[k] = Ranked(q)[i]
    BY <1>2, <2>1, LiveProperties DEF Selected
  <2>3. \A i \in 1..Len(q) : Len(q) - i < MaxPerKey
    BY <1>1
  <2> QED BY <2>1, <2>2, <2>3
<1>5. PICK v \in Seq(Entry) : v = Mapped(w, Raise)
  <2>1. Raise \in [Entry -> Entry]
    BY EntryMaps
  <2> QED BY <2>1, EntriesMapped
<1>6. PICK u \in Seq(Entry) : u = Mapped(t, Cap)
  <2>1. Cap \in [Entry -> Entry]
    BY EntryMaps
  <2> QED BY <2>1, EntriesMapped
<1>7. Tracks(v, u)
  BY <1>2, <1>3, <1>4, <1>5, <1>6, TracksRaise DEF Kept
<1>8. Zero(s) \in Entry /\ Matches(Zero(s), Zero(s))
  <2>1. Zero(s).later = 0 /\ 0 <= 0
    BY ZeroType
  <2> QED BY <2>1, ZeroType DEF Matches
<1>9. Tracks(Append(v, Zero(s)), Append(u, Zero(s)))
  BY <1>7, <1>8, TracksAppend
<1>10. Kept(Append(q, s), Logged(g, s))
  <2>1. Live(Ranked(Append(q, s))) = IF s.age <= Retention THEN Append(v, Zero(s)) ELSE v
    BY <1>1, <1>2, <1>5, LiveRankedAppend
  <2>2. Live(Logged(g, s)) = IF s.age <= Retention THEN Append(u, Zero(s)) ELSE u
    BY <1>3, <1>6, LiveLogged
  <2> QED BY <1>7, <1>9, <2>1, <2>2 DEF Kept
<1>11. CASE Len(q) < MaxPerKey
  <2>1. Ingested(q, s) = Append(q, s)
    BY <1>11, IngestedIs
  <2> QED BY <1>10, <2>1
<1>12. CASE Len(q) = MaxPerKey
  <2>1. PICK r \in Seq(Sample) : r = Append(q, s)
    BY <1>1, AppendProperties
  <2>2. Len(r) = Len(q) + 1 /\ r # <<>>
    BY <1>1, <2>1, AppendProperties
  <2>3. Ingested(q, s) = Tail(r)
    <3>1. /\ Ingested(q, s) \in Seq(Sample) /\ Len(Ingested(q, s)) = Len(q)
          /\ \A i \in 1..Len(q) : Ingested(q, s)[i] = r[i + 1]
      BY <1>12, <2>1, IngestedIs DEF Shorts
    <3>2. /\ Tail(r) \in Seq(Sample) /\ Len(Tail(r)) = Len(r) - 1
          /\ \A i \in 1..Len(Tail(r)) : Tail(r)[i] = r[i + 1]
      BY <2>2, HeadTailProperties
    <3>3. Len(r) - 1 = Len(q)
      BY <1>1, <2>2
    <3> QED BY <3>1, <3>2, <3>3, SeqEqual
  <2>4. PICK x \in Seq(Entry) : x = Ranked(r)
    BY RankedIs
  <2>5. x # <<>> /\ Ranked(Tail(r)) = Tail(x)
    BY <2>2, <2>4, RankedTail
  <2>6. Head(x) = x[1] /\ x[1].later = MaxPerKey
    <3>1. Len(r) - 1 = MaxPerKey /\ 1 \in 1..Len(r)
      BY <1>1, <1>12, <2>2
    <3>2. \A i \in 1..Len(r) : Ranked(r)[i].later = Len(r) - i
      BY RankedIs
    <3>3. x[1].later = Len(r) - 1
      BY <2>4, <3>1, <3>2
    <3> QED BY <2>5, <3>1, <3>3
  <2>7. Live(x) \in Seq(Entry)
    BY LiveProperties DEF Selected
  <2>8. PICK t1 \in Seq(Entry) : t1 = Live(Logged(g, s))
    <3>1. Logged(g, s) \in Seq(Entry)
      BY LiveLogged
    <3> QED BY <3>1, LiveProperties DEF Selected
  <2>9. Tracks(Live(x), t1)
    BY <1>10, <2>1, <2>4, <2>8 DEF Kept
  <2>10. Tracks(Live(Tail(x)), t1)
    <3>1. CASE Head(x).age <= Retention
      <4>1. Live(x) # <<>> /\ Head(Live(x)) = Head(x) /\ Tail(Live(x)) = Live(Tail(x))
        BY <2>5, <3>1, LiveHead
      <4>2. Head(Live(x)).later >= MaxPerKey
        <5>1. Head(Live(x)).later = MaxPerKey
          BY <2>6, <4>1, Zenon
        <5>2. MaxPerKey >= MaxPerKey
          BY <1>1
        <5> QED BY <5>1, <5>2
      <4>3. Tracks(Tail(Live(x)), t1)
        BY <2>7, <2>9, <4>1, <4>2, TracksTail
      <4> QED BY <4>1, <4>3
    <3>2. CASE ~(Head(x).age <= Retention)
      <4>1. Live(x) = Live(Tail(x))
        BY <2>5, <3>2, LiveHead
      <4> QED BY <2>9, <4>1
    <3> QED BY <3>1, <3>2
  <2> QED BY <2>3, <2>5, <2>8, <2>10 DEF Kept
<1> QED BY <1>1, <1>11, <1>12

Fresh == {e \in Entry : e.age <= Retention}

LEMMA FreshStays ==
  ASSUME NEW q \in Seq(Entry), \A i \in 1..Len(q) : q[i].age <= Retention
  PROVE  Live(q) = q
<1>1. Len(q) \in Nat /\ q = [i \in 1..Len(q) |-> q[i]]
  BY LenProperties
<1>2. \A i \in 1..Len(q) : q[i] \in Fresh
  BY ElementOfSeq DEF Fresh
<1>3. q \in Seq(Fresh)
  <2>1. [i \in 1..Len(q) |-> q[i]] \in Seq(Fresh)
    BY <1>1, <1>2, IsASeq
  <2> QED BY <1>1, <2>1
<1>4. \A e \in Fresh : e.age <= Retention
  BY DEF Fresh
<1> QED BY <1>3, <1>4, LiveOfFresh

LEMMA KeptOlder ==
  ASSUME NEW q \in Shorts, NEW g \in Seq(Entry), Kept(q, g)
  PROVE  Live(AllOlder(g)) \in Seq(Entry) /\ Kept(AllOlder(q), Live(AllOlder(g)))
<1>1. Elder \in [Entry -> Entry] /\ \A e \in Entry : Elder[e].age <= Retention => e.age <= Retention
  <2> SUFFICES ASSUME NEW e \in Entry, Elder[e].age <= Retention PROVE e.age <= Retention
    BY EntryMaps
  <2>1. Elder[e].age = IF e.age <= Retention THEN e.age + 1 ELSE Retention + 1
    BY EntryMaps
  <2>2. ~(Retention + 1 <= Retention)
    BY Numbers
  <2> QED BY <2>1, <2>2
<1>2. PICK x \in Seq(Entry) : x = Ranked(q)
  BY RankedIs DEF Shorts
<1>3. Live(x) \in Seq(Entry) /\ Live(g) \in Seq(Entry) /\ Tracks(Live(x), Live(g))
  BY <1>2, LiveProperties DEF Selected, Kept
<1>4. Tracks(Live(Mapped(Live(x), Elder)), Live(Mapped(Live(g), Elder)))
  BY <1>3, TracksOlder
<1>5. /\ Live(Mapped(Live(x), Elder)) = Live(Mapped(x, Elder))
      /\ Live(Mapped(Live(g), Elder)) = Live(Mapped(g, Elder))
  BY <1>1, LiveTwice
<1>6. Ranked(AllOlder(q)) = Mapped(x, Elder) /\ AllOlder(g) = Mapped(g, Elder)
  BY <1>2, RankedOlder, LogOlder
<1>7. PICK u \in Seq(Entry) : u = Mapped(g, Elder)
  BY <1>1, EntriesMapped
<1>8. /\ Live(u) \in Seq(Entry)
      /\ \A j \in 1..Len(Live(u)) : Live(u)[j].age <= Retention
  BY LiveProperties DEF Selected
<1>9. Live(Live(u)) = Live(u)
  BY <1>8, FreshStays
<1> QED BY <1>4, <1>5, <1>6, <1>7, <1>8, <1>9 DEF Kept

LEMMA KeptCollected ==
  ASSUME NEW q \in Shorts, NEW g \in Seq(Entry), Kept(q, g)
  PROVE  Kept(Collected(q), g)
<1>1. q \in Seq(Sample)
  BY DEF Shorts
<1>2. PICK l \in Seq(Sample) : l = Live(q) /\ \A j \in 1..Len(l) : l[j].age <= Retention
  BY <1>1, LiveProperties DEF Selected
<1>3. PICK w \in Seq(Entry) : w = Live(Ranked(q))
  <2>1. Ranked(q) \in Seq(Entry)
    BY <1>1, RankedIs
  <2> QED BY <2>1, LiveProperties DEF Selected
<1>4. PICK t \in Seq(Entry) : t = Live(g)
  BY LiveProperties DEF Selected
<1>5. Outranks(w, l) /\ Tracks(w, t)
  BY <1>1, <1>2, <1>3, <1>4, LiveRanked DEF Kept
<1>6. PICK v \in Seq(Entry) :
        /\ v = Ranked(l) /\ Len(v) = Len(l) /\ Len(l) \in Nat
        /\ \A i \in 1..Len(l) : /\ v[i].pod = l[i].pod /\ v[i].age = l[i].age
                                /\ v[i].later = Len(l) - i
  BY RankedIs
<1>7. Live(v) = v
  BY <1>2, <1>6, FreshStays
<1>8. ASSUME NEW k \in 1..Len(w)
      PROVE  v[k].pod = w[k].pod /\ v[k].age = w[k].age /\ v[k].later <= w[k].later
  <2>1. k \in 1..Len(l) /\ w[k] \in Entry
    BY <1>5, ElementOfSeq DEF Outranks
  <2>2. w[k].later \in Nat
    BY <2>1 DEF Entry
  <2>3. w[k].pod = l[k].pod /\ w[k].age = l[k].age /\ w[k].later >= Len(l) - k
    BY <1>5, <2>1 DEF Outranks
  <2>4. \A n \in Nat : n >= Len(l) - k => Len(l) - k <= n
    BY <1>6
  <2>5. Len(l) - k <= w[k].later
    BY <2>2, <2>3, <2>4
  <2> QED BY <1>6, <2>1, <2>3, <2>5
<1>9. Tracks(v, t)
  <2>1. Len(v) = Len(w)
    BY <1>5, <1>6 DEF Outranks
  <2> QED BY <1>5, <1>8, <2>1, TracksLower
<1> QED BY <1>2, <1>4, <1>6, <1>7, <1>9 DEF Kept, Collected

KeepInv ==
  /\ log \in [Replicas -> Seq(Entry)]
  /\ \A r \in Replicas : Kept(store[r], log[r])

LEMMA KeepInit == Init => KeepInv
BY KeptEmpty, EmptySeq DEF Init, KeepInv

LEMMA KeepPosts ==
  ASSUME TypeInv, KeepInv, NEW a \in Agents, NEW r \in Replicas, Posts(a, r)
  PROVE  KeepInv'
<1>1. /\ store' = [store EXCEPT ![r] = Ingested(@, Stamped(a))]
      /\ log' = [log EXCEPT ![r] = Logged(@, Stamped(a))]
  BY DEF Posts
<1>2. Stamped(a) \in Sample /\ store \in [Replicas -> Shorts] /\ log \in [Replicas -> Seq(Entry)]
  BY StampedType DEF TypeInv, StoreType, KeepInv
<1>3. Logged(log[r], Stamped(a)) \in Seq(Entry)
  BY <1>2, LiveLogged
<1>4. Kept(Ingested(store[r], Stamped(a)), Logged(log[r], Stamped(a)))
  BY <1>2, KeptPosted DEF KeepInv
<1>5. log' \in [Replicas -> Seq(Entry)]
  BY <1>1, <1>2, <1>3
<1>6. \A p \in Replicas : Kept(store'[p], log'[p])
  BY <1>1, <1>2, <1>4 DEF KeepInv
<1> QED BY <1>5, <1>6 DEF KeepInv

LEMMA KeepDies ==
  ASSUME TypeInv, KeepInv, NEW r \in Replicas, ReplicaDies(r)
  PROVE  KeepInv'
<1>1. store' = [store EXCEPT ![r] = <<>>] /\ log' = [log EXCEPT ![r] = <<>>]
  BY DEF ReplicaDies
<1>2. store \in [Replicas -> Shorts] /\ log \in [Replicas -> Seq(Entry)]
  BY DEF TypeInv, StoreType, KeepInv
<1>3. <<>> \in Seq(Entry)
  BY EmptySeq
<1>4. log' \in [Replicas -> Seq(Entry)]
  BY <1>1, <1>2, <1>3
<1>5. \A p \in Replicas : Kept(store'[p], log'[p])
  BY <1>1, <1>2, KeptEmpty DEF KeepInv
<1> QED BY <1>4, <1>5 DEF KeepInv

LEMMA KeepCollects ==
  ASSUME TypeInv, KeepInv, NEW r \in Replicas, GC(r)
  PROVE  KeepInv'
<1>1. store' = [store EXCEPT ![r] = Collected(@)] /\ log' = log
  BY DEF GC, history
<1>2. store \in [Replicas -> Shorts] /\ log \in [Replicas -> Seq(Entry)]
  BY DEF TypeInv, StoreType, KeepInv
<1>3. Kept(Collected(store[r]), log[r])
  BY <1>2, KeptCollected DEF KeepInv
<1>4. \A p \in Replicas : Kept(store'[p], log'[p])
  BY <1>1, <1>2, <1>3 DEF KeepInv
<1> QED BY <1>1, <1>2, <1>4 DEF KeepInv

LEMMA KeepAdvance ==
  ASSUME TypeInv, KeepInv, Advance
  PROVE  KeepInv'
<1>1. /\ store' = [r \in Replicas |-> AllOlder(store[r])]
      /\ log' = [r \in Replicas |-> Live(AllOlder(log[r]))]
  BY DEF Advance
<1>2. store \in [Replicas -> Shorts] /\ log \in [Replicas -> Seq(Entry)]
  BY DEF TypeInv, StoreType, KeepInv
<1>3. ASSUME NEW r \in Replicas
      PROVE  log'[r] \in Seq(Entry) /\ Kept(store'[r], log'[r])
  <2>1. store[r] \in Shorts /\ log[r] \in Seq(Entry) /\ Kept(store[r], log[r])
    BY <1>2 DEF KeepInv
  <2>2. Live(AllOlder(log[r])) \in Seq(Entry) /\ Kept(AllOlder(store[r]), Live(AllOlder(log[r])))
    BY <2>1, KeptOlder
  <2> QED BY <1>1, <2>2
<1>4. log' \in [Replicas -> Seq(Entry)]
  BY <1>1, <1>3
<1> QED BY <1>3, <1>4 DEF KeepInv

LEMMA KeepInvariant == Spec => [](TypeInv /\ KeepInv)
<1>1. TypeInv /\ KeepInv /\ [Next]_vars => TypeInv' /\ KeepInv'
  <2> SUFFICES ASSUME TypeInv, KeepInv, [Next]_vars PROVE KeepInv'
    BY TypeStep
  <2>1. UNCHANGED <<store, log>> => KeepInv'
    BY DEF KeepInv
  <2>2. CASE Publishing
    <3>1. PICK a \in Agents :
            \/ PublishMemoised(a) \/ PublishResolved(a) \/ PublishBlind(a)
            \/ \E r \in Replicas : Posts(a, r) \/ PostFails(a, r)
            \/ PublishEnds(a) \/ AgentRestarts(a)
      BY <2>2 DEF Publishing
    <3>2. CASE \E r \in Replicas : Posts(a, r)
      BY <3>2, KeepPosts
    <3>3. CASE ~ \E r \in Replicas : Posts(a, r)
      <4>1. UNCHANGED <<store, log>>
        BY <3>1, <3>3 DEF PublishMemoised, PublishResolved, PublishBlind, Departs, PostFails,
                          PublishEnds, AgentRestarts, history
      <4> QED BY <2>1, <4>1
    <3> QED BY <3>2, <3>3
  <2>3. CASE Discovers \/ Profiles \/ ProfileFails
    BY <2>1, <2>3 DEF Discovers, Profiles, ProfileFails, history
  <2>4. CASE \E r \in Replicas : Elected(r) \/ ReplicaStarts(r)
    BY <2>1, <2>4 DEF Elected, ReplicaStarts, history
  <2>5. CASE UNCHANGED vars
    BY <2>1, <2>5 DEF vars, history
  <2> QED BY <2>2, <2>3, <2>4, <2>5, KeepCollects, KeepDies, KeepAdvance
          DEF Next, Controller, Cluster
<1> QED BY <1>1, TypeInit, KeepInit, PTL DEF Spec

LEMMA UnnumberedIs ==
  ASSUME NEW t \in Seq(Entry)
  PROVE  /\ Unnumbered(t) \in Seq(Sample) /\ Len(Unnumbered(t)) = Len(t) /\ Len(t) \in Nat
         /\ \A i \in 1..Len(t) : /\ Unnumbered(t)[i] \in Sample
                                 /\ Unnumbered(t)[i].pod = t[i].pod
                                 /\ Unnumbered(t)[i].age = t[i].age
<1>1. Len(t) \in Nat /\ DOMAIN t = 1..Len(t) /\ \A i \in 1..Len(t) : t[i] \in Entry
  BY ElementOfSeq, LenProperties
<1>2. \A i \in 1..Len(t) : [pod |-> t[i].pod, age |-> t[i].age] \in Sample
  BY <1>1 DEF Entry, Sample
<1>3. Unnumbered(t) = [i \in 1..Len(t) |-> [pod |-> t[i].pod, age |-> t[i].age]]
  BY <1>1 DEF Unnumbered
<1>4. Unnumbered(t) \in Seq(Sample)
  BY <1>1, <1>2, <1>3, IsASeq
<1>5. DOMAIN Unnumbered(t) = 1..Len(t)
  BY <1>3
<1>6. Len(Unnumbered(t)) = Len(t)
  BY <1>1, <1>4, <1>5, LenProperties
<1> QED BY <1>1, <1>2, <1>3, <1>4, <1>6

LEMMA SampleEqual ==
  ASSUME NEW s \in Sample, NEW m \in Sample, s.pod = m.pod, s.age = m.age
  PROVE  s = m
BY DEF Sample

\* What is kept are the latest of the log's samples.
LEMMA KeptIsLatest ==
  ASSUME NEW w \in Seq(Entry), NEW t \in Seq(Entry), NEW l \in Seq(Sample),
         Outranks(w, l), Tracks(w, t)
  PROVE  /\ Len(t) - Len(l) >= 0 /\ l = Latest(Unnumbered(t), Len(l))
         /\ \A i \in 1..(Len(t) - Len(l)) : t[i].later >= MaxPerKey
<1>1. Len(l) \in Nat /\ Len(t) \in Nat /\ Len(w) = Len(l) /\ Len(l) <= Len(t)
  BY LenProperties DEF Outranks, Tracks
<1>2. PICK u \in Seq(Sample) :
        /\ u = Unnumbered(t) /\ Len(u) = Len(t)
        /\ \A i \in 1..Len(t) : u[i] \in Sample /\ u[i].pod = t[i].pod /\ u[i].age = t[i].age
  BY UnnumberedIs
<1>3. ASSUME NEW k \in 1..Len(l) PROVE l[k] = u[Len(t) - Len(l) + k]
  <2>1. PICK j \in 1..Len(t) : j = Len(t) - Len(l) + k
    <3>1. Len(t) - Len(l) + k \in 1..Len(t)
      BY <1>1
    <3> QED BY <3>1
  <2>2. w[k].pod = l[k].pod /\ w[k].age = l[k].age
    BY DEF Outranks
  <2>3. Matches(w[k], t[j])
    BY <1>1, <2>1 DEF Tracks
  <2>4. l[k] \in Sample /\ u[j] \in Sample /\ u[j].pod = t[j].pod /\ u[j].age = t[j].age
    BY <1>2, ElementOfSeq
  <2>5. l[k] = u[j]
    BY <2>2, <2>3, <2>4, SampleEqual DEF Matches
  <2> QED BY <2>1, <2>5
<1>4. l = Latest(u, Len(l))
  <2>1. CASE Len(t) > Len(l)
    <3>1. /\ Len(t) - Len(l) + 1 \in Int
          /\ Len(t) - Len(l) + 1 <= Len(t) \/ Len(l) = 0
          /\ Len(t) - (Len(t) - Len(l) + 1) + 1 = Len(l)
          /\ \A i \in (Len(t) - Len(l) + 1)..Len(t) : i \in 1..Len(t)
          /\ \A i \in 1..Len(l) : Len(t) - Len(l) + 1 + i - 1 = Len(t) - Len(l) + i
      <4>1. PICK a \in Nat, b \in Nat : a = Len(t) /\ b = Len(l) /\ a > b
        BY <1>1, <2>1
      <4>2. a - b + 1 \in Int /\ a - (a - b + 1) + 1 = b
        OBVIOUS
      <4>3. a - b + 1 <= a \/ b = 0
        OBVIOUS
      <4>4. \A i \in (a - b + 1)..a : i \in 1..a
        BY <4>1
      <4>5. \A i \in 1..b : a - b + 1 + i - 1 = a - b + i
        OBVIOUS
      <4> QED BY <4>1, <4>2, <4>3, <4>4, <4>5
    <3>2. PICK m \in Int : m = Len(t) - Len(l) + 1
      BY <3>1
    <3>3. Len(t) \in Int /\ (m <= Len(t) \/ Len(l) = 0) /\ Len(t) - m + 1 = Len(l)
      BY <1>1, <3>1, <3>2
    <3>4. \A i \in m..Len(t) : u[i] \in Sample
      BY <1>2, <3>1, <3>2
    <3>5. PICK x : /\ x = SubSeq(u, m, Len(t)) /\ x \in Seq(Sample) /\ Len(x) = Len(l)
                   /\ \A i \in 1..Len(l) : x[i] = u[Len(t) - Len(l) + i]
      <4>1. /\ SubSeq(u, m, Len(t)) \in Seq(Sample)
            /\ Len(SubSeq(u, m, Len(t))) = IF m <= Len(t) THEN Len(t) - m + 1 ELSE 0
            /\ \A i \in 1..(Len(t) - m + 1) : SubSeq(u, m, Len(t))[i] = u[m + i - 1]
        BY <3>3, <3>4, SubSeqProperties
      <4>2. \A i \in 1..Len(l) : m + i - 1 = Len(t) - Len(l) + i
        BY <3>1, <3>2
      <4>3. /\ Len(SubSeq(u, m, Len(t))) = Len(l)
            /\ \A i \in 1..Len(l) : SubSeq(u, m, Len(t))[i] = u[Len(t) - Len(l) + i]
        BY <3>3, <4>1, <4>2
      <4> QED BY <4>1, <4>3, Zenon
    <3>6. x = l
      BY <1>3, <3>5, SeqEqual
    <3> QED BY <1>2, <2>1, <3>2, <3>5, <3>6 DEF Latest
  <2>2. CASE Len(t) = Len(l)
    <3>1. \A i \in 1..Len(l) : Len(t) - Len(l) + i = i
      BY <1>1, <2>2
    <3>2. l = u
      BY <1>2, <1>3, <2>2, <3>1, SeqEqual
    <3> QED BY <1>1, <1>2, <2>2, <3>2 DEF Latest
  <2> QED BY <1>1, <2>1, <2>2
<1>5. Len(t) - Len(l) >= 0
  BY <1>1
<1> QED BY <1>1, <1>2, <1>4, <1>5 DEF Tracks

\* Whatever is posted, collected, aged and lost in whatever order: a store answers with
\* the measurements of the window that it was sent, in the order of their arrival, and
\* one is missing only where the cap's worth of later ones came in (store.go: Ingest,
\* WorkloadStats, GC).
THEOREM KeepsRecentHolds == Spec => []KeepsRecent
<1>1. TypeInv /\ KeepInv => KeepsRecent
  <2> SUFFICES ASSUME TypeInv, KeepInv, NEW r \in Replicas
               PROVE  LET live == Live(store[r])
                          sent == Live(log[r])
                          lost == Len(sent) - Len(live)
                      IN /\ lost >= 0 /\ live = Latest(Unnumbered(sent), Len(live))
                         /\ \A i \in 1..lost : sent[i].later >= MaxPerKey
    BY DEF KeepsRecent
  <2>1. store[r] \in Seq(Sample) /\ log[r] \in Seq(Entry) /\ Kept(store[r], log[r])
    BY DEF TypeInv, StoreType, Shorts, KeepInv
  <2>2. PICK w \in Seq(Entry) : w = Live(Ranked(store[r]))
    <3>1. Ranked(store[r]) \in Seq(Entry)
      BY <2>1, RankedIs
    <3> QED BY <3>1, LiveProperties DEF Selected
  <2>3. PICK t \in Seq(Entry) : t = Live(log[r])
    BY <2>1, LiveProperties DEF Selected
  <2>4. PICK l \in Seq(Sample) : l = Live(store[r])
    BY <2>1, LiveProperties DEF Selected
  <2>5. Outranks(w, l) /\ Tracks(w, t)
    BY <2>1, <2>2, <2>3, <2>4, LiveRanked DEF Kept
  <2> QED BY <2>3, <2>4, <2>5, KeptIsLatest
<1> QED BY <1>1, KeepInvariant, PTL
=============================================================================
