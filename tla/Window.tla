------------------------------- MODULE Window -------------------------------
(***************************************************************************)
(* The advisor's ring of timestamped observations                          *)
(* (pkg/agent/sysadvisor/window.go).  The code keeps six rings that are    *)
(* always pushed together with one time stamp; here one ring holds the     *)
(* whole sample, and an aggregate names the field it looks at.  A stamp is *)
(* kept as its age, saturated once it is past every horizon.               *)
(***************************************************************************)
EXTENDS Integers, Sequences, FiniteSets, Functions

Slot(value, age) == [value |-> value, age |-> age]

\* newWindow
NewWindow(capacity, blank) ==
  [slots |-> [i \in 0..(capacity - 1) |-> Slot(blank, 0)], next |-> 0, filled |-> FALSE]

Capacity(w) == Cardinality(DOMAIN w.slots)

\* Time passes: every stamp is one interval older.
Aged(w, max) ==
  [w EXCEPT !.slots = [i \in DOMAIN w.slots |->
     IF w.slots[i].age >= max THEN w.slots[i]
     ELSE Slot(w.slots[i].value, w.slots[i].age + 1)]]

\* Mutants of Push: the index wraps one slot late; the ring counts as filled one
\* push early.
PushWrappingLate(w, value) ==
  LET next == (w.next + 1) % (Capacity(w) + 1)
  IN [slots  |-> [i \in DOMAIN w.slots |->
                    IF i = w.next THEN Slot(value, 0) ELSE w.slots[i]],
      next   |-> next,
      filled |-> w.filled \/ next = 0]

PushEarly(w, value) ==
  LET next == (w.next + 1) % Capacity(w)
  IN [slots  |-> [w.slots EXCEPT ![w.next] = Slot(value, 0)],
      next   |-> next,
      filled |-> w.filled \/ next = Capacity(w) - 1]

\* push overwrites the oldest observation once the ring is full.
Push(w, value) ==
  LET next == (w.next + 1) % Capacity(w)
  IN [slots  |-> [w.slots EXCEPT ![w.next] = Slot(value, 0)],
      next   |-> next,
      filled |-> w.filled \/ next = 0]

\* What is inside the horizon, in its order.
Within(q, horizon) ==
  LET kept[n \in 0..Len(q)] ==
        IF n = 0 THEN <<>>
        ELSE IF q[n].age <= horizon THEN Append(kept[n - 1], q[n])
        ELSE kept[n - 1]
  IN kept[Len(q)]

\* live: the observations inside the horizon, oldest first.
Live(w, horizon) ==
  LET n     == IF w.filled THEN Capacity(w) ELSE w.next
      At(i) == w.slots[IF w.filled THEN (w.next + i - 1) % Capacity(w) ELSE i - 1]
  IN Within([i \in 1..n |-> At(i)], horizon)

Values(w, horizon, field) ==
  LET live == Live(w, horizon) IN [i \in DOMAIN live |-> live[i].value[field]]

-----------------------------------------------------------------------------
(* Aggregates over a sequence of values; all are 0 when there is none.       *)

ValueSet(q) == {q[i] : i \in DOMAIN q}

Largest(q) ==
  IF \E m \in ValueSet(q) : \A v \in ValueSet(q) : v <= m
  THEN CHOOSE m \in ValueSet(q) : \A v \in ValueSet(q) : v <= m
  ELSE 0

\* Nearest rank: the least value with p percent of the observations at or below.
Percentile(p, q) ==
  LET rank     == (p * Len(q) + 99) \div 100
      Reach(v) == Cardinality({i \in DOMAIN q : q[i] <= v}) >= rank
      reached  == {v \in ValueSet(q) : Reach(v)}
  IN IF \E v \in reached : \A u \in reached : v <= u
     THEN CHOOSE v \in reached : \A u \in reached : v <= u
     ELSE 0

Mean(q) == IF q = <<>> THEN 0 ELSE SumFunction(q) \div Len(q)

\* With alpha in tenths, as a fraction: acc[i] is the accumulator after i values.
Ewma(tenths, q) ==
  LET a == IF tenths \in 1..10 THEN tenths ELSE 3
      Step(acc, v) == [num |-> a * v * acc.den + (10 - a) * acc.num, den |-> 10 * acc.den]
      acc[i \in 1..Len(q)] == IF i = 1 THEN [num |-> q[1], den |-> 1] ELSE Step(acc[i - 1], q[i])
  IN IF q = <<>> THEN 0 ELSE acc[Len(q)].num \div acc[Len(q)].den

Aggregate(algorithm, tenths, q) ==
  CASE algorithm = "p99"  -> Percentile(99, q)
    [] algorithm = "max"  -> Largest(q)
    [] algorithm = "ewma" -> Ewma(tenths, q)
    [] algorithm = "mean" -> Mean(q)
    [] OTHER              -> Percentile(95, q)
=============================================================================
