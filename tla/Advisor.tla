------------------------------ MODULE Advisor -------------------------------
(***************************************************************************)
(* The advisor of the node agent (pkg/agent/sysadvisor/advisor.go): how    *)
(* much CPU and memory one node offers to the reclaimed tier, tick after   *)
(* tick, while samples, gaps between samples and the operator's policy     *)
(* vary.  One step is one interval of the agent's ticker.                  *)
(***************************************************************************)
EXTENDS Window, Recommendation

CONSTANTS
  Samples,        \* what the collector may return (NodeSample)
  Policies,       \* the advisor's slices of the policies an operator may write
  DefaultConfig,  \* sysadvisor.DefaultConfig with the agent's interval
  CpuAlloc,       \* the node's allocatable CPU
  MemAlloc,       \* the node's allocatable memory
  GrowthStep,     \* GrowthStepPercent, 25; no policy sets it
  AgeMax          \* bound: ages are told apart up to here, past every window

Unset  == -1      \* a policy that leaves MinReclaimCPU or MinReclaimMemory out

\* What Observe, Recommend and Config look at.
PodUse     == [tier : {"system", "dedicated", "shared", "reclaimed"}, valid : BOOLEAN,
               cpu : Nat, mem : Nat]
SampleType == [valid : BOOLEAN, pods : SUBSET PodUse, cpu : Nat, mem : Nat,
               cpuStall : Nat, memStall : Nat]
\* The ranges of the CRD where a property leans on them (qospolicy_types.go).
ConfigType == [window : Nat, interval : Nat, algorithm : STRING, alpha : Nat,
               cpuTarget : Nat, memTarget : Nat, headroom : Nat, maxReclaim : 0..100,
               cpuFloor : Nat \cup {Unset}, memFloor : Nat \cup {Unset},
               memThreshold : Nat, cpuThreshold : Nat, stallThreshold : Nat]

ASSUME SamplesAssumption ==
  Samples \subseteq SampleType /\ \A s \in Samples : IsFiniteSet(s.pods)
ASSUME ConfigAssumption ==
  /\ Policies \subseteq ConfigType /\ DefaultConfig \in ConfigType
  /\ DefaultConfig.cpuFloor # Unset /\ DefaultConfig.memFloor # Unset
ASSUME SizeAssumption ==
  /\ CpuAlloc \in Nat /\ MemAlloc \in Nat /\ GrowthStep \in Nat \ {0} /\ AgeMax \in Nat
  /\ \A c \in Policies \cup {DefaultConfig} : c.window < AgeMax

VARIABLES
  cfg,        \* Advisor.cfg
  win,        \* the six windows, as one
  last,       \* Advisor.last: the offer, its pressure level and its confidence
  revised,    \* whether the last recommendation raised Advisor.revision
  log         \* history: the latest observations since the windows were built

vars == <<cfg, win, last, revised, log>>

Blank == [protCpu |-> 0, protMem |-> 0, cpu |-> 0, mem |-> 0, cpuStall |-> 0, memStall |-> 0]

Unsold == [cpu |-> 0, mem |-> 0, level |-> "", confidence |-> ""]

MaxOf(a, b) == IF a >= b THEN a ELSE b

\* resize: the capacity that a configuration asks for.
Slots(c) == MaxOf(3, c.window \div MaxOf(1, c.interval))

-----------------------------------------------------------------------------
(* Observe: the tiers kqos guarantees, without the reclaimed one.  A pod     *)
(* that has no rate yet counts with its memory only.                        *)

Guaranteed(s) == {p \in s.pods : p.tier # "reclaimed"}

ProtectedCpu(s) == SumFunction([p \in Guaranteed(s) |-> IF p.valid THEN p.cpu ELSE 0])
ProtectedMem(s) == SumFunction([p \in Guaranteed(s) |-> p.mem])

\* What Observe pushes.
Observation(s) == [protCpu |-> ProtectedCpu(s), protMem |-> ProtectedMem(s),
                   cpu |-> s.cpu, mem |-> s.mem,
                   cpuStall |-> s.cpuStall, memStall |-> s.memStall]

Pct(part, whole) ==
  IF whole <= 0 THEN 0
  ELSE LET v == (part * 100) \div whole IN IF v > 100 THEN 100 ELSE v

-----------------------------------------------------------------------------
(* Recommend.                                                               *)

\* reclaimable: what the formula leaves for the reclaimed tier.
Reclaimable(c, alloc, protected, target, floor) ==
  LET value == (alloc * target) \div 100 - protected - (alloc * c.headroom) \div 100
      cap   == (alloc * c.maxReclaim) \div 100
      kept  == IF value > cap THEN cap ELSE value
  IN IF alloc <= 0 \/ value <= 0 \/ kept < floor THEN 0 ELSE kept

\* Mutants of Damp: no least step, and no damping when there is no offer yet.
DampStalling(current, target) ==
  IF target <= current THEN target ELSE current + ((target - current) * GrowthStep) \div 100

DampFromZero(current, target) ==
  IF target <= current \/ current = 0 THEN target
  ELSE current + MaxOf(1, ((target - current) * GrowthStep) \div 100)

\* damp: the offer falls at once and rises in steps.
Damp(current, target) ==
  IF target <= current \/ GrowthStep <= 0 \/ GrowthStep >= 100 THEN target
  ELSE LET next == current + MaxOf(1, ((target - current) * GrowthStep) \div 100)
       IN IF next > target THEN target ELSE next

\* pressure
Level(w, c) ==
  LET cpuUtil  == Pct(Percentile(90, Values(w, c.window, "cpu")), CpuAlloc)
      memUtil  == Pct(Largest(Values(w, c.window, "mem")), MemAlloc)
      cpuStall == Percentile(90, Values(w, c.window, "cpuStall"))
      memStall == Percentile(90, Values(w, c.window, "memStall"))
  IN IF \/ memUtil >= c.memThreshold \/ cpuUtil >= c.cpuThreshold
        \/ cpuStall >= c.stallThreshold \/ memStall >= 10
     THEN "Critical"
     ELSE IF \/ memUtil >= c.memThreshold - 10 \/ cpuUtil >= c.cpuThreshold - 10
             \/ 2 * cpuStall >= c.stallThreshold
     THEN "Moderate"
     ELSE "None"

Confidence(w, c) == IF ~w.filled THEN "Low"
                    ELSE IF Len(Live(w, c.window)) < Capacity(w) \div 2 THEN "Medium"
                    ELSE "High"

TargetCpu(w, c) ==
  Reclaimable(c, CpuAlloc, Aggregate(c.algorithm, c.alpha, Values(w, c.window, "protCpu")),
              c.cpuTarget, c.cpuFloor)

\* Mutant of TargetMem: memory is aggregated like CPU.
TargetMemByAlgorithm(w, c) ==
  Reclaimable(c, MemAlloc, Aggregate(c.algorithm, c.alpha, Values(w, c.window, "protMem")),
              c.memTarget, c.memFloor)

TargetMem(w, c) ==
  Reclaimable(c, MemAlloc, Largest(Values(w, c.window, "protMem")), c.memTarget, c.memFloor)

\* Mutant of Recommended: the offer is withdrawn only when nothing is growing.
RecommendedWhileGrowing(w, c) ==
  LET level == Level(w, c)
      sold  == level # "Critical" \/ TargetCpu(w, c) > last.cpu
  IN [cpu        |-> IF sold THEN Damp(last.cpu, TargetCpu(w, c)) ELSE 0,
      mem        |-> IF sold THEN Damp(last.mem, TargetMem(w, c)) ELSE 0,
      level      |-> level,
      confidence |-> Confidence(w, c)]

\* Under critical pressure nothing is on offer.
Recommended(w, c) ==
  LET level == Level(w, c)
      sold  == level # "Critical"
  IN [cpu        |-> IF sold THEN Damp(last.cpu, TargetCpu(w, c)) ELSE 0,
      mem        |-> IF sold THEN Damp(last.mem, TargetMem(w, c)) ELSE 0,
      level      |-> level,
      confidence |-> Confidence(w, c)]

-----------------------------------------------------------------------------
(* The steps.                                                               *)

\* agent.applyPolicy: a floor the policy leaves out stays as it was.
Applied(p) == [p EXCEPT !.cpuFloor = IF @ = Unset THEN cfg.cpuFloor ELSE @,
                        !.memFloor = IF @ = Unset THEN cfg.memFloor ELSE @]

SameGeometry(c) == c.window = cfg.window /\ c.interval = cfg.interval

\* SetConfig: a change of the geometry empties the windows.
Configured(c) == IF SameGeometry(c) THEN Aged(win, AgeMax) ELSE NewWindow(Slots(c), Blank)

\* The reference for the ring: a list of what was observed.
Remembered(c) == IF SameGeometry(c)
                 THEN [i \in DOMAIN log |-> Slot(log[i].value,
                         IF log[i].age >= AgeMax THEN log[i].age ELSE log[i].age + 1)]
                 ELSE <<>>

Latest(q, n) == IF Len(q) > n THEN SubSeq(q, Len(q) - n + 1, Len(q)) ELSE q

Init ==
  /\ cfg = DefaultConfig
  /\ win = NewWindow(Slots(DefaultConfig), Blank)
  /\ last = Unsold /\ revised = FALSE
  /\ log = <<>>

\* A tick that takes a sample: SetConfig, Observe, Recommend.
Ticks(p, s) ==
  LET c == Applied(p)
      w == IF s.valid THEN Push(Configured(c), Observation(s)) ELSE Configured(c)
  IN /\ cfg' = c
     /\ win' = w
     /\ last' = Recommended(w, c)
     /\ revised' = MateriallyDiffers(last, last')
     /\ log' = IF s.valid THEN Latest(Append(Remembered(c), Slot(Observation(s), 0)), Slots(c))
               ELSE Remembered(c)

\* A tick that stops before the sample: no node, no pods, no cgroups.
TickFails(p) ==
  LET c == Applied(p)
  IN /\ cfg' = c /\ win' = Configured(c) /\ log' = Remembered(c)
     /\ UNCHANGED <<last, revised>>

\* The agent process starts over: New.
Restart ==
  /\ cfg' = DefaultConfig
  /\ win' = NewWindow(Slots(DefaultConfig), Blank)
  /\ last' = Unsold /\ revised' = FALSE
  /\ log' = <<>>

Recommends == \E p \in Policies, s \in Samples : Ticks(p, s)

Next == Recommends \/ (\E p \in Policies : TickFails(p)) \/ Restart

Spec == Init /\ [][Next]_vars

-----------------------------------------------------------------------------
(* Properties.                                                              *)

Observations == {Observation(s) : s \in Samples}

Offers == [cpu : 0..CpuAlloc, mem : 0..MemAlloc, level : Levels \cup {""},
           confidence : {"", "Low", "Medium", "High"}]

TypeOK ==
  /\ cfg \in ConfigType /\ cfg.cpuFloor # Unset /\ cfg.memFloor # Unset
  /\ DOMAIN win.slots = 0..(Slots(cfg) - 1) /\ win.next \in 0..(Slots(cfg) - 1)
  /\ win.filled \in BOOLEAN
  /\ \A i \in DOMAIN win.slots :
       win.slots[i].value \in Observations \cup {Blank} /\ win.slots[i].age \in 0..AgeMax
  /\ last \in Offers /\ revised \in BOOLEAN
  /\ Len(log) <= Slots(cfg)

InHorizon == Within(log, cfg.window)

\* The ring yields exactly the observations that were made since the windows were
\* built, are not overwritten and not past the horizon, oldest first, through any
\* gaps, refusals and changes of the window (window.go, push and live).
LiveIsRecent == Live(win, cfg.window) = InHorizon

Observed == {InHorizon[i].value : i \in DOMAIN InHorizon}

\* As long as one observation in the window shows memory past the threshold, not a
\* unit is on offer (README, Critical pressure withdraws everything).
WithdrawnWhileHot ==
  [][Recommends =>
       ((\E o \in Observed : Pct(o.mem, MemAlloc) >= cfg.memThreshold)
          => last.cpu = 0 /\ last.mem = 0)']_vars

\* The memory on offer fits, next to what the guaranteed tiers used at their worst
\* in the window and the headroom, into the target (advisor.go, Recommend).
OfferLeavesRoom ==
  [][Recommends =>
       (last.mem > 0 => \A o \in Observed :
          last.mem + o.protMem + (MemAlloc * cfg.headroom) \div 100
            <= (MemAlloc * cfg.memTarget) \div 100)']_vars

InStep(old, new, cap) ==
  new > old => 100 * (new - old) <= MaxOf(100, GrowthStep * (cap - old))

\* From one recommendation to the next the offer closes at most a step of the gap
\* to the cap, after a withdrawal too: a drained node is not handed out at once
\* (README, Growth is damped).
GradualGrowth ==
  [][Recommends => /\ InStep(last.cpu, last'.cpu, (CpuAlloc * cfg'.maxReclaim) \div 100)
                   /\ InStep(last.mem, last'.mem, (MemAlloc * cfg'.maxReclaim) \div 100)]_vars

\* A tick like the one before: the same policy, the same observation.
Newest  == log[Len(log)]
Repeats == /\ cfg' = cfg /\ log # <<>>
           /\ log' # <<>> /\ Newest' = Slot(Newest.value, 0)

Settled ==
  LET one == Push(NewWindow(1, Blank), Newest.value)
  IN log # <<>> =>
       IF Level(one, cfg) = "Critical" THEN last.cpu = 0 /\ last.mem = 0
       ELSE last.cpu = TargetCpu(one, cfg) /\ last.mem = TargetMem(one, cfg)

\* The ticker keeps firing, and from some moment on every tick is like the last.
Steady == <>[][Repeats]_vars /\ []<><<Repeats>>_vars

\* Once the node looks the same at every tick the offer reaches what the formula
\* says and stays, rather than creep or stop short of it (advisor.go, damp).
Converges == Steady => <>[]Settled
=============================================================================
