CONSTANTS
  batch = batch
  web = web
  infra = infra
  Pods <- PinnedPods
  Tier <- PinnedTier
  Mem <- PinnedMem
  Cpu <- PinnedCpu
  Req <- PinnedCpu
  Mirror = {}
  Critical <- PinnedCritical
  Guarded = {}
  BaseLoads <- PinnedLoads
  MemAlloc = 100
  MemThreshold = 85
  Policies <- MCSlowOff
  DefaultPolicy <- MCSlowDefault
  BudgetAtStart = 1
  MaxBudget = 1
  Stab = 1
  Window = 2
  RecentAge = 3
  GcAge = 3
  MaxLag = 1
  RunLag = 1
  MaxObs = 0
SPECIFICATION FairSpec
INVARIANTS Untouchable
PROPERTIES KeepsRelieving
