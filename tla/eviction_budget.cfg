CONSTANTS
  batch = batch
  web = web
  infra = infra
  Pods <- TwoPods
  Tier <- TwoTier
  Mem <- TwoMem
  Cpu <- TwoCpu
  Req <- TwoReq
  Mirror = {}
  Critical = {}
  Guarded = {}
  BaseLoads <- TwoLoads
  MemAlloc = 100
  MemThreshold = 85
  Policies <- MCSlow
  DefaultPolicy <- MCSlowDefault
  BudgetAtStart = 1
  MaxBudget = 1
  Stab = 2
  Window = 2
  RecentAge = 3
  GcAge = 3
  MaxLag = 1
  RunLag = 1
  MaxObs = 2
SPECIFICATION Spec
INVARIANTS TypeOK RateLaw
PROPERTIES NoDoubleEviction TierOrder Stabilised Limited
