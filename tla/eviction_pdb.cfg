CONSTANTS
  batch = batch
  web = web
  infra = infra
  Pods <- TwoPods
  Tier <- TwoTier
  Mem <- BigMem
  Cpu <- TwoCpu
  Req <- TwoReq
  Mirror = {}
  Critical = {}
  Guarded <- GuardedPods
  BaseLoads <- BigLoads
  MemAlloc = 100
  MemThreshold = 85
  Policies <- MCArmed
  DefaultPolicy <- MCDefault
  BudgetAtStart = 2
  MaxBudget = 2
  Stab = 1
  Window = 2
  RecentAge = 1
  GcAge = 1
  MaxLag = 0
  RunLag = 0
  MaxObs = 0
SPECIFICATION FairSpec
PROPERTIES RelievesPastBudgets
