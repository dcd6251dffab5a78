CONSTANTS
  Samples <- MCSamples
  Policies <- MCPolicies
  DefaultConfig <- MCDefaultConfig
  CpuAlloc = 20
  MemAlloc = 20
  GrowthStep = 25
  AgeMax = 4
SPECIFICATION Spec
INVARIANTS TypeOK LiveIsRecent
PROPERTIES WithdrawnWhileHot OfferLeavesRoom GradualGrowth Converges
