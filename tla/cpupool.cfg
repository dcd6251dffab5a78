CONSTANTS
  db = db
  cache = cache
  twin = twin
  batch = batch
  Pods <- ServingPods
  Level <- MCLevel
  Want <- MCWant
  Numa <- MCNuma
  Zones <- TwoZones
  Configs <- MCConfigs
SYMMETRY Replicas
SPECIFICATION Spec
INVARIANTS TypeOK ExclusiveLayout RememberedIsWritten ExclusiveInKernel Healed
PROPERTIES SteadyWritesNothing
