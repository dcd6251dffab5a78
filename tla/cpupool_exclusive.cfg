CONSTANTS
  db = db
  cache = cache
  twin = twin
  batch = batch
  Pods <- BatchPods
  Level <- BatchLevel
  Want <- BatchWant
  Numa = {}
  Zones <- TwoZones
  Configs <- BatchConfigs
SPECIFICATION Spec
INVARIANTS ExclusiveToAll
