CONSTANTS
  one = one
  two = two
  calm = calm
  busy = busy
  None = None
  Replicas = {one}
  Agents <- TwoAgents
  Use <- TwoUses
  Skew <- TwoClocks
  Request = 100
  Margin = 20
  MinCpu = 10
  MinMem = 16
  Retention = 1
  MaxPerKey = 3
  Medium = 2
  High = 3
  CacheFor = 2
  Requeue = 1
  Backoff = 1
SPECIFICATION Spec
INVARIANTS TypeOK KeepsRecent
