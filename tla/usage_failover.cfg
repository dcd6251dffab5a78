CONSTANTS
  one = one
  two = two
  calm = calm
  busy = busy
  None = None
  Replicas <- TwoReplicas
  Agents = {busy}
  Use <- OneUse
  Skew <- OneClock
  Request = 100
  Margin = 20
  MinCpu = 10
  MinMem = 16
  Retention = 1
  MaxPerKey = 3
  Medium = 2
  High = 3
  CacheFor = 2
  Requeue = 2
  Backoff = 1
SYMMETRY Swap
SPECIFICATION Spec
INVARIANTS Follows
PROPERTIES Covers
