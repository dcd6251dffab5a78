CONSTANTS
  web = web
  batch = batch
  Pods <- MCPods
  MaxUse = 3
SYMMETRY Symmetric
SPECIFICATION Spec
INVARIANTS TypeOK NeverOverstated Forgets
PROPERTIES NothingLost
