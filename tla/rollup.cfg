CONSTANTS
  n1 = n1
  Nodes = {n1}
  Alive = 3
  Requeue = 1
  Backoff = 4
  MaxLag = 1
SPECIFICATION Spec
INVARIANTS TypeOK Current
