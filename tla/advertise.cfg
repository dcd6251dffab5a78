CONSTANTS
  Offers <- MCOffers
  MinCpu = 50
  MinMem = 64
  StaleAfter = 3
  Requeue = 2
  Backoff = 2
  MaxLag = 1
  MaxRevision = 2
SPECIFICATION Spec
INVARIANTS TypeOK Withdrawn Advertised
