CONSTANTS
  Requests = {r1, r2, r3}
  PoolSize = 2
  Workers = 2
  None = None
SPECIFICATION Spec
INVARIANTS TypeOK NothingKept HaltsAreKnown
PROPERTIES RequestsEnd
