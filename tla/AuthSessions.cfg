CONSTANTS
  t1 = t1
  t2 = t2
  k1 = k1
  k2 = k2
  k3 = k3
  Threads = {t1, t2}
  Tokens = {k1, k2, k3}
  MaxFailures = 1
  MaxChanges = 1
  MaxId = 3
  ReuseIds = TRUE
  None = None
SPECIFICATION Spec
SYMMETRY Symmetry
INVARIANTS FailuresBounded TokensUsedOnce SessionsOfPassword
PROPERTY InactiveGetsNothing
