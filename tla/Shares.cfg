CONSTANTS
  u1 = u1
  u2 = u2
  s1 = s1
  s2 = s2
  i1 = i1
  i2 = i2
  i3 = i3
  h1 = h1
  h2 = h2
  Users = {u1, u2}
  Shares = {s1, s2}
  Ids = {i1, i2, i3}
  Handlers = {h1, h2}
  None = None
SPECIFICATION Spec
SYMMETRY Symmetry
INVARIANTS AnswersAreTold JoinedOrRevoked RowsHaveShare
PROPERTY RejectionStays
CHECK_DEADLOCK FALSE
