CONSTANTS
  alice = alice
  bob = bob
  carol = carol
  Users = {alice, bob, carol}
  ReviewerLists <- PairList
  Tasks = {t1, t2}
  MaxNotices = 1
  Idle = Idle
SPECIFICATION Spec
INVARIANTS UnanimityResolves
CHECK_DEADLOCK FALSE
