CONSTANTS
  alice = alice
  bob = bob
  carol = carol
  Users = {alice, bob, carol}
  ReviewerLists <- AnyLists
  Tasks = {t1, t2}
  MaxNotices = 2
  Idle = Idle
SPECIFICATION Spec
INVARIANTS ApprovedByEveryRow VotedRowsAreNotPending StatusIsOutcome
PROPERTY RejectionIsFinal
CHECK_DEADLOCK FALSE
