CONSTANTS
  Revs = {1, 2, 3}
  Snapshots = {TRUE, FALSE}
  Files <- FileCounts
  MaxTreeId = 3
  Pushes = {p1, p2}
  MaxRegistrations = 2
  NoRow = NoRow
SYMMETRY Symmetry
SPECIFICATION SyncSpec
INVARIANTS  CountersAgree NoOrphans
CHECK_DEADLOCK FALSE
