SPECIFICATION Spec
CONSTANTS
  NumSnapshots = 1
  MaxCaptures = 2
  MaxNotify = 1
CHECK_DEADLOCK FALSE
INVARIANT
  SnapshotModeEnabled
