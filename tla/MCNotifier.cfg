SPECIFICATION Spec
CONSTANTS
  NumSnapshots = 2
  MaxCaptures = 2
  MaxNotify = 1
CHECK_DEADLOCK FALSE
INVARIANTS
  TypeOK
  CapturesAreNotMixed
  DoneMeansAllProduced
PROPERTIES
  ExitJoins
  CaptureEnds
