SPECIFICATION Spec
CONSTANTS
  Caller = {c1}
  MaxCalls = 4
  MaxSnapshots = 2
  MaxThermal = 2
  DaemonMayDie = TRUE
  FaceApi = TRUE
CHECK_DEADLOCK FALSE
INVARIANTS
  TypeOK
PROPERTIES
  AnswerIsOwn
  CallsReturn
  NotifierReturns
