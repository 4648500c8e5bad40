SPECIFICATION Spec
CHECK_DEADLOCK FALSE
CONSTANTS
    MaxJobs = 3
    MaxSessions = 2
    Outstanding = 1
    Faults = {"configFails", "fillFails", "encodeError"}
INVARIANTS
    TypeOK
    AnsweredOnce
    AbortIsSync
PROPERTIES
    
    EveryJobEnds
    CallsReturn
