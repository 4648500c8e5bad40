SPECIFICATION Spec
CHECK_DEADLOCK FALSE
CONSTANTS
    MaxJobs = 2
    MaxSessions = 2
    Outstanding = 1
    Faults = {"needsBuffers"}
PROPERTIES
    CallsReturn
