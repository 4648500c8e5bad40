SPECIFICATION Spec
CHECK_DEADLOCK FALSE
CONSTANTS
    Buf = {b1, b2}
    Bundled = TRUE
    HasCb = TRUE
    MaxStarts = 2
    Preemption = FALSE
INVARIANTS
    TypeOK
    RefcntIsHolders
    NoHeldBufferInKernel
    
PROPERTIES
    EveryFrameReturns
