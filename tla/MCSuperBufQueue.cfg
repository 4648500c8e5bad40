SPECIFICATION Spec
CHECK_DEADLOCK FALSE
CONSTANTS
    Stream <- MCStream
    MetaStream = "meta"
    Metadata = {"none", "future", "ready", "range"}
    NotifyMode = {"BURST", "CONTINUOUS"}
    Buffers = 4
    WaterMark = 1
    LookBack = 1
    PostFrameSkip = 1
    MaxUnmatched = 1
    FutureOffset = 2
    MaxFrame = 4
    MaxBurst = 2
    MaxCommands = 2
INVARIANTS
    TypeOK
    EveryBufferInOnePlace
    BundlesAreWhole
    QueueInOrder
    NoBundleWaitsWithARequest
    FlashOnlyWhilePending
    NoStreamStarves
