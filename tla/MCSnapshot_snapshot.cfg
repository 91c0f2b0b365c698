CONSTANTS
    Log <- MCLog
    SnapshotThreshold = 2
    MaxEvents = 2
SPECIFICATION Spec
INVARIANTS
    StoreIsAPrefix
    RestartSucceeds
    AckedEntriesKept
    ConfigIsLatest
PROPERTIES
    NeverGoesBack
    CatchesUp
CHECK_DEADLOCK FALSE
