SPECIFICATION Spec
CONSTANTS
    Service = {"service-b", "cpp-worker", "service-a"}
    Attempts = 3
    MaxCrashes = 2
INVARIANTS
    TypeOK
    ZeroIsEarned
    WatchedStackExists
PROPERTY
    NoDownIsKept
    StartUpEnds
CHECK_DEADLOCK FALSE
