SPECIFICATION ControlSpec
CONSTANTS
    NumTargets = 1
    MaxFaults = 2
    FailureThreshold = 2
    Call = {c1, c2}
    Allowed = {1}
    Threads = 2
PROPERTIES
    WatcherUndisturbed
    KilledComesBack
CHECK_DEADLOCK FALSE
