SPECIFICATION InjectorSpec
CONSTANTS
    NumTargets = 2
    MaxFaults = 3
    Call = {c1, c2, c3}
    Allowed = {1}
    Threads = 2
INVARIANTS
    AllowListHolds
    AnswerIsTrue
    KillSticks
PROPERTY CallsAreAnswered
CHECK_DEADLOCK FALSE
