SPECIFICATION Spec
CONSTANTS
    NumItems = 2
    Attempts = 2
    Concurrency = 2
INVARIANT ConcurrencyIsTheMaximum
CHECK_DEADLOCK FALSE
