SPECIFICATION Spec
CONSTANTS
    NumTargets = 2
    MaxFaults = 3
    FailureThreshold = 2
INVARIANTS
    EscalatesOnlyAfterThreshold
    DetectsWithinThreshold
PROPERTIES
    ImplementsSelfHealing
    StopsWhenAsked
CHECK_DEADLOCK FALSE
