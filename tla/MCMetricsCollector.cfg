SPECIFICATION Spec
CONSTANTS
    Service = {s1, s2}
    MaxTicks = 2
    MaxRequests = 2
    MaxDeaths = 2
INVARIANTS
    TypeOK
    CurrentIsNewest
    LossIsBounded
    CountsAreTrue
PROPERTY SignalEndsLoop
CHECK_DEADLOCK FALSE
