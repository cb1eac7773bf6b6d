SPECIFICATION GatewaySpec
CONSTANTS
    NumItems = 3
    Attempts = 2
    Concurrency = 2
    Service = {s1, s2, s3}
INVARIANTS
    InFlightBounded
    StatusIsTrue
    ResultIsEarned
    HealthIsTrue
PROPERTIES
    ClientIsAnswered
    AbandonedWorkEnds
CHECK_DEADLOCK FALSE
