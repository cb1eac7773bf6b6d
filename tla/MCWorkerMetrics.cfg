SPECIFICATION Spec
CONSTANTS
    Handler = {h1, h2, h3}
    Nobody = Nobody
    MaxRequests = 4
INVARIANTS
    ExactWhenIdle
    ScrapeCountsCompleted
PROPERTY
    AllRecorded
CHECK_DEADLOCK FALSE
