SPECIFICATION Spec
CONSTANTS
    Request = {r1, r2}
    Workers = 3
    MaxItems = 5
INVARIANTS
    AnswerIsWholeSum
    NoDanglingReference
PROPERTY EveryRequestAnswered
CHECK_DEADLOCK FALSE
