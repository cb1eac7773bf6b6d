SPECIFICATION Spec
CONSTANTS
    NumItems = 4
    Workers = 3
INVARIANTS
    JoinMeansDone
    AnswerIsInOrder
PROPERTY
    ImplementsParallelMap
CHECK_DEADLOCK FALSE
