SPECIFICATION AggregatorSpec
CONSTANT MaxLines = 5
INVARIANTS
    NoChildLeftBehind
    OnlyTheTailIsDropped
PROPERTY SignalIsNoticed
CHECK_DEADLOCK FALSE
