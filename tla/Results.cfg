\* The four result classes: sums that never break, errors that are never lost.
CONSTANTS
    Values = {v1, v2}
    Moved = moved
    Void = void
    MaxDepth = 3
    MaxErr = 2
    Throwing = {"emplace"}
SPECIFICATION Spec
INVARIANTS TypeOK NothingLost ThrowerIsQuiet
PROPERTIES ImplementsSum
\* std::terminate ends the process.
CHECK_DEADLOCK FALSE
