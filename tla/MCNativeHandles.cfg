SPECIFICATION Spec
CONSTANTS
    Wrappers = {run, blob}
    Goroutines = {g1, g2, g3}
INVARIANTS
    NoUseAfterFree
    FreedOnce
    OutputReachesWriter
PROPERTY
    NothingLeaks
CHECK_DEADLOCK FALSE
