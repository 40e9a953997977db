SPECIFICATION Spec
CONSTANTS
    MaxDepth = 1
    MaxLeaves = 1
    MaxAttempts = 1
    MaxNesting = 12
    MaxDraws = 1
INVARIANT
    RetriedFirst
