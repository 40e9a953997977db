SPECIFICATION Spec
CONSTANTS
    MaxDepth = 4
INVARIANTS
    AbortedFramesUnwind
    VerdictIsWhatWasRaised
    PanicsFollowPolicy
