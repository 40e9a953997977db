SPECIFICATION Spec
CONSTANTS
    Origins = {here, there}
    NoOrigin = NoOrigin
    MaxCases = 3
INVARIANT
    BlobEvenIfReplayPanics
