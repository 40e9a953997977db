SPECIFICATION TestsSpec
CONSTANTS
    Origins = {here, there}
    NoOrigin = NoOrigin
    MaxCases = 3
    Tests = {t1, t2}
    NoTest = NoTest
    Slices <- ModelSlices
    Spares = {0, 1, 2, 3}
    CommandLines <- ModelCommandLines
    Profiles <- ModelProfiles
    Unreadable = {"nosuch"}
    Rejected = {"refused"}
INVARIANTS
    TestsTypeOK
    CompletedBeforeNext
    NoFailurePasses
    CapturedByOrigin
    EveryFailureReported
    BlobSurvivesPanics
    OwnSettingsUnlessShared
SYMMETRY TestSymmetry
