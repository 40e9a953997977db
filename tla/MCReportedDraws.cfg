SPECIFICATION Spec
CONSTANTS
    Goroutines = {g1, g2}
    Types = {t1, t2}
    Supported = {t1}
    Programs <- ModelPrograms
    Root = "a"
    OptionLists <- ModelOptions
    MaxMade = 3
    Bits = 3
    Sizes <- ModelSizes
    Keys = {"k", "nan"}
    Irreflexive = {"nan"}
    MaxLength = 2
    ByteBits = 2
    WordBytes = 2
    IntegerBits = {2, 4}
    Characters <- ModelCharacters
    Calls <- ModelCalls
    MaxCalls = 3
    Lines = {l1, l2}
    Versions = {"v1", "v2"}
    MaxEdits = 1
INVARIANTS
    TypeOK
    SameGenerator
    DefaultsFollowTypes
    SoundCollections
    PrimitivesArrive
    ReadOnce
SYMMETRY GoroutineSymmetry
