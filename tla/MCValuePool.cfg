SPECIFICATION Spec
CONSTANTS
    Workers = {w1, w2}
    Values = {a, b}
    NoValue = NoValue
    NoWorker = NoWorker
    MaxIds = 3
    MaxOps = 3
INVARIANTS
    TypeOK
    SidesAgree
PROPERTIES
    ImplementsAtomicPool
    CallsReturn
