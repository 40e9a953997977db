SPECIFICATION Spec
CONSTANTS
    MaxDepth = 2
INVARIANT
    InvokeReports
