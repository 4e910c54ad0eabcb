SPECIFICATION Spec
CONSTANTS
    Pods = {p1}
    Nodes = {n1, n2}
    Unknown = Unknown
    Signatures <- MCSignatures
    Insights <- MCInsights
    Callers = {c1, c2}
    CacheTTL = 2
    CallTime = 1
    MaxMigrations = 2
INVARIANTS
    ServedIsFresh
    LoadedNodeGetsAdvice
    GPUDecisionIsSettled
    WeightsAgree
SYMMETRY Symmetry
CHECK_DEADLOCK FALSE
