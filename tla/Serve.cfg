SPECIFICATION Spec
CONSTANTS
    n1 = n1
    n2 = n2
    Pods = {p1}
    Nodes = {n1, n2}
    NoNode = NoNode
    Unknown = Unknown
    Streams = {s1, s2}
    Signatures <- MCSignatures
    Insights <- MCInsights
    MaxRecent = 2
    MaxReports = 4
INVARIANTS
    RecentIsFull
    GPUNodesComeFirst
PROPERTY AcknowledgedIsUsed
