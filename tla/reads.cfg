CONSTANTS
    m1 = m1
    m2 = m2
    r1 = r1
    r2 = r2
    u = u
    p = p
    c = c
    k = k
    Memories = {m1, m2, r1, r2, u}
    Requests <- MCRequests
    Batches <- MCBatches
    Unverifiable = {m1, m2, u}
    Depth = 2
    MaxApplying = 2
    Library <- MCLibrary
    Queries <- MCQueries
    Nearest = 4
    Precision = 600
SPECIFICATION FairGraphSpec
INVARIANTS
    GraphTypeOK
    ValidIsSigned
    TraceFaithful
    TrustDecides
PROPERTIES
    OnlyOrphansHidden
    EdgesRecover
