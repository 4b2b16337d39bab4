CONSTANTS
    a = a
    b = b
    x = x
    y = y
    f = f
    None = None
    Sessions = {a, b}
    Namespaces = {x, y}
    Artifacts = {f}
    LocalFiles = {f}
    Requests <- MCRequests
    Promotions <- MCPromotions
    MaxMemories = 3
SPECIFICATION Spec
INVARIANTS
    TypeOK
    Provenance
    ApprovedOnce
    RelationsExplained
    ChunksDisjoint
PROPERTIES
    ReviewIsFinal
CHECK_DEADLOCK FALSE
