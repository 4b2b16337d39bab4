CONSTANTS
    A = A
    B = B
    C = C
    x = x
    y = y
    Peers <- PairPeers
    Namespaces = {x, y}
    Registry <- PairRegistry
    Common <- PairCommon
    Refuses <- Nobody
    Staged = FALSE
    MaxSchema = 2
    MaxLate = 1
SPECIFICATION Spec
INVARIANTS
    TypeOK
    DriftContained
