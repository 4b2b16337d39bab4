CONSTANTS
    A = A
    B = B
    C = C
    x = x
    y = y
    Peers <- StarPeers
    Namespaces = {x}
    Registry <- StarRegistry
    Common <- StarCommon
    Refuses <- Nobody
    Staged = FALSE
    MaxSchema = 2
    MaxLate = 1
SPECIFICATION FairSpec
PROPERTIES
    EveryPeerServed
    FencesLift
