CONSTANTS
    A = A
    B = B
    C = C
    x = x
    y = y
    a1 = a1
    a2 = a2
    b1 = b1
    b2 = b2
    f = f
    g = g
    None = None
    Peers <- PairPeers
    Memories <- Chain
    Namespaces = {x}
    NsOf <- ChainNs
    HomeOf <- ChainHome
    OriginOf <- ChainHome
    Replaces <- ChainReplaces
    RelatesTo <- ChainRelates
    Artifacts = {f}
    Mentions <- ChainMentions
    Describes <- ChainMentions
    SignallerOf <- ChainSignaller
    Rank <- XRank
    Local <- PairLocal
    Allow <- PairAllow
    Keyring <- PairKeyring
    BatchLimit = 2
    MaxLate = 1
SPECIFICATION Spec
INVARIANTS
    TypeOK
    CursorIsLogged
    OwnClaimsLogged
    SupersededHasSuccessor
    AuthorsLead
PROPERTIES
    CellsOnlyAdvance
    OnlyNewsMintsVersions
    ImplementsReplicas
