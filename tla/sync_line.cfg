CONSTANTS
    A = A
    B = B
    C = C
    x = x
    y = y
    a1 = a1
    a2 = a2
    b1 = b1
    b2 = b2
    f = f
    g = g
    None = None
    Peers <- LinePeers
    Memories <- Mixed
    Namespaces = {x, y}
    NsOf <- MixedNs
    HomeOf <- MixedHome
    OriginOf <- MixedOrigin
    Replaces <- MixedReplaces
    RelatesTo <- MixedRelates
    Artifacts = {f, g}
    Mentions <- MixedMentions
    Describes <- MixedMentions
    SignallerOf <- MixedSignaller
    Rank <- XYRank
    Local <- LineLocal
    Allow <- LineAllow
    Keyring <- FullKeyring
    BatchLimit = 2
    MaxLate = 0
SPECIFICATION Spec
INVARIANTS
    CursorIsLogged
    NamespaceIsolation
    ForeignClaimsVerified
    SupersededHasSuccessor
