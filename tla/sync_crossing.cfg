CONSTANTS
    A = A
    B = B
    C = C
    x = x
    y = y
    a1 = a1
    a2 = a2
    b1 = b1
    b2 = b2
    f = f
    g = g
    None = None
    Peers <- LinePeers
    Memories <- Crossing
    Namespaces = {x, y}
    NsOf <- CrossingNs
    HomeOf <- CrossingHome
    OriginOf <- CrossingHome
    Replaces <- CrossingReplaces
    RelatesTo <- CrossingRelates
    Artifacts = {}
    Mentions <- CrossingMentions
    Describes <- CrossingMentions
    SignallerOf <- CrossingSignaller
    Rank <- XYRank
    Local <- LineLocal
    Allow <- LineAllow
    Keyring <- FullKeyring
    BatchLimit = 2
    MaxLate = 0
SPECIFICATION Spec
INVARIANTS
    NamespaceIsolation
