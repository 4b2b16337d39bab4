CONSTANTS
    A = A
    B = B
    C = C
    x = x
    y = y
    a1 = a1
    a2 = a2
    b1 = b1
    b2 = b2
    f = f
    g = g
    None = None
    Peers <- PairPeers
    Memories <- Duo
    Namespaces = {x}
    NsOf <- DuoNs
    HomeOf <- DuoHome
    OriginOf <- DuoHome
    Replaces <- DuoReplaces
    RelatesTo <- DuoRelates
    Artifacts = {}
    Mentions <- DuoMentions
    Describes <- DuoMentions
    SignallerOf <- DuoSignaller
    Rank <- XRank
    Local <- PairLocal
    Allow <- PairAllow
    Keyring <- PairKeyring
    BatchLimit = 2
    MaxLate = 0
SPECIFICATION FairSpec
PROPERTIES
    Convergence
