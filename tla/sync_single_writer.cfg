CONSTANTS
    A = A
    B = B
    C = C
    x = x
    y = y
    a1 = a1
    a2 = a2
    b1 = b1
    b2 = b2
    f = f
    g = g
    None = None
    Peers <- PairPeers
    Memories <- Solo
    Namespaces = {x}
    NsOf <- SoloNs
    HomeOf <- SoloHome
    OriginOf <- SoloHome
    Replaces <- SoloReplaces
    RelatesTo <- SoloRelates
    Artifacts = {f}
    Mentions <- SoloMentions
    Describes <- SoloMentions
    SignallerOf <- SoloSignaller
    Rank <- XRank
    Local <- PairLocal
    Allow <- PairAllow
    Keyring <- PairKeyring
    BatchLimit = 2
    MaxLate = 1
SPECIFICATION FairSpec
PROPERTIES
    Convergence
