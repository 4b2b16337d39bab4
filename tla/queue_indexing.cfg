CONSTANTS
    s1 = s1
    s2 = s2
    r1 = r1
    r2 = r2
    w1 = w1
    w2 = w2
    Memories = {s1, r1, r2}
    Stored = {s1}
    Workers = {w1}
    Unembeddable = {}
    QueueLimit = 1
    EnqueueLimit = 1
    MaxPending = 2
SPECIFICATION FairSpec
PROPERTIES
    ReceivedIndexed
    StoredIndexed
