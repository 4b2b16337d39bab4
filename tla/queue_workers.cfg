CONSTANTS
    s1 = s1
    s2 = s2
    r1 = r1
    r2 = r2
    w1 = w1
    w2 = w2
    Memories = {s1, s2, r1}
    Stored = {s1, s2}
    Workers = {w1, w2}
    Unembeddable = {s2}
    QueueLimit = 2
    EnqueueLimit = 1
    MaxPending = 2
SPECIFICATION Spec
INVARIANTS
    TypeOK
    StoredCovered
