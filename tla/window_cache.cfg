SPECIFICATION Spec
CONSTANTS
    r1 = r1
    r2 = r2
    p1 = p1
    a = a
    Readers <- TwoReaders
    Replicas <- OneReplica
    Replica <- SharedReplica
    Pods <- OnePod
    Horizon = 2
    Second = 2
    Width = 2
    Ttl = 2
    Lease = 1
    Retry = 1
INVARIANTS
    CachedKeyLives
    EventsHaveBuilder
SYMMETRY SymmetricReaders
CHECK_DEADLOCK FALSE
