SPECIFICATION Spec
CONSTANTS
    c1 = c1
    c2 = c2
    p1 = p1
    p2 = p2
    g1 = g1
    Groups = {g1}
    Consumers = {c1, c2}
    Partitions = {p1, p2}
    GroupOf <- OneGroup
    NoPartition = NoPartition
    Poison <- SecondIsPoison
    Killable = {c1, c2}
    CommitMayFail = TRUE
    MaxPoll = 2
    MaxOffset = 2
    MaxRebalances = 1
SYMMETRY ConsumerSymmetry
INVARIANTS
    CommitJustified
PROPERTIES
    CommitNeverRegresses
