SPECIFICATION Spec
CONSTANTS
    Requests <- FourClicks
    Invalid <- LastInvalid
    Core = 1
    MaxThreads = 2
    Capacity = 1
    Window = 2
    MinSamples = 2
    BlockWindow = 1
    BlockThreshold = 1
    AgeLimit = 1
    Wrap = 2
INVARIANTS
    IngestTypeOK
    AcknowledgedIsStored
    RefusedIsUnsent
    OutcomesAreReal
    NothingWaitsForKafka
CHECK_DEADLOCK FALSE
