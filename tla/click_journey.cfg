SPECIFICATION JourneySpec
CONSTANTS
    main = main
    primary = primary
    spare = spare
    click1 = click1
    click2 = click2
    other = other
    Groups = {"primary"}
    Consumers = {primary, spare}
    Partitions = {main}
    GroupOf <- OneGroup
    NoPartition = NoPartition
    Poison <- NoPoison
    Killable = {}
    CommitMayFail = TRUE
    MaxPoll = 2
    MaxOffset = 2
    MaxRebalances = 1
    Events = {click1, click2, other}
    Kind <- Kinds
    Main = main
    Tier <- NoTiers
    MaxRetries = 0
    EnforceDelay = FALSE
    RedisFails = TRUE
    PublishFails = FALSE
    Requests = {1, 2}
    Invalid = {2}
    EventId <- ClickIds
    Core = 1
    MaxThreads = 1
    Capacity = 1
    Window = 1
    MinSamples = 1
    BlockWindow = 1
    BlockThreshold = 1
    AgeLimit = 1
    Wrap = 2
INVARIANTS
    EffectivelyOnce
    AnswersAreKept
SYMMETRY Processes
