SPECIFICATION ClickSpec
CONSTANTS
    main = main
    tier1 = tier1
    tier2 = tier2
    primary = primary
    spare = spare
    retry = retry
    e1 = e1
    e2 = e2
    Groups = {"primary", "retry"}
    Consumers = {primary, retry}
    Partitions = {main, tier1, tier2}
    GroupOf <- Modes
    NoPartition = NoPartition
    Poison <- NoPoison
    Killable = {retry}
    CommitMayFail = FALSE
    MaxPoll = 1
    MaxOffset = 2
    MaxRebalances = 0
    Events = {e1, e2}
    Kind <- OneRaising
    Main = main
    Tier <- TwoTiers
    MaxRetries = 2
    EnforceDelay = TRUE
    RedisFails = TRUE
    PublishFails = TRUE
INVARIANTS
    NoUnexplainedLoss
    DeadLetterEarned
    MarkerTellsTruth
PROPERTIES
    KeepsPromise
