SPECIFICATION ClickSpec
CONSTANTS
    main = main
    tier1 = tier1
    tier2 = tier2
    primary = primary
    spare = spare
    retry = retry
    e1 = e1
    e2 = e2
    Groups = {"primary", "retry"}
    Consumers = {primary, retry}
    Partitions = {main, tier1}
    GroupOf <- Modes
    NoPartition = NoPartition
    Poison <- NoPoison
    Killable = {}
    CommitMayFail = TRUE
    MaxPoll = 1
    MaxOffset = 2
    MaxRebalances = 0
    Events = {e1, e2}
    Kind <- AllValid
    Main = main
    Tier <- OneTier
    MaxRetries = 1
    EnforceDelay = TRUE
    RedisFails = TRUE
    PublishFails = FALSE
INVARIANTS
    NoSilentLoss
