SPECIFICATION FairSpec
CONSTANTS
    r1 = r1
    r2 = r2
    Requests <- OneRequest
    Calls <- OneCalls
    Cap <- CapOne
    Starts <- MCStarts
    Asks <- AllAsks
    Configs <- AllSettings
    K = 2
    RecallK = 3
    MaxDocs = 3
    Recalls <- MCRecalls
    Meta <- MCMeta
    Unreadable = {2}
    PopularLists <- MCPopular
    Scores <- MCScores
    Snapshots <- MCSnapshots
INVARIANTS
    PipelineTypeOK
    NoDuplicates
    FiltersHonoured
    SourcesTrue
    MergeRespectsRecalls
    BoostMonotone
    SubstituteExplained
PROPERTIES
    EveryRequestAnswered
    ReaderRecovers
CHECK_DEADLOCK FALSE
