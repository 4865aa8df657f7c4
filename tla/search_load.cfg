SPECIFICATION Spec
CONSTANTS
    r1 = r1
    r2 = r2
    Requests <- TwoRequests
    Calls <- TwoCalls
    Cap <- CapOne
    Starts <- OneStart
    Asks <- FewAsks
    Configs <- FullSetting
    K = 1
    RecallK = 1
    MaxDocs = 1
    Recalls <- OneRecall
    Meta <- MCMeta
    Unreadable = {}
    PopularLists <- MCPopular
    Scores = {1}
    Snapshots <- OneSnapshot
INVARIANTS
    CallsAreAwaited
    ReaderSound
CHECK_DEADLOCK FALSE
