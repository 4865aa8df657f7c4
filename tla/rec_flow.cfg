SPECIFICATION FairFlowSpec
CONSTANTS
    r1 = r1
    r2 = r2
    r3 = r3
    ann = ann
    q1 = q1
    i1 = i1
    i2 = i2
    Requests = {r1, r2}
    Kind <- OneText
    QueryOf <- SameQuery
    UserOf <- AnnAndAnonymous
    Queries = {q1}
    Users = {ann}
    NoQuery = NoQuery
    NoUser = NoUser
    NoReason = NoReason
    NoEntry = NoEntry
    Items = {i1, i2}
    Missing = {i2}
    Rankings <- OneRanking
    PopularLists <- OnePopular
    K = 1
    Window = 2
    MinCalls = 2
    HalfOpenCalls = 1
    MaxLoads = 1
INVARIANTS
    RankedForSelf
    AbsenceIsReal
    HalfOpenNotStuck
PROPERTIES
    EveryRequestAnswered
CHECK_DEADLOCK FALSE
