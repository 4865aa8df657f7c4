SPECIFICATION Spec
CONSTANTS
    Click <- MCClick
    Items <- TwoItems
    Catalogues <- MCCatalogues
    Seeds <- MCSeeds
    Horizon = 4
    Retention = 3
    DedupeWindow = 3
    Width = 2
    BucketCount = 2
    BucketTtl = 4
    CacheSize = 1
    CacheTtl = 2
    PopularMax = 1
    RecentMax = 2
    One = 1024
INVARIANTS
    UpsertTypeOK
    WindowExact
    DecayHonest
    CapKeepsHottest
    CategoryFresh
CHECK_DEADLOCK FALSE
