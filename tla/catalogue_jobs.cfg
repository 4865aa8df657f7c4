SPECIFICATION Spec
CONSTANTS
    Articles <- MCArticles
    Pictured <- MCPictured
    Dims = {384, 1024}
    ExpectedDim = 384
    BatchSize = 2
INVARIANTS
    JobsTypeOK
    FoundItemsHaveMetadata
    CompleteMeansWhole
PROPERTIES
    ImagesDroppedForValid
