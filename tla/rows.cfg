SPECIFICATION Spec
CONSTANTS
    o1 = o1
    o2 = o2
    None = None
    Headers <- MCHeaders
    OrderList <- MCOrderList
    Contents <- MCContents
    Configs <- MCConfigs
    RowTable <- MCRowTable
    DefaultMarket = "DE"
    MaxRows = 3
    MaxRuns = 2
    MaxChanges = 3
    MaxEdits = 1
    BatchSize = 2
    ChunkSize = 2
INVARIANTS OtherCellsKept NoDuplicateKeys ModeRespected RowsFollowRules
CHECK_DEADLOCK FALSE
