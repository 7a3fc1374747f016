SPECIFICATION Spec
CONSTANTS
    Limit = 16
    Powers <- MCPowers
    MaxWatches = 1
    SectorSize = 2
    FlashSize = 8
    MaxErases = 3
    MaxWrites = 3
INVARIANTS
    BlocksTile
    WatchesReported
    StagedFits
PROPERTIES
    LoadExact
