SPECIFICATION Spec
CONSTANTS
    Top = 4
    BadWords = {2}
    Page = 2
    Chunk = 1
    Batch = 3
    PacketCount = 2
    Registers = {0, 5}
    Padded = TRUE
    MaxFaults = 2
    MaxLeft = 1
INVARIANTS
    InStep
    WorkDone
    CurApTrue
    WrittenPrefix
    ReconnectInStep
PROPERTIES
    EveryCallReturns
