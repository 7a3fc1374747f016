SPECIFICATION Spec
CONSTANTS
    Top = 4
    Words = {0, 1}
    MaxFaults = 1
INVARIANTS
    ProgbufCacheTrue
