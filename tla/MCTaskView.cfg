SPECIFICATION Spec
CONSTANTS
    Slots = {1, 2}
    Names = {n1, n2}
    MaxThread = 3
    MaxFaults = 1
SYMMETRY MCSymmetry
INVARIANTS
    ViewTrue
    NumbersName
    WritesReachTheirTask
    OfflineTrue
