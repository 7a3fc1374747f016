SPECIFICATION MCSpec
CONSTANTS
    Ram = {1, 2}
    Flash = {4, 5}
    Code = {"x", "y"}
    MaxFaults = 1
INVARIANTS
    TornFlashStaysHalted
