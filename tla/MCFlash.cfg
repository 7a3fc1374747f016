SPECIFICATION Spec
CONSTANTS
    NSectors = 2
    blank = blank
    data = data
    torn = torn
    keep = keep
    Values <- MCValues
    Blank = blank
    Torn = torn
    Keep = keep
    MaxFaults = 2
    MaxJournals = 2
INVARIANTS
    TypeOK
    Recoverable
    NoStaleRun
    Borrowed
PROPERTIES
    Atomic
    UnsafeUntilVerified
