SPECIFICATION PatientSpec
CONSTANTS
    MaxDrops = 1
    MaxFaults = 1
    MaxResends = 1
    MaxUnread = 2
INVARIANTS
    RepliesMatch
    StoppedMeansHalted
PROPERTIES
    EveryRequestAnswered
    SessionsEnd
    Interruptible
