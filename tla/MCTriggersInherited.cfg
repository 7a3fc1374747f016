SPECIFICATION Spec
CONSTANTS
    NSlots = 3
    entry = entry
    other = other
    w1 = w1
    w2 = w2
    Addrs <- MCAddrs
    ExcAddr = entry
    Elsewhere = other
    Watches <- MCWatches
    Need <- MCNeed
    MaxFaults = 1
INVARIANTS
    ToldIsArmed
