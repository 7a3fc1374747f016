SPECIFICATION Spec
CONSTANTS
    NSectors = 2
    blank = blank
    data = data
    torn = torn
    keep = keep
    Values <- MCValues
    Blank = blank
    Torn = torn
    Keep = keep
    MaxFaults = 2
    MaxJournals = 2
PROPERTIES
    RefusesAfterFailure
