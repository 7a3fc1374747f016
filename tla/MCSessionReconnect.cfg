SPECIFICATION ReconnectingSpec
CONSTANTS
    MaxDrops = 1
    MaxFaults = 0
    MaxResends = 0
    MaxUnread = 1
PROPERTIES
    ReconnectGivesSession
