SPECIFICATION FairSpec
CONSTANTS
    Cloids = {c1}
    Null = Null
    MaxShort = 1
    KeepTerminal = 1
    MaxFaults = 1
PROPERTIES
    LeftoverOrderCancelled
