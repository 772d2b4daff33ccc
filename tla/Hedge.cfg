SPECIFICATION FairSpec
CONSTANTS
    Cloids = {c1, c2}
    Null = Null
    MaxShort = 1
    KeepTerminal = 1
    MaxFaults = 1
INVARIANTS
    IInv
    AtMostOneLiveOrder
    VerdictIsTrue
    NeverPastTarget
PROPERTIES
    NeverResubmitted
    PendingReleasedWhenKnown
    ImplementsSingleOrder
    RecoversOrBlocks
