SPECIFICATION FairSpec
CONSTANTS
    Layers = {l1, l2}
    Null = Null
    HourTicks = 1
    Grace = 1
    Cooldown = 1
    StepTime = 1
    Need = 1
    Full = 1
    MaxTime = 2
    MaxFaults = 1
PROPERTIES
    InterruptedExits
