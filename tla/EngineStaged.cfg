CONSTANTS
    core = core
    narrow = narrow
    Layers = {core}
    HourTicks = 2
    Grace = 1
    Late = {2, 3}
    Cooldown = 4
    StepTime = 1
    Need = 2
    Full = 2
    MaxTime = 6
    MaxCrashes = 0
    MaxReads = 0
    Null = Null
SPECIFICATION Spec
INVARIANT RecoveryIsStaged
