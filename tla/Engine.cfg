CONSTANTS
    core = core
    narrow = narrow
    Layers = {core, narrow}
    HourTicks = 1
    Grace = 1
    Late = {3}
    Cooldown = 2
    StepTime = 1
    Need = 2
    Full = 2
    MaxTime = 3
    MaxCrashes = 1
    MaxReads = 1
    Null = Null
SPECIFICATION FairSpec
INVARIANTS
    Consistent
    EntryHistoryTrue
    ActiveMeansDeployed
PROPERTIES
    HaltIsFinal
    PauseServed
    WorkflowEnds
