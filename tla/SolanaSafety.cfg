SPECIFICATION Spec
CONSTANTS
    Layers = {l1, l2}
    Null = Null
    HourTicks = 1
    Grace = 1
    Cooldown = 2
    StepTime = 1
    Need = 2
    Full = 2
    MaxTime = 5
    MaxFaults = 1
SYMMETRY LayerSymmetry
INVARIANTS
    Consistent
    OneUnresolvedSignature
    RiskIsRecorded
PROPERTIES
    EntryRestsOnCalmHours
    EstablishedWaits
    SignsWithinRisk
