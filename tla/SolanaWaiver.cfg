SPECIFICATION Spec
CONSTANTS
    Layers = {l1, l2}
    Null = Null
    HourTicks = 1
    Grace = 1
    Cooldown = 2
    StepTime = 1
    Need = 1
    Full = 1
    MaxTime = 4
    MaxFaults = 1
SYMMETRY LayerSymmetry
PROPERTIES
    CooldownAfterFirstEntry
