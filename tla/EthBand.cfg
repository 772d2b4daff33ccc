CONSTANTS
    HourTicks = 1
    BarTicks = 1
    MaxAge = 1
    Cooldown = 2
    Need = 2
    Confirm = 1
    MinHolding = 2
    Capital = 400
    MaxLoss = 20
    EpisodeLoss = 8
    PauseLoss = 12
    LossBudget = 2
    LossCap = 19
    Equities = {400, 390, 380}
    MaxTime = 4
    MaxFaults = 2
SPECIFICATION Spec
INVARIANTS
    Consistent
    EntryEarned
    EpisodeLossBounded
    LossAnchored
PROPERTIES
    HaltIsFinal
