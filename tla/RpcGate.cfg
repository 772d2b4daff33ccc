CONSTANTS
    Callers = {a, b}
    None = None
    Intervals = {1, 2}
    Budget = 3
    Attempts = 3
    Base = 2
    Longest = 4
    RetryAfters = {0, 5}
    Settled = 3
    MaxFailures = 2
SPECIFICATION FairSpec
INVARIANTS
    Consistent
PROPERTIES
    EndpointSpared
    BackoffSettles
    CallEnds
