CONSTANTS
    n1 = n1
    o1 = o1
    old = old
    dd5 = dd5
    Nfts = {n1}
    Oids = {o1}
    Strategies = {old, dd5}
    Profiles = {dd5}
    MaxShort = 2
    Null = Null
SPECIFICATION Spec
INVARIANTS
    Consistent
    VerifiedMeansFlat
    OwnParameters
    AlwaysResumable
PROPERTIES
    ClearedIsArchived
