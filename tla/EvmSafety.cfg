SPECIFICATION Spec
CONSTANTS
    Txs = {t1, t2, t3}
    Null = Null
    Confirmations = 1
    MaxHashes = 2
    MaxBlocks = 4
    MaxFaults = 2
SYMMETRY Symmetry
INVARIANTS
    FilesAgree
    OneOperationPerNonce
    UnsettledIsRecorded
PROPERTIES
    ReleasedWhenConfirmed
