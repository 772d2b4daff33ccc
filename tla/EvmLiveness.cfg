SPECIFICATION FairSpec
CONSTANTS
    Txs = {t1, t2}
    Null = Null
    Confirmations = 1
    MaxHashes = 2
    MaxBlocks = 3
    MaxFaults = 1
PROPERTY ConfirmedIsReleased
