INIT HashInit
NEXT HashNext
CONSTANTS
    Tables = {1, 2}
    HashKeys = {1, 2, 3, 4}
    HashValues = {1}
    Hash <- MCHash
    HashBits = 4
    MaxAvgChain = 3
    ExtendBits = 2
    DefaultLog2 = 2
    InitSizes = {1}
    NoValue = 0
    MaxHashOps = 5
INVARIANT CopyFindsItsKeys
CHECK_DEADLOCK FALSE
