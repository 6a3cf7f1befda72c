INIT SeqInit
NEXT SeqNext
CONSTANTS
    WordBits = 6
    KaratsubaLow = 4
    KaratsubaSquareLow = 5
    ShortWords = 3
    ExpModTable <- MCExpModTable
    Operands <- MCOperands
    Shifts <- MCShifts
    Moduli <- MCModuli
    Keys = {1, 2, 3, 4, 5, 6}
    NULL = NULL
    NoIter = NoIter
    h1 = h1
    h2 = h2
    Heaps <- MCHeaps
    Entries = {1, 2, 3, 4, 5, 6, 7, 8}
    HeapKeys = {1, 2}
    MaxSets = 4
    MaxChanges = 2
    Prefills = {0, 8}
    NoEntry = NoEntry
    SmallChars = 2
    CharMax = 8
    OtherSets <- MCOtherSets
    MaxCharOps = 4
    Tables = {1, 2}
    HashKeys = {1, 2, 3}
    HashValues = {1, 2}
    Hash <- MCHash
    HashBits = 4
    MaxAvgChain = 1
    ExtendBits = 1
    DefaultLog2 = 1
    InitSizes = {1, 3}
    NoValue = 0
    MaxHashOps = 5
    CacheKeys = {1, 2, 3, 4, 5}
    MaxSize = 3
INVARIANTS ResultsExact ModularExact TreeMapExact RedBlackUntilDelete RingsIntact HeapExact CharSetExact TablesExact KeepsRecent
PROPERTIES IterationInOrder
CHECK_DEADLOCK FALSE
