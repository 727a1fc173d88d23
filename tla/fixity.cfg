SPECIFICATION FairSpec
CONSTANTS
    Workers = {w1, w2}
    MaxRetries = 2
    Ids = {1, 2, 3, 4, 5, 6}
    Mixes <- PairsOfTroubles
INVARIANTS
    TypeOK
    OneRepairAtATime
PROPERTIES
    GoodCopiesKept
    Settles
