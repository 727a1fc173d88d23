SPECIFICATION FairSpec
CONSTANTS
    Work = w
    FileSets = {f1}
    Parents = {p}
    Top = top
    NoPlace = none
    NoObject = noObject
    Workers = {t1}
    MaxSaves = 2
    MaxMoves = 0
    MaxTakedowns = 0
    MaxErrors = 1
INVARIANTS AllKept
PROPERTIES EveryVersionRecorded
CHECK_DEADLOCK FALSE
