SPECIFICATION FairSpec
CONSTANTS
    Work = w
    FileSets = {f1}
    Parents = {p}
    Top = top
    NoPlace = none
    NoObject = noObject
    Workers = {t1, t2}
    MaxSaves = 1
    MaxMoves = 0
    MaxTakedowns = 1
    MaxErrors = 1
INVARIANTS FirstPreservationAlone CurrentNamesBinary
PROPERTIES BinaryNodesKept JobsRunOut
CHECK_DEADLOCK FALSE
