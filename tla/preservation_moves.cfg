SPECIFICATION Spec
CONSTANTS
    Work = w
    FileSets = {f1}
    Parents = {p, q}
    Top = top
    NoPlace = none
    NoObject = noObject
    Workers = {t1}
    MaxSaves = 1
    MaxMoves = 2
    MaxTakedowns = 0
    MaxErrors = 0
INVARIANTS MetadataKept NothingLeftBehind
CHECK_DEADLOCK FALSE
