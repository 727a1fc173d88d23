SPECIFICATION FairSpec
CONSTANTS
    Files = {page1}
    Folders = {chapter1}
    Root = Root
    Nothing = Nothing
    Stored <- SomeTrees
    MaxCopies = 2
    MaxSaves = 2
INVARIANTS
    SelectionExclusive
    SavedIsStored
PROPERTIES
    SavedWhole
    SavesEnd
