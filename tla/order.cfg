SPECIFICATION FairSpec
CONSTANTS
    Members = {page1, page2}
    Others = {page3}
    Labels = {old, new}
    Nothing = Nothing
    Resource = Resource
    MaxObjects = 3
    MaxSelected = 2
    MaxSaves = 2
CONSTRAINT Narrow
INVARIANTS
    NoMemberLost
    MembersOnce
    UnsavedIsSaveable
PROPERTIES
    SavesReorder
    SavesEnd
