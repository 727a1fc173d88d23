SPECIFICATION Spec
CONSTANTS
    Work = work
    FileSets = {page1, page2}
    Workers = {w1, w2}
    Nothing = Nothing
    Mixes <- SmoothOrFailing
SYMMETRY Symmetry
CONSTRAINT Timely
INVARIANTS
    TypeOK
    DoneAsAsked
    PreservedAgain
    BinariesThere
PROPERTIES
    NeverLost
CHECK_DEADLOCK FALSE
