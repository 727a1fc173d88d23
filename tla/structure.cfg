SPECIFICATION Spec
CONSTANTS
    Files = {page1, page2}
    Folders = {chapter1, chapter2}
    Root = Root
    Nothing = Nothing
    Stored <- SomeTrees
    MaxCopies = 1
    MaxSaves = 0
SYMMETRY Symmetry
INVARIANTS
    EveryFileOnce
    
CONSTRAINT
    UpToFirstMishap
