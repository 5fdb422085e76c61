CONSTANTS
    Writers = {w1, w2}
    Files = {f1, f2, f3, f4}
    NoFile = NoFile
    Original = Original
    Torn = Torn
    Foreign = Foreign
SYMMETRY Symmetry
SPECIFICATION Spec
INVARIANTS
    TypeOK
    CardStands
PROPERTIES
    InstallsItsOwn
    FilesAreKept
