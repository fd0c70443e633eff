SPECIFICATION FilesSpec
CONSTANTS
    Helpers = {h1, h2}
    Names = {a, b}
    NoName = NoName
    FileSize = 2
    Named <- FinalPaths
SYMMETRY Symmetry
INVARIANTS FilesTypeOK EveryPublishedIsWhole
