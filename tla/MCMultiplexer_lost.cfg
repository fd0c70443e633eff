CONSTANTS
    Conns = {f1, f2}
    Kickable = {f1}
    Listener = Listener
    None = None
    InitialSize = 1
    UIntMax = 15
SPECIFICATION FairSpec
INVARIANTS TypeOK
PROPERTIES AddEnds
CHECK_DEADLOCK FALSE
