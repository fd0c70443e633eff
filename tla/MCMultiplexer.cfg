CONSTANTS
    Conns = {f1, f2, f3}
    Kickable = {f1}
    Listener = Listener
    None = None
    InitialSize = 1
    UIntMax = 15
SPECIFICATION FairSpec
INVARIANTS OneOwner NonePassedOver
PROPERTIES WatchedIsServed AddEndsUnderTraffic
CHECK_DEADLOCK FALSE
