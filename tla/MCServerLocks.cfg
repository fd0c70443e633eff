SPECIFICATION FairLocksSpec
CONSTANTS
    Helpers = {h1, h2}
    Main = Main
    None = None
    Signalled = {Main}
    Silent = {}
    Submitters = {h1}
    MaxHups = 1
INVARIANTS OnlyKnownCycles
PROPERTIES EveryCallEnds
CHECK_DEADLOCK FALSE
