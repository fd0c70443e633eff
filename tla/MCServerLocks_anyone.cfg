SPECIFICATION LocksSpec
CONSTANTS
    Helpers = {h1, h2}
    Main = Main
    None = None
    Signalled = {Main, h1, h2}
    Silent = {}
    Submitters = {h1}
    MaxHups = 2
INVARIANTS LocksTypeOK OnlyKnownCycles
CHECK_DEADLOCK FALSE
