SPECIFICATION FairLocksSpec
CONSTANTS
    Helpers = {h1, h2}
    Main = Main
    None = None
    Signalled = {}
    Silent = {h1}
    Submitters = {}
    MaxHups = 0
PROPERTIES EveryCallEnds
CHECK_DEADLOCK FALSE
