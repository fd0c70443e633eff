SPECIFICATION FairReloadSpec
CONSTANTS
    Threads = {t1, t2}
    None = None
    Configs <- Files
    Defaults <- Empty
    MaxHups = 2
INVARIANTS ReloadTypeOK PathIsWhole
