SPECIFICATION FairReloadSpec
CONSTANTS
    Threads = {t1}
    None = None
    Configs <- Files
    Defaults <- Empty
    MaxHups = 3
PROPERTIES ListedAreToldAlways
