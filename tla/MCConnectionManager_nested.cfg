CONSTANTS
    Fds = {f1, f2}
    Clients = {c1, c2, c3}
    Helpers = {h1, h2}
    Main = Main
    None = None
    Environment = {}
SPECIFICATION FairSpec
INVARIANTS TypeOK
PROPERTIES WriterGetsIn
CHECK_DEADLOCK FALSE
