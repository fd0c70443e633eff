CONSTANTS
    Fds = {f1, f2}
    Clients = {c1, c2, c3}
    Helpers = {h1, h2}
    Main = Main
    None = None
    Environment = {"kick", "failed_handshake"}
SPECIFICATION Spec
INVARIANTS NoUseAfterFree OwnConnection ListsAgree
SYMMETRY Symmetry
CHECK_DEADLOCK FALSE
