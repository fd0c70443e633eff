SPECIFICATION FairSpec
CONSTANTS
  Helpers = {h1, h2}
  Nobody = Nobody
  Names = {admin, alice}
  Admin = admin
  Data = {full}
  FullAccess = full
  Moved = Moved
  MaxEntries = 1
  Environment = {"reload", "crash", "rename", "open_fails", "malformed_entry", "unknown_account", "no_username"}
INVARIANTS LoadsWholeFile UnsavedIsPending
PROPERTIES CallsEnd
