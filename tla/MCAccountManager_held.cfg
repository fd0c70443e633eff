SPECIFICATION FairSpec
CONSTANTS
  Helpers = {h1, h2}
  Nobody = Nobody
  Names = {admin, alice}
  Admin = admin
  Data = {full, d}
  FullAccess = full
  Moved = Moved
  MaxEntries = 1
  Environment = {"rename", "unknown_account", "no_username"}
PROPERTIES LockGivenUp
CHECK_DEADLOCK FALSE
