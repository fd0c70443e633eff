SPECIFICATION Spec
CONSTANTS
  Helpers = {h1, h2}
  Nobody = Nobody
  Names = {admin, alice}
  Admin = admin
  Data = {full, d}
  FullAccess = full
  Moved = Moved
  MaxEntries = 1
  Environment = {"rename"}
INVARIANTS TypeOK AccountsInUseAreWhole
CHECK_DEADLOCK FALSE
