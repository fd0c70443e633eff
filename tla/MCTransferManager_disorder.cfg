SPECIFICATION Spec
CONSTANTS
  Uids = {3}
  Helpers = {h1}
  NoHelper = NoHelper
  Files = {}
  NoFile = NoFile
  Addrs = {1, 2, 3}
  StrayBound = 1
  Size = 2
  Limits = {2, 3}
  Environment = {"cancel", "leave", "out_of_turn", "spurious_wakeup"}
INVARIANTS QueuePositions DistinctTids MonitorWatches NoIdleSlot
CHECK_DEADLOCK FALSE
