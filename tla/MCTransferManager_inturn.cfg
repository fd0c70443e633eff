SPECIFICATION FairSpec
CONSTANTS
  Uids = {7}
  Helpers = {h1, h2}
  NoHelper = NoHelper
  Files = {f1}
  NoFile = NoFile
  Addrs = {1, 2, 3}
  StrayBound = 1
  Size = 3
  Limits = {1, 2}
  Environment = {"reload"}
INVARIANTS SlotsCounted OnePlace OneWriterPerFile RightTransfer
PROPERTIES SlotsWithinLimit NoOvertaking QueueMoves
