SPECIFICATION Spec
CONSTANTS
  Uids = {7}
  Helpers = {h1, h2}
  NoHelper = NoHelper
  Files = {}
  NoFile = NoFile
  Addrs = {1, 2, 3}
  StrayBound = 1
  Size = 3
  Limits = {1}
  Environment = {"leave"}
PROPERTIES PurgeIsComplete
