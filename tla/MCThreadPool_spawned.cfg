SPECIFICATION Spec
CONSTANTS
  Threads = {t1, t2, t3, t4}
  NoThread = NoThread
  Limits <- LimitsAbove
  Environment = {}
INVARIANTS TypeOK SpawnedWithinMaximum
