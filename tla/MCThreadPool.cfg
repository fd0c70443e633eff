SPECIFICATION FairSpec
CONSTANTS
  Threads = {t1, t2, t3}
  NoThread = NoThread
  Limits <- LimitsBelow
  Environment = {"reload", "no_more_threads", "spurious_wakeup"}
INVARIANTS PoolIsIdle ActiveCounted
PROPERTIES MainGetsThread MessagesHandled
CHECK_DEADLOCK FALSE
