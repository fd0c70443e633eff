SPECIFICATION FairSpec
CONSTANTS
  Threads = {t1, t2, t3, t4, t5}
  NoThread = NoThread
INVARIANTS Exclusion
PROPERTIES ImplementsRWLock WriterGetsIn
