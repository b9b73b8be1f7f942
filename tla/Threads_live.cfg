SPECIFICATION FairSpec
CONSTANTS
  t1 = t1
  t2 = t2
  t3 = t3
  NULL = NULL
  TCB = {t1, t2, t3}
  MaxThreads = 3
  UserQueue = {}
  Calls <- Lab2
  Preemptive = TRUE
  MallocFails = FALSE
PROPERTIES
  EveryReadyThreadRuns
