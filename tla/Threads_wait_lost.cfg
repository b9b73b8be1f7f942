SPECIFICATION Spec
CONSTANTS
  t1 = t1
  t2 = t2
  t3 = t3
  NULL = NULL
  TCB = {t1, t2, t3}
  MaxThreads = 3
  UserQueue = {}
  Calls = {"create", "yield", "exit", "wait"}
  Preemptive = FALSE
  MallocFails = FALSE
PROPERTIES
  WaitersSurvive
