SPECIFICATION Spec
CONSTANTS
  t1 = t1
  t2 = t2
  t3 = t3
  q1 = q1
  NULL = NULL
  TCB = {t1, t2, t3}
  MaxThreads = 3
  UserQueue = {q1}
  Calls = {"create", "exit", "sleep", "wakeup", "queue"}
  Preemptive = TRUE
  MallocFails = FALSE
INVARIANTS
  SleepFindsAThread
