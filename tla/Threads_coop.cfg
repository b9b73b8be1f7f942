SPECIFICATION Spec
CONSTANTS
  t1 = t1
  t2 = t2
  t3 = t3
  t4 = t4
  q1 = q1
  NULL = NULL
  TCB = {t1, t2, t3, t4}
  MaxThreads = 3
  UserQueue = {q1}
  Calls <- Cooperative
  Preemptive = FALSE
  MallocFails = FALSE
SYMMETRY Interchangeable
INVARIANTS
  NoFault
  IdsConserved
PROPERTIES
  LivesAsPromised
