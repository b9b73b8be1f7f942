SPECIFICATION Spec
CONSTANTS
  t1 = t1
  t2 = t2
  t3 = t3
  q1 = q1
  NULL = NULL
  TCB = {t1, t2, t3}
  MaxThreads = 3
  UserQueue = {q1}
  Calls <- AllCalls
  Preemptive = TRUE
  MallocFails = TRUE
SYMMETRY Interchangeable
INVARIANTS
  TypeOK
  OnePlace
  KnownAllocated
  OwnIds
  QueuesSound
  StatusTracksPlace
PROPERTIES
  NoOvertaking
  FifoWakeup
