SPECIFICATION FairSpec
CONSTANTS
  w1 = w1
  w2 = w2
  c1 = c1
  c2 = c2
  c3 = c3
  c4 = c4
  NULL = NULL
  Worker = {w1, w2}
  Conn = {c1, c2, c3, c4}
  MaxRequests = 2
INVARIANTS
  TypeOK
  OneOwner
  NoLostWakeup
PROPERTIES
  ImplementsFifo
  EveryRequestTaken
