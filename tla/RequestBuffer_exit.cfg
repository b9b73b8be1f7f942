SPECIFICATION FairSpec
CONSTANTS
  w1 = w1
  w2 = w2
  c1 = c1
  c2 = c2
  NULL = NULL
  Worker = {w1, w2}
  Conn = {c1, c2}
  MaxRequests = 1
PROPERTIES
  ExitCompletes
