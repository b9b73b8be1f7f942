SPECIFICATION FairSpec
CONSTANTS
  RioBuf = 2
  MaxLine = 4
  SockBuf = 12
  Name = {97, 98, 99}
  File <- Files
  Others = {}
  NrTimes = 1
  ClientDies = TRUE
CHECK_DEADLOCK FALSE
PROPERTY
  InitReturns
