SPECIFICATION FairSpec
CONSTANTS
  RioBuf = 2
  MaxLine = 4
  SockBuf = 12
  Name = {97, 98, 99}
  File <- Files
  Others <- OtherRequests
  NrTimes = 2
  ClientDies = TRUE
CHECK_DEADLOCK FALSE
INVARIANTS
  TypeOK
  AssertionsHold
  GetNotReset
  OverrunOnlyLong
PROPERTIES
  Streams
  ClientEnds
  ServerReturns
