SPECIFICATION FairSpec
CONSTANTS
  ByAddress = FALSE
  MaxSock = 2
  MaxKey = 1
  MaxGprs = 1
  MaxData = 1
  MaxSay = 1
  MaxFault = 2
  MaxAll = 2
INVARIANTS
  LoginFirst
  AckedArrives
  OneConnection
PROPERTIES
  StaysOff
  KeepsTrying
CHECK_DEADLOCK FALSE
