SPECIFICATION Spec
CONSTANTS
  ByAddress = FALSE
  MaxSock = 1
  MaxKey = 0
  MaxGprs = 0
  MaxData = 0
  MaxSay = 0
  MaxFault = 1
  MaxAll = 1
INVARIANT StateTrue
CHECK_DEADLOCK FALSE
