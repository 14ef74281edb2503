SPECIFICATION FairSpec
CONSTANTS
  ByAddress = FALSE
  MaxSock = 2
  MaxAsk = 2
  MaxStop = 1
  MaxGprs = 1
  MaxData = 1
  MaxFault = 2
  MaxAll = 3
INVARIANTS
  ConnectedIsSocket
  NothingLeftOpen
PROPERTIES
  AbandonsOnlyClosed
  FreshSession
  GprsResumes
  ReadyAgain
CHECK_DEADLOCK FALSE
