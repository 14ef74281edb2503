SPECIFICATION CheckingSpec
CONSTANTS
  u1 = u1
  u2 = u2
  Uidl <- MCUidl
  Size <- MCSize
  Junk = junk
  Torn = torn
  DEFAULT_ACTION = 1
  LOAD_IF_LESS = 2
  IF_DEL_AUX = 1
  DEL_AFTER_LOAD = 1
  FaultKinds = {"drop", "crash", "torn", "fopen"}
  MaxFaults = 1
  MaxUser = 1
INVARIANTS
  NoSilentWait
PROPERTIES
  SessionEnds
  MailLoads
