SPECIFICATION FairSpec
CONSTANTS
  Chunk = 2
  MaxBytes = 6
  MaxConn = 2
INVARIANTS
  RoomIsWaitedFor
PROPERTIES
  Implements
  Flushed
CHECK_DEADLOCK FALSE
