SPECIFICATION Spec
CONSTANTS
  Contact = {c1, c2}
  None = none
  MAXLOGMSG = 2
  Numbers = 3
  MaxMsg = 3
  MaxConn = 2
  MaxOdd = 1
SYMMETRY MCContacts
INVARIANTS MessagesCounted AckTrue ViewOfLog
CHECK_DEADLOCK FALSE
