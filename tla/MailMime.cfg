SPECIFICATION MimeSpec
CONSTANTS
  Bodies <- MCBodies
  Begins <- MCBegins
  MaxHeader = 6
INVARIANTS
  LeavesShown
  Unmimed
CHECK_DEADLOCK FALSE
