SPECIFICATION FairSpec
CONSTANTS
  Daemons = {d1, d2, d3}
  Viewers = {v1, v2}
  None = none
  Lasts = TRUE
  MaxClose = 4
  MaxSecond = 2
INVARIANTS PresenceOfOne PopStatAlive NoDangling OneStays
PROPERTY GreetingsEnd
CHECK_DEADLOCK FALSE
