SPECIFICATION Spec
CONSTANTS
  MaxMails = 4
  Years = {2000, 2001, 2007, 2008, 2099}
  Days = {1, 28, 29, 30, 31}
  Hours = {0, 12, 23}
  East = {0, 3, 12}
  West = {1, 8}
  Sample <- MCSample
  Null = null
INVARIANTS NothingLost Sorted DatesTrue
PROPERTY SortEnds
CHECK_DEADLOCK FALSE
