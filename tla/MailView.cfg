SPECIFICATION FairSpec
CONSTANTS
  Mail = {m1, m2}
  NoMail = none
  IF_DEL_AUX = TRUE
  Default = "full"
  MaxOdd = 1
  MaxKeys = 2
  MaxSess = 2
INVARIANTS ListFresh RecordLives
PROPERTIES LoadedStays MarksReach StatCloses
CHECK_DEADLOCK FALSE
