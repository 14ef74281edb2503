SPECIFICATION Spec
CONSTANTS
  Mail = {m1, m2}
  NoMail = none
  IF_DEL_AUX = TRUE
  Default = "full"
  MaxOdd = 0
  MaxKeys = 3
  MaxSess = 2
PROPERTY NotDeleted
CHECK_DEADLOCK FALSE
