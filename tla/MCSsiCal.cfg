SPECIFICATION CalSpec
CONSTANTS
  Rows = 2
  Columns = 8
INVARIANTS
  CalTypeOK
  MiddleOfLongest
CHECK_DEADLOCK FALSE
