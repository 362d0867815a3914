SPECIFICATION Spec
CONSTANTS
  SyncStages = 2
  CountMax = 3
  MaxWords = 5
  Pattern = Pattern
  Junk = Junk
  None = None
INVARIANTS
  TypeOK
  WholeWords
  SentInStep
  Window
CHECK_DEADLOCK FALSE
