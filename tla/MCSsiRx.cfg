SPECIFICATION Spec
CONSTANTS
  HalfBits = 2
  Numbers = 3
  SyncStages = 1
  CountMax = 7
  Counts = {0, 6}
  Top = 2
  Zero = Zero
  None = None
INVARIANTS
  TypeOK
  DeliversEach
  FlagTellsRamp
