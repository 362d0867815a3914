SPECIFICATION Spec
CONSTANTS
  Plain = {"enable"}
  Pulses = {"hop"}
  Spi = "spi"
  ReadOnly = {"id"}
  Values = {0, 1}
  Zero = 0
  None = None
  MaxWrites = 2
  MaxReads = 2
  MaxBytes = 1
INVARIANTS
  TypeOK
  OneAtATime
PROPERTIES
  ImplementsRegisterFile
  EveryAccessEnds
CHECK_DEADLOCK FALSE
