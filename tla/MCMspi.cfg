SPECIFICATION FairSpec
CONSTANTS
  Bytes = {b1, b2}
  Depth = 2
  MaxLength = 3
INVARIANTS
  TypeOK
  FrameInsideWait
  NoResidue
PROPERTIES
  Returns
  ImplementsExchange
