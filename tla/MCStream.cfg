SPECIFICATION Spec
CONSTANTS
  Tx1 = Tx1
  Rx1 = Rx1
  Channels <- MCChannels
  TxChannels <- MCTxChannels
  Counts = {1, 2}
  InitialCount = 1
  QueueSize = 2
  MaxCalls = 3
INVARIANTS
  TypeOK
  NoPhantomDone
  LostOnlyWhenFull
  StatusIsTrue
  SamplesCoherent
PROPERTY DoneIsReported
CHECK_DEADLOCK FALSE
