SPECIFICATION Spec
CONSTANTS
  Tx1 = Tx1
  Rx1 = Rx1
  Channels <- MCChannels
  TxChannels <- MCTxChannels
  EnabledPorts <- MCChannels
  PinChannels <- MCTxChannels
  Number <- MCNumber
  HwVer = 3
  LastPoint = 1
INVARIANTS
  EnabledWithFrontEnd
