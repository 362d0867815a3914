SPECIFICATION Spec
CONSTANTS
  Chars <- MCChars
  Sources = {"uart", "lwip"}
  Inputs <- MCInputs
  Commands <- MCCommands
  ScriptCmd <- MCScriptCmd
  File <- MCFileCut
  FileLines <- MCFileLines
  QueueSize = 10
  LineSize = 6
  HistorySize = 4
  MaxInputs = 3
  BusyInputs <- MCBusyInputs
  MaxBusy = 2
INVARIANTS
  RunsOnlyWhatWasSent
CHECK_DEADLOCK FALSE
