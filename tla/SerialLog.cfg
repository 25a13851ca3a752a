SPECIFICATION HistorySpec
CONSTANTS
  SERIAL_STEP_CYCLES_INTERNAL = 2
  SentBytes <- TwoBytes
  NoByte = NoByte
  instructionCycles = 1
PROPERTY LogsTheByteStarted
