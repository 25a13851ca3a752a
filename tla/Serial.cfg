SPECIFICATION FairSpec
CONSTANTS
  SERIAL_STEP_CYCLES_INTERNAL = 2
  SentBytes <- TwoBytes
  NoByte = NoByte
  instructionCycles = 1
INVARIANT TypeOK
PROPERTIES ImplementsByteLink TransfersEnd
