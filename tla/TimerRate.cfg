SPECIFICATION Spec
CONSTANTS
  DIV_INCREMENT_CYCLES = 3
  TIMER_INPUT_CLOCK_CYCLES_4096HZ = 4
  ByteSize = 3
  instructionCycles = 1
PROPERTY NextStepIsAhead
