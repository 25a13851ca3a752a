SPECIFICATION Spec
CONSTANTS
  CYCLES_MODE_OAM_SEARCH = 20
  CYCLES_MODE_DRAWING = 43
  CYCLES_MODE_HBLANK = 51
  LCD_HEIGHT = 3
  NUM_VBLANK_LINES = 2
  instructionCycles = 1
INVARIANT EveryLineKeepsTime
