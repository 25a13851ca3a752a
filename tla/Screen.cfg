SPECIFICATION ScreenFairSpec
CONSTANTS
  CYCLES_MODE_OAM_SEARCH = 2
  CYCLES_MODE_DRAWING = 3
  CYCLES_MODE_HBLANK = 2
  LCD_HEIGHT = 3
  NUM_VBLANK_LINES = 2
  instructionCycles = 1
  MAX_OBJECTS = 3
  MAX_OBJECTS_PER_LINE = 2
  Columns <- SampleColumns
  Vram <- SampleVram
  Oams <- SampleOams
  Writes <- SampleWrites
  Unset = Unset
CHECK_DEADLOCK FALSE
INVARIANTS ScreenTypeOK ShownFramesAreComplete AbortsNeedAnUnsetPalette FrontmostObjectWins DrawsFromTheTiles
PROPERTIES ImplementsFrameClock VisibleLinesKeepTime FramesComeUnlessAborted
