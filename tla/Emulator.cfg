SPECIFICATION Spec
CONSTANTS
  instructionCycles = 1
  CYCLES_MODE_OAM_SEARCH = 1
  CYCLES_MODE_DRAWING = 1
  CYCLES_MODE_HBLANK = 1
  LCD_HEIGHT = 2
  NUM_VBLANK_LINES = 1
  DIV_INCREMENT_CYCLES = 1
  TIMER_INPUT_CLOCK_CYCLES_4096HZ = 1
  ByteSize = 2
  SERIAL_STEP_CYCLES_INTERNAL = 1
  SentBytes = {}
  NoByte = NoByte
  NUM_DMA_CYCLES = 1
  Pages = {oam}
  OamPage = oam
  Contents = {c1}
  NoPage = NoPage
  Groups = {dpad}
  Lines = {line0}
  MaxEvents = 2
  Sessions <- TwoSessions
  GuestMasks = {{0, 2}}
INVARIANTS TypeOK PolledKeysAreLookedAt KeysFollowTheKeyboard
PROPERTIES EndsForGood RequestsSurviveTheLoop VBlankEndsHalt
CHECK_DEADLOCK FALSE
