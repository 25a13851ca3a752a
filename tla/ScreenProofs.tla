------------------------------ MODULE ScreenProofs -----------------------------
(***************************************************************************)
(* Proofs about the picture processor. The first half is about its timing, *)
(* for a screen of any height and any lengths of the modes; it uses only   *)
(* what Screen takes from Ppu. The second half is about the registers and  *)
(* the drawing, for any program, video RAM and objects.  Its inductions    *)
(* over the OAM and over the objects of a line count along an interval,    *)
(* whose subsets are well-founded.                                         *)
(***************************************************************************)
EXTENDS Screen, FiniteSetTheorems, WellFoundedInduction, TLAPS

(* The lines above LY have been drawn: what makes a frame complete by the  *)
(* time LY leaves the screen.                                              *)
LinesAboveAreDrawn == mode # "VBLANK" => 0 .. currentLine - 1 \subseteq drawn

(* A frame is handed over in VBlank only.                                  *)
FrameWaitsInVBlank == enteringVBlank => mode = "VBLANK"

(* The inductive invariant. *)
PpuInv ==
  /\ TypeOK
  /\ VBlankBelowTheScreen
  /\ LinesAboveAreDrawn
  /\ FrameWaitsInVBlank
  /\ ShownFramesAreComplete

-------------------------------------------------------------------------------
(* The lengths of lines and frames are numbers, and no mode is longer than *)
(* a whole line.                                                           *)
LEMMA Lengths ==
  /\ CYCLES_PER_LINE \in Nat
  /\ CYCLES_MODE_OAM_SEARCH < CYCLES_PER_LINE
  /\ CYCLES_MODE_DRAWING < CYCLES_PER_LINE
  /\ CYCLES_MODE_HBLANK < CYCLES_PER_LINE
  /\ NumLines \in Nat
  /\ LCD_HEIGHT < NumLines
BY PpuAssumption DEF PpuAssumption, CYCLES_PER_LINE, NumLines

(* The PPU starts in the invariant. *)
LEMMA PpuInvInit == Init => PpuInv
<1> SUFFICES ASSUME Init PROVE PpuInv
  OBVIOUS
<1>1. TypeOK
  <2>1. cycleCounter \in 0 .. CYCLES_PER_LINE /\ currentLine \in 0 .. NumLines - 1
    BY PpuAssumption, Lengths DEF PpuAssumption, Init
  <2>2. drawn \in SUBSET (0 .. LCD_HEIGHT - 1) /\ interruptFlags \in SUBSET Interrupt
    BY DEF Init
  <2> QED
    BY <2>1, <2>2 DEF Init, TypeOK
<1>2. VBlankBelowTheScreen /\ LinesAboveAreDrawn
  BY PpuAssumption DEF PpuAssumption, Init, VBlankBelowTheScreen, LinesAboveAreDrawn
<1>3. FrameWaitsInVBlank /\ ShownFramesAreComplete
  BY DEF Init, FrameWaitsInVBlank, ShownFramesAreComplete
<1> QED
  BY <1>1, <1>2, <1>3 DEF PpuInv

(* Every step keeps the invariant: a tick that counts or changes the mode  *)
(* within a line, the end of a visible line, the two ways a VBlank line    *)
(* ends, the display of a frame, a write of LY and an acknowledgement.     *)
LEMMA PpuInvNext == PpuInv /\ [Next]_vars => PpuInv'
<1> SUFFICES ASSUME PpuInv, [Next]_vars PROVE PpuInv'
  OBVIOUS
<1> USE PpuAssumption, Lengths DEF PpuAssumption
<1> USE DEF PpuInv, TypeOK, VBlankBelowTheScreen, LinesAboveAreDrawn,
            FrameWaitsInVBlank, ShownFramesAreComplete
<1>1. CASE ppu_tick /\ StayInMode
  <2>1. cycleCounter' \in 0 .. CYCLES_PER_LINE
    BY <1>1 DEF StayInMode, ModeOver, Count
  <2> QED
    BY <1>1, <2>1 DEF StayInMode
<1>2. CASE ppu_tick /\ StartDrawing
  BY <1>2 DEF StartDrawing
<1>11. CASE ppu_tick /\ StartHBlank
  BY <1>11 DEF StartHBlank
<1>3. CASE ppu_tick /\ StartNextLine
  BY <1>3 DEF StartNextLine, FinishVisibleLine, ppu_tick
<1>4. CASE ppu_tick /\ EnterVBlank
  <2>1. /\ currentLine' = LCD_HEIGHT /\ currentLine = LCD_HEIGHT - 1
        /\ cycleCounter' = 0 /\ mode' = "VBLANK"
    BY <1>4 DEF EnterVBlank, FinishVisibleLine
  <2>3. drawn' = 0 .. LCD_HEIGHT - 1
    <3>1. drawn' = drawn \cup {LCD_HEIGHT - 1}
      BY <1>4, <2>1 DEF EnterVBlank, FinishVisibleLine
    <3>2. 0 .. currentLine - 1 \subseteq drawn
      BY <1>4 DEF EnterVBlank, FinishVisibleLine
    <3>3. drawn \subseteq 0 .. LCD_HEIGHT - 1
      OBVIOUS
    <3>4. ASSUME NEW line \in 0 .. LCD_HEIGHT - 1 PROVE line \in drawn'
      BY <2>1, <3>1, <3>2
    <3>5. LCD_HEIGHT - 1 \in 0 .. LCD_HEIGHT - 1
      OBVIOUS
    <3>6. drawn' \subseteq 0 .. LCD_HEIGHT - 1
      BY <3>1, <3>3, <3>5
    <3> HIDE DEF PpuInv
    <3> QED
      BY <3>4, <3>6, Zenon
  <2>2. interruptFlags' \in SUBSET Interrupt
    <3>1. INTERRUPT_VBLANK \in Interrupt
      BY DEF INTERRUPT_VBLANK, INTERRUPT_KEYPAD, Interrupt
    <3>2. interruptFlags \subseteq Interrupt
      OBVIOUS
    <3>3. interruptFlags' = interruptFlags \cup {INTERRUPT_VBLANK}
      BY <1>4 DEF EnterVBlank, cpu_request_interrupt
    <3> HIDE DEF PpuInv
    <3> QED
      BY <3>1, <3>2, <3>3
  <2> QED
    BY <1>4, <2>1, <2>2, <2>3 DEF EnterVBlank, FinishVisibleLine
<1>5. CASE ppu_tick /\ StayInVBlank
  BY <1>5 DEF StayInVBlank, ppu_tick
<1>6. CASE ppu_tick /\ LeaveVBlank
  BY <1>6 DEF LeaveVBlank, ppu_tick
<1>7. CASE graphics_update
  BY <1>7 DEF graphics_update
<1>8. CASE write_ly
  BY <1>8 DEF write_ly
<1>9. CASE AcknowledgeVBlank
  BY <1>9 DEF AcknowledgeVBlank
<1>10. CASE UNCHANGED vars
  BY <1>10 DEF vars
<1> QED
  BY <1>1, <1>2, <1>3, <1>4, <1>5, <1>6, <1>7, <1>8, <1>9, <1>10, <1>11 DEF Next, ppu_tick

(* The invariant holds of every state the PPU can be in. *)
LEMMA PpuInvAlways == Spec => []PpuInv
<1> QED
  BY PpuInvInit, PpuInvNext, PTL DEF Spec

(* Type correctness: in particular only visible lines are ever drawn, for  *)
(* ppu_render_line writes to the pixel buffer at the line LY names.        *)
THEOREM PpuTypeCorrect == Spec => []TypeOK
<1>1. PpuInv => TypeOK
  BY DEF PpuInv
<1> QED
  BY <1>1, PpuInvAlways, PTL

(* Wherever the program resets LY, the mode machine of ppu_tick and LY     *)
(* agree about being below the screen.                                     *)
THEOREM ModeAgreesWithLine == Spec => []VBlankBelowTheScreen
<1>1. PpuInv => VBlankBelowTheScreen
  BY DEF PpuInv
<1> QED
  BY <1>1, PpuInvAlways, PTL

(* No frame is handed to the display with a line that was not drawn since  *)
(* the frame before it.                                                    *)
THEOREM FramesAreComplete == Spec => []ShownFramesAreComplete
<1>1. PpuInv => ShownFramesAreComplete
  BY DEF PpuInv
<1> QED
  BY <1>1, PpuInvAlways, PTL

-------------------------------------------------------------------------------
(* What a tick does to LY and to the frame, mode by mode: it stays on its  *)
(* line, goes to the next one with or without reaching VBlank, or wraps.   *)
LEMMA StepsOfFrameClock == PpuInv /\ [Next]_vars => [Clock!Next]_Clock!clockVars
<1> SUFFICES ASSUME PpuInv, [Next]_vars PROVE [Clock!Next]_Clock!clockVars
  OBVIOUS
<1> USE PpuAssumption, Lengths DEF PpuAssumption
<1> USE DEF Clock!Next, Clock!clockVars
<1>1. CASE StayInMode \/ StartDrawing \/ StartHBlank
  BY <1>1 DEF StayInMode, StartDrawing, StartHBlank
<1>2. CASE ppu_tick /\ StartNextLine
  <2>1. /\ currentLine' = currentLine + 1 /\ currentLine' # LCD_HEIGHT
        /\ currentLine + 1 # NumLines
        /\ ~enteringVBlank /\ ~enteringVBlank' /\ interruptFlags' = interruptFlags
    BY <1>2 DEF ppu_tick, StartNextLine, FinishVisibleLine, PpuInv, TypeOK
  <2> QED
    BY <2>1 DEF Clock!NextLine
<1>3. CASE ppu_tick /\ EnterVBlank
  <2>1. /\ currentLine' = currentLine + 1 /\ currentLine' = LCD_HEIGHT
        /\ currentLine + 1 # NumLines /\ ~enteringVBlank /\ enteringVBlank'
    BY <1>3 DEF ppu_tick, EnterVBlank, FinishVisibleLine, PpuInv, TypeOK,
                VBlankBelowTheScreen
  <2>2. INTERRUPT_VBLANK \in interruptFlags'
    BY <1>3 DEF EnterVBlank, cpu_request_interrupt
  <2> QED
    BY <2>1, <2>2 DEF Clock!NextLine
<1>4. CASE ppu_tick /\ StayInVBlank
  <2>1. /\ currentLine' = currentLine + 1 /\ currentLine' # LCD_HEIGHT
        /\ currentLine + 1 # NumLines
        /\ ~enteringVBlank /\ ~enteringVBlank' /\ interruptFlags' = interruptFlags
    BY <1>4 DEF ppu_tick, StayInVBlank, PpuInv, TypeOK, VBlankBelowTheScreen
  <2> QED
    BY <2>1 DEF Clock!NextLine
<1>5. CASE ppu_tick /\ LeaveVBlank
  <2>1. /\ currentLine' = 0 /\ currentLine' # LCD_HEIGHT
        /\ currentLine + 1 = NumLines
        /\ ~enteringVBlank /\ ~enteringVBlank' /\ interruptFlags' = interruptFlags
    BY <1>5 DEF ppu_tick, LeaveVBlank, PpuInv, TypeOK
  <2> QED
    BY <2>1 DEF Clock!NextLine
<1>6. CASE graphics_update
  BY <1>6 DEF graphics_update, Clock!Show
<1>7. CASE write_ly
  BY <1>7 DEF write_ly, Clock!Restart
<1>8. CASE AcknowledgeVBlank
  BY <1>8 DEF AcknowledgeVBlank, Clock!Acknowledge
<1>9. CASE UNCHANGED vars
  BY <1>9 DEF vars
<1> QED
  BY <1>1, <1>2, <1>3, <1>4, <1>5, <1>6, <1>7, <1>8, <1>9 DEF Next, ppu_tick

(* To everything outside it the PPU is a FrameClock: LY skips no line,     *)
(* and the VBlank interrupt and the frame come together, in the tick that  *)
(* brings LY below the screen and in no other.                             *)
THEOREM PpuImplementsFrameClock == Spec => ImplementsFrameClock
<1>1. Init => Clock!Init
  BY DEF Init, Clock!Init
<1> QED
  BY <1>1, PpuInvAlways, StepsOfFrameClock, PTL DEF Spec, ImplementsFrameClock, Clock!Spec

-------------------------------------------------------------------------------
(* A mode of a visible line is left as soon as its cycles are over.        *)
WithinMode ==
  /\ cycleCounter \in Nat
  /\ mode = "OAM_SEARCH" => cycleCounter < CYCLES_MODE_OAM_SEARCH
  /\ mode = "DRAWING" => cycleCounter < CYCLES_MODE_DRAWING
  /\ mode = "HBLANK" => cycleCounter < CYCLES_MODE_HBLANK

(* Every step keeps the counter inside the mode it is in.                  *)
LEMMA StaysWithinMode == WithinMode /\ [Next]_vars => WithinMode'
<1> SUFFICES ASSUME WithinMode, [Next]_vars PROVE WithinMode'
  OBVIOUS
<1> USE PpuAssumption DEF PpuAssumption, WithinMode
<1>1. CASE StayInMode
  BY <1>1 DEF StayInMode, ModeOver, Count
<1>2. CASE StartDrawing \/ StartHBlank
  BY <1>2 DEF StartDrawing, StartHBlank
<1>3. CASE StartNextLine \/ EnterVBlank
  BY <1>3 DEF StartNextLine, EnterVBlank, FinishVisibleLine
<1>4. CASE StayInVBlank \/ LeaveVBlank
  BY <1>4 DEF StayInVBlank, LeaveVBlank
<1>5. CASE graphics_update \/ AcknowledgeVBlank \/ UNCHANGED vars
  BY <1>5 DEF graphics_update, AcknowledgeVBlank, vars
<1>6. CASE write_ly
  BY <1>6 DEF write_ly
<1> QED
  BY <1>1, <1>2, <1>3, <1>4, <1>5, <1>6 DEF Next, ppu_tick

(* With one cycle per instruction, as the main loop charges, every visible *)
(* line ends after exactly CYCLES_PER_LINE cycles, none of them lost where *)
(* one mode follows another.                                               *)
THEOREM VisibleLinesAreExact ==
  ASSUME instructionCycles = 1
  PROVE  Spec => VisibleLinesKeepTime
<1> DEFINE KeepsTime ==
      /\ StayInMode \/ StartDrawing \/ StartHBlank
           => LinePosition' = LinePosition + instructionCycles
      /\ FinishVisibleLine => LinePosition + instructionCycles = CYCLES_PER_LINE
<1> USE PpuAssumption DEF PpuAssumption
<1>1. Init => WithinMode
  BY DEF Init, WithinMode
<1>2. WithinMode /\ [Next]_vars => [KeepsTime]_vars
  <2> SUFFICES ASSUME WithinMode PROVE KeepsTime
    OBVIOUS
  <2>1. ASSUME StayInMode PROVE LinePosition' = LinePosition + 1
    BY <2>1 DEF StayInMode, Count, LinePosition, WithinMode
  <2>2. ASSUME StartDrawing PROVE LinePosition' = LinePosition + 1
    <3>1. cycleCounter + 1 = CYCLES_MODE_OAM_SEARCH /\ mode = "OAM_SEARCH"
      BY <2>2 DEF StartDrawing, ModeOver, Count, WithinMode
    <3> QED
      BY <2>2, <3>1 DEF StartDrawing, LinePosition
  <2>3. ASSUME StartHBlank PROVE LinePosition' = LinePosition + 1
    <3>1. cycleCounter + 1 = CYCLES_MODE_DRAWING /\ mode = "DRAWING"
      BY <2>3 DEF StartHBlank, ModeOver, Count, WithinMode
    <3> QED
      BY <2>3, <3>1 DEF StartHBlank, LinePosition, WithinMode
  <2>4. ASSUME FinishVisibleLine PROVE LinePosition + 1 = CYCLES_PER_LINE
    <3>1. cycleCounter + 1 = CYCLES_MODE_HBLANK /\ mode = "HBLANK"
      BY <2>4 DEF FinishVisibleLine, ModeOver, Count, WithinMode
    <3> QED
      BY <3>1 DEF LinePosition, CYCLES_PER_LINE, WithinMode
  <2> QED
    BY <2>1, <2>2, <2>3, <2>4
<1> HIDE DEF KeepsTime
<1>3. WithinMode /\ [Next]_vars => WithinMode'
  BY StaysWithinMode
<1>4. Spec => [][KeepsTime]_vars
  BY <1>1, <1>2, <1>3, PTL DEF Spec
<1> QED
  BY <1>4 DEF VisibleLinesKeepTime, KeepsTime

-------------------------------------------------------------------------------
(* With its registers and its drawing the PPU is still the PPU of the mode *)
(* machine, so that everything proved about that holds here.               *)
THEOREM ScreenIsAPpu == ScreenSpec => Spec
<1>1. ScreenInit => Init
  BY DEF ScreenInit
<1>2. [ScreenNext]_allVars => [Next]_vars
  BY DEF ScreenNext, allVars, Tick, Abort, StoreOam, Next
<1> QED
  BY <1>1, <1>2, PTL DEF ScreenSpec, Spec

(* What is written to a palette are four colours, or three.                *)
LEMMA ColorsAreColors ==
  ASSUME NEW value \in 0 .. 255, NEW number \in 0 .. 3
  PROVE  (value \div Weight[number + 1]) % 4 \in 0 .. 3
<1> DEFINE weight == Weight[number + 1]
<1>1. weight \in {1, 4, 16, 64}
  BY DEF Weight
<1>2. ASSUME NEW w \in {1, 4, 16, 64} PROVE (value \div w) % 4 \in 0 .. 3
  BY <1>2
<1> QED
  BY <1>1, <1>2

LEMMA WritingKeepsType ==
  ASSUME RegistersTypeOK, NEW write \in Writes, WriteRegister(write[1], write[2]),
         UNCHANGED <<oam, aborted>>
  PROVE  RegistersTypeOK'
<1> DEFINE register == write[1]
           value == write[2]
<1> USE DEF RegistersTypeOK
<1>1. value \in 0 .. 255
  BY ScreenAssumption
<1>2. CASE write_lcd_control(value)
  BY <1>2 DEF write_lcd_control
<1>3. CASE register \in Plain /\ write_plain(register, value)
  BY <1>1, <1>3 DEF write_plain
<1>4. CASE register \in Palettes /\ write_palette(register, value)
  <2>1. [number \in Numbers(register) |-> (value \div Weight[number + 1]) % 4]
          \in [Numbers(register) -> 0 .. 3]
    <3>1. \A number \in Numbers(register) : number \in 0 .. 3
      BY DEF Numbers
    <3> QED
      BY <1>1, <3>1, ColorsAreColors
  <2>2. palettes' = [palettes EXCEPT ![register] =
                       [number \in Numbers(register) |-> (value \div Weight[number + 1]) % 4]]
    BY <1>4 DEF write_palette
  <2>3. ASSUME NEW palette \in Palettes
        PROVE  \/ palettes'[palette] \in [Numbers(palette) -> {Unset}]
               \/ palettes'[palette] \in [Numbers(palette) -> 0 .. 3]
    <3>1. CASE palette = register
      BY <1>4, <2>1, <2>2, <3>1
    <3>2. CASE palette # register
      BY <1>4, <2>2, <3>2
    <3> QED
      BY <3>1, <3>2
  <2>4. DOMAIN palettes' = Palettes
    BY <2>2
  <2>5. UNCHANGED <<flags, plain>>
    BY <1>4 DEF write_palette
  <2> QED
    BY <2>3, <2>4, <2>5
<1>5. CASE UNCHANGED <<flags, plain, palettes>>
  BY <1>5
<1> QED
  BY <1>2, <1>3, <1>4, <1>5 DEF WriteRegister

LEMMA RegistersTypeCorrect == ScreenSpec => []RegistersTypeOK
<1>1. ASSUME ScreenInit PROVE RegistersTypeOK
  <2>1. flags \in SUBSET (0 .. 7)
    BY <1>1 DEF ScreenInit, backgroundDisplayEnable, backgroundAndWindowTileDataSelect
  <2>2. /\ plain \in [Plain -> (0 .. 255) \cup {Unset}]
        /\ \A register \in Plain \ {"LYC"} : plain[register] \in 0 .. 255
    BY <1>1 DEF ScreenInit
  <2>3. /\ DOMAIN palettes = Palettes
        /\ \A palette \in Palettes : palettes[palette] \in [Numbers(palette) -> {Unset}]
    BY <1>1 DEF ScreenInit
  <2>4. oam \in Oams /\ aborted \in BOOLEAN
    BY <1>1 DEF ScreenInit
  <2> QED
    BY <2>1, <2>2, <2>3, <2>4 DEF RegistersTypeOK
<1>2. RegistersTypeOK /\ [ScreenNext]_allVars => RegistersTypeOK'
  <2> SUFFICES ASSUME RegistersTypeOK, [ScreenNext]_allVars PROVE RegistersTypeOK'
    OBVIOUS
  <2>1. CASE UNCHANGED screenVars
    BY <2>1 DEF screenVars, RegistersTypeOK
  <2>2. CASE Abort
    BY <2>2 DEF Abort, RegistersTypeOK
  <2>3. CASE /\ \E write \in Writes : WriteRegister(write[1], write[2])
             /\ UNCHANGED <<vars, oam, aborted>>
    BY <2>3, WritingKeepsType
  <2>4. CASE StoreOam
    BY <2>4 DEF StoreOam, RegistersTypeOK
  <2> QED
    BY <2>1, <2>2, <2>3, <2>4 DEF ScreenNext, allVars, Tick
<1> QED
  BY <1>1, <1>2, PTL DEF ScreenSpec

(* The counters stay in range, every register keeps its type, and the      *)
(* colours of a palette are all set or none of them, for any writes of the *)
(* program.                                                                *)
THEOREM ScreenTypeCorrect == ScreenSpec => []ScreenTypeOK
<1>1. Spec => []TypeOK
  BY PpuTypeCorrect
<1>2. ScreenTypeOK <=> TypeOK /\ RegistersTypeOK
  BY DEF ScreenTypeOK
<1> QED
  BY <1>1, <1>2, ScreenIsAPpu, RegistersTypeCorrect, PTL

-------------------------------------------------------------------------------
(* The plane wraps, and each of its points is in one of its 1024 tiles.    *)
LEMMA TileOfPoint ==
  ASSUME NEW a \in Nat, NEW b \in Nat
  PROVE  /\ ((a % 256) \div 8) * 32 + ((b % 256) \div 8) \in 0 .. 1023
         /\ (a % 256) % 8 \in 0 .. 7
<1>1. ASSUME NEW m \in 0 .. 255 PROVE m \div 8 \in 0 .. 31 /\ m % 8 \in 0 .. 7
  BY <1>1, SMT
<1>2. a % 256 \in 0 .. 255 /\ b % 256 \in 0 .. 255
  BY SMT
<1>3. /\ (a % 256) \div 8 \in 0 .. 31 /\ (b % 256) \div 8 \in 0 .. 31
      /\ (a % 256) % 8 \in 0 .. 7
  BY <1>1, <1>2
<1>4. ASSUME NEW m \in 0 .. 31, NEW n \in 0 .. 31 PROVE m * 32 + n \in 0 .. 1023
  BY <1>4, SMT
<1> QED
  BY <1>3, <1>4

(* The patterns of the upper table reach below its start.                  *)
LEMMA LineOfPattern ==
  ASSUME NEW number \in 0 .. 255, NEW row \in 0 .. 7
  PROVE  /\ 16 * number + 2 * row \in LowerTable
         /\ 4096 + 16 * (IF number < 128 THEN number ELSE number - 256) + 2 * row
              \in UpperTable
BY SMT DEF LowerTable, UpperTable

LEMMA BytesAreBytes ==
  ASSUME NEW S, NEW bytes \in BytesOf(S), NEW i \in S
  PROVE  bytes[i] \in 0 .. 255
BY DEF BytesOf

LEMMA BackgroundStaysInItsTable ==
  ASSUME RegistersTypeOK, currentLine \in Nat, NEW x0 \in Columns
  PROVE  /\ tileIndex(x0) \in 0 .. 1023
         /\ tilePatternLine(Vram[tileMap + tileIndex(x0)]) \in
              IF backgroundAndWindowTileDataSelect \in flags THEN LowerTable ELSE UpperTable
<1>1. currentLine + plain["SCY"] \in Nat /\ x0 + plain["SCX"] \in Nat
  <2>1. /\ "SCY" \in Plain \ {"LYC"}
        /\ "SCX" \in Plain \ {"LYC"}
    BY DEF Plain
  <2>2. plain["SCY"] \in 0 .. 255 /\ plain["SCX"] \in 0 .. 255
    BY <2>1 DEF RegistersTypeOK
  <2>3. x0 \in 0 .. 159
    BY ScreenAssumption
  <2> QED
    BY <2>2, <2>3, SMT
<1>2. tileIndex(x0) \in 0 .. 1023 /\ PlaneY % 8 \in 0 .. 7
  <2>1. PICK a \in Nat : a = currentLine + plain["SCY"]
    BY <1>1
  <2>2. PICK b \in Nat : b = x0 + plain["SCX"]
    BY <1>1
  <2>3. PlaneY = a % 256 /\ PlaneX(x0) = b % 256
    BY <2>1, <2>2 DEF PlaneX, PlaneY
  <2>4. tileIndex(x0) = ((a % 256) \div 8) * 32 + ((b % 256) \div 8)
    BY <2>3 DEF tileIndex
  <2> QED
    BY <2>3, <2>4, TileOfPoint
<1>3. tileMap \in {6144, 7168}
  BY DEF tileMap
<1>4. tileMap + tileIndex(x0) \in VramIndex
  BY <1>2, <1>3, SMTT(40) DEF VramIndex
<1>5. Vram[tileMap + tileIndex(x0)] \in 0 .. 255
  <2>1. Vram \in BytesOf(VramIndex)
    BY ScreenAssumption
  <2> QED
    BY <1>4, <2>1, BytesAreBytes
<1>6. ASSUME NEW number \in 0 .. 255
      PROVE  tilePatternLine(number) \in
               IF backgroundAndWindowTileDataSelect \in flags THEN LowerTable ELSE UpperTable
  <2>1. CASE backgroundAndWindowTileDataSelect \in flags
    <3>1. tilePatternLine(number) = 16 * number + 2 * (PlaneY % 8)
      BY <2>1 DEF tilePatternLine
    <3> QED
      BY <1>2, <2>1, <3>1, LineOfPattern, SMT
  <2>2. CASE backgroundAndWindowTileDataSelect \notin flags
    <3>1. tilePatternLine(number)
            = 4096 + 16 * (IF number < 128 THEN number ELSE number - 256) + 2 * (PlaneY % 8)
      BY <2>2 DEF tilePatternLine
    <3> QED
      BY <1>2, <2>2, <3>1, LineOfPattern, SMT
  <2> QED
    BY <2>1, <2>2
<1> QED
  BY <1>2, <1>5, <1>6

LEMMA ObjectsStayInTheirPatterns ==
  ASSUME RegistersTypeOK, currentLine \in Nat, NEW i \in OnLine
  PROVE  /\ objectPixelY(i) \in 0 .. objectHeight - 1
         /\ objectLine(i) \in 0 .. 4590
         /\ \/ objectLine(i) - 16 * patternIndex(i) \in 0 .. 2 * objectHeight - 2
            \/ objectHeight = 16 /\ yFlip(i)
<1>1. i \in DOMAIN oam /\ Covers(i)
  BY DEF OnLine
<1>2. y(i) \in 0 .. 255 /\ patternIndex(i) \in 0 .. 255
  <2>1. oam[i] \in BytesOf(1 .. 4)
    BY <1>1, ScreenAssumption DEF RegistersTypeOK
  <2> QED
    BY <2>1 DEF BytesOf, y, patternIndex
<1>3. objectHeight \in {8, 16}
  BY DEF objectHeight
<1>4. objectPixelY(i) \in 0 .. objectHeight - 1
  BY <1>1, <1>2, <1>3 DEF Covers, objectPixelY
<1>5. ASSUME NEW row \in 0 .. 15
      PROVE  /\ row % 256 = row
             /\ row <= 7 => (7 - row) % 256 = 7 - row
             /\ (7 - row) % 256 \in 0 .. 255
  BY <1>5, SMT
<1>6. objectPixelY(i) \in 0 .. 15
  BY <1>3, <1>4
<1>7. CASE yFlip(i)
  BY <1>2, <1>3, <1>4, <1>5, <1>6, <1>7, SMT DEF objectLine
<1>8. CASE ~yFlip(i)
  BY <1>2, <1>3, <1>4, <1>5, <1>6, <1>8, SMT DEF objectLine
<1> QED
  BY <1>4, <1>7, <1>8

(* Whatever the program scrolls to, selects, moves and stores, the drawing *)
(* of a line reads tiles of the map, patterns of the selected table and    *)
(* the objects' own patterns, and nothing outside the video RAM.           *)
THEOREM DrawingStaysInTheTiles == ScreenSpec => []DrawsFromTheTiles
<1>1. TypeOK /\ RegistersTypeOK => DrawsFromTheTiles
  <2> SUFFICES ASSUME TypeOK, RegistersTypeOK PROVE DrawsFromTheTiles
    OBVIOUS
  <2>1. currentLine \in Nat
    BY DEF TypeOK
  <2> QED
    BY <2>1, BackgroundStaysInItsTable, ObjectsStayInTheirPatterns DEF DrawsFromTheTiles
<1> QED
  BY <1>1, ScreenIsAPpu, PpuTypeCorrect, RegistersTypeCorrect, PTL

-------------------------------------------------------------------------------
(* Of a family of subsets of a finite set one contains no other.           *)
LEMMA MinimalSubset ==
  ASSUME NEW S, IsFiniteSet(S), NEW F, \A T \in F : T \subseteq S, F # {}
  PROVE  \E T \in F : \A U \in F : U \subseteq T => U = T
<1>1. IsWellFoundedOn(StrictSubsetOrdering(S), SUBSET S)
  BY FS_FiniteSubsetsOfFinite, FS_StrictSubsetOrderingWellFounded
<1>4. F \in SUBSET SUBSET S
  OBVIOUS
<1>2. PICK T \in F : \A U \in F : <<U, T>> \notin StrictSubsetOrdering(S)
  BY <1>1, <1>4, WFMin
<1>3. ASSUME NEW U \in F, U \subseteq T PROVE U = T
  BY <1>2, <1>3 DEF StrictSubsetOrdering
<1> QED
  BY <1>2, <1>3

(* Counting up to N from 0 reaches every number on the way.                *)
LEMMA CountingUp ==
  ASSUME NEW N \in Nat, NEW Q, 0 \in Q,
         \A n \in 0 .. N - 1 : n \in Q => n + 1 \in Q
  PROVE  \A n \in 0 .. N : n \in Q
<1> DEFINE Below(n) == 0 .. n - 1
           Missed == {n \in 0 .. N : n \notin Q}
           Family == {Below(n) : n \in Missed}
<1> SUFFICES ASSUME Missed # {} PROVE FALSE
  OBVIOUS
<1>1. IsFiniteSet(0 .. N)
  BY FS_Interval
<1>7. (\A T \in Family : T \subseteq 0 .. N) /\ Family # {}
  <2>1. ASSUME NEW n \in Missed PROVE Below(n) \subseteq 0 .. N
    OBVIOUS
  <2> HIDE DEF Below, Missed
  <2> QED
    BY <2>1
<1>2. PICK T \in Family : \A U \in Family : U \subseteq T => U = T
  <2> HIDE DEF Family, Below, Missed
  <2> DEFINE S == 0 .. N
  <2>1. IsFiniteSet(S) /\ \A T \in Family : T \subseteq S
    BY <1>1, <1>7
  <2> HIDE DEF S
  <2> QED
    BY <1>7, <2>1, MinimalSubset
<1>3. PICK n \in Missed : T = Below(n)
  BY <1>2
<1>4. n # 0 /\ n - 1 \in 0 .. N - 1
  BY <1>3
<1>5. n - 1 \in Missed
  BY <1>3, <1>4
<1>6. Below(n - 1) \subseteq Below(n) /\ n - 1 \in Below(n) /\ n - 1 \notin Below(n - 1)
  BY <1>4
<1> QED
  BY <1>2, <1>3, <1>5, <1>6

(* A function is defined on 0 .. N by its first value and by a step from   *)
(* each value to the next.                                                 *)
LEMMA StepByStep ==
  ASSUME NEW N \in Nat, NEW V, NEW b \in V, NEW G \in [1 .. N -> [V -> V]]
  PROVE  \E f \in [0 .. N -> V] : f[0] = b /\ \A n \in 1 .. N : f[n] = G[n][f[n - 1]]
<1> DEFINE Starts(f, m) == f[0] = b /\ \A n \in 1 .. m : f[n] = G[n][f[n - 1]]
           Q == {m \in 0 .. N : \E f \in [0 .. m -> V] : Starts(f, m)}
<1>1. 0 \in Q
  <2>1. [n \in 0 .. 0 |-> b] \in [0 .. 0 -> V] /\ Starts([n \in 0 .. 0 |-> b], 0)
    OBVIOUS
  <2>2. 0 \in 0 .. N
    OBVIOUS
  <2> HIDE DEF Starts
  <2> QED
    BY <2>1, <2>2
<1>2. ASSUME NEW m \in 0 .. N - 1, m \in Q PROVE m + 1 \in Q
  <2>1. PICK f \in [0 .. m -> V] : Starts(f, m)
    BY <1>2
  <2> DEFINE g == [n \in 0 .. m + 1 |-> IF n = m + 1 THEN G[n][f[m]] ELSE f[n]]
  <2>2. g \in [0 .. m + 1 -> V]
    <3>1. m + 1 \in 1 .. N /\ m \in 0 .. m
      OBVIOUS
    <3>2. G[m + 1][f[m]] \in V
      BY <2>1, <3>1
    <3>3. ASSUME NEW n \in 0 .. m + 1 PROVE (IF n = m + 1 THEN G[n][f[m]] ELSE f[n]) \in V
      BY <2>1, <3>2
    <3> QED
      BY <3>3
  <2>3. Starts(g, m + 1)
    <3>1. g[0] = b
      BY <2>1
    <3>2. ASSUME NEW n \in 1 .. m + 1 PROVE g[n] = G[n][g[n - 1]]
      <4>1. CASE n = m + 1
        BY <4>1
      <4>2. CASE n \in 1 .. m
        BY <2>1, <4>2
      <4> QED
        BY <4>1, <4>2
    <3> QED
      BY <3>1, <3>2
  <2>4. m + 1 \in 0 .. N
    OBVIOUS
  <2> HIDE DEF g
  <2> QED
    BY <2>2, <2>3, <2>4
<1>3. N \in Q
  <2> HIDE DEF Q
  <2>1. N \in 0 .. N
    OBVIOUS
  <2> QED
    BY <1>1, <1>2, <2>1, CountingUp
<1> QED
  BY <1>3

(* What painting over makes of a function: at every position the colour of *)
(* the painter there, or what was there before.                            *)
Over(f, N, P, B, C) == [n \in 0 .. N |-> IF n = 0 THEN B ELSE IF n \in P THEN C[n] ELSE f[n - 1]]

(* Painting over has a result.                                             *)
LEMMA SomethingIsPainted ==
  ASSUME NEW N \in Nat, NEW P \in SUBSET (1 .. N), NEW B, NEW C
  PROVE  \E f : f = Over(f, N, P, B, C)
<1> DEFINE V == {B} \cup {C[k] : k \in P}
           G == [n \in 1 .. N |-> [v \in V |-> IF n \in P THEN C[n] ELSE v]]
<1>1. G \in [1 .. N -> [V -> V]]
  OBVIOUS
<1>2. B \in V
  OBVIOUS
<1>3. PICK f \in [0 .. N -> V] : f[0] = B /\ \A n \in 1 .. N : f[n] = G[n][f[n - 1]]
  <2> HIDE DEF G, V
  <2> QED
    BY <1>1, <1>2, StepByStep
<1>4. ASSUME NEW n \in 0 .. N
      PROVE  f[n] = IF n = 0 THEN B ELSE IF n \in P THEN C[n] ELSE f[n - 1]
  <2>1. CASE n = 0
    BY <1>3, <2>1
  <2>2. CASE n \in 1 .. N
    <3>1. f[n] = G[n][f[n - 1]] /\ f[n - 1] \in V
      BY <1>3, <2>2
    <3> QED
      BY <2>2, <3>1
  <2> QED
    BY <2>1, <2>2
<1>5. f = Over(f, N, P, B, C)
  BY <1>4 DEF Over
<1> QED
  BY <1>5

(* The last of the painters decides the colour, and where nobody paints    *)
(* the ground stays.                                                       *)
LEMMA TheLastPainterStays ==
  ASSUME NEW N \in Nat, NEW P \in SUBSET (1 .. N), NEW B, NEW C,
         NEW f, f = Over(f, N, P, B, C)
  PROVE  /\ P = {} => f[N] = B
         /\ \A k \in P : (\A l \in P : l <= k) => f[N] = C[k]
         /\ f[N] = B \/ \E k \in P : f[N] = C[k]
<1> DEFINE Right(n) ==
             /\ P \cap 1 .. n = {} => f[n] = B
             /\ \A k \in P \cap 1 .. n : (\A l \in P \cap 1 .. n : l <= k) => f[n] = C[k]
             /\ f[n] = B \/ \E k \in P : f[n] = C[k]
           Q == {n \in 0 .. N : Right(n)}
<1>1. ASSUME NEW n \in 0 .. N
      PROVE  f[n] = IF n = 0 THEN B ELSE IF n \in P THEN C[n] ELSE f[n - 1]
  BY DEF Over
<1>2. 0 \in Q
  BY <1>1
<1>3. ASSUME NEW n \in 0 .. N - 1, n \in Q PROVE n + 1 \in Q
  <2>1. n + 1 \in 0 .. N /\ n + 1 # 0
    OBVIOUS
  <2>2. CASE n + 1 \in P
    <3>1. f[n + 1] = C[n + 1]
      BY <1>1, <2>1, <2>2
    <3>2. n + 1 \in P \cap 1 .. n + 1
      BY <2>2
    <3>3. ASSUME NEW k \in P \cap 1 .. n + 1, \A l \in P \cap 1 .. n + 1 : l <= k
          PROVE  k = n + 1
      BY <3>2, <3>3
    <3> QED
      BY <2>1, <2>2, <3>1, <3>2, <3>3
  <2>3. CASE n + 1 \notin P
    <3>1. f[n + 1] = f[n]
      BY <1>1, <2>1, <2>3
    <3>2. P \cap 1 .. n + 1 = P \cap 1 .. n
      BY <2>3
    <3> QED
      BY <1>3, <2>1, <3>1, <3>2
  <2> QED
    BY <2>2, <2>3
<1>4. N \in Q
  <2> HIDE DEF Q
  <2> QED
    BY <1>2, <1>3, CountingUp
<1>5. P \cap 1 .. N = P
  OBVIOUS
<1> QED
  BY <1>4, <1>5

(* A strict order of all the members of a set, given as a set of pairs.    *)
IsStrictOrder(L, D) ==
  /\ \A u \in D : <<u, u>> \notin L
  /\ \A u, v \in D : u = v \/ <<u, v>> \in L \/ <<v, u>> \in L
  /\ \A u, v, w \in D : <<u, v>> \in L /\ <<v, w>> \in L => <<u, w>> \in L

(* A finite set so ordered can be put in a row: every member at the        *)
(* position that the number of those before it gives.                      *)
LEMMA OrdersCanBeListed ==
  ASSUME NEW D, IsFiniteSet(D), NEW L, IsStrictOrder(L, D)
  PROVE  \E order \in [1 .. Cardinality(D) -> D] :
           /\ Range(order) = D
           /\ \A j, k \in 1 .. Cardinality(D) : j < k => <<order[j], order[k]>> \in L
<1> DEFINE N == Cardinality(D)
           Before(u) == {v \in D : <<v, u>> \in L}
           rank == [u \in D |-> Cardinality(Before(u)) + 1]
<1>1. N \in Nat
  BY FS_CardinalityType
<1>2. ASSUME NEW u \in D
      PROVE  IsFiniteSet(Before(u)) /\ Cardinality(Before(u)) \in Nat
  BY FS_Subset, FS_CardinalityType
<1>3. ASSUME NEW u \in D PROVE rank[u] \in 1 .. N
  <2>1. Before(u) \in SUBSET D /\ Before(u) # D
    BY DEF IsStrictOrder
  <2>2. Cardinality(Before(u)) <= N /\ Cardinality(Before(u)) # N
    <3> HIDE DEF Before
    <3> QED
      BY <2>1, FS_Subset
  <2> QED
    BY <1>1, <1>2, <2>2
<1>4. ASSUME NEW u \in D, NEW v \in D, <<u, v>> \in L PROVE rank[u] < rank[v]
  <2>1. Before(u) \in SUBSET Before(v) /\ Before(u) # Before(v)
    BY <1>4 DEF IsStrictOrder
  <2>2. Cardinality(Before(u)) <= Cardinality(Before(v))
        /\ Cardinality(Before(u)) # Cardinality(Before(v))
    <3>1. IsFiniteSet(Before(v))
      BY <1>2
    <3> HIDE DEF Before
    <3> QED
      BY <2>1, <3>1, FS_Subset
  <2>3. rank[u] = Cardinality(Before(u)) + 1 /\ rank[v] = Cardinality(Before(v)) + 1
    OBVIOUS
  <2>4. Cardinality(Before(u)) \in Nat /\ Cardinality(Before(v)) \in Nat
    BY <1>2
  <2> HIDE DEF rank, Before
  <2> QED
    BY <2>2, <2>3, <2>4
<1>5. rank \in Injection(D, 1 .. N)
  <2>1. rank \in [D -> 1 .. N]
    BY <1>3
  <2>2. ASSUME NEW u \in D, NEW v \in D, rank[u] = rank[v] PROVE u = v
    <3>1. rank[u] \in Int /\ rank[v] \in Int
      BY <1>3
    <3> HIDE DEF rank
    <3>2. <<u, v>> \notin L /\ <<v, u>> \notin L
      BY <1>4, <2>2, <3>1
    <3> QED
      BY <3>2 DEF IsStrictOrder
  <2> HIDE DEF rank
  <2> QED
    BY <2>1, <2>2 DEF Injection, IsInjective
<1>6. \A k \in 1 .. N : \E u \in D : rank[u] = k
  <2>1. IsFiniteSet(1 .. N) /\ Cardinality(1 .. N) = N
    BY <1>1, FS_Interval
  <2>2. rank \in Surjection(D, 1 .. N)
    <3> HIDE DEF rank
    <3> QED
      BY <1>5, <2>1, FS_Injection
  <2> HIDE DEF rank
  <2> QED
    BY <2>2 DEF Surjection
<1> DEFINE order == [k \in 1 .. N |-> CHOOSE u \in D : rank[u] = k]
<1>7. ASSUME NEW k \in 1 .. N PROVE order[k] \in D /\ rank[order[k]] = k
  <2> HIDE DEF rank
  <2> QED
    BY <1>6
<1>8. order \in [1 .. N -> D]
  <2> HIDE DEF rank
  <2> QED
    BY <1>7
<1>9. Range(order) = D
  <2>1. ASSUME NEW u \in D PROVE order[rank[u]] = u
    <3>1. rank[u] \in 1 .. N
      BY <1>3
    <3>2. order[rank[u]] \in D /\ rank[order[rank[u]]] = rank[u]
      BY <1>7, <3>1
    <3> HIDE DEF rank, order
    <3> QED
      BY <1>5, <3>2 DEF Injection, IsInjective
  <2> HIDE DEF rank, order
  <2> QED
    BY <1>3, <1>8, <2>1 DEF Range
<1>10. ASSUME NEW j \in 1 .. N, NEW k \in 1 .. N, j < k PROVE <<order[j], order[k]>> \in L
  <2> HIDE DEF rank, order
  <2>1. order[j] \in D /\ rank[order[j]] = j /\ order[k] \in D /\ rank[order[k]] = k
    BY <1>7
  <2>2. <<order[k], order[j]>> \notin L
    BY <1>1, <1>4, <1>10, <2>1
  <2>3. order[j] # order[k]
    BY <1>10, <2>1
  <2> QED
    BY <2>1, <2>2, <2>3 DEF IsStrictOrder
<1> HIDE DEF order
<1> QED
  BY <1>8, <1>9, <1>10

-------------------------------------------------------------------------------
(* The numbers of the objects in the OAM.                                  *)
Objects == 0 .. MAX_OBJECTS - 1

(* The objects below a number that cover the line.                         *)
Covering(n) == {j \in 0 .. n - 1 : Covers(j)}

(* Those of them for which the line has room.                              *)
WithRoom(n) == {i \in 0 .. n - 1 : Covers(i) /\ Cardinality(Covering(i)) < MAX_OBJECTS_PER_LINE}

(* One more object in the OAM covers the line or does not.                 *)
LEMMA CoveringGrows ==
  ASSUME NEW n \in Nat
  PROVE  /\ IsFiniteSet(Covering(n)) /\ Cardinality(Covering(n)) \in Nat
         /\ Covering(n + 1) = IF Covers(n) THEN Covering(n) \cup {n} ELSE Covering(n)
         /\ Cardinality(Covering(n + 1))
              = IF Covers(n) THEN Cardinality(Covering(n)) + 1 ELSE Cardinality(Covering(n))
<1>1. IsFiniteSet(Covering(n))
  <2>1. IsFiniteSet(0 .. n - 1) /\ Covering(n) \in SUBSET (0 .. n - 1)
    BY FS_Interval DEF Covering
  <2> QED
    BY <2>1, FS_Subset
<1>2. Cardinality(Covering(n)) \in Nat
  BY <1>1, FS_CardinalityType
<1>3. Covering(n + 1) = IF Covers(n) THEN Covering(n) \cup {n} ELSE Covering(n)
  <2>1. 0 .. (n + 1) - 1 = (0 .. n - 1) \cup {n}
    OBVIOUS
  <2> QED
    BY <2>1, Zenon DEF Covering
<1>4. n \notin Covering(n)
  BY DEF Covering
<1> QED
  BY <1>1, <1>2, <1>3, <1>4, FS_AddElement

(* Appending to a sequence adds one member to its range.                   *)
LEMMA RangeOfAppend ==
  ASSUME NEW S, NEW s \in Seq(S), NEW e \in S
  PROVE  Range(Append(s, e)) = Range(s) \cup {e}
<1> DEFINE t == Append(s, e)
<1>1. /\ DOMAIN s = 1 .. Len(s) /\ DOMAIN t = 1 .. Len(s) + 1
      /\ Len(s) \in Nat
      /\ \A k \in 1 .. Len(s) : t[k] = s[k]
      /\ t[Len(s) + 1] = e
  OBVIOUS
<1>2. 1 .. Len(s) + 1 = (1 .. Len(s)) \cup {Len(s) + 1}
  <2>1. ASSUME NEW n \in Nat PROVE 1 .. n + 1 = (1 .. n) \cup {n + 1}
    OBVIOUS
  <2> QED
    BY <1>1, <2>1
<1> HIDE DEF t
<1> QED
  BY <1>1, <1>2 DEF Range

(* The equation that defines oam_search, step by step.                     *)
Search(f) ==
  [n \in 0 .. MAX_OBJECTS |->
     IF n = 0 THEN <<>>
     ELSE IF Covers(n - 1) /\ Len(f[n - 1]) < MAX_OBJECTS_PER_LINE
          THEN Append(f[n - 1], n - 1)
          ELSE f[n - 1]]

(* The equation has a solution, so the search satisfies it.                *)
LEMMA SearchIsDefined == found = Search(found)
<1> DEFINE N == MAX_OBJECTS
           V == Seq(Nat)
           G == [n \in 1 .. N |->
                   [s \in V |-> IF Covers(n - 1) /\ Len(s) < MAX_OBJECTS_PER_LINE
                                THEN Append(s, n - 1) ELSE s]]
<1>1. N \in Nat
  BY ScreenAssumption
<1>2. G \in [1 .. N -> [V -> V]]
  <2>1. ASSUME NEW n \in 1 .. N, NEW s \in V
        PROVE  (IF Covers(n - 1) /\ Len(s) < MAX_OBJECTS_PER_LINE
                THEN Append(s, n - 1) ELSE s) \in V
    BY <1>1
  <2> HIDE DEF V
  <2> QED
    BY <2>1
<1>3. <<>> \in V
  OBVIOUS
<1>4. PICK f \in [0 .. N -> V] : f[0] = <<>> /\ \A n \in 1 .. N : f[n] = G[n][f[n - 1]]
  <2> HIDE DEF G, V, N
  <2> QED
    BY <1>1, <1>2, <1>3, StepByStep
<1>5. ASSUME NEW n \in 0 .. N
      PROVE  f[n] = IF n = 0 THEN <<>>
                    ELSE IF Covers(n - 1) /\ Len(f[n - 1]) < MAX_OBJECTS_PER_LINE
                         THEN Append(f[n - 1], n - 1)
                         ELSE f[n - 1]
  <2>1. CASE n = 0
    BY <1>4, <2>1
  <2>2. CASE n \in 1 .. N
    <3> HIDE DEF V, G
    <3>2. n - 1 \in 0 .. N
      BY <1>1, <2>2
    <3>1. f[n] = G[n][f[n - 1]] /\ f[n - 1] \in V
      BY <1>4, <2>2, <3>2
    <3> USE DEF G
    <3> QED
      BY <2>2, <3>1
  <2> QED
    BY <1>1, <2>1, <2>2
<1>6. f = Search(f)
  BY <1>4, <1>5 DEF Search
<1> QED
  BY <1>6, Zenon DEF found, Search

(* An object finds room if it covers the line and the room is not taken.   *)
LEMMA RoomShrinks ==
  ASSUME NEW n \in Nat
  PROVE  /\ WithRoom(n + 1) = IF Covers(n) /\ Cardinality(Covering(n)) < MAX_OBJECTS_PER_LINE
                              THEN WithRoom(n) \cup {n} ELSE WithRoom(n)
         /\ n \notin WithRoom(n)
         /\ IsFiniteSet(WithRoom(n)) /\ Cardinality(WithRoom(n)) \in Nat
<1>1. 0 .. (n + 1) - 1 = (0 .. n - 1) \cup {n}
  OBVIOUS
<1>2. IsFiniteSet(WithRoom(n))
  <2>1. IsFiniteSet(0 .. n - 1) /\ WithRoom(n) \in SUBSET (0 .. n - 1)
    BY FS_Interval DEF WithRoom
  <2> QED
    BY <2>1, FS_Subset
<1>3. Cardinality(WithRoom(n)) \in Nat
  BY <1>2, FS_CardinalityType
<1>4. n \notin WithRoom(n)
  BY DEF WithRoom
<1>5. WithRoom(n + 1) = IF Covers(n) /\ Cardinality(Covering(n)) < MAX_OBJECTS_PER_LINE
                        THEN WithRoom(n) \cup {n} ELSE WithRoom(n)
  BY <1>1, Zenon DEF WithRoom
<1> QED
  BY <1>2, <1>3, <1>4, <1>5

(* oam_search finds each of the first objects that cover the line once, up *)
(* to MAX_OBJECTS_PER_LINE, for an OAM of any length.                      *)
LEMMA SearchFindsTheFirst ==
  /\ oam_search \in Seq(Objects)
  /\ Range(oam_search) = WithRoom(MAX_OBJECTS)
  /\ Len(oam_search) = Cardinality(WithRoom(MAX_OBJECTS))
<1> DEFINE M == MAX_OBJECTS_PER_LINE
           N == MAX_OBJECTS
           Finds(n) ==
             /\ found[n] \in Seq(Objects)
             /\ Range(found[n]) = WithRoom(n)
             /\ Len(found[n]) = Cardinality(WithRoom(n))
             /\ Len(found[n]) = IF Cardinality(Covering(n)) < M THEN Cardinality(Covering(n)) ELSE M
           Q == {n \in 0 .. N : Finds(n)}
<1>1. M \in Nat /\ N \in Nat
  BY ScreenAssumption
<1>2. ASSUME NEW n \in 0 .. N
      PROVE  found[n] = IF n = 0 THEN <<>>
                        ELSE IF Covers(n - 1) /\ Len(found[n - 1]) < M
                             THEN Append(found[n - 1], n - 1)
                             ELSE found[n - 1]
  BY SearchIsDefined DEF Search
<1>3. 0 \in Q
  <2>1. Covering(0) = {} /\ WithRoom(0) = {}
    BY DEF Covering, WithRoom
  <2>2. found[0] = <<>>
    BY <1>1, <1>2
  <2>3. Range(<<>>) = {} /\ Len(<<>>) = 0 /\ <<>> \in Seq(Objects)
    BY DEF Range
  <2>4. Cardinality({}) = 0
    BY FS_EmptySet
  <2>5. Finds(0)
    <3>1. 0 = IF 0 < M THEN 0 ELSE M
      BY <1>1
    <3>2. Len(found[0]) = Cardinality(WithRoom(0)) /\ Range(found[0]) = WithRoom(0)
      BY <2>1, <2>2, <2>3, <2>4
    <3>3. Cardinality(Covering(0)) = 0 /\ Len(found[0]) = 0
      BY <2>1, <2>2, <2>3, <2>4
    <3>4. found[0] \in Seq(Objects)
      BY <2>2, <2>3
    <3> HIDE DEF M
    <3> QED
      BY <3>1, <3>2, <3>3, <3>4, Zenon
  <2> QED
    BY <1>1, <2>5
<1>4. ASSUME NEW n \in 0 .. N - 1, n \in Q PROVE n + 1 \in Q
  <2> DEFINE s == found[n]
             covering == Cardinality(Covering(n))
             room == Cardinality(WithRoom(n))
  <2>1. n \in Nat /\ n \in 0 .. N /\ n + 1 \in 0 .. N /\ n \in Objects
    BY <1>1 DEF Objects
  <2>2. /\ s \in Seq(Objects) /\ Range(s) = WithRoom(n) /\ Len(s) = room
        /\ Len(s) = IF covering < M THEN covering ELSE M
    BY <1>4
  <2>3. covering \in Nat /\ room \in Nat
    BY <2>1, CoveringGrows, RoomShrinks
  <2>4. Len(s) < M <=> covering < M
    BY <1>1, <2>2, <2>3
  <2>5. found[n + 1] = IF Covers(n) /\ covering < M THEN Append(s, n) ELSE s
    <3>1. (n + 1) - 1 = n /\ n + 1 # 0
      BY <2>1
    <3> HIDE DEF s, covering
    <3>2. found[n + 1] = IF Covers(n) /\ Len(found[n]) < M THEN Append(found[n], n) ELSE found[n]
      BY <1>2, <2>1, <3>1
    <3> QED
      BY <2>4, <3>2 DEF s
  <2>6. CASE Covers(n) /\ covering < M
    <3>1. found[n + 1] = Append(s, n)
      BY <2>5, <2>6
    <3>2. /\ Range(Append(s, n)) = WithRoom(n) \cup {n}
          /\ Append(s, n) \in Seq(Objects) /\ Len(Append(s, n)) = Len(s) + 1
      BY <2>1, <2>2, RangeOfAppend
    <3>3. WithRoom(n + 1) = WithRoom(n) \cup {n}
      BY <2>1, <2>6, RoomShrinks
    <3>4. Cardinality(WithRoom(n + 1)) = room + 1
      BY <2>1, <3>3, RoomShrinks, FS_AddElement
    <3>5. Cardinality(Covering(n + 1)) = covering + 1
      BY <2>1, <2>6, CoveringGrows
    <3>6. covering + 1 = IF covering + 1 < M THEN covering + 1 ELSE M
      BY <1>1, <2>3, <2>6
    <3>7. Len(s) = covering
      BY <2>2, <2>6
    <3> HIDE DEF s, covering, room, M, N
    <3>8. Finds(n + 1)
      BY <2>2, <3>1, <3>2, <3>3, <3>4, <3>5, <3>6, <3>7
    <3> HIDE DEF Finds
    <3> QED
      BY <2>1, <3>8
  <2>7. CASE ~(Covers(n) /\ covering < M)
    <3>1. found[n + 1] = s /\ WithRoom(n + 1) = WithRoom(n)
      BY <2>1, <2>5, <2>7, RoomShrinks
    <3>2. Cardinality(Covering(n + 1)) = IF Covers(n) THEN covering + 1 ELSE covering
      BY <2>1, CoveringGrows
    <3>3. Len(s) = IF Cardinality(Covering(n + 1)) < M THEN Cardinality(Covering(n + 1)) ELSE M
      <4> DEFINE grown == Cardinality(Covering(n + 1))
      <4>1. grown = IF Covers(n) THEN covering + 1 ELSE covering
        BY <3>2
      <4> HIDE DEF s, covering, room, M, N, grown
      <4>4. Len(s) = IF grown < M THEN grown ELSE M
        <5>1. CASE Covers(n)
          BY <1>1, <2>2, <2>3, <2>7, <4>1, <5>1
        <5>2. CASE ~Covers(n)
          BY <2>2, <4>1, <5>2
        <5> QED
          BY <5>1, <5>2
      <4> QED
        BY <4>4 DEF grown
    <3> HIDE DEF s, covering, room, M, N
    <3>4. Finds(n + 1)
      <4>1. room = Cardinality(WithRoom(n))
        BY DEF room
      <4> QED
        BY <2>2, <3>1, <3>3, <4>1
    <3> HIDE DEF Finds
    <3> QED
      BY <2>1, <3>4
  <2> QED
    BY <2>6, <2>7
<1>5. N \in Q
  <2> HIDE DEF Q
  <2>1. N \in 0 .. N
    BY <1>1
  <2> QED
    BY <1>1, <1>3, <1>4, <2>1, CountingUp
<1> QED
  BY <1>5 DEF oam_search

(* So what the search finds are the objects of the line.                   *)
LEMMA LineIsSearched ==
  ASSUME oam \in Oams
  PROVE  Range(oam_search) = OnLine
<1>1. DOMAIN oam = Objects
  BY ScreenAssumption DEF Objects
<1>2. ASSUME NEW i \in Objects
      PROVE  {j \in DOMAIN oam : j < i /\ Covers(j)} = Covering(i)
  <2>1. MAX_OBJECTS \in Nat
    BY ScreenAssumption
  <2>2. ASSUME NEW j PROVE j \in 0 .. i - 1 <=> j \in Objects /\ j < i
    BY <2>1 DEF Objects
  <2> QED
    BY <1>1, <2>2 DEF Covering
<1>3. WithRoom(MAX_OBJECTS) = OnLine
  BY <1>1, <1>2 DEF WithRoom, OnLine, Objects
<1> QED
  BY <1>3, SearchFindsTheFirst

(* The positions of the objects are bytes.                                 *)
LEMMA Positions ==
  ASSUME oam \in Oams, NEW i \in OnLine
  PROVE  x(i) \in Nat /\ y(i) \in Nat /\ i \in Nat
<1>1. i \in DOMAIN oam /\ i \in Nat
  BY ScreenAssumption DEF OnLine
<1>2. oam[i] \in BytesOf(1 .. 4)
  BY <1>1, ScreenAssumption
<1> QED
  BY <1>1, <1>2 DEF BytesOf, x, y

(* DrawnBefore orders the objects of a line strictly, so that qsort has one *)
(* result only, and the drawing follows it.                                *)
LEMMA TheLineIsSorted ==
  ASSUME oam \in Oams
  PROVE  LET M == Cardinality(OnLine) IN
           /\ M \in Nat
           /\ DrawingOrder \in [1 .. M -> OnLine]
           /\ Range(DrawingOrder) = OnLine
           /\ \A j, k \in 1 .. M : j < k => DrawnBefore(DrawingOrder[j], DrawingOrder[k])
<1> DEFINE M == Cardinality(OnLine)
           L == {pair \in OnLine \X OnLine : DrawnBefore(pair[1], pair[2])}
<1>1. IsFiniteSet(OnLine) /\ M \in Nat
  <2>1. IsFiniteSet(Objects) /\ OnLine \in SUBSET Objects
    <3>1. DOMAIN oam = Objects /\ MAX_OBJECTS \in Nat
      BY ScreenAssumption DEF Objects
    <3> QED
      BY <3>1, FS_Interval DEF OnLine, Objects
  <2>2. IsFiniteSet(OnLine)
    BY <2>1, FS_Subset
  <2> QED
    BY <2>2, FS_CardinalityType
<1>2. IsStrictOrder(L, OnLine)
  <2>1. ASSUME NEW u \in OnLine, NEW v \in OnLine
        PROVE  /\ ~DrawnBefore(u, u)
               /\ u = v \/ DrawnBefore(u, v) \/ DrawnBefore(v, u)
    BY Positions DEF DrawnBefore
  <2>2. ASSUME NEW u \in OnLine, NEW v \in OnLine, NEW w \in OnLine,
               DrawnBefore(u, v), DrawnBefore(v, w)
        PROVE  DrawnBefore(u, w)
    BY <2>2, Positions DEF DrawnBefore
  <2> QED
    BY <2>1, <2>2 DEF IsStrictOrder
<1>3. DOMAIN oam_search = 1 .. M /\ Range(oam_search) = OnLine
  <2>1. Len(oam_search) = M
    BY LineIsSearched, SearchFindsTheFirst
  <2> QED
    BY <2>1, LineIsSearched, SearchFindsTheFirst
<1>4. PICK order \in [1 .. M -> OnLine] :
        /\ Range(order) = OnLine
        /\ \A j, k \in 1 .. M : j < k => <<order[j], order[k]>> \in L
  <2> HIDE DEF L
  <2> QED
    BY <1>1, <1>2, OrdersCanBeListed
<1>5. IsOrderOf(order, oam_search)
  BY <1>3, <1>4 DEF IsOrderOf
<1>6. DrawingOrder \in [1 .. M -> OnLine] /\ IsOrderOf(DrawingOrder, oam_search)
  <2> HIDE DEF M
  <2> QED
    BY <1>3, <1>4, <1>5 DEF DrawingOrder
<1> QED
  BY <1>1, <1>3, <1>6 DEF IsOrderOf

(* The loop over the objects leaves in a pixel the colour of the frontmost *)
(* of those that set it, or the background where none does.                *)
LEMMA PaintedPixel ==
  ASSUME oam \in Oams, NEW x0
  PROVE  LET painters == {i \in OnLine : Draws(i, x0)}
             color    == PaintedOver(DrawingOrder, x0)
         IN  /\ painters = {} => color = BackgroundColor(x0)
             /\ \A i \in painters :
                  (\A j \in painters \ {i} : InFront(i, j)) => color = ObjectColor(i, x0)
             /\ color = BackgroundColor(x0) \/ \E i \in painters : color = ObjectColor(i, x0)
<1> DEFINE order    == DrawingOrder
           N        == Cardinality(OnLine)
           painters == {i \in OnLine : Draws(i, x0)}
           P        == {k \in 1 .. N : Draws(order[k], x0)}
           B        == BackgroundColor(x0)
           C        == [k \in 1 .. N |-> ObjectColor(order[k], x0)]
           p        == CHOOSE f : f = Over(f, N, P, B, C)
<1>1. /\ N \in Nat /\ order \in [1 .. N -> OnLine] /\ Range(order) = OnLine
      /\ \A j, k \in 1 .. N : j < k => DrawnBefore(order[j], order[k])
  BY TheLineIsSorted
<1>2. Len(order) = N
  <2>1. order \in Seq(OnLine)
    BY <1>1
  <2> HIDE DEF order, N
  <2> QED
    BY <1>1, <2>1
<1>3. PaintedOver(order, x0) = p[N]
  <2>1. ASSUME NEW f
        PROVE  [k \in 0 .. Len(order) |->
                  IF k = 0 THEN BackgroundColor(x0)
                  ELSE IF Draws(order[k], x0) THEN ObjectColor(order[k], x0)
                  ELSE f[k - 1]] = Over(f, N, P, B, C)
    <3>1. ASSUME NEW k \in 0 .. N
          PROVE  (IF k = 0 THEN BackgroundColor(x0)
                  ELSE IF Draws(order[k], x0) THEN ObjectColor(order[k], x0)
                  ELSE f[k - 1])
                  = IF k = 0 THEN B ELSE IF k \in P THEN C[k] ELSE f[k - 1]
      <4>1. k = 0 \/ k \in 1 .. N
        BY <1>1
      <4> HIDE DEF order, N
      <4> QED
        BY <4>1
    <3> HIDE DEF order, N, P, B, C
    <3> QED
      BY <1>2, <3>1 DEF Over
  <2> HIDE DEF order, N, P, B, C
  <2> QED
    BY <1>2, <2>1 DEF PaintedOver
<1>4. P \in SUBSET (1 .. N)
  OBVIOUS
<1>5. p = Over(p, N, P, B, C)
  <2> HIDE DEF N, P, B, C
  <2> QED
    BY <1>1, <1>4, SomethingIsPainted
<1>6. /\ P = {} => p[N] = B
      /\ \A k \in P : (\A l \in P : l <= k) => p[N] = C[k]
      /\ p[N] = B \/ \E k \in P : p[N] = C[k]
  <2> HIDE DEF N, P, B, C, p
  <2> QED
    BY <1>1, <1>4, <1>5, TheLastPainterStays
<1>7. ASSUME NEW i \in painters PROVE \E k \in P : order[k] = i
  BY <1>1 DEF Range
<1>8. ASSUME NEW k \in P PROVE order[k] \in painters /\ C[k] = ObjectColor(order[k], x0)
  BY <1>1
<1>9. ASSUME NEW i \in painters, \A j \in painters \ {i} : InFront(i, j)
      PROVE  p[N] = ObjectColor(i, x0)
  <2>1. PICK k \in P : order[k] = i
    BY <1>7
  <2>2. ASSUME NEW l \in P, k < l PROVE FALSE
    <3>1. order[l] \in OnLine /\ i \in OnLine /\ order[l] \in painters
      BY <1>8
    <3>2. DrawnBefore(i, order[l])
      BY <1>1, <2>1, <2>2
    <3>3. order[l] # i
      BY <3>1, <3>2, Positions DEF DrawnBefore
    <3>4. InFront(i, order[l])
      BY <1>9, <3>1, <3>3
    <3> QED
      BY <3>1, <3>2, <3>4, Positions DEF DrawnBefore, InFront
  <2>3. \A l \in P : l <= k
    BY <1>1, <2>2
  <2> HIDE DEF P, C, p
  <2> QED
    BY <1>6, <1>8, <2>1, <2>3
<1>10. painters = {} => P = {}
  BY <1>8
<1>11. p[N] = B \/ \E i \in painters : p[N] = ObjectColor(i, x0)
  <2> HIDE DEF P, C, p, N, B, painters
  <2> QED
    BY <1>6, <1>8
<1>12. painters = {} => p[N] = B
  <2> HIDE DEF P, C, p, N, B, painters
  <2> QED
    BY <1>6, <1>10
<1> HIDE DEF p
<1> QED
  BY <1>3, <1>9, <1>11, <1>12

(* For any number of objects in the OAM and whatever they are, searching,  *)
(* sorting and painting over leave in every pixel the frontmost object of  *)
(* those that have room on the line and set the pixel.                     *)
THEOREM FrontmostObjectIsSeen == ScreenSpec => []FrontmostObjectWins
<1>1. RegistersTypeOK => FrontmostObjectWins
  <2> SUFFICES ASSUME RegistersTypeOK, NEW x0 \in Columns
      PROVE  LET painters == {i \in OnLine : objectDisplayEnable \in flags /\ Draws(i, x0)} IN
             /\ painters = {} => pixelColor(x0) = BackgroundColor(x0)
             /\ \A i \in painters :
                  (\A j \in painters \ {i} : InFront(i, j)) => pixelColor(x0) = ObjectColor(i, x0)
    BY DEF FrontmostObjectWins
  <2>1. CASE objectDisplayEnable \in flags
    <3>1. {i \in OnLine : objectDisplayEnable \in flags /\ Draws(i, x0)}
            = {i \in OnLine : Draws(i, x0)}
      BY <2>1
    <3>2. pixelColor(x0) = PaintedOver(DrawingOrder, x0)
      BY <2>1 DEF pixelColor
    <3>3. oam \in Oams
      BY DEF RegistersTypeOK
    <3> QED
      BY <3>1, <3>2, <3>3, PaintedPixel
  <2>2. CASE objectDisplayEnable \notin flags
    BY <2>2 DEF pixelColor
  <2> QED
    BY <2>1, <2>2
<1> QED
  BY <1>1, RegistersTypeCorrect, PTL

(* The addresses at which a line of a pattern can start.                   *)
PatternLines == 0 .. 8190

(* The bits of the two bytes of such a line make colour numbers.           *)
LEMMA NumbersOfColors ==
  ASSUME NEW address \in PatternLines, NEW shift \in 0 .. 7
  PROVE  ColorNumber(address, shift) \in 0 .. 3
<1>1. ASSUME NEW value \in 0 .. 255 PROVE Bit(value, shift) \in 0 .. 1
  <2> DEFINE weight == <<1, 2, 4, 8, 16, 32, 64, 128>>[shift + 1]
  <2>1. weight \in {1, 2, 4, 8, 16, 32, 64, 128}
    OBVIOUS
  <2>2. ASSUME NEW w \in {1, 2, 4, 8, 16, 32, 64, 128} PROVE (value \div w) % 2 \in 0 .. 1
    BY <2>2
  <2> QED
    BY <2>1, <2>2 DEF Bit
<1>2. address \in VramIndex /\ address + 1 \in VramIndex
  BY DEF VramIndex, PatternLines
<1>3. Vram[address] \in 0 .. 255 /\ Vram[address + 1] \in 0 .. 255
  <2>1. Vram \in BytesOf(VramIndex)
    BY ScreenAssumption
  <2> QED
    BY <1>2, <2>1, BytesAreBytes
<1>4. Bit(Vram[address], shift) \in 0 .. 1 /\ Bit(Vram[address + 1], shift) \in 0 .. 1
  BY <1>1, <1>3
<1> QED
  BY <1>4 DEF ColorNumber

(* Something is displayed whose palette was never written.                 *)
UnsetShown ==
  \/ backgroundDisplayEnable \in flags /\ IsUnset("BGP")
  \/ objectDisplayEnable \in flags /\ (IsUnset("OBP0") \/ IsUnset("OBP1"))

(* A palette without one of its colours has none.                          *)
LEMMA SetOrUnset ==
  ASSUME RegistersTypeOK, NEW palette \in Palettes, NEW number \in Numbers(palette),
         palettes[palette][number] = Unset
  PROVE  IsUnset(palette)
<1>1. CASE palettes[palette] \in [Numbers(palette) -> {Unset}]
  BY <1>1 DEF IsUnset
<1>2. CASE palettes[palette] \in [Numbers(palette) -> 0 .. 3]
  BY <1>2, ScreenAssumption
<1> QED
  BY <1>1, <1>2 DEF RegistersTypeOK

(* A pixel without a colour is one of the background or of an object of    *)
(* the line, and its palette was never written.                            *)
LEMMA UncoloredPixel ==
  ASSUME RegistersTypeOK, currentLine \in Nat, NEW x0 \in Columns, pixelColor(x0) = Unset
  PROVE  UnsetShown
<1>1. ASSUME BackgroundColor(x0) = Unset PROVE UnsetShown
  <2>1. backgroundDisplayEnable \in flags
    BY <1>1, ScreenAssumption DEF BackgroundColor
  <2>2. tilePatternLine(Vram[tileMap + tileIndex(x0)]) \in PatternLines
    BY BackgroundStaysInItsTable DEF PatternLines, LowerTable, UpperTable
  <2>3. 7 - (PlaneX(x0) % 8) \in 0 .. 7
    <3>1. x0 + plain["SCX"] \in Nat
      <4>1. "SCX" \in Plain \ {"LYC"}
        BY DEF Plain
      <4>2. plain["SCX"] \in 0 .. 255
        BY <4>1 DEF RegistersTypeOK
      <4>3. x0 \in 0 .. 159
        BY ScreenAssumption
      <4> QED
        BY <4>2, <4>3, SMT
    <3>2. PICK b \in Nat : b = x0 + plain["SCX"]
      BY <3>1
    <3>3. PlaneX(x0) = b % 256
      BY <3>2 DEF PlaneX
    <3>4. (b % 256) % 8 \in 0 .. 7
      BY TileOfPoint
    <3> QED
      BY <3>3, <3>4
  <2>4. backgroundColorNumber(x0) \in 0 .. 3
    <3> DEFINE address == tilePatternLine(Vram[tileMap + tileIndex(x0)])
               shift   == 7 - (PlaneX(x0) % 8)
    <3>1. backgroundColorNumber(x0) = ColorNumber(address, shift)
      BY <2>1 DEF backgroundColorNumber
    <3>2. address \in PatternLines /\ shift \in 0 .. 7
      BY <2>2, <2>3
    <3> HIDE DEF address, shift
    <3> QED
      BY <3>1, <3>2, NumbersOfColors
  <2>5. palettes["BGP"][backgroundColorNumber(x0)] = Unset
    BY <1>1, <2>1 DEF BackgroundColor
  <2>6. "BGP" \in Palettes /\ backgroundColorNumber(x0) \in Numbers("BGP")
    BY <2>4 DEF Palettes, Numbers
  <2>7. IsUnset("BGP")
    BY <2>5, <2>6, SetOrUnset
  <2> QED
    BY <2>1, <2>7 DEF UnsetShown
<1>2. ASSUME objectDisplayEnable \in flags,
             NEW i \in OnLine, Draws(i, x0), ObjectColor(i, x0) = Unset
      PROVE  UnsetShown
  <2>1. objectLine(i) \in PatternLines
    BY ObjectsStayInTheirPatterns DEF PatternLines
  <2>2. objectPixelX(i, x0) \in 0 .. 7 /\ objectColorNumber(i, x0) # 0
    BY <1>2 DEF Draws
  <2>3. (IF xFlip(i) THEN objectPixelX(i, x0) ELSE 7 - objectPixelX(i, x0)) \in 0 .. 7
    BY <2>2
  <2>4. objectColorNumber(i, x0) \in 1 .. 3
    <3>1. objectColorNumber(i, x0) \in 0 .. 3
      <4> DEFINE address == objectLine(i)
                 shift   == IF xFlip(i) THEN objectPixelX(i, x0) ELSE 7 - objectPixelX(i, x0)
      <4>1. objectColorNumber(i, x0) = ColorNumber(address, shift)
        BY DEF objectColorNumber
      <4>2. address \in PatternLines /\ shift \in 0 .. 7
        BY <2>1, <2>3
      <4> HIDE DEF address, shift
      <4> QED
        BY <4>1, <4>2, NumbersOfColors
    <3> QED
      BY <2>2, <3>1
  <2>5. objectPalette(i) \in {"OBP0", "OBP1"}
    BY DEF objectPalette
  <2>6. objectPalette(i) \in Palettes /\ objectColorNumber(i, x0) \in Numbers(objectPalette(i))
    BY <2>4, <2>5 DEF Palettes, Numbers
  <2>7. IsUnset(objectPalette(i))
    BY <1>2, <2>6, SetOrUnset DEF ObjectColor
  <2> QED
    BY <1>2, <2>5, <2>7 DEF UnsetShown
<1>3. CASE objectDisplayEnable \in flags
  <2>1. pixelColor(x0) = PaintedOver(DrawingOrder, x0)
    BY <1>3 DEF pixelColor
  <2>2. \/ pixelColor(x0) = BackgroundColor(x0)
        \/ \E i \in OnLine : Draws(i, x0) /\ pixelColor(x0) = ObjectColor(i, x0)
    BY <2>1, PaintedPixel DEF RegistersTypeOK
  <2> QED
    BY <1>1, <1>2, <1>3, <2>2
<1>4. CASE objectDisplayEnable \notin flags
  BY <1>1, <1>4 DEF pixelColor
<1> QED
  BY <1>3, <1>4

(* The assertion of get_color_rgb ends the program only if it displays     *)
(* something whose palette it has never written, for any writes to the     *)
(* registers, video RAM and objects.                                       *)
THEOREM AssertionNeedsAnUnsetPalette == ScreenSpec => []AbortsNeedAnUnsetPalette
<1>1. AbortsNeedAnUnsetPalette <=> (aborted => UnsetShown)
  BY DEF AbortsNeedAnUnsetPalette, UnsetShown
<1>2. ScreenInit => AbortsNeedAnUnsetPalette
  BY DEF ScreenInit, AbortsNeedAnUnsetPalette
<1>3. ScreenTypeOK /\ AbortsNeedAnUnsetPalette /\ [ScreenNext]_allVars => AbortsNeedAnUnsetPalette'
  <2> SUFFICES ASSUME ScreenTypeOK, AbortsNeedAnUnsetPalette, [ScreenNext]_allVars
      PROVE  AbortsNeedAnUnsetPalette'
    OBVIOUS
  <2>1. CASE UNCHANGED allVars
    BY <2>1 DEF allVars, screenVars, AbortsNeedAnUnsetPalette, IsUnset
  <2>2. CASE ScreenNext /\ Abort
    <3>1. PICK x0 \in Columns : pixelColor(x0) = Unset
      BY <2>2 DEF Abort
    <3>2. UnsetShown
      BY <3>1, UncoloredPixel DEF ScreenTypeOK, TypeOK
    <3> QED
      BY <2>2, <3>2 DEF Abort, AbortsNeedAnUnsetPalette, UnsetShown, IsUnset
  <2>3. CASE ScreenNext /\ ~Abort
    <3>1. ~aborted
      BY <2>3 DEF ScreenNext
    <3>2. aborted' = aborted
      BY <2>3 DEF ScreenNext, Tick, StoreOam, screenVars
    <3> QED
      BY <3>1, <3>2 DEF AbortsNeedAnUnsetPalette
  <2> QED
    BY <2>1, <2>2, <2>3
<1> QED
  BY <1>2, <1>3, ScreenTypeCorrect, PTL DEF ScreenSpec

===============================================================================
