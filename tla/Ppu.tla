---------------------------------- MODULE Ppu ----------------------------------
(***************************************************************************)
(* The timing of the picture processor: the mode state machine of          *)
(* ppu_tick, the LY register the guest may clear at any moment, and what   *)
(* the main loop does with the result.  The HBLANK step draws the current  *)
(* line into the pixel buffer; here the buffer is the set of the lines     *)
(* drawn since a frame was last shown.                                     *)
(***************************************************************************)
EXTENDS Interrupts

CONSTANTS
  CYCLES_MODE_OAM_SEARCH,  (* cycles of each part of a visible line        *)
  CYCLES_MODE_DRAWING,
  CYCLES_MODE_HBLANK,
  LCD_HEIGHT,              (* number of visible lines                      *)
  NUM_VBLANK_LINES,        (* number of lines after the last visible one   *)
  instructionCycles        (* cycles the main loop charges per instruction *)

ASSUME PpuAssumption ==
  /\ CYCLES_MODE_OAM_SEARCH \in Nat \ {0}
  /\ CYCLES_MODE_DRAWING \in Nat \ {0}
  /\ CYCLES_MODE_HBLANK \in Nat \ {0}
  /\ LCD_HEIGHT \in Nat \ {0}
  /\ NUM_VBLANK_LINES \in Nat \ {0}
  /\ instructionCycles \in Nat \ {0}

CYCLES_PER_LINE ==
  CYCLES_MODE_OAM_SEARCH + CYCLES_MODE_DRAWING + CYCLES_MODE_HBLANK

NumLines == LCD_HEIGHT + NUM_VBLANK_LINES

VARIABLES
  cycleCounter,    (* cycles spent in the current mode (or VBlank line)    *)
  mode,
  currentLine,     (* the LY register                                      *)
  drawn,           (* lines drawn since a frame was last shown             *)
  enteringVBlank,  (* what ppu_tick returned, until the main loop used it  *)
  interruptFlags   (* the CPU's IF register                                *)

vars == <<cycleCounter, mode, currentLine, drawn, enteringVBlank, interruptFlags>>

Init ==
  /\ cycleCounter = 0
  /\ mode = "OAM_SEARCH"
  /\ currentLine = 0
  /\ drawn = {}
  /\ enteringVBlank = FALSE
  /\ interruptFlags = {}

-------------------------------------------------------------------------------
(* ppu_tick: one action per outcome of its switch.  Nothing else happens   *)
(* between the call that returned TRUE and the display of the frame.       *)

Count == cycleCounter + instructionCycles

(* Mutant: the drawing mode is left one cycle late. *)
ModeOver_LateDrawing ==
  \/ mode = "OAM_SEARCH" /\ Count >= CYCLES_MODE_OAM_SEARCH
  \/ mode = "DRAWING" /\ Count > CYCLES_MODE_DRAWING
  \/ mode = "HBLANK" /\ Count >= CYCLES_MODE_HBLANK
  \/ mode = "VBLANK" /\ Count > CYCLES_PER_LINE

ModeOver ==
  \/ mode = "OAM_SEARCH" /\ Count >= CYCLES_MODE_OAM_SEARCH
  \/ mode = "DRAWING" /\ Count >= CYCLES_MODE_DRAWING
  \/ mode = "HBLANK" /\ Count >= CYCLES_MODE_HBLANK
  \/ mode = "VBLANK" /\ Count > CYCLES_PER_LINE

StayInMode ==
  /\ ~ModeOver
  /\ cycleCounter' = Count
  /\ UNCHANGED <<mode, currentLine, drawn, enteringVBlank, interruptFlags>>

StartDrawing ==
  /\ ModeOver /\ mode = "OAM_SEARCH"
  /\ cycleCounter' = 0
  /\ mode' = "DRAWING"
  /\ UNCHANGED <<currentLine, drawn, enteringVBlank, interruptFlags>>

StartHBlank ==
  /\ ModeOver /\ mode = "DRAWING"
  /\ cycleCounter' = 0
  /\ mode' = "HBLANK"
  /\ UNCHANGED <<currentLine, drawn, enteringVBlank, interruptFlags>>

(* Mutant: LY moves on before the line is drawn. *)
FinishVisibleLine_AdvanceFirst ==
  /\ ModeOver /\ mode = "HBLANK"
  /\ cycleCounter' = 0
  /\ currentLine' = currentLine + 1
  /\ drawn' = drawn \cup {currentLine'}

(* The line is drawn, then LY moves on: the common part of both outcomes. *)
FinishVisibleLine ==
  /\ ModeOver /\ mode = "HBLANK"
  /\ cycleCounter' = 0
  /\ drawn' = drawn \cup {currentLine}
  /\ currentLine' = currentLine + 1

StartNextLine ==
  /\ FinishVisibleLine
  /\ currentLine' < LCD_HEIGHT
  /\ mode' = "OAM_SEARCH"
  /\ UNCHANGED <<enteringVBlank, interruptFlags>>

(* Mutant: the frame is handed over without its interrupt. *)
EnterVBlank_Silent ==
  /\ FinishVisibleLine
  /\ currentLine' >= LCD_HEIGHT
  /\ mode' = "VBLANK"
  /\ enteringVBlank' = TRUE
  /\ UNCHANGED interruptFlags

EnterVBlank ==
  /\ FinishVisibleLine
  /\ currentLine' >= LCD_HEIGHT
  /\ mode' = "VBLANK"
  /\ enteringVBlank' = TRUE
  /\ interruptFlags' = cpu_request_interrupt(interruptFlags, INTERRUPT_VBLANK)

StayInVBlank ==
  /\ ModeOver /\ mode = "VBLANK"
  /\ currentLine + 1 < NumLines
  /\ cycleCounter' = 0
  /\ currentLine' = currentLine + 1
  /\ UNCHANGED <<mode, drawn, enteringVBlank, interruptFlags>>

(* Mutant: the last line is left with > instead of >=. *)
LeaveVBlank_OneLineLate ==
  /\ ModeOver /\ mode = "VBLANK"
  /\ currentLine + 1 >= NumLines
  /\ cycleCounter' = 0
  /\ currentLine' = IF currentLine + 1 > NumLines THEN 0 ELSE currentLine + 1
  /\ mode' = IF currentLine + 1 > NumLines THEN "OAM_SEARCH" ELSE mode
  /\ UNCHANGED <<drawn, enteringVBlank, interruptFlags>>

(* Mutant: LY wraps but the mode is left alone. *)
LeaveVBlank_KeepsMode ==
  /\ ModeOver /\ mode = "VBLANK"
  /\ currentLine + 1 >= NumLines
  /\ cycleCounter' = 0
  /\ currentLine' = 0
  /\ UNCHANGED <<mode, drawn, enteringVBlank, interruptFlags>>

LeaveVBlank ==
  /\ ModeOver /\ mode = "VBLANK"
  /\ currentLine + 1 >= NumLines
  /\ cycleCounter' = 0
  /\ currentLine' = 0
  /\ mode' = "OAM_SEARCH"
  /\ UNCHANGED <<drawn, enteringVBlank, interruptFlags>>

ppu_tick ==
  /\ ~enteringVBlank
  /\ \/ StayInMode \/ StartDrawing \/ StartHBlank
     \/ StartNextLine \/ EnterVBlank \/ StayInVBlank \/ LeaveVBlank

-------------------------------------------------------------------------------
(* The end of the iteration that entered VBlank: the frame is shown. *)
graphics_update ==
  /\ enteringVBlank
  /\ enteringVBlank' = FALSE
  /\ drawn' = {}
  /\ UNCHANGED <<cycleCounter, mode, currentLine, interruptFlags>>

(* Mutant: the write leaves the mode machine where it was. *)
write_ly_KeepsMode ==
  /\ ~enteringVBlank
  /\ currentLine' = 0
  /\ cycleCounter' = 0
  /\ UNCHANGED <<mode, drawn, enteringVBlank, interruptFlags>>

(* The guest writes LY, whatever the value. *)
write_ly ==
  /\ ~enteringVBlank
  /\ currentLine' = 0
  /\ cycleCounter' = 0
  /\ mode' = "OAM_SEARCH"
  /\ UNCHANGED <<drawn, enteringVBlank, interruptFlags>>

(* The CPU takes the interrupt, or the guest clears its bit. *)
AcknowledgeVBlank ==
  /\ ~enteringVBlank
  /\ INTERRUPT_VBLANK \in interruptFlags
  /\ interruptFlags' = interruptFlags \ {INTERRUPT_VBLANK}
  /\ UNCHANGED <<cycleCounter, mode, currentLine, drawn, enteringVBlank>>

Next == ppu_tick \/ graphics_update \/ write_ly \/ AcknowledgeVBlank

Spec == Init /\ [][Next]_vars

(* The loop ticks the PPU and ends its iteration as long as it runs. *)
FairSpec == Spec /\ WF_vars(ppu_tick) /\ WF_vars(graphics_update)

-------------------------------------------------------------------------------
(* The counter never reaches the length of the longest wait, LY names one  *)
(* of the lines and only visible lines are ever drawn.                     *)
TypeOK ==
  /\ cycleCounter \in 0 .. CYCLES_PER_LINE
  /\ mode \in {"OAM_SEARCH", "DRAWING", "HBLANK", "VBLANK"}
  /\ currentLine \in 0 .. NumLines - 1
  /\ drawn \in SUBSET (0 .. LCD_HEIGHT - 1)
  /\ enteringVBlank \in BOOLEAN
  /\ interruptFlags \in SUBSET Interrupt

(* The mode and LY agree about being inside the screen: the PPU is in      *)
(* VBlank exactly on the lines below the screen, wherever the guest resets *)
(* LY.  ppu_render_line indexes the pixel buffer with LY and relies on it. *)
VBlankBelowTheScreen == mode = "VBLANK" <=> currentLine >= LCD_HEIGHT

(* Whenever a frame is handed to the display every one of its lines has    *)
(* been drawn since the previous frame was shown: a reset of LY in the     *)
(* middle of a frame never lets a stale line through.                      *)
ShownFramesAreComplete == enteringVBlank => drawn = 0 .. LCD_HEIGHT - 1

(* To everything outside it the PPU is a FrameClock: LY skips no line, and *)
(* the interrupt and the frame come together, once per frame.              *)
Clock == INSTANCE FrameClock
           WITH Height <- LCD_HEIGHT, line <- currentLine,
                requested <- INTERRUPT_VBLANK \in interruptFlags,
                frameDue <- enteringVBlank
ImplementsFrameClock == Clock!Spec

(* The number of cycles since the beginning of the current line. *)
LinePosition ==
  CASE mode = "DRAWING" -> CYCLES_MODE_OAM_SEARCH + cycleCounter
    [] mode = "HBLANK" -> CYCLES_MODE_OAM_SEARCH + CYCLES_MODE_DRAWING + cycleCounter
    [] OTHER -> cycleCounter

(* A visible line ends after CYCLES_PER_LINE cycles, neither sooner nor    *)
(* later: its modes follow each other without losing or gaining a cycle.   *)
VisibleLinesKeepTime ==
  [][/\ StayInMode \/ StartDrawing \/ StartHBlank
          => LinePosition' = LinePosition + instructionCycles
     /\ FinishVisibleLine
          => LinePosition + instructionCycles = CYCLES_PER_LINE]_vars

(* What the name CYCLES_PER_LINE says of every line, those of VBlank       *)
(* included: no line is longer than that.                                  *)
EveryLineKeepsTime == LinePosition < CYCLES_PER_LINE

(* A write of LY that is not just what the tick does at the end of a frame. *)
LyReset == write_ly /\ ~ppu_tick

(* Frames keep being shown, and with them the input keeps being polled,    *)
(* unless the guest resets LY for ever.                                    *)
FramesKeepComing == <>[][~LyReset]_vars => []<>enteringVBlank

===============================================================================
