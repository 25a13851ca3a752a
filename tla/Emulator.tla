------------------------------- MODULE Emulator -------------------------------
(***************************************************************************)
(* The whole emulator: the loop of main, one step for each call it makes,  *)
(* over the modules of the components.  They share the IF register and,    *)
(* through InputState, the keys.  The loop runs against the host, which    *)
(* queues events and may send SIGINT between any two steps, and against a  *)
(* program that may execute any of the kinds of instruction of its session.*)
(***************************************************************************)
EXTENDS Interrupts, Sequences

CONSTANTS
  instructionCycles,
  CYCLES_MODE_OAM_SEARCH, CYCLES_MODE_DRAWING, CYCLES_MODE_HBLANK,
  LCD_HEIGHT, NUM_VBLANK_LINES,
  DIV_INCREMENT_CYCLES, TIMER_INPUT_CLOCK_CYCLES_4096HZ, ByteSize,
  SERIAL_STEP_CYCLES_INTERNAL, SentBytes, NoByte,
  NUM_DMA_CYCLES, Pages, OamPage, Contents, NoPage,
  Groups, Lines, MaxEvents,
  Sessions,   (* the sessions to look at: see the variable session         *)
  GuestMasks  (* the values the program writes to IF and IE                *)

ASSUME EmulatorAssumption ==
  /\ GuestMasks \subseteq SUBSET Interrupt
  /\ NUM_DMA_CYCLES \in Nat \ {0} /\ instructionCycles \in Nat \ {0}
  /\ OamPage \in Pages /\ NoPage \notin Pages

VARIABLES
  session,    (* what a session is started with: the --headless option,    *)
              (* whether the host interferes, and the kinds of instruction *)
              (* the program contains                                      *)
  phase,      (* the call of the loop body that comes next                 *)
  isRunning,
  sigint_caught,
  ime, halted, interruptFlags, interruptEnable,
  ppuCycles, mode, currentLine, drawn, enteringVBlank,
  div, divIncrementCyclesLeft, tima, timaIncrementCyclesLeft, tma, select, stopped,
  dataToSend, startTransfer, internalClockSelect, transferInProgress,
  outgoingData, transferStepsRemaining, transferStepCyclesRemaining, serialLog,
  dmaCycles, sourceAddressStart, ram,
  selected, low,
  events, held, heard, pressed, quit, dumpMemory

loopVars == <<phase, isRunning, sigint_caught>>
cpuVars == <<ime, halted, interruptEnable>>
ppuVars == <<ppuCycles, mode, currentLine, drawn, enteringVBlank>>
timerVars == <<div, divIncrementCyclesLeft, tima, timaIncrementCyclesLeft, tma, select, stopped>>
serialVars == <<dataToSend, startTransfer, internalClockSelect, transferInProgress,
                outgoingData, transferStepsRemaining, transferStepCyclesRemaining, serialLog>>
dmaVars == <<dmaCycles, sourceAddressStart, ram>>
padVars == <<selected, low>>
inputVars == <<events, held, heard, pressed, quit, dumpMemory>>

deviceVars == <<ppuVars, timerVars, serialVars, dmaVars, padVars>>
vars == <<session, loopVars, cpuVars, interruptFlags, deviceVars, inputVars>>

Cpu == INSTANCE InterruptControl
Ppu == INSTANCE Ppu WITH cycleCounter <- ppuCycles
Timer == INSTANCE Timer
Serial == INSTANCE Serial
Dma == INSTANCE Dma WITH cycleCounter <- dmaCycles
Keypad == INSTANCE Keypad
Input == INSTANCE Input WITH Keys <- Groups \X Lines

(* main polls the input once before it enters the loop; nothing has        *)
(* happened yet then.                                                      *)
Init ==
  /\ session \in Sessions
  /\ phase = "cpu" /\ isRunning = TRUE /\ sigint_caught = FALSE
  /\ Cpu!Init /\ Ppu!Init /\ Timer!Init /\ Serial!Init /\ Dma!Init
  /\ Keypad!Init /\ Input!Init

-------------------------------------------------------------------------------
(* cpu_execute_next.  What an instruction does to a device it does through *)
(* one of the register handlers.                                           *)

AccessDevice ==
  \/ /\ "LY" \in session.program
     /\ Ppu!write_ly
     /\ UNCHANGED <<timerVars, serialVars, dmaVars, padVars>>
  \/ /\ "TAC" \in session.program
     /\ \E stop \in BOOLEAN : Timer!write_tac(0, stop)
     /\ UNCHANGED <<ppuVars, serialVars, dmaVars, padVars>>
  \/ /\ "SC" \in session.program
     /\ \E start, internal \in BOOLEAN : Serial!write_sc(start, internal)
     /\ UNCHANGED <<ppuVars, timerVars, dmaVars, padVars>>
  \/ /\ "DMA" \in session.program
     /\ \E page \in Pages : Dma!write_dma(page)
     /\ UNCHANGED <<ppuVars, timerVars, serialVars, padVars, interruptFlags>>
  \/ /\ "P1" \in session.program
     /\ Keypad!read_p1 \/ \E groups \in SUBSET Groups : Keypad!write_p1(groups)
     /\ UNCHANGED <<ppuVars, timerVars, serialVars, dmaVars>>

DeviceInstruction ==
  /\ Cpu!Executes
  /\ AccessDevice
  /\ UNCHANGED <<isRunning, cpuVars, pressed>>

ControlInstruction ==
  /\ \/ Cpu!PlainInstruction
     \/ "EI" \in session.program /\ Cpu!ei
     \/ "DI" \in session.program /\ Cpu!di
     \/ "HALT" \in session.program /\ Cpu!halt
     \/ \E value \in GuestMasks :
          \/ "IF" \in session.program /\ Cpu!write_interrupt_flags(value)
          \/ "IE" \in session.program /\ Cpu!write_interrupt_enable(value)
  /\ UNCHANGED <<isRunning, deviceVars, pressed>>

(* An opcode without an implementation ends the loop. *)
UnimplementedInstruction ==
  /\ "STOP" \in session.program
  /\ Cpu!Executes
  /\ isRunning' = FALSE
  /\ UNCHANGED <<cpuVars, interruptFlags, deviceVars, pressed>>

NoInstruction ==
  /\ Cpu!TakeInterrupt \/ Cpu!StayHalted
  /\ UNCHANGED <<isRunning, deviceVars, pressed>>

CpuStep ==
  /\ phase = "cpu" /\ phase' = "keypad"
  /\ NoInstruction \/ ControlInstruction \/ DeviceInstruction \/ UnimplementedInstruction
  /\ UNCHANGED <<sigint_caught, events, held, heard, quit, dumpMemory>>

-------------------------------------------------------------------------------
(* The ticks, in the order of the loop body. *)

KeypadStep ==
  /\ phase = "keypad" /\ phase' = "dma"
  /\ Keypad!keypad_tick
  /\ UNCHANGED <<isRunning, sigint_caught, cpuVars, ppuVars, timerVars, serialVars,
                 dmaVars, inputVars>>

DmaStep ==
  /\ phase = "dma" /\ phase' = "timer"
  /\ \/ Dma!dma_tick
     \/ ~Dma!Counting /\ UNCHANGED dmaVars
  /\ UNCHANGED <<isRunning, sigint_caught, cpuVars, interruptFlags, ppuVars, timerVars,
                 serialVars, padVars, inputVars>>

TimerStep ==
  /\ phase = "timer" /\ phase' = "ppu"
  /\ Timer!timer_tick
  /\ UNCHANGED <<isRunning, sigint_caught, cpuVars, ppuVars, serialVars, dmaVars, padVars,
                 inputVars>>

(* Mutant: the PPU waits while the CPU does. *)
PpuStep_WaitsForCpu ==
  /\ phase = "ppu" /\ phase' = "serial"
  /\ IF halted THEN UNCHANGED <<ppuVars, interruptFlags>> ELSE Ppu!ppu_tick
  /\ UNCHANGED <<isRunning, sigint_caught, cpuVars, timerVars, serialVars, dmaVars,
                 padVars, inputVars>>

PpuStep ==
  /\ phase = "ppu" /\ phase' = "serial"
  /\ Ppu!ppu_tick
  /\ UNCHANGED <<isRunning, sigint_caught, cpuVars, timerVars, serialVars, dmaVars,
                 padVars, inputVars>>

SerialStep ==
  /\ phase = "serial" /\ phase' = "checks"
  /\ \/ Serial!serial_tick
     \/ ~Serial!Active /\ UNCHANGED <<serialVars, interruptFlags>>
  /\ UNCHANGED <<isRunning, sigint_caught, cpuVars, ppuVars, timerVars, dmaVars, padVars,
                 inputVars>>

-------------------------------------------------------------------------------
(* The end of the loop body. *)

(* Mutant: the loop goes on for another iteration whatever isRunning says. *)
NextIteration_Always == phase' = "cpu"

NextIteration == phase' = IF isRunning' THEN "cpu" ELSE "over"

(* Mutant: the flag is recomputed and forgets that the CPU has stopped. *)
CheckQuit_Overrides ==
  /\ phase = "checks"
  /\ isRunning' = (~quit /\ ~sigint_caught)
  /\ IF enteringVBlank THEN phase' = "display" ELSE NextIteration
  /\ UNCHANGED <<sigint_caught, cpuVars, interruptFlags, deviceVars, inputVars>>

CheckQuit ==
  /\ phase = "checks"
  /\ isRunning' = (isRunning /\ ~quit /\ ~sigint_caught)
  /\ IF enteringVBlank THEN phase' = "display" ELSE NextIteration
  /\ UNCHANGED <<sigint_caught, cpuVars, interruptFlags, deviceVars, inputVars>>

(* The frame is shown and, unless headless, the input polled. *)
Display ==
  /\ phase = "display"
  /\ IF session.headless THEN UNCHANGED inputVars ELSE Input!input_update
  /\ Ppu!graphics_update
  /\ UNCHANGED isRunning
  /\ NextIteration
  /\ UNCHANGED <<sigint_caught, cpuVars, timerVars, serialVars, dmaVars, padVars>>

Loop ==
  /\ \/ CpuStep \/ KeypadStep \/ DmaStep \/ TimerStep \/ PpuStep \/ SerialStep
     \/ CheckQuit \/ Display
  /\ UNCHANGED session

(* The host: events are queued and SIGINT arrives at any moment. *)
HostActs ==
  /\ session.host /\ phase # "over"
  /\ \/ Input!HostEvent /\ UNCHANGED sigint_caught
     \/ sigint_caught' = TRUE /\ UNCHANGED inputVars
  /\ UNCHANGED <<session, phase, isRunning, cpuVars, interruptFlags, deviceVars>>

Next == Loop \/ HostActs

(* The loop goes on by itself; the host owes nothing. *)
Spec == Init /\ [][Next]_vars /\ WF_vars(Loop)

-------------------------------------------------------------------------------
(* The loop is at one of its calls, and over exactly when it was stopped   *)
(* and its last iteration was finished.                                    *)
TypeOK ==
  /\ phase \in {"cpu", "keypad", "dma", "timer", "ppu", "serial", "checks", "display", "over"}
  /\ isRunning \in BOOLEAN /\ sigint_caught \in BOOLEAN
  /\ enteringVBlank => phase \in {"serial", "checks", "display"}
  /\ phase = "cpu" => isRunning
  /\ phase = "over" => ~isRunning

(* Once something has stopped the loop it finishes the iteration it is in  *)
(* and executes nothing more, and nothing sets it going again.             *)
StopIsFinal == [][~isRunning => ~isRunning' /\ phase' # "cpu"]_vars

(* SIGINT ends the loop. *)
SignalEndsTheLoop == sigint_caught ~> phase = "over"

(* So does the window's request to quit, which takes a frame to be polled: *)
(* a program that resets LY for ever can hold it up, and none else.        *)
QuitEndsTheLoop ==
  <>[][phase = "cpu" => UNCHANGED ppuVars]_vars
    => [](Input!Commanded("quit") => <>(phase = "over"))

(* Every request to end the loop ends it, and nothing sets it going again: *)
(* neither the next check of the flags nor the next poll of the input.     *)
EndsForGood == StopIsFinal /\ SignalEndsTheLoop /\ QuitEndsTheLoop

(* Between two polls of the input the keypad has looked at the keys of the *)
(* first: no press that was polled is overwritten before it is announced.  *)
PolledKeysAreLookedAt == phase = "display" => Keypad!Level = low

(* After a poll the keypad shows the keyboard, as far as an event has ever  *)
(* spoken of a key, however the events of the frame were ordered.          *)
KeysFollowTheKeyboard == phase = "cpu" => Input!PressedFollowsTheKeyboard

(* Five devices share the IF register with the program, and every tick of  *)
(* theirs may touch it: a request leaves it only in the CPU's own call,    *)
(* either alone, by being taken, or by a write of one of its values by a   *)
(* program that writes IF, never by a tick, a register of a device, or     *)
(* another interrupt.                                                      *)
RequestsSurviveTheLoop ==
  [][LET gone == interruptFlags \ interruptFlags'
     IN  gone # {} =>
           /\ phase = "cpu" /\ phase' = "keypad"
           /\ \/ /\ gone \subseteq Cpu!Pending /\ Cpu!Cardinality(gone) = 1
                 /\ ime /\ ~ime'
              \/ /\ "IF" \in session.program /\ interruptFlags' \in GuestMasks
                 /\ Cpu!Executes /\ UNCHANGED <<cpuVars, deviceVars>>]_vars

(* The devices run on while the CPU waits, so a HALT that the VBlank       *)
(* interrupt may end does end.                                             *)
VBlankEndsHalt ==
  (halted /\ INTERRUPT_VBLANK \in interruptEnable) ~> (~halted \/ phase = "over")

===============================================================================
