--------------------------------- MODULE Timer ---------------------------------
(***************************************************************************)
(* The divider DIV and the programmable timer TIMA: two counters that are  *)
(* advanced by timer_tick once per instruction, and the four registers     *)
(* through which the guest reads, clears, loads, starts and stops them.    *)
(***************************************************************************)
EXTENDS Interrupts, Integers

CONSTANTS
  DIV_INCREMENT_CYCLES,             (* cycles per step of DIV              *)
  TIMER_INPUT_CLOCK_CYCLES_4096HZ,  (* cycles per step of TIMA at 4096 Hz  *)
  ByteSize,                         (* number of values of a register      *)
  instructionCycles                 (* cycles charged per instruction      *)

ASSUME TimerAssumption ==
  /\ DIV_INCREMENT_CYCLES \in Nat
  /\ instructionCycles \in 1 .. DIV_INCREMENT_CYCLES
  /\ TIMER_INPUT_CLOCK_CYCLES_4096HZ \in Nat \ {0}
  /\ ByteSize \in Nat \ {0, 1}

Byte == 0 .. ByteSize - 1
Select == 0 .. 3

(* cyclesPerTick is kept as the selection it stands for, the two lower     *)
(* bits of TAC: nothing but the TAC register itself reads it back.         *)
VARIABLES
  div, divIncrementCyclesLeft,
  tima, timaIncrementCyclesLeft,
  tma, select, stopped,
  interruptFlags

vars == <<div, divIncrementCyclesLeft, tima, timaIncrementCyclesLeft, tma,
          select, stopped, interruptFlags>>

Init ==
  /\ div = 0 /\ divIncrementCyclesLeft = DIV_INCREMENT_CYCLES
  /\ tima = 0 /\ timaIncrementCyclesLeft = TIMER_INPUT_CLOCK_CYCLES_4096HZ
  /\ tma = 0 /\ select = 0 /\ stopped = TRUE
  /\ interruptFlags = {}

-------------------------------------------------------------------------------
(* timer_tick: DIV first, then TIMA. *)

(* Mutant: the period is restarted from the tick that noticed its end, and *)
(* DIV steps when a count below zero is seen. *)
TickDiv_Strict ==
  LET left == divIncrementCyclesLeft - instructionCycles
  IN  \/ /\ left >= 0
         /\ divIncrementCyclesLeft' = left
         /\ UNCHANGED div
      \/ /\ left < 0
         /\ divIncrementCyclesLeft' = left + DIV_INCREMENT_CYCLES
         /\ div' = (div + 1) % ByteSize

TickDiv ==
  LET left == divIncrementCyclesLeft - instructionCycles
  IN  \/ /\ left > 0
         /\ divIncrementCyclesLeft' = left
         /\ UNCHANGED div
      \/ /\ left <= 0
         /\ divIncrementCyclesLeft' = left + DIV_INCREMENT_CYCLES
         /\ div' = (div + 1) % ByteSize

(* TIMA steps whenever its count is not positive, and the count is not     *)
(* loaded again.  A count below zero is kept as zero: the code only asks   *)
(* for its sign (the int it is kept in overflows after 2^31 cycles, which  *)
(* is left out).                                                           *)
NextCount ==
  IF stopped THEN timaIncrementCyclesLeft
  ELSE IF timaIncrementCyclesLeft > instructionCycles
       THEN timaIncrementCyclesLeft - instructionCycles
       ELSE 0

(* Mutant: the register steps first and is compared then, so that its      *)
(* largest value is never held.                                            *)
StepTima_StepFirst ==
  /\ NextCount <= 0
  /\ \/ /\ tima + 1 = ByteSize - 1
        /\ tima' = tma
        /\ interruptFlags' = cpu_request_interrupt(interruptFlags, INTERRUPT_TIMER)
     \/ /\ tima + 1 # ByteSize - 1
        /\ tima' = (tima + 1) % ByteSize
        /\ UNCHANGED interruptFlags

(* Mutant: the register wraps by itself, with no reload and no request. *)
StepTima_Silent ==
  /\ NextCount <= 0
  /\ tima' = (tima + 1) % ByteSize
  /\ UNCHANGED interruptFlags

StepTima ==
  /\ NextCount <= 0
  /\ \/ /\ tima = ByteSize - 1
        /\ tima' = tma
        /\ interruptFlags' = cpu_request_interrupt(interruptFlags, INTERRUPT_TIMER)
     \/ /\ tima # ByteSize - 1
        /\ tima' = tima + 1
        /\ UNCHANGED interruptFlags

TickTima ==
  /\ timaIncrementCyclesLeft' = NextCount
  /\ \/ StepTima
     \/ NextCount > 0 /\ UNCHANGED <<tima, interruptFlags>>

timer_tick ==
  /\ TickDiv
  /\ TickTima
  /\ UNCHANGED <<tma, select, stopped>>

-------------------------------------------------------------------------------
(* The handlers of the four registers.                                     *)

(* Mutant: clearing DIV also starts a new period. *)
write_div_NewPeriod ==
  /\ div' = 0
  /\ divIncrementCyclesLeft' = DIV_INCREMENT_CYCLES
  /\ UNCHANGED <<tima, timaIncrementCyclesLeft, tma, select, stopped, interruptFlags>>

(* DIV is cleared whatever is written; the running period is not. *)
write_div ==
  /\ div' = 0
  /\ UNCHANGED <<divIncrementCyclesLeft, tima, timaIncrementCyclesLeft, tma,
                 select, stopped, interruptFlags>>

write_tima(value) ==
  /\ tima' = value
  /\ UNCHANGED <<div, divIncrementCyclesLeft, timaIncrementCyclesLeft, tma,
                 select, stopped, interruptFlags>>

write_tma(value) ==
  /\ tma' = value
  /\ UNCHANGED <<div, divIncrementCyclesLeft, tima, timaIncrementCyclesLeft,
                 select, stopped, interruptFlags>>

(* Neither count is touched by a change of the rate or of the run bit. *)
write_tac(newSelect, newStopped) ==
  /\ select' = newSelect
  /\ stopped' = newStopped
  /\ UNCHANGED <<div, divIncrementCyclesLeft, tima, timaIncrementCyclesLeft,
                 tma, interruptFlags>>

(* The CPU takes the interrupt, or the guest clears its bit. *)
AcknowledgeTimer ==
  /\ INTERRUPT_TIMER \in interruptFlags
  /\ interruptFlags' = interruptFlags \ {INTERRUPT_TIMER}
  /\ UNCHANGED <<div, divIncrementCyclesLeft, tima, timaIncrementCyclesLeft,
                 tma, select, stopped>>

LoadTima == \E value \in Byte : write_tima(value)

GuestWrite ==
  \/ write_div
  \/ LoadTima
  \/ \E value \in Byte : write_tma(value)
  \/ \E newSelect \in Select, newStopped \in BOOLEAN : write_tac(newSelect, newStopped)

Next == timer_tick \/ GuestWrite \/ AcknowledgeTimer

Spec == Init /\ [][Next]_vars

(* Every iteration of the main loop ticks the timer. *)
FairSpec == Spec /\ WF_vars(timer_tick)

-------------------------------------------------------------------------------
(* Every register holds a byte and both counts stay inside a period.       *)
TypeOK ==
  /\ div \in Byte /\ tima \in Byte /\ tma \in Byte
  /\ divIncrementCyclesLeft \in 1 .. DIV_INCREMENT_CYCLES
  /\ timaIncrementCyclesLeft \in 0 .. TIMER_INPUT_CLOCK_CYCLES_4096HZ
  /\ select \in Select /\ stopped \in BOOLEAN
  /\ interruptFlags \in SUBSET {INTERRUPT_TIMER}

(* DIV and its count together are one clock that never drifts: no cycle is *)
(* lost at a step or when the guest clears DIV, however many cycles an     *)
(* instruction is charged.                                                 *)
Clock == INSTANCE FreeRunningClock
           WITH Period <- DIV_INCREMENT_CYCLES, Steps <- ByteSize,
                Cycles <- instructionCycles,
                time <- div * DIV_INCREMENT_CYCLES
                          + (DIV_INCREMENT_CYCLES - divIncrementCyclesLeft)
DivNeverDrifts == Clock!Spec

(* Whatever is loaded, reloaded, selected, started and stopped between any *)
(* two ticks, TIMA counts up one by one from what it was last given, goes  *)
(* on from the TMA of the moment when it passes its largest value, and     *)
(* requests its interrupt then and at no other time; and it does not move  *)
(* before it has been started for the first time since power-on.           *)
Counter == INSTANCE ReloadingCounter
             WITH Top <- ByteSize - 1, count <- tima, reload <- tma,
                  running <- ~stopped
                              \/ timaIncrementCyclesLeft < TIMER_INPUT_CLOCK_CYCLES_4096HZ,
                  requested <- INTERRUPT_TIMER \in interruptFlags
ImplementsReloadingCounter == Counter!Spec

(* A timer that is left running requests its interrupt again and again     *)
(* unless the guest loads TIMA for ever.                                   *)
RunningTimerFires ==
  (<>[]~stopped /\ <>[][~LoadTima]_vars) => []<>(INTERRUPT_TIMER \in interruptFlags)

(* What the constants TIMER_INPUT_CLOCK_CYCLES_... say: once TIMA has      *)
(* stepped, its next step is some cycles ahead.                            *)
NextStepIsAhead == [][timer_tick /\ tima' # tima => timaIncrementCyclesLeft' > 0]_vars

===============================================================================
