--------------------------- MODULE InterruptControl ---------------------------
(***************************************************************************)
(* How the CPU chooses between taking an interrupt, staying in HALT and    *)
(* executing an instruction, and the instructions and registers that bear  *)
(* on the choice.  Where an interrupt returns to is left to module Cpu.    *)
(***************************************************************************)
EXTENDS Interrupts, FiniteSets

VARIABLES
  ime,              (* the interrupt master enable flag                    *)
  halted,
  interruptFlags,   (* the IF register                                     *)
  interruptEnable   (* the IE register                                     *)

controlVars == <<ime, halted, interruptFlags, interruptEnable>>

Init ==
  /\ ime = TRUE
  /\ halted = FALSE
  /\ interruptFlags = {}
  /\ interruptEnable = {}

-------------------------------------------------------------------------------
(* cpu_execute_next: an enabled request is taken, the one with the lowest  *)
(* number first; else a halted CPU waits; else an instruction is executed. *)

Pending == interruptFlags \cap interruptEnable

Chosen(interrupt) ==
  interrupt \in Pending /\ \A other \in Pending : interrupt <= other

(* Mutant: a handler starts with interrupts still enabled. *)
handle_interrupt_KeepsIme(interrupt) ==
  /\ ime /\ Chosen(interrupt)
  /\ interruptFlags' = interruptFlags \ {interrupt}
  /\ halted' = FALSE
  /\ UNCHANGED <<ime, interruptEnable>>

(* Mutant: taking one interrupt clears the whole register. *)
handle_interrupt_ClearsAll(interrupt) ==
  /\ ime /\ Chosen(interrupt)
  /\ interruptFlags' = {}
  /\ ime' = FALSE
  /\ halted' = FALSE
  /\ UNCHANGED interruptEnable

handle_interrupt(interrupt) ==
  /\ ime /\ Chosen(interrupt)
  /\ interruptFlags' = interruptFlags \ {interrupt}
  /\ ime' = FALSE
  /\ halted' = FALSE
  /\ UNCHANGED interruptEnable

NothingToTake == ~(ime /\ Pending # {})

StayHalted == NothingToTake /\ halted /\ UNCHANGED controlVars

Executes == NothingToTake /\ ~halted

(* An instruction that leaves interrupts alone. *)
PlainInstruction == Executes /\ UNCHANGED controlVars

ei == Executes /\ ime' = TRUE /\ UNCHANGED <<halted, interruptFlags, interruptEnable>>

di == Executes /\ ime' = FALSE /\ UNCHANGED <<halted, interruptFlags, interruptEnable>>

(* Mutant: the CPU halts whether it can be woken or not. *)
halt_Unguarded ==
  /\ Executes
  /\ halted' = TRUE
  /\ UNCHANGED <<ime, interruptFlags, interruptEnable>>

(* HALT with interrupts disabled does nothing. *)
halt ==
  /\ Executes
  /\ halted' = ime
  /\ UNCHANGED <<ime, interruptFlags, interruptEnable>>

write_interrupt_flags(value) ==
  /\ Executes
  /\ interruptFlags' = value
  /\ UNCHANGED <<ime, halted, interruptEnable>>

write_interrupt_enable(value) ==
  /\ Executes
  /\ interruptEnable' = value
  /\ UNCHANGED <<ime, halted, interruptFlags>>

TakeInterrupt == \E interrupt \in Interrupt : handle_interrupt(interrupt)

GuestWritesFlags == \E value \in SUBSET Interrupt : write_interrupt_flags(value)

cpu_execute_next ==
  \/ TakeInterrupt
  \/ StayHalted
  \/ PlainInstruction
  \/ ei \/ di \/ halt
  \/ GuestWritesFlags
  \/ \E value \in SUBSET Interrupt : write_interrupt_enable(value)

(* A device ticks between two calls of cpu_execute_next. *)
DeviceRequest(interrupt) ==
  /\ interruptFlags' = cpu_request_interrupt(interruptFlags, interrupt)
  /\ UNCHANGED <<ime, halted, interruptEnable>>

Next == cpu_execute_next \/ \E interrupt \in Interrupt : DeviceRequest(interrupt)

Spec == Init /\ [][Next]_controlVars

-------------------------------------------------------------------------------
TypeOK ==
  /\ ime \in BOOLEAN /\ halted \in BOOLEAN
  /\ interruptFlags \in SUBSET Interrupt
  /\ interruptEnable \in SUBSET Interrupt

(* The CPU never waits in HALT with interrupts disabled, where nothing     *)
(* could ever wake it: the test in cpu_execute_next looks at ime first.    *)
HaltedCanBeWoken == halted => ime

(* A request is never dropped: a bit of IF goes out only because that very *)
(* interrupt was enabled and is taken, one at a time, or because the guest *)
(* wrote the register.                                                     *)
RequestsAreNotLost ==
  [][LET gone == interruptFlags \ interruptFlags'
     IN  gone # {} /\ ~GuestWritesFlags
           => gone \subseteq Pending /\ Cardinality(gone) = 1 /\ ime /\ ~ime']_controlVars

===============================================================================
