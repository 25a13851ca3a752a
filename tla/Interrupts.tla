------------------------------ MODULE Interrupts ------------------------------
(***************************************************************************)
(* The five interrupt sources and the request every device makes of the    *)
(* CPU.  The IF register is the set of the interrupts whose bit is 1; its  *)
(* three upper bits, which no source sets and the dispatch never reads,    *)
(* are left out.                                                           *)
(***************************************************************************)
EXTENDS Naturals

INTERRUPT_VBLANK == 0
INTERRUPT_LCDC   == 1
INTERRUPT_TIMER  == 2
INTERRUPT_SERIAL == 3
INTERRUPT_KEYPAD == 4

Interrupt == INTERRUPT_VBLANK .. INTERRUPT_KEYPAD

(* Mutant: the register is assigned instead of one bit being set. *)
cpu_request_interrupt_Assigns(flags, interrupt) == {interrupt}

(* The IF register once interrupt has been requested. *)
cpu_request_interrupt(flags, interrupt) == flags \cup {interrupt}

===============================================================================
