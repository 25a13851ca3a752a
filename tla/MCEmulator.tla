------------------------------ MODULE MCEmulator ------------------------------
(* A session at the screen, with a program that uses LY, P1 and the DMA    *)
(* and may run into an unimplemented opcode, and a headless one with a     *)
(* program that handles interrupts.                                        *)
EXTENDS Emulator

TwoSessions ==
  {[headless |-> FALSE, host |-> TRUE, program |-> {"LY", "P1", "DMA", "STOP"}],
   [headless |-> TRUE, host |-> FALSE,
    program |-> {"EI", "DI", "HALT", "IF", "IE", "TAC", "SC"}]}

===============================================================================
