----------------------------- MODULE DmaParameters -----------------------------
(* The constants of the DMA, of the memory by pages and by bytes alike. *)
EXTENDS Integers

CONSTANTS
  NUM_DMA_CYCLES,     (* length of the countdown                           *)
  Pages,              (* the pages (upper address bytes) a copy may name   *)
  OamPage,            (* the page the OAM itself is in                     *)
  NoPage,
  instructionCycles

ASSUME DmaAssumption ==
  /\ NUM_DMA_CYCLES \in Nat \ {0}
  /\ OamPage \in Pages
  /\ NoPage \notin Pages
  /\ instructionCycles \in Nat \ {0}

===============================================================================
