---------------------------------- MODULE Dma ----------------------------------
(***************************************************************************)
(* The copy into the object attribute memory: a write to the register      *)
(* starts a countdown, and the whole page is copied by the tick that ends  *)
(* it.  Nothing locks the memory meanwhile, so the program may go on       *)
(* changing the page, the OAM and the register itself.                     *)
(***************************************************************************)
EXTENDS DmaParameters

CONSTANT Contents     (* what a page may hold, a function of the offset    *)

VARIABLES
  cycleCounter,        (* cycles until the copy; not positive: none is due *)
  sourceAddressStart,  (* the page to copy                                 *)
  ram                  (* what every page holds, the OAM among them        *)

vars == <<cycleCounter, sourceAddressStart, ram>>

(* Neither the source nor the memory is initialised. *)
Init ==
  /\ cycleCounter = 0
  /\ sourceAddressStart \in Pages
  /\ ram \in [Pages -> Contents]

(* A write during a countdown starts it again. *)
write_dma(page) ==
  /\ cycleCounter' = NUM_DMA_CYCLES
  /\ sourceAddressStart' = page
  /\ UNCHANGED ram

(* The program stores a byte or a word.  Because of the echo, of the       *)
(* registers and of the ROM banks it may show in any of the pages; the OAM *)
(* itself changes where it was stored only.                                *)
Store(memory) ==
  /\ ram' = memory
  /\ \E i \in DOMAIN ram[OamPage] :
       \A k \in DOMAIN ram[OamPage] \ {i, i + 1} : memory[OamPage][k] = ram[OamPage][k]
  /\ UNCHANGED <<cycleCounter, sourceAddressStart>>

-------------------------------------------------------------------------------
Counting == cycleCounter > 0

Left == cycleCounter - instructionCycles

CountDown ==
  /\ Counting /\ Left > 0
  /\ cycleCounter' = Left
  /\ UNCHANGED <<sourceAddressStart, ram>>

CopyPage ==
  /\ Counting /\ Left <= 0
  /\ cycleCounter' = Left
  /\ ram' = [ram EXCEPT ![OamPage] = ram[sourceAddressStart]]
  /\ UNCHANGED sourceAddressStart

dma_tick == CountDown \/ CopyPage

GuestRestart == \E page \in Pages : write_dma(page)

Next ==
  \/ dma_tick
  \/ GuestRestart
  \/ \E memory \in [Pages -> Contents] : Store(memory)

Spec == Init /\ [][Next]_vars

(* Every iteration of the main loop ticks the DMA. *)
FairSpec == Spec /\ WF_vars(dma_tick)

-------------------------------------------------------------------------------
(* The counter overshoots by less than one instruction. *)
TypeOK ==
  /\ cycleCounter \in 1 - instructionCycles .. NUM_DMA_CYCLES
  /\ sourceAddressStart \in Pages
  /\ ram \in [Pages -> Contents]

(* The DMA is a PageCopy: one copy for the last of the requests made while *)
(* it was counting, of the page as the program left it, and no other.      *)
Copying == INSTANCE PageCopy
             WITH Page <- Pages, Oam <- OamPage, None <- NoPage,
                  due <- IF cycleCounter > 0 THEN sourceAddressStart ELSE NoPage
ImplementsPageCopy == Copying!Spec

(* A requested copy is made unless the program asks again for ever.        *)
RequestsAreServed ==
  <>[][~GuestRestart]_vars => [](cycleCounter > 0 => <>(cycleCounter <= 0))

===============================================================================
