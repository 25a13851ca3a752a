------------------------------- MODULE DmaProofs -------------------------------
(***************************************************************************)
(* Proofs about the copy into the OAM, for any length of the countdown,    *)
(* any set of pages and any contents.                                      *)
(***************************************************************************)
EXTENDS Dma, TLAPS

(* The types are inductive: the counter overshoots zero by less than one   *)
(* instruction, whatever the two lengths are.                              *)
LEMMA DmaTypeNext == TypeOK /\ [Next]_vars => TypeOK'
<1> SUFFICES ASSUME TypeOK, [Next]_vars PROVE TypeOK'
  OBVIOUS
<1> USE DmaAssumption DEF DmaAssumption, TypeOK
<1>1. CASE CountDown
  BY <1>1 DEF CountDown, Counting, Left
<1>2. CASE CopyPage
  <2>1. cycleCounter' \in 1 - instructionCycles .. NUM_DMA_CYCLES
    BY <1>2 DEF CopyPage, Counting, Left
  <2> QED
    BY <1>2, <2>1 DEF CopyPage
<1>3. ASSUME NEW page \in Pages, write_dma(page) PROVE TypeOK'
  BY <1>3 DEF write_dma
<1>4. ASSUME NEW memory \in [Pages -> Contents], Store(memory)
      PROVE  TypeOK'
  BY <1>4 DEF Store
<1>5. CASE UNCHANGED vars
  BY <1>5 DEF vars
<1> QED
  BY <1>1, <1>2, <1>3, <1>4, <1>5 DEF Next, dma_tick, GuestRestart

(* The counter and the memory keep their types.                            *)
THEOREM DmaTypeCorrect == Spec => []TypeOK
<1>1. Init => TypeOK
  BY DmaAssumption DEF DmaAssumption, Init, TypeOK
<1> QED
  BY <1>1, DmaTypeNext, PTL DEF Spec

-------------------------------------------------------------------------------
(* Every step of the DMA or of the program is a step of PageCopy: counting *)
(* is invisible, and a store changes a word of the OAM at most.            *)
LEMMA StepsOfPageCopy ==
  TypeOK /\ [Next]_vars => [Copying!Next]_Copying!copyVars
<1> SUFFICES ASSUME TypeOK, [Next]_vars PROVE [Copying!Next]_Copying!copyVars
  OBVIOUS
<1> DEFINE due == IF cycleCounter > 0 THEN sourceAddressStart ELSE NoPage
<1> USE DmaAssumption DEF DmaAssumption, TypeOK
<1>1. CASE CountDown
  <2>1. cycleCounter > 0 /\ cycleCounter' > 0
    BY <1>1 DEF CountDown, Counting, Left
  <2> QED
    BY <1>1, <2>1 DEF CountDown, Copying!copyVars
<1>2. CASE CopyPage
  <2>1. cycleCounter > 0 /\ ~(cycleCounter' > 0)
    BY <1>2 DEF CopyPage, Counting, Left
  <2>2. due = sourceAddressStart /\ due # NoPage /\ due' = NoPage
    BY <2>1
  <2>3. ram' = [ram EXCEPT ![OamPage] = ram[due]]
    BY <1>2, <2>2 DEF CopyPage
  <2> QED
    BY <2>2, <2>3 DEF Copying!Next, Copying!Copy
<1>3. ASSUME NEW page \in Pages, write_dma(page)
      PROVE  [Copying!Next]_Copying!copyVars
  <2>1. due' = page /\ ram' = ram
    BY <1>3 DEF write_dma
  <2> QED
    BY <2>1 DEF Copying!Next, Copying!Ask
<1>4. ASSUME NEW memory \in [Pages -> Contents], Store(memory)
      PROVE  [Copying!Next]_Copying!copyVars
  <2>1. due' = due
    BY <1>4 DEF Store
  <2>2. \E i \in DOMAIN ram[OamPage] :
          \A k \in DOMAIN ram[OamPage] \ {i, i + 1} : ram'[OamPage][k] = ram[OamPage][k]
    BY <1>4 DEF Store
  <2> QED
    BY <2>1, <2>2 DEF Copying!Next, Copying!Store
<1>5. CASE UNCHANGED vars
  BY <1>5 DEF vars, Copying!copyVars
<1> QED
  BY <1>1, <1>2, <1>3, <1>4, <1>5 DEF Next, dma_tick, GuestRestart

(* The countdown of dma_tick with its restarts is one copy for the last    *)
(* request, of the page as it is when the countdown ends.                  *)
THEOREM DmaImplementsPageCopy == Spec => ImplementsPageCopy
<1>1. Init => Copying!Init
  BY DEF Init, Copying!Init
<1> QED
  BY <1>1, DmaTypeCorrect, StepsOfPageCopy, PTL
  DEF Spec, ImplementsPageCopy, Copying!Spec

===============================================================================
