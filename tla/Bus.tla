---------------------------------- MODULE Bus ----------------------------------
(***************************************************************************)
(* The memory with the keypad and the OAM DMA behind it.  The program and  *)
(* the DMA reach the same bytes, and the DMA reads them as the program     *)
(* does, one after the other, through the handlers of the registers: the   *)
(* copy of the page of the registers looks at the keys.                    *)
(***************************************************************************)
EXTENDS Memory, Interrupts, DmaParameters

CONSTANTS
  Groups,         (* the selection bits of P1, each one with its eight keys *)
  Lines,
  Offsets         (* the offsets of the OAM that are looked at             *)

P1_ADDRESS  == 65280
DMA_ADDRESS == 65350

VARIABLES
  selected, low, pressed, interruptFlags,
  cycleCounter, sourceAddressStart

keypadVars == <<selected, low, pressed, interruptFlags>>
dmaVars == <<cycleCounter, sourceAddressStart>>
vars == <<memoryVars, keypadVars, dmaVars>>

Keypad == INSTANCE Keypad

ASSUME BusAssumption ==
  /\ Groups \subseteq {16, 32}
  /\ Offsets # {} /\ Offsets \subseteq 0 .. MEMORY_OAM_SIZE - 1
  /\ OamPage = 254 /\ Pages \subseteq 0 .. 255 /\ Byte \subseteq Pages
  /\ \A page \in Pages, i \in Offsets : page * 256 + i \in Addresses
  /\ \A address \in Addresses :
       Place(address)[1] = "oam" => Place(address)[2] \in Offsets

(* What a read gives: P1 is brought up to date before it is read, and the  *)
(* DMA register cannot be read.                                            *)
Read(address) ==
  IF address = P1_ADDRESS THEN <<"P1", selected, Keypad!Level>> ELSE memory_read_word(address)

-------------------------------------------------------------------------------
(* The handler of a register runs when a byte of the access is its own. *)
StoreP1(address, value) ==
  IF address = P1_ADDRESS
  THEN Keypad!write_p1({group \in Groups : (value \div group) % 2 = 1})
  ELSE UNCHANGED keypadVars

StoreDma(address, value) ==
  IF address = DMA_ADDRESS
  THEN cycleCounter' = NUM_DMA_CYCLES /\ sourceAddressStart' = value
  ELSE UNCHANGED dmaVars

write_word(address, value) ==
  /\ memory_write_word(address, value)
  /\ StoreP1(address, value)
  /\ StoreDma(address, value)

(* At most one byte of a word is for one of the two registers. *)
write_dword(address, lowByte, highByte) ==
  LET next == NextAddress(address) IN
  /\ memory_write_dword(address, lowByte, highByte)
  /\ IF next = P1_ADDRESS THEN StoreP1(next, highByte) ELSE StoreP1(address, lowByte)
  /\ IF next = DMA_ADDRESS THEN StoreDma(next, highByte) ELSE StoreDma(address, lowByte)

(* Of all reads of the program only that of P1 changes anything. *)
read_p1 == Keypad!read_p1 /\ UNCHANGED <<memoryVars, dmaVars>>

-------------------------------------------------------------------------------
Left == cycleCounter - instructionCycles

CountDown ==
  /\ cycleCounter > 0 /\ Left > 0
  /\ cycleCounter' = Left
  /\ UNCHANGED <<sourceAddressStart, memoryVars, keypadVars>>

(* The address the copy reads for a place of the OAM. *)
Source(place) == sourceAddressStart * 256 + place[2]

CopiedRam ==
  [place \in DOMAIN ram |-> IF place[1] = "oam" THEN Read(Source(place)) ELSE ram[place]]

(* Mutant: the counter is rearmed instead of being left where it ended. *)
CopyPage_Rearmed ==
  /\ cycleCounter > 0 /\ Left <= 0
  /\ cycleCounter' = NUM_DMA_CYCLES
  /\ ram' = CopiedRam
  /\ IF \E i \in Offsets : sourceAddressStart * 256 + i = P1_ADDRESS
     THEN Keypad!read_p1
     ELSE UNCHANGED keypadVars
  /\ UNCHANGED <<sourceAddressStart, selectedRomBank>>

(* Mutant: the copy waits for the counter to be exactly zero. *)
CopyPage_AtZero ==
  /\ cycleCounter > 0 /\ Left = 0
  /\ cycleCounter' = Left
  /\ ram' = CopiedRam
  /\ UNCHANGED <<sourceAddressStart, selectedRomBank, keypadVars>>

(* Mutant: the copy reads P1 from under its handler, which then misses the *)
(* lines that have fallen.                                                 *)
CopyPage_SwallowsPress ==
  /\ cycleCounter > 0 /\ Left <= 0
  /\ cycleCounter' = Left
  /\ ram' = CopiedRam
  /\ IF \E i \in Offsets : sourceAddressStart * 256 + i = P1_ADDRESS
     THEN low' = Keypad!Level /\ UNCHANGED <<selected, pressed, interruptFlags>>
     ELSE UNCHANGED keypadVars
  /\ UNCHANGED <<sourceAddressStart, selectedRomBank>>

CopyPage ==
  /\ cycleCounter > 0 /\ Left <= 0
  /\ cycleCounter' = Left
  /\ ram' = CopiedRam
  /\ IF \E i \in Offsets : sourceAddressStart * 256 + i = P1_ADDRESS
     THEN Keypad!read_p1
     ELSE UNCHANGED keypadVars
  /\ UNCHANGED <<sourceAddressStart, selectedRomBank>>

dma_tick == CountDown \/ CopyPage

keypad_tick == Keypad!keypad_tick /\ UNCHANGED <<memoryVars, dmaVars>>

-------------------------------------------------------------------------------
Init ==
  /\ MemoryInit /\ Keypad!Init
  /\ cycleCounter = 0
  /\ sourceAddressStart \in Pages

(* Input is polled and interrupts are taken between any two of these.      *)
Next ==
  \/ \E store \in Program : write_word(store[1], store[2])
  \/ \E word \in Words : write_dword(word[1][1], word[1][2], word[2][2])
  \/ read_p1
  \/ dma_tick
  \/ keypad_tick
  \/ \E keys \in SUBSET Keypad!Keys :
       Keypad!PollInput(keys) /\ UNCHANGED <<memoryVars, dmaVars>>
  \/ Keypad!AcknowledgeKeypad /\ UNCHANGED <<memoryVars, dmaVars>>

Spec == Init /\ [][Next]_vars

(* Every iteration of the main loop ticks the DMA. *)
FairSpec == Spec /\ WF_vars(dma_tick)

-------------------------------------------------------------------------------
(* The pages as a program would read them: bytes that were stored, bytes   *)
(* of the ROM, and P1 with its selection and lines.                        *)
PageView == [page \in Pages |-> [i \in Offsets |-> Read(page * 256 + i)]]

(* The indices in a cartridge of up to 32 banks, and one past them. *)
RomIndex == 0 .. 32 * MEMORY_ROM_BANK_SIZE

Content == ({"byte"} \X (0 .. 255)) \cup ({"rom"} \X RomIndex)
             \cup ({"P1"} \X (SUBSET Groups) \X (SUBSET Lines))

Dma == INSTANCE Dma WITH ram <- PageView, Contents <- [Offsets -> Content]

(* Every part keeps its type, the pages that the DMA is shown among them.  *)
TypeOK == MemoryTypeOK /\ Keypad!TypeOK /\ Dma!TypeOK

(* The copy of the bytes, read one by one through the memory map with its  *)
(* echo, banks and register handlers, is the copy of a page at one moment, *)
(* made once for the last request.                                         *)
ImplementsPageCopy == Dma!ImplementsPageCopy

(* A requested copy is made unless the program asks again for ever.        *)
RequestsAreServed == Dma!RequestsAreServed

(* A press is not swallowed by whoever reads P1 first, the program or the  *)
(* DMA that copies the page of the registers, and only held keys request   *)
(* the interrupt, from inside the DMA too.                                 *)
KeysAreAnnounced == Keypad!PressesAreAnnounced /\ Keypad!RequestsComeFromHeldKeys

===============================================================================
