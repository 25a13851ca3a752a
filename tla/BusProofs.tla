------------------------------ MODULE BusProofs ------------------------------
(***************************************************************************)
(* Proofs about the memory map, for every address and not only for a       *)
(* sample and either kind of cartridge, and about the memory with the      *)
(* keypad and the DMA on it, for any stores of the program: the bus is a   *)
(* keypad, and its pages are those of the abstract DMA, so that what is    *)
(* proved of the two holds on the bus.                                     *)
(***************************************************************************)
EXTENDS Bus, TLAPS

(* The address a place has by the start of its region: the inverse of the  *)
(* subtractions in the accesses.                                           *)
Base(name) ==
  IF name = "rom" THEN 0
  ELSE IF name = "romBankN" THEN 16384
  ELSE IF name = "vram" THEN 32768
  ELSE IF name = "externalRam" THEN 40960
  ELSE IF name = "wramBank0" THEN 49152
  ELSE IF name = "wramBank1" THEN 53248
  ELSE IF name = "oam" THEN 65024
  ELSE IF name = "notUsable" THEN 65184
  ELSE IF name = "io" THEN 65280
  ELSE IF name = "highRam" THEN 65408
  ELSE 65535

Origin(place) == Base(place[1]) + place[2]

(* The bounds of the regions as numbers.                                   *)
LEMMA Bounds ==
  /\ MEMORY_ROM_BANK0_START = 0 /\ MEMORY_ROM_BANK0_END = 16383
  /\ MEMORY_ROM_BANKN_START = 16384 /\ MEMORY_ROM_BANKN_END = 32768
  /\ MEMORY_VRAM_START = 32768 /\ MEMORY_VRAM_END = 40959
  /\ MEMORY_EXTERNAL_RAM_START = 40960 /\ MEMORY_EXTERNAL_RAM_END = 49151
  /\ MEMORY_WRAM_BANK0_START = 49152 /\ MEMORY_WRAM_BANK0_END = 53247
  /\ MEMORY_WRAM_BANK1_START = 53248 /\ MEMORY_WRAM_BANK1_END = 57343
  /\ MEMORY_WRAM_ECHO_START = 57344 /\ MEMORY_WRAM_ECHO_END = 65023
  /\ MEMORY_OAM_START = 65024 /\ MEMORY_OAM_END = 65183
  /\ MEMORY_NOT_USABLE_START = 65184 /\ MEMORY_NOT_USABLE_END = 65279
  /\ MEMORY_IO_START = 65280 /\ MEMORY_IO_END = 65407
  /\ MEMORY_HIGH_RAM_START = 65408 /\ MEMORY_HIGH_RAM_END = 65534
  /\ MEMORY_INTERRUPT_ENABLE_REGISTER_ADDRESS = 65535
BY DEF MEMORY_ROM_BANK0_START, MEMORY_ROM_BANK0_END, MEMORY_ROM_BANKN_START,
       MEMORY_ROM_BANKN_END, MEMORY_VRAM_START, MEMORY_VRAM_END,
       MEMORY_EXTERNAL_RAM_START, MEMORY_EXTERNAL_RAM_END,
       MEMORY_WRAM_BANK0_START, MEMORY_WRAM_BANK0_END,
       MEMORY_WRAM_BANK1_START, MEMORY_WRAM_BANK1_END,
       MEMORY_WRAM_ECHO_START, MEMORY_WRAM_ECHO_END, MEMORY_OAM_START,
       MEMORY_OAM_END, MEMORY_NOT_USABLE_START, MEMORY_NOT_USABLE_END,
       MEMORY_IO_START, MEMORY_IO_END, MEMORY_HIGH_RAM_START,
       MEMORY_HIGH_RAM_END, MEMORY_INTERRUPT_ENABLE_REGISTER_ADDRESS,
       MEMORY_ROM_BANK_SIZE, MEMORY_OAM_SIZE

InEcho(address) == 57344 <= address /\ address <= 65023

InBank(address) == 16384 <= address /\ address <= 32768

(* The addresses that lead to the arrays: the RAM but for its first one.    *)
InArrays(address) ==
  \/ 32769 <= address /\ address <= 65183
  \/ 65408 <= address /\ address <= 65534

Plain(address) == IF InEcho(address) THEN address - 8192 ELSE address

(* Only the addresses of the echo start over, at the address they stand    *)
(* for.                                                                    *)
LEMMA UnechoedValue ==
  ASSUME NEW address \in Int
  PROVE  Unechoed(address) = Plain(address)
BY Bounds, SMT DEF Unechoed, Plain, InEcho

(* The tests find the region of an address: no two regions overlap after   *)
(* the subtractions, so a place tells its address; the RAM leads to the    *)
(* arrays, and the bank shows behind its own addresses only.               *)
LEMMA PlaceTellsAddress ==
  ASSUME NEW address \in Address
  PROVE  /\ Origin(Place(address)) = Unechoed(address)
         /\ InArrays(address) <=> Place(address)[1] \in Arrays
         /\ Place(address)[1] = "romBankN" => InBank(address)
<1>0. address \in Int /\ 0 <= address /\ address <= 65535
  BY SMT DEF Address
<1> DEFINE at == Plain(address)
<1>1. at \in Int /\ 0 <= at /\ at <= 65535 /\ ~InEcho(at)
  BY <1>0, SMT DEF Plain, InEcho
<1>2. Place(address) = Direct(at) /\ Unechoed(address) = at
  BY <1>0, UnechoedValue, SMT DEF Place
<1>a. (InArrays(address) <=> InArrays(at)) /\ (InBank(at) => InBank(address))
  BY <1>0, SMT DEF Plain, InEcho, InArrays, InBank
<1> HIDE DEF at
<1> DEFINE Found(place) == /\ Origin(place) = at
                           /\ InArrays(at) <=> place[1] \in Arrays
                           /\ place[1] = "romBankN" => InBank(at)
<1>b. SUFFICES Found(Direct(at))
  BY <1>2, <1>a
<1> HIDE DEF Found
<1>3. CASE 0 <= at /\ at <= 16383
  <2>1. Direct(at) = <<"rom", at - 0>>
    BY <1>1, <1>3, Bounds, SMT DEF Direct
  <2>2. Base("rom") = 0
    BY SMT DEF Base
  <2>3. Found(<<"rom", at - 0>>)
    BY <1>1, <1>3, <2>2, SMT DEF Found, Origin, Arrays, InArrays, InBank
  <2> QED
    BY <2>1, <2>3
<1>4. CASE 16384 <= at /\ at <= 32768
  <2>1. Direct(at) = <<"romBankN", at - 16384>>
    BY <1>1, <1>4, Bounds, SMT DEF Direct
  <2>2. Base("romBankN") = 16384
    BY SMT DEF Base
  <2>3. Found(<<"romBankN", at - 16384>>)
    BY <1>1, <1>4, <2>2, SMT DEF Found, Origin, Arrays, InArrays, InBank
  <2> QED
    BY <2>1, <2>3
<1>5. CASE 32769 <= at /\ at <= 40959
  <2>1. Direct(at) = <<"vram", at - 32768>>
    BY <1>1, <1>5, Bounds, SMT DEF Direct
  <2>2. Base("vram") = 32768
    BY SMT DEF Base
  <2>3. Found(<<"vram", at - 32768>>)
    BY <1>1, <1>5, <2>2, SMT DEF Found, Origin, Arrays, InArrays, InBank
  <2> QED
    BY <2>1, <2>3
<1>6. CASE 40960 <= at /\ at <= 49151
  <2>1. Direct(at) = <<"externalRam", at - 40960>>
    BY <1>1, <1>6, Bounds, SMT DEF Direct
  <2>2. Base("externalRam") = 40960
    BY SMT DEF Base
  <2>3. Found(<<"externalRam", at - 40960>>)
    BY <1>1, <1>6, <2>2, SMT DEF Found, Origin, Arrays, InArrays, InBank
  <2> QED
    BY <2>1, <2>3
<1>7. CASE 49152 <= at /\ at <= 53247
  <2>1. Direct(at) = <<"wramBank0", at - 49152>>
    BY <1>1, <1>7, Bounds, SMT DEF Direct
  <2>2. Base("wramBank0") = 49152
    BY SMT DEF Base
  <2>3. Found(<<"wramBank0", at - 49152>>)
    BY <1>1, <1>7, <2>2, SMT DEF Found, Origin, Arrays, InArrays, InBank
  <2> QED
    BY <2>1, <2>3
<1>8. CASE 53248 <= at /\ at <= 57343
  <2>1. Direct(at) = <<"wramBank1", at - 53248>>
    BY <1>1, <1>8, Bounds, SMT DEF Direct
  <2>2. Base("wramBank1") = 53248
    BY SMT DEF Base
  <2>3. Found(<<"wramBank1", at - 53248>>)
    BY <1>1, <1>8, <2>2, SMT DEF Found, Origin, Arrays, InArrays, InBank
  <2> QED
    BY <2>1, <2>3
<1>9. CASE 65024 <= at /\ at <= 65183
  <2>1. Direct(at) = <<"oam", at - 65024>>
    BY <1>1, <1>9, Bounds, SMT DEF Direct
  <2>2. Base("oam") = 65024
    BY SMT DEF Base
  <2>3. Found(<<"oam", at - 65024>>)
    BY <1>1, <1>9, <2>2, SMT DEF Found, Origin, Arrays, InArrays, InBank
  <2> QED
    BY <2>1, <2>3
<1>10. CASE 65184 <= at /\ at <= 65279
  <2>1. Direct(at) = <<"notUsable", at - 65184>>
    BY <1>1, <1>10, Bounds, SMT DEF Direct
  <2>2. Base("notUsable") = 65184
    BY SMT DEF Base
  <2>3. Found(<<"notUsable", at - 65184>>)
    BY <1>1, <1>10, <2>2, SMT DEF Found, Origin, Arrays, InArrays, InBank
  <2> QED
    BY <2>1, <2>3
<1>11. CASE 65280 <= at /\ at <= 65407
  <2>1. Direct(at) = <<"io", at - 65280>>
    BY <1>1, <1>11, Bounds, SMT DEF Direct
  <2>2. Base("io") = 65280
    BY SMT DEF Base
  <2>3. Found(<<"io", at - 65280>>)
    BY <1>1, <1>11, <2>2, SMT DEF Found, Origin, Arrays, InArrays, InBank
  <2> QED
    BY <2>1, <2>3
<1>12. CASE 65408 <= at /\ at <= 65534
  <2>1. Direct(at) = <<"highRam", at - 65408>>
    BY <1>1, <1>12, Bounds, SMT DEF Direct
  <2>2. Base("highRam") = 65408
    BY SMT DEF Base
  <2>3. Found(<<"highRam", at - 65408>>)
    BY <1>1, <1>12, <2>2, SMT DEF Found, Origin, Arrays, InArrays, InBank
  <2> QED
    BY <2>1, <2>3
<1>13. CASE 65535 <= at /\ at <= 65535
  <2>1. Direct(at) = <<"interruptEnable", at - 65535>>
    BY <1>1, <1>13, Bounds, SMT DEF Direct
  <2>2. Base("interruptEnable") = 65535
    BY SMT DEF Base
  <2>3. Found(<<"interruptEnable", at - 65535>>)
    BY <1>1, <1>13, <2>2, SMT DEF Found, Origin, Arrays, InArrays, InBank
  <2> QED
    BY <2>1, <2>3
<1> QED
  BY <1>1, <1>3, <1>4, <1>5, <1>6, <1>7, <1>8, <1>9, <1>10, <1>11, <1>12, <1>13, SMT DEF InEcho

(* Two addresses start over at the same one exactly if they are equal or   *)
(* one is the echo of the other.                                           *)
LEMMA PlainAgree ==
  ASSUME NEW a \in Int, NEW b \in Int
  PROVE  Plain(a) = Plain(b) <=> SameByte(a, b)
BY SMT DEF SameByte, Plain, InEcho

(* Over all 65536 addresses, memory_read_word and memory_write_word reach  *)
(* the same byte under two addresses exactly if one is the echo of the     *)
(* other.                                                                  *)
THEOREM EchoIsTheOnlyAlias ==
  \A a, b \in Address : Place(a) = Place(b) <=> SameByte(a, b)
<1> TAKE a, b \in Address
<1>1. a \in Int /\ b \in Int
  BY SMT DEF Address
<1>2. Origin(Place(a)) = Unechoed(a) /\ Origin(Place(b)) = Unechoed(b)
  BY PlaceTellsAddress
<1>3. Unechoed(a) = Unechoed(b) => Place(a) = Place(b)
  BY DEF Place
<1>4. Unechoed(a) = Unechoed(b) <=> SameByte(a, b)
  BY <1>1, UnechoedValue, PlainAgree
<1> QED
  BY <1>2, <1>3, <1>4

-------------------------------------------------------------------------------
(* Only the first address of the video RAM is RAM by the header and ROM by *)
(* the accesses, and behind the bank although no store should show there.  *)
LEMMA RegionsAgree ==
  ASSUME NEW address \in Address, address # MEMORY_VRAM_START
  PROVE  /\ IsRam(address) <=> InArrays(address)
         /\ InBank(address) =>
              MEMORY_ROM_BANKN_START <= address /\ address < MEMORY_VRAM_START
BY Bounds, SMT DEF Address, IsRam, InArrays, InBank

(* What one store does to every read, if the bank stays or does not show.  *)
LEMMA ReadAfterStore ==
  ASSUME NEW memory, DOMAIN memory = Places, NEW bank, NEW after,
         NEW a \in Address, NEW value, NEW b \in Addresses,
         b # MEMORY_VRAM_START, InBank(b) => after = bank
  PROVE  /\ DOMAIN Stored(memory, a, value) = Places
         /\ Reading(Stored(memory, a, value), after, b)
              = Shows(a, value, b, Reading(memory, bank, b))
<1>1. b \in Address /\ (IsRam(b) <=> InArrays(b))
  BY MemoryAssumption, RegionsAgree DEF MemoryAssumption
<1>2. DOMAIN Stored(memory, a, value) = Places
  BY DEF Stored
<1>3. CASE InArrays(b)
  <2>1. Place(b)[1] \in Arrays
    BY <1>1, <1>3, PlaceTellsAddress
  <2>2. Place(b) \in Places
    BY <2>1 DEF Places
  <2>3. \A m : Reading(m, bank, b) = m[Place(b)] /\ Reading(m, after, b) = m[Place(b)]
    BY <2>1 DEF Reading, Arrays
  <2>4. Stored(memory, a, value)[Place(b)]
          = IF Place(a) = Place(b) THEN <<"byte", value>> ELSE memory[Place(b)]
    BY <2>2 DEF Stored
  <2> QED
    BY <1>1, <1>2, <1>3, <2>3, <2>4, EchoIsTheOnlyAlias DEF Shows
<1>4. CASE ~InArrays(b)
  <2>1. Place(b)[1] \notin Arrays
    BY <1>1, <1>4, PlaceTellsAddress
  <2>2. Place(b)[1] = "romBankN" => after = bank
    BY <1>1, PlaceTellsAddress
  <2>3. Reading(Stored(memory, a, value), after, b) = Reading(memory, bank, b)
    BY <2>1, <2>2 DEF Reading
  <2> QED
    BY <1>1, <1>2, <1>4, <2>3 DEF Shows
<1> QED
  BY <1>3, <1>4

(* Only a store in the range of the bank register changes the bank.        *)
LEMMA BankAfterStore ==
  ASSUME NEW bank, NEW a \in Address, NEW value, NEW b \in Address,
         b # MEMORY_VRAM_START, ~MaySwitch(a, b)
  PROVE  InBank(b) => handle_rom_write(bank, a, value) = bank
BY RegionsAgree DEF MaySwitch, handle_rom_write

(* One store keeps the places, and the bank one that can be selected.      *)
LEMMA TypeAfterStore ==
  ASSUME NEW memory, DOMAIN memory = Places, NEW bank \in 1 .. 31,
         NEW address, NEW value \in 0 .. 255
  PROVE  /\ DOMAIN Stored(memory, address, value) = Places
         /\ handle_rom_write(bank, address, value) \in 1 .. 31
<1>1. DOMAIN Stored(memory, address, value) = Places
  BY DEF Stored
<1>2. value % 32 \in 0 .. 31
  BY Z3
<1>3. handle_rom_write(bank, address, value) \in 1 .. 31
  BY <1>2, SMT DEF handle_rom_write
<1> QED
  BY <1>1, <1>3

(* Bytes and words keep the types.                                         *)
LEMMA MemoryTypeNext == MemoryTypeOK /\ [MemoryNext]_memoryVars => MemoryTypeOK'
<1> SUFFICES ASSUME MemoryTypeOK, [MemoryNext]_memoryVars PROVE MemoryTypeOK'
  OBVIOUS
<1> USE DEF MemoryTypeOK
<1>1. ASSUME NEW store \in Program PROVE store[2] \in 0 .. 255
  BY MemoryAssumption, ZenonT(60) DEF MemoryAssumption
<1>2. ASSUME NEW store \in Program, memory_write_word(store[1], store[2])
      PROVE  MemoryTypeOK'
  BY <1>1, <1>2, TypeAfterStore, ZenonT(60) DEF memory_write_word
<1>3. ASSUME NEW word \in Words, memory_write_dword(word[1][1], word[1][2], word[2][2])
      PROVE  MemoryTypeOK'
  <2>1. word[1] \in Program /\ word[2] \in Program
    BY DEF Words
  <2>2. word[1][2] \in 0 .. 255 /\ word[2][2] \in 0 .. 255
    BY <1>1, <2>1
  <2> DEFINE memory == Stored(ram, word[1][1], word[1][2])
             bank == handle_rom_write(selectedRomBank, word[1][1], word[1][2])
  <2>3. DOMAIN memory = Places /\ bank \in 1 .. 31
    BY <2>2, TypeAfterStore, ZenonT(60)
  <2> HIDE DEF memory, bank
  <2>4. /\ DOMAIN Stored(memory, NextAddress(word[1][1]), word[2][2]) = Places
        /\ handle_rom_write(bank, NextAddress(word[1][1]), word[2][2]) \in 1 .. 31
    BY <2>2, <2>3, TypeAfterStore, ZenonT(60)
  <2> QED
    BY <1>3, <2>4 DEF memory_write_dword, StoredWord, BankAfterWord, memory, bank
<1>4. CASE UNCHANGED memoryVars
  BY <1>4 DEF memoryVars
<1> QED
  BY <1>2, <1>3, <1>4 DEF MemoryNext

(* The arrays keep their places and the bank is never bank 0, whatever the *)
(* program stores in the ROM.                                              *)
THEOREM MemoryTypeCorrect == MemorySpec => []MemoryTypeOK
<1>1. MemoryInit => MemoryTypeOK
  BY DEF MemoryInit, MemoryTypeOK
<1> QED
  BY <1>1, MemoryTypeNext, PTL DEF MemorySpec

-------------------------------------------------------------------------------
(* A byte stored.                                                          *)
LEMMA ByteStoreShows ==
  ASSUME MemoryTypeOK, NEW store \in Program, NEW b \in Addresses, b # MEMORY_VRAM_START
  PROVE  ByteReadsBack(store[1], store[2], b)
<1> SUFFICES ASSUME ~MaySwitch(store[1], b)
             PROVE  Reading(Stored(ram, store[1], store[2]),
                            handle_rom_write(selectedRomBank, store[1], store[2]), b)
                      = Shows(store[1], store[2], b, memory_read_word(b))
  BY DEF ByteReadsBack
<1>1. store[1] \in Address /\ b \in Address
  BY MemoryAssumption DEF MemoryAssumption
<1>2. InBank(b) => handle_rom_write(selectedRomBank, store[1], store[2]) = selectedRomBank
  BY <1>1, BankAfterStore
<1> QED
  BY <1>1, <1>2, ReadAfterStore DEF MemoryTypeOK, memory_read_word

(* A word stored, as the two bytes one after the other.                    *)
LEMMA WordStoreShows ==
  ASSUME MemoryTypeOK, NEW word \in Words, NEW b \in Addresses, b # MEMORY_VRAM_START
  PROVE  WordReadsBack(word[1][1], word[1][2], word[2][2], b)
<1> DEFINE lower == word[1][1]
           upper == NextAddress(lower)
           memory == Stored(ram, lower, word[1][2])
           bank == handle_rom_write(selectedRomBank, lower, word[1][2])
           last == handle_rom_write(bank, upper, word[2][2])
<1> SUFFICES ASSUME ~MaySwitch(lower, b), ~MaySwitch(upper, b)
             PROVE  Reading(Stored(memory, upper, word[2][2]), last, b)
                      = Shows(upper, word[2][2], b,
                              Shows(lower, word[1][2], b, Reading(ram, selectedRomBank, b)))
  BY DEF WordReadsBack, StoredWord, BankAfterWord, memory_read_word
<1>1. lower \in Address /\ upper \in Address /\ b \in Address
  BY MemoryAssumption DEF MemoryAssumption, Words
<1>2. (InBank(b) => bank = selectedRomBank) /\ (InBank(b) => last = bank)
  BY <1>1, BankAfterStore
<1>3. /\ DOMAIN memory = Places
      /\ Reading(memory, bank, b)
           = Shows(lower, word[1][2], b, Reading(ram, selectedRomBank, b))
  BY <1>1, <1>2, ReadAfterStore DEF MemoryTypeOK
<1> HIDE DEF memory, bank, upper, last
<1>4. Reading(Stored(memory, upper, word[2][2]), last, b)
        = Shows(upper, word[2][2], b, Reading(memory, bank, b))
  BY <1>1, <1>2, <1>3, ReadAfterStore
<1> QED
  BY <1>3, <1>4

(* The types are all that reading back needs, so it holds wherever else    *)
(* the memory is written from.                                             *)
LEMMA TypedMemoryReadsBack == MemoryTypeOK => StoresReadBack
BY ByteStoreShows, WordStoreShows DEF StoresReadBack

(* The memory map is memory: in every state it reaches, a store of a byte  *)
(* or a word is not lost but read back at its own address and at its echo, *)
(* and nowhere else; for every address but the first of the video RAM.     *)
THEOREM MemoryReadsBack == MemorySpec => []StoresReadBack
BY MemoryTypeCorrect, TypedMemoryReadsBack, PTL

-------------------------------------------------------------------------------
(* The keypad and the DMA on the bus.                                      *)

KeypadFacts == INSTANCE KeypadProofs

DmaFacts == INSTANCE DmaProofs WITH ram <- PageView, Contents <- [Offsets -> Content]

(* Every step on the bus is a step of the keypad or leaves it alone, the   *)
(* stores of the program and the copy of the DMA included.                 *)
LEMMA KeypadSteps == [Next]_vars => [KeypadFacts!Next]_(KeypadFacts!vars)
<1> SUFFICES ASSUME [Next]_vars PROVE [KeypadFacts!Next]_(KeypadFacts!vars)
  OBVIOUS
<1> USE DEF KeypadFacts!vars, keypadVars, Keypad!INTERRUPT_KEYPAD,
            KeypadFacts!INTERRUPT_KEYPAD, Keypad!cpu_request_interrupt,
            KeypadFacts!cpu_request_interrupt
<1>1. ASSUME NEW address, NEW value, StoreP1(address, value)
      PROVE  [KeypadFacts!Next]_(KeypadFacts!vars)
  <2> DEFINE groups == {group \in Groups : (value \div group) % 2 = 1}
  <2>1. groups \in SUBSET Groups
    OBVIOUS
  <2>2. KeypadFacts!write_p1(groups) \/ UNCHANGED keypadVars
    BY <1>1 DEF StoreP1, Keypad!write_p1, KeypadFacts!write_p1, Keypad!update_state,
                KeypadFacts!update_state, Keypad!Level, KeypadFacts!Level
  <2> HIDE DEF groups
  <2> QED
    BY <2>1, <2>2 DEF KeypadFacts!Next
<1>2. ASSUME Keypad!read_p1 PROVE KeypadFacts!Next
  BY <1>2 DEF KeypadFacts!Next, Keypad!read_p1, KeypadFacts!read_p1, Keypad!update_state,
              KeypadFacts!update_state, Keypad!Level, KeypadFacts!Level
<1>3. CASE \E store \in Program : write_word(store[1], store[2])
  BY <1>1, <1>3 DEF write_word
<1>4. CASE \E word \in Words : write_dword(word[1][1], word[1][2], word[2][2])
  BY <1>1, <1>4 DEF write_dword
<1>5. CASE read_p1
  BY <1>2, <1>5 DEF read_p1
<1>6. CASE dma_tick
  BY <1>2, <1>6 DEF dma_tick, CountDown, CopyPage
<1>7. CASE keypad_tick
  BY <1>7 DEF keypad_tick, KeypadFacts!Next, Keypad!keypad_tick, KeypadFacts!keypad_tick,
              Keypad!update_state, KeypadFacts!update_state, Keypad!Level, KeypadFacts!Level
<1>8. CASE \E keys \in SUBSET Keypad!Keys : Keypad!PollInput(keys)
  BY <1>8 DEF Keypad!Keys, KeypadFacts!Keys, Keypad!PollInput, KeypadFacts!PollInput,
              KeypadFacts!Next
<1>9. CASE Keypad!AcknowledgeKeypad
  BY <1>9 DEF Keypad!AcknowledgeKeypad, KeypadFacts!AcknowledgeKeypad, KeypadFacts!Next
<1>10. CASE UNCHANGED vars
  BY <1>10 DEF vars
<1> QED
  BY <1>3, <1>4, <1>5, <1>6, <1>7, <1>8, <1>9, <1>10 DEF Next

(* The bus is a keypad.                                                    *)
LEMMA BusIsAKeypad == Spec => KeypadFacts!Spec
<1>1. Init => KeypadFacts!Init
  BY DEF Init, Keypad!Init, KeypadFacts!Init, Keypad!Keys, KeypadFacts!Keys
<1> QED
  BY <1>1, KeypadSteps, PTL DEF Spec, KeypadFacts!Spec

(* A press is announced whoever looks at P1 first, a program that reads or *)
(* writes it or the DMA that copies its page, and only held keys request   *)
(* the interrupt.                                                          *)
THEOREM KeysAnnouncedOnTheBus == Spec => KeysAreAnnounced
<1>1. KeypadFacts!PressesAreAnnounced /\ KeypadFacts!RequestsComeFromHeldKeys
        => KeysAreAnnounced
  BY DEF KeysAreAnnounced, Keypad!PressesAreAnnounced, KeypadFacts!PressesAreAnnounced,
         Keypad!RequestsComeFromHeldKeys, KeypadFacts!RequestsComeFromHeldKeys,
         Keypad!Unseen, KeypadFacts!Unseen, Keypad!Level, KeypadFacts!Level,
         Keypad!vars, KeypadFacts!vars, Keypad!INTERRUPT_KEYPAD,
         KeypadFacts!INTERRUPT_KEYPAD
<1> QED
  BY <1>1, BusIsAKeypad, KeypadFacts!NoPressIsSwallowed, KeypadFacts!RequestsNeedAHeldKey, PTL

-------------------------------------------------------------------------------
(* The indices of the places of the ROM, and the addresses of the OAM.     *)
Bank0Index == 0 .. 16383
BankNIndex == 0 .. 16384

InOam(address) == 65024 <= address /\ address <= 65183

OamPlace(address) == <<"oam", address - 65024>>

(* Where the places of the ROM and of the OAM lie.                         *)
LEMMA DirectByRegion ==
  ASSUME NEW at \in Int, 0 <= at, at <= 65535, ~InEcho(at)
  PROVE  /\ Direct(at)[1] = "rom" => Direct(at)[2] \in Bank0Index
         /\ Direct(at)[1] = "romBankN" => Direct(at)[2] \in BankNIndex
         /\ Direct(at)[1] = "oam" <=> InOam(at)
         /\ Direct(at)[1] = "oam" => Direct(at) = OamPlace(at)
<1> USE DEF InOam, OamPlace
<1>1. CASE at <= 16383
  <2>1. Direct(at) = <<"rom", at - 0>> /\ ~InOam(at)
    BY <1>1, Bounds, SMT DEF Direct
  <2>2. at - 0 \in Bank0Index
    BY <1>1, SMTT(40) DEF Bank0Index
  <2> QED
    BY <2>1, <2>2, SMT
<1>2. CASE 16384 <= at /\ at <= 32768
  <2>1. Direct(at) = <<"romBankN", at - 16384>> /\ ~InOam(at)
    BY <1>2, Bounds, SMT DEF Direct
  <2>2. at - 16384 \in BankNIndex
    BY <1>2, SMTT(40) DEF BankNIndex
  <2> QED
    BY <2>1, <2>2, SMT
<1>3. CASE 32769 <= at /\ at <= 57343
  <2>1. Direct(at)[1] \in {"vram", "externalRam", "wramBank0", "wramBank1"} /\ ~InOam(at)
    BY <1>3, Bounds, SMT DEF Direct
  <2> QED
    BY <2>1, SMT
<1>4. CASE 65024 <= at /\ at <= 65183
  <2>1. Direct(at) = <<"oam", at - 65024>> /\ InOam(at)
    BY <1>4, Bounds, SMT DEF Direct
  <2> QED
    BY <2>1, SMT
<1>5. CASE 65184 <= at
  <2>1. Direct(at)[1] \in {"notUsable", "io", "highRam", "interruptEnable"} /\ ~InOam(at)
    BY <1>5, Bounds, SMT DEF Direct
  <2> QED
    BY <2>1, SMT
<1> QED
  BY <1>1, <1>2, <1>3, <1>4, <1>5, SMT DEF InEcho

LEMMA PlacesByRegion ==
  ASSUME NEW address \in Address
  PROVE  /\ Place(address)[1] = "rom" => Place(address)[2] \in Bank0Index
         /\ Place(address)[1] = "romBankN" => Place(address)[2] \in BankNIndex
         /\ Place(address)[1] = "oam" <=> InOam(address)
         /\ Place(address)[1] = "oam" => Place(address) = OamPlace(address)
<1>1. address \in Int /\ 0 <= address /\ address <= 65535
  BY SMT DEF Address
<1> DEFINE at == Plain(address)
<1>2. at \in Int /\ 0 <= at /\ at <= 65535 /\ ~InEcho(at)
  BY <1>1, SMT DEF Plain, InEcho
<1>3. Place(address) = Direct(at)
  BY <1>1, UnechoedValue DEF Place
<1>4. (InOam(at) <=> InOam(address)) /\ (InOam(at) => at = address)
  BY <1>1, SMT DEF Plain, InEcho, InOam
<1> HIDE DEF at
<1> QED
  BY <1>2, <1>3, <1>4, DirectByRegion

(* The two registers are no RAM and not behind the bank.                   *)
LEMMA RegistersAreNoRam ==
  ASSUME NEW address \in Address, address \in 65280 .. 65351, NEW memory,
         DOMAIN memory = Places, NEW value, NEW bank
  PROVE  /\ Stored(memory, address, value) = memory
         /\ handle_rom_write(bank, address, value) = bank
<1>1. ~InArrays(address) /\ ~(address <= 16383)
  BY SMT DEF InArrays
<1>2. Place(address) \notin Places
  BY <1>1, PlaceTellsAddress DEF Places
<1> QED
  BY <1>1, <1>2 DEF Stored, handle_rom_write

-------------------------------------------------------------------------------
(* What the pages need: the memory holds bytes and bytes of the ROM, and   *)
(* the DMA a page.                                                         *)
BusInv ==
  /\ MemoryTypeOK
  /\ KeypadFacts!TypeOK
  /\ ram \in [Places -> Content]
  /\ sourceAddressStart \in Pages

(* What a read may give.                                                   *)
LEMMA KindsOfContent ==
  /\ \A value \in 0 .. 255 : <<"byte", value>> \in Content
  /\ \A n \in RomIndex : <<"rom", n>> \in Content
  /\ \A groups \in SUBSET Groups, lines \in SUBSET Lines : <<"P1", groups, lines>> \in Content
BY ZenonT(60) DEF Content

(* The bank and the index in it stay in the cartridge.                     *)
LEMMA RomIndices ==
  /\ \A n \in Bank0Index : n \in RomIndex
  /\ \A n \in BankNIndex, bank \in 1 .. 31 : n + bank * MEMORY_ROM_BANK_SIZE \in RomIndex
<1> DEFINE last == 32 * MEMORY_ROM_BANK_SIZE
<1>1. last \in Int
  BY SMT DEF MEMORY_ROM_BANK_SIZE
<1>2. last = 32 * 16384
  BY SMT DEF MEMORY_ROM_BANK_SIZE
<1>3. RomIndex = 0 .. last
  BY DEF RomIndex
<1> HIDE DEF last
<1>4. ASSUME NEW n \in Bank0Index PROVE n \in RomIndex
  <2>1. n \in Int /\ 0 <= n /\ n <= 16383
    BY SMT DEF Bank0Index
  <2>2. n <= last
    BY <1>1, <1>2, <2>1, SMT
  <2> QED
    BY <1>1, <1>3, <2>1, <2>2
<1>5. ASSUME NEW n \in BankNIndex, NEW bank \in 1 .. 31
      PROVE  n + bank * MEMORY_ROM_BANK_SIZE \in RomIndex
  <2>1. PICK index \in Int : index = n + bank * MEMORY_ROM_BANK_SIZE
    BY SMT DEF BankNIndex, MEMORY_ROM_BANK_SIZE
  <2>2. 0 <= index /\ index <= last
    BY <1>1, <1>2, <2>1, SMT DEF BankNIndex, MEMORY_ROM_BANK_SIZE
  <2>3. index \in 0 .. last
    BY <1>1, <2>2
  <2> QED
    BY <1>3, <2>1, <2>3
<1> QED
  BY <1>4, <1>5

(* Every read gives a byte, a byte of the ROM, or P1.                      *)
LEMMA ReadingType ==
  ASSUME BusInv, NEW address \in Addresses
  PROVE  Read(address) \in Content
<1>1. address \in Address
  BY MemoryAssumption DEF MemoryAssumption
<1>2. CASE address = P1_ADDRESS
  <2>1. Keypad!Level \in SUBSET Lines /\ selected \in SUBSET Groups
    BY DEF Keypad!Level, BusInv, KeypadFacts!TypeOK
  <2> QED
    BY <1>2, <2>1, KindsOfContent DEF Read
<1>3. CASE address # P1_ADDRESS
  <2> DEFINE place == Place(address)
  <2>1. Read(address) = memory_read_word(address)
    BY <1>3 DEF Read
  <2>2. /\ place[1] = "rom" => place[2] \in Bank0Index
        /\ place[1] = "romBankN" => place[2] \in BankNIndex
    BY <1>1, PlacesByRegion
  <2>3. place = <<place[1], place[2]>>
    BY DEF Place, Direct
  <2>4. place[1] \in Arrays => place \in Places
    BY DEF Places
  <2>5. memory_read_word(address)
          = CASE place[1] = "rom"       -> place
              [] place[1] = "romBankN"  -> <<"rom", place[2] + selectedRomBank * MEMORY_ROM_BANK_SIZE>>
              [] place[1] \in Arrays    -> ram[place]
              [] place[1] = "notUsable" -> <<"byte", 0>>
              [] OTHER                  -> <<"byte", 255>>
    BY DEF memory_read_word, Reading
  <2> HIDE DEF place
  <2>6. CASE place[1] = "rom"
    <3>1. place[2] \in RomIndex
      BY <2>2, <2>6, RomIndices
    <3>2. Read(address) = <<"rom", place[2]>>
      BY <2>1, <2>3, <2>5, <2>6 DEF Arrays
    <3> QED
      BY <3>1, <3>2, KindsOfContent
  <2>7. CASE place[1] = "romBankN"
    <3>1. selectedRomBank \in 1 .. 31
      BY DEF BusInv, MemoryTypeOK
    <3>2. place[2] + selectedRomBank * MEMORY_ROM_BANK_SIZE \in RomIndex
      BY <2>2, <2>7, <3>1, RomIndices
    <3>3. Read(address) = <<"rom", place[2] + selectedRomBank * MEMORY_ROM_BANK_SIZE>>
      BY <2>1, <2>5, <2>7 DEF Arrays
    <3> QED
      BY <3>2, <3>3, KindsOfContent
  <2>8. CASE place[1] \in Arrays
    <3>1. Read(address) = ram[place]
      BY <2>1, <2>5, <2>8 DEF Arrays
    <3> QED
      BY <2>4, <2>8, <3>1 DEF BusInv
  <2>9. CASE place[1] \notin {"rom", "romBankN"} \cup Arrays
    <3>1. Read(address) \in {<<"byte", 0>>, <<"byte", 255>>}
      BY <2>1, <2>5, <2>9
    <3>2. 0 \in 0 .. 255 /\ 255 \in 0 .. 255
      BY SMT
    <3> QED
      BY <3>1, <3>2, KindsOfContent
  <2> QED
    BY <2>6, <2>7, <2>8, <2>9
<1> QED
  BY <1>2, <1>3

(* The DMA reads addresses that are looked at for every place of the OAM.  *)
LEMMA SourcesAreLookedAt ==
  ASSUME BusInv, NEW place \in Places, place[1] = "oam"
  PROVE  place[2] \in Offsets /\ Source(place) \in Addresses
<1>1. PICK address \in Addresses : place = Place(address)
  BY DEF Places
<1>2. place[2] \in Offsets
  BY <1>1, BusAssumption DEF BusAssumption
<1> QED
  BY <1>2, BusAssumption DEF BusAssumption, BusInv, Source

(* The program stores bytes, at addresses that are looked at.              *)
LEMMA StoresOfTheProgram ==
  /\ \A store \in Program :
       /\ store[1] \in Addresses /\ store[1] \in Address
       /\ store[2] \in 0 .. 255 /\ store[2] \in Pages
  /\ \A word \in Words :
       word[1] \in Program /\ word[2] \in Program /\ word[2][1] = NextAddress(word[1][1])
BY MemoryAssumption, BusAssumption DEF MemoryAssumption, BusAssumption, Words

(* A store keeps bytes in the memory.                                      *)
LEMMA StoredType ==
  ASSUME NEW memory \in [Places -> Content], NEW address, NEW value \in 0 .. 255
  PROVE  Stored(memory, address, value) \in [Places -> Content]
<1>1. <<"byte", value>> \in Content
  BY KindsOfContent
<1> QED
  BY <1>1 DEF Stored

(* What the pages need is kept by every step: by the stores of the program *)
(* and by the copy, which reads what a program may read.                   *)
LEMMA BusInvNext == BusInv /\ (KeypadFacts!TypeOK)' /\ [Next]_vars => BusInv'
<1> SUFFICES ASSUME BusInv, (KeypadFacts!TypeOK)', [Next]_vars PROVE BusInv'
  OBVIOUS
<1> USE DEF BusInv
<1>1. ASSUME NEW store \in Program, write_word(store[1], store[2]) PROVE BusInv'
  <2>1. memory_write_word(store[1], store[2])
    BY <1>1 DEF write_word
  <2>2. MemoryTypeOK'
    BY <2>1, MemoryTypeNext DEF MemoryNext
  <2>3. ram' \in [Places -> Content]
    BY <2>1, StoresOfTheProgram, StoredType DEF memory_write_word
  <2>4. sourceAddressStart' \in Pages
    BY <1>1, StoresOfTheProgram DEF write_word, StoreDma, dmaVars
  <2> QED
    BY <2>2, <2>3, <2>4
<1>2. ASSUME NEW word \in Words, write_dword(word[1][1], word[1][2], word[2][2])
      PROVE  BusInv'
  <2>1. memory_write_dword(word[1][1], word[1][2], word[2][2])
    BY <1>2 DEF write_dword
  <2>2. MemoryTypeOK'
    BY <2>1, MemoryTypeNext DEF MemoryNext
  <2>3. Stored(ram, word[1][1], word[1][2]) \in [Places -> Content]
    BY StoresOfTheProgram, StoredType
  <2>4. ram' \in [Places -> Content]
    BY <2>1, <2>3, StoresOfTheProgram, StoredType DEF memory_write_dword, StoredWord, BankAfterWord
  <2>5. sourceAddressStart' \in Pages
    BY <1>2, StoresOfTheProgram DEF write_dword, StoreDma, dmaVars
  <2> QED
    BY <2>2, <2>4, <2>5
<1>3. CASE CopyPage
  <2>1. ASSUME NEW place \in Places, place[1] = "oam" PROVE Read(Source(place)) \in Content
    BY <2>1, SourcesAreLookedAt, ReadingType
  <2>2. CopiedRam \in [Places -> Content]
    BY <2>1 DEF CopiedRam, MemoryTypeOK
  <2> QED
    BY <1>3, <2>2 DEF CopyPage, MemoryTypeOK
<1>4. CASE UNCHANGED <<memoryVars, sourceAddressStart>>
  BY <1>4 DEF memoryVars, MemoryTypeOK
<1>5. CASE read_p1 \/ CountDown \/ keypad_tick \/ UNCHANGED vars
  BY <1>4, <1>5 DEF read_p1, CountDown, keypad_tick, vars, dmaVars
<1>6. CASE \E keys \in SUBSET Keypad!Keys :
             Keypad!PollInput(keys) /\ UNCHANGED <<memoryVars, dmaVars>>
  BY <1>4, <1>6 DEF dmaVars
<1>7. CASE Keypad!AcknowledgeKeypad /\ UNCHANGED <<memoryVars, dmaVars>>
  BY <1>4, <1>7 DEF dmaVars
<1> QED
  BY <1>1, <1>2, <1>3, <1>5, <1>6, <1>7 DEF Next, dma_tick

(* The bus keeps what the pages need.                                      *)
LEMMA BusInvariant == Spec => []BusInv
<1>1. Init /\ KeypadFacts!TypeOK => BusInv
  <2> SUFFICES ASSUME Init, KeypadFacts!TypeOK PROVE BusInv
    OBVIOUS
  <2>1. ram \in [Places -> Content]
    <3>1. \A value \in Byte : <<"byte", value>> \in Content
      BY MemoryAssumption, KindsOfContent DEF MemoryAssumption
    <3> QED
      BY <3>1 DEF Init, MemoryInit
  <2> QED
    BY <2>1 DEF Init, MemoryInit, BusInv, MemoryTypeOK
<1>2. KeypadFacts!Spec => [](KeypadFacts!TypeOK)
  BY KeypadFacts!KeypadTypeCorrect
<1> QED
  BY <1>1, <1>2, BusIsAKeypad, BusInvNext, PTL DEF Spec

(* The memory on the bus is still memory: in every state the program, the  *)
(* DMA and the keypad bring about, a store is read back at its own address *)
(* and at its echo, and nowhere else.                                      *)
THEOREM BusReadsBack == Spec => []StoresReadBack
<1>1. BusInv => StoresReadBack
  BY TypedMemoryReadsBack DEF BusInv
<1> QED
  BY <1>1, BusInvariant, PTL

-------------------------------------------------------------------------------
(* The pages show what can be read.                                        *)
PagesTypeOK == PageView \in [Pages -> [Offsets -> Content]]

LEMMA PageViewType == BusInv => PagesTypeOK
<1> SUFFICES ASSUME BusInv, NEW page \in Pages, NEW i \in Offsets
             PROVE  Read(page * 256 + i) \in Content
  BY DEF PageView, PagesTypeOK
<1>1. page * 256 + i \in Addresses
  BY BusAssumption DEF BusAssumption
<1> QED
  BY <1>1, ReadingType

LEMMA PageViewTypeNext == BusInv' => PagesTypeOK'
BY PageViewType, PTL

(* A step that leaves the memory and the keypad alone shows the same pages. *)
LEMMA SamePages ==
  ASSUME UNCHANGED <<memoryVars, keypadVars>>
  PROVE  PageView' = PageView
BY DEF PageView, Read, memory_read_word, Keypad!Level, memoryVars, keypadVars

(* The page of the OAM shows the OAM.                                      *)
LEMMA OamIsShown ==
  ASSUME NEW k \in Offsets
  PROVE  /\ Place(OamPage * 256 + k) = <<"oam", k>>
         /\ <<"oam", k>> \in Places
         /\ PageView[OamPage][k] = ram[<<"oam", k>>]
         /\ PageView'[OamPage][k] = ram'[<<"oam", k>>]
<1> DEFINE address == OamPage * 256 + k
<1>1. OamPage = 254 /\ OamPage \in Pages
  BY BusAssumption, DmaAssumption DEF BusAssumption, DmaAssumption
<1>2. k \in Int /\ 0 <= k /\ k <= 159
  BY BusAssumption, SMT DEF BusAssumption, MEMORY_OAM_SIZE
<1>3. InOam(address) /\ address # P1_ADDRESS /\ address - 65024 = k
  BY <1>1, <1>2, SMT DEF InOam, P1_ADDRESS
<1>4. address \in Address
  BY <1>1, BusAssumption, MemoryAssumption DEF BusAssumption, MemoryAssumption
<1> HIDE DEF address
<1>5. Place(address) = <<"oam", k>>
  BY <1>3, <1>4, PlacesByRegion DEF OamPlace
<1>6. /\ Read(address) = ram[<<"oam", k>>]
      /\ Read(address)' = ram'[<<"oam", k>>]
  BY <1>3, <1>5 DEF Read, memory_read_word, Reading, Arrays
<1>7. address \in Addresses
  BY <1>1, BusAssumption DEF BusAssumption, address
<1>8. <<"oam", k>> \in Places
  BY <1>5, <1>7 DEF Places, Arrays
<1> QED
  BY <1>1, <1>5, <1>6, <1>8 DEF PageView, address

LEMMA OamIsLookedAt == \A k \in Offsets : <<"oam", k>> \in Places
BY OamIsShown

(* A step that does not touch the DMA, and changes a byte or two of the    *)
(* OAM at most, is a store for it.                                         *)
LEMMA StoreForTheDma ==
  ASSUME BusInv', UNCHANGED dmaVars, NEW i \in Offsets,
         \A k \in Offsets \ {i, i + 1} : ram'[<<"oam", k>>] = ram[<<"oam", k>>]
  PROVE  DmaFacts!Next
<1> DEFINE memory == PageView'
<1>1. memory \in [Pages -> [Offsets -> Content]]
  BY PageViewTypeNext DEF PagesTypeOK
<1>2. \A k \in Offsets \ {i, i + 1} : memory[OamPage][k] = PageView[OamPage][k]
  BY OamIsShown
<1>3. DOMAIN PageView[OamPage] = Offsets
  BY DmaAssumption DEF DmaAssumption, PageView
<1> HIDE DEF memory
<1>4. PageView' = memory
  BY DEF memory
<1>5. DmaFacts!Store(memory)
  BY <1>2, <1>3, <1>4 DEF DmaFacts!Store, dmaVars
<1> QED
  BY <1>1, <1>5 DEF DmaFacts!Next

(* A store in the DMA register requests a copy and changes no page.        *)
LEMMA RequestForTheDma ==
  ASSUME NEW value \in Pages, cycleCounter' = NUM_DMA_CYCLES, sourceAddressStart' = value,
         UNCHANGED <<memoryVars, keypadVars>>
  PROVE  DmaFacts!Next
<1>1. DmaFacts!write_dma(value)
  BY SamePages DEF DmaFacts!write_dma
<1> QED
  BY <1>1 DEF DmaFacts!Next, DmaFacts!GuestRestart

(* A store changes no other place.                                         *)
LEMMA StoredElsewhere ==
  ASSUME NEW memory, DOMAIN memory = Places, NEW address, NEW value,
         NEW other \in Places, other # Place(address)
  PROVE  Stored(memory, address, value)[other] = memory[other]
BY DEF Stored

(* A byte stored changes the page of the OAM where it is stored only.      *)
LEMMA ByteForTheDma ==
  ASSUME BusInv, BusInv', NEW store \in Program, write_word(store[1], store[2])
  PROVE  DmaFacts!Next
<1>1. /\ store[1] \in Addresses /\ store[1] \in Address /\ store[2] \in Pages
      /\ memory_write_word(store[1], store[2])
  BY StoresOfTheProgram DEF write_word
<1>2. CASE store[1] = DMA_ADDRESS
  <2>1. store[1] \in 65280 .. 65351 /\ store[1] # P1_ADDRESS
    BY <1>2, SMT DEF DMA_ADDRESS, P1_ADDRESS
  <2>2. UNCHANGED memoryVars
    BY <1>1, <2>1, RegistersAreNoRam DEF memory_write_word, memoryVars, BusInv, MemoryTypeOK
  <2>3. UNCHANGED keypadVars
    BY <2>1 DEF write_word, StoreP1
  <2> QED
    BY <1>1, <1>2, <2>2, <2>3, RequestForTheDma DEF write_word, StoreDma
<1>3. CASE store[1] # DMA_ADDRESS
  <2> DEFINE place == Place(store[1])
  <2>1. UNCHANGED dmaVars
    BY <1>3 DEF write_word, StoreDma
  <2>2. \A other \in Places : other # place => ram'[other] = ram[other]
    BY <1>1, StoredElsewhere DEF memory_write_word, BusInv, MemoryTypeOK
  <2>3. place[1] = "oam" => place[2] \in Offsets
    BY <1>1, BusAssumption DEF BusAssumption
  <2> HIDE DEF place
  <2>4. PICK i \in Offsets : place[1] = "oam" => i = place[2]
    BY <2>3, BusAssumption DEF BusAssumption
  <2>5. \A k \in Offsets \ {i, i + 1} : <<"oam", k>> # place
    BY <2>4
  <2> QED
    BY <2>1, <2>2, <2>5, OamIsLookedAt, StoreForTheDma
<1> QED
  BY <1>2, <1>3

(* Two addresses in a row have places of the OAM in a row.                 *)
LEMMA OamInARow ==
  ASSUME NEW a \in Address, NEW b \in Address, b = NextAddress(a),
         Place(a)[1] = "oam", Place(b)[1] = "oam"
  PROVE  Place(b)[2] = Place(a)[2] + 1
<1>1. Place(a) = OamPlace(a) /\ Place(b) = OamPlace(b) /\ InOam(a)
  BY PlacesByRegion, SMTT(40)
<1>2. a \in Int /\ 65024 <= a /\ a <= 65183
  BY <1>1, SMTT(40) DEF Address, InOam
<1>3. b = a + 1
  BY <1>2, SMT DEF NextAddress
<1>4. b - 65024 = (a - 65024) + 1
  BY <1>2, <1>3, SMT
<1> QED
  BY <1>1, <1>4 DEF OamPlace

(* A word across two registers, or next to one.                            *)
LEMMA NextToTheDmaRegister ==
  ASSUME NEW a \in Address, NEW b \in Address, b = NextAddress(a),
         a = DMA_ADDRESS \/ b = DMA_ADDRESS
  PROVE  a \in 65280 .. 65351 /\ b \in 65280 .. 65351 /\ a # P1_ADDRESS /\ b # P1_ADDRESS
<1>1. a \in Int /\ 0 <= a /\ a <= 65535
  BY SMT DEF Address
<1>2. a = 65350 \/ a = 65349
  BY <1>1, SMT DEF NextAddress, DMA_ADDRESS
<1> QED
  BY <1>2, SMT DEF NextAddress, P1_ADDRESS

(* A word stored changes two bytes of the page of the OAM at most, and     *)
(* they are next to each other.                                            *)
LEMMA WordForTheDma ==
  ASSUME BusInv, BusInv', NEW word \in Words,
         write_dword(word[1][1], word[1][2], word[2][2])
  PROVE  DmaFacts!Next
<1> DEFINE a == word[1][1]  b == word[2][1]
<1>1. /\ a \in Addresses /\ a \in Address /\ b \in Addresses /\ b \in Address
      /\ word[1][2] \in Pages /\ word[2][2] \in Pages /\ b = NextAddress(a)
  BY StoresOfTheProgram
<1>2. memory_write_dword(a, word[1][2], word[2][2])
  BY DEF write_dword
<1>3. CASE a = DMA_ADDRESS \/ b = DMA_ADDRESS
  <2>1. a \in 65280 .. 65351 /\ b \in 65280 .. 65351 /\ a # P1_ADDRESS /\ b # P1_ADDRESS
    BY <1>1, <1>3, NextToTheDmaRegister
  <2>2. /\ ram' = Stored(Stored(ram, a, word[1][2]), b, word[2][2])
        /\ selectedRomBank' = handle_rom_write(handle_rom_write(selectedRomBank, a, word[1][2]),
                                               b, word[2][2])
    BY <1>1, <1>2 DEF memory_write_dword, StoredWord, BankAfterWord
  <2>3. DOMAIN ram = Places
    BY DEF BusInv, MemoryTypeOK
  <2>4. /\ Stored(ram, a, word[1][2]) = ram
        /\ handle_rom_write(selectedRomBank, a, word[1][2]) = selectedRomBank
    BY <1>1, <2>1, <2>3, RegistersAreNoRam
  <2>5. /\ Stored(ram, b, word[2][2]) = ram
        /\ handle_rom_write(selectedRomBank, b, word[2][2]) = selectedRomBank
    BY <1>1, <2>1, <2>3, RegistersAreNoRam
  <2>6. UNCHANGED memoryVars
    BY <2>2, <2>4, <2>5 DEF memoryVars
  <2>7. UNCHANGED keypadVars
    BY <1>1, <2>1 DEF write_dword, StoreP1
  <2>8. PICK value \in Pages : cycleCounter' = NUM_DMA_CYCLES /\ sourceAddressStart' = value
    BY <1>1, <1>3 DEF write_dword, StoreDma
  <2> QED
    BY <2>6, <2>7, <2>8, RequestForTheDma
<1>4. CASE a # DMA_ADDRESS /\ b # DMA_ADDRESS
  <2> DEFINE first == Place(a)  second == Place(b)
  <2>1. UNCHANGED dmaVars
    BY <1>1, <1>4 DEF write_dword, StoreDma
  <2>2. \A other \in Places : other # first /\ other # second => ram'[other] = ram[other]
    <3> DEFINE memory == Stored(ram, a, word[1][2])
    <3>1. DOMAIN ram = Places /\ DOMAIN memory = Places
      BY DEF BusInv, MemoryTypeOK, Stored
    <3>2. \A other \in Places : other # first => memory[other] = ram[other]
      BY <3>1, StoredElsewhere
    <3>3. ram' = Stored(memory, b, word[2][2])
      BY <1>1, <1>2 DEF memory_write_dword, StoredWord, BankAfterWord
    <3> HIDE DEF memory
    <3>4. \A other \in Places : other # second => ram'[other] = memory[other]
      BY <3>1, <3>3, StoredElsewhere
    <3> QED
      BY <3>2, <3>4
  <2>3. /\ first[1] = "oam" => first[2] \in Offsets
        /\ second[1] = "oam" => second[2] \in Offsets
        /\ first[1] = "oam" /\ second[1] = "oam" => second[2] = first[2] + 1
    BY <1>1, OamInARow, BusAssumption DEF BusAssumption
  <2> HIDE DEF first, second
  <2>4. PICK i \in Offsets : /\ first[1] = "oam" => i = first[2]
                             /\ first[1] # "oam" /\ second[1] = "oam" => i = second[2]
    BY <2>3, BusAssumption DEF BusAssumption
  <2>5. \A k \in Offsets \ {i, i + 1} : <<"oam", k>> # first /\ <<"oam", k>> # second
    BY <2>3, <2>4
  <2> QED
    BY <2>1, <2>2, <2>5, OamIsLookedAt, StoreForTheDma
<1> QED
  BY <1>3, <1>4

-------------------------------------------------------------------------------
(* Only the page of the OAM has places of the OAM.                         *)
LEMMA OamPageOnly ==
  ASSUME NEW page \in Pages \ {OamPage}, NEW i \in Offsets
  PROVE  /\ page * 256 + i \in Addresses
         /\ Place(page * 256 + i)[1] # "oam"
<1> DEFINE address == page * 256 + i
<1>1. address \in Addresses /\ address \in Address
  BY BusAssumption, MemoryAssumption DEF BusAssumption, MemoryAssumption
<1>2. page \in Int /\ 0 <= page /\ page <= 255 /\ page # 254
  BY BusAssumption, SMT DEF BusAssumption
<1>3. i \in Int /\ 0 <= i /\ i <= 159
  BY BusAssumption, SMT DEF BusAssumption, MEMORY_OAM_SIZE
<1>4. ~InOam(address)
  BY <1>2, <1>3, SMT DEF InOam
<1> HIDE DEF address
<1>5. Place(address)[1] # "oam"
  BY <1>1, <1>4, PlacesByRegion
<1> QED
  BY <1>1, <1>5 DEF address

(* What an address outside the OAM reads is the same after the copy, which *)
(* looks at the keys at most.                                              *)
LEMMA ReadAfterCopy ==
  ASSUME BusInv, CopyPage, NEW address \in Addresses, Place(address)[1] # "oam"
  PROVE  Read(address)' = Read(address)
<1>1. UNCHANGED <<selected, pressed, selectedRomBank>> /\ ram' = CopiedRam
  BY DEF CopyPage, Keypad!read_p1, keypadVars
<1>2. CASE address = P1_ADDRESS
  BY <1>1, <1>2 DEF Read, Keypad!Level
<1>3. CASE address # P1_ADDRESS
  <2> DEFINE place == Place(address)
  <2>1. place[1] \in Arrays => ram'[place] = ram[place]
    BY <1>1 DEF CopiedRam, BusInv, MemoryTypeOK, Places
  <2>2. memory_read_word(address)' = memory_read_word(address)
    BY <1>1, <2>1 DEF memory_read_word, Reading
  <2> QED
    BY <1>3, <2>2 DEF Read
<1> QED
  BY <1>2, <1>3

(* The copy of the bytes, each one read through the map and the handlers,  *)
(* is the copy of the page.                                                *)
LEMMA CopyForTheDma ==
  ASSUME BusInv, CopyPage
  PROVE  DmaFacts!CopyPage
<1> DEFINE copied == PageView[sourceAddressStart]
<1>1. OamPage \in Pages /\ sourceAddressStart \in Pages
  BY DmaAssumption DEF DmaAssumption, BusInv
<1>2. ASSUME NEW page \in Pages \ {OamPage}, NEW i \in Offsets
      PROVE  Read(page * 256 + i)' = Read(page * 256 + i)
  BY <1>2, OamPageOnly, ReadAfterCopy
<1>3. ASSUME NEW page \in Pages \ {OamPage} PROVE PageView'[page] = PageView[page]
  BY <1>2, <1>3 DEF PageView
<1>4. ASSUME NEW i \in Offsets PROVE PageView'[OamPage][i] = copied[i]
  <2>1. PageView'[OamPage][i] = CopiedRam[<<"oam", i>>]
    BY <1>4, OamIsShown DEF CopyPage
  <2>2. CopiedRam[<<"oam", i>>] = Read(sourceAddressStart * 256 + i)
    BY <1>4, OamIsLookedAt DEF CopiedRam, Source, BusInv, MemoryTypeOK
  <2>3. copied[i] = Read(sourceAddressStart * 256 + i)
    BY <1>1, <1>4 DEF PageView
  <2> QED
    BY <2>1, <2>2, <2>3
<1>5. PageView'[OamPage] = copied
  <2>1. PageView'[OamPage] = [i \in Offsets |-> PageView'[OamPage][i]]
    BY <1>1 DEF PageView
  <2>2. copied = [i \in Offsets |-> copied[i]]
    BY <1>1 DEF PageView
  <2> QED
    BY <1>4, <2>1, <2>2
<1>6. PageView' = [PageView EXCEPT ![OamPage] = copied]
  <2>1. /\ PageView' = [page \in Pages |-> PageView'[page]]
        /\ PageView = [page \in Pages |-> PageView[page]]
    BY DEF PageView
  <2> HIDE DEF copied
  <2> QED
    BY <1>1, <1>3, <1>5, <2>1
<1> QED
  BY <1>6 DEF CopyPage, Left, DmaFacts!CopyPage, DmaFacts!Counting, DmaFacts!Left

(* Every step on the bus is a step of the DMA on the pages: what the       *)
(* program stores and what happens to the keys is a store for it.          *)
LEMMA DmaSteps == BusInv /\ BusInv' /\ [Next]_vars => [DmaFacts!Next]_(DmaFacts!vars)
<1> SUFFICES ASSUME BusInv, BusInv', [Next]_vars PROVE [DmaFacts!Next]_(DmaFacts!vars)
  OBVIOUS
<1>1. CASE UNCHANGED <<memoryVars, dmaVars>>
  <2>1. \E i \in Offsets : TRUE
    BY BusAssumption DEF BusAssumption
  <2> QED
    BY <1>1, <2>1, StoreForTheDma DEF memoryVars
<1>2. CASE \E store \in Program : write_word(store[1], store[2])
  BY <1>2, ByteForTheDma
<1>3. CASE \E word \in Words : write_dword(word[1][1], word[1][2], word[2][2])
  BY <1>3, WordForTheDma
<1>4. CASE CountDown
  <2>1. PageView' = PageView
    BY <1>4, SamePages DEF CountDown
  <2> QED
    BY <1>4, <2>1 DEF CountDown, Left, DmaFacts!CountDown, DmaFacts!Counting, DmaFacts!Left,
                      DmaFacts!Next, DmaFacts!dma_tick
<1>5. CASE CopyPage
  BY <1>5, CopyForTheDma DEF DmaFacts!Next, DmaFacts!dma_tick
<1> QED
  BY <1>1, <1>2, <1>3, <1>4, <1>5 DEF Next, dma_tick, read_p1, keypad_tick, vars

(* The bus is a DMA on the pages it shows.                                 *)
LEMMA BusIsADma == Spec => DmaFacts!Spec
<1>1. Init /\ BusInv => DmaFacts!Init
  BY PageViewType DEF Init, DmaFacts!Init, PagesTypeOK
<1> QED
  BY <1>1, BusInvariant, DmaSteps, PTL DEF Spec, DmaFacts!Spec

(* The copy of the DMA, byte by byte through the memory map with its echo, *)
(* banks and register handlers, while the program goes on storing bytes    *)
(* and words anywhere, is the copy of a page at one moment, made once for  *)
(* the last request.                                                       *)
THEOREM BusCopiesPages == Spec => ImplementsPageCopy
<1>1. DmaFacts!ImplementsPageCopy => ImplementsPageCopy
  BY DEF ImplementsPageCopy, Dma!ImplementsPageCopy, DmaFacts!ImplementsPageCopy,
         Dma!Copying!Spec, DmaFacts!Copying!Spec, Dma!Copying!Init, DmaFacts!Copying!Init,
         Dma!Copying!Next, DmaFacts!Copying!Next, Dma!Copying!Ask, DmaFacts!Copying!Ask,
         Dma!Copying!Copy, DmaFacts!Copying!Copy, Dma!Copying!Store, DmaFacts!Copying!Store,
         Dma!Copying!copyVars, DmaFacts!Copying!copyVars
<1>2. DmaFacts!Spec => DmaFacts!ImplementsPageCopy
  BY DmaFacts!DmaImplementsPageCopy, DmaAssumption
<1> QED
  BY <1>1, <1>2, BusIsADma, PTL

(* Every part of the bus keeps its type: the counter overshoots zero by    *)
(* less than one instruction, the bank is one that can be selected, and a  *)
(* page shows what can be read.                                            *)
THEOREM BusTypeCorrect == Spec => []TypeOK
<1>1. BusInv /\ DmaFacts!TypeOK => TypeOK
  BY DEF BusInv, TypeOK, KeypadFacts!TypeOK, Keypad!TypeOK, DmaFacts!TypeOK, Dma!TypeOK,
         Keypad!INTERRUPT_KEYPAD, KeypadFacts!INTERRUPT_KEYPAD, Keypad!Keys, KeypadFacts!Keys
<1>2. DmaFacts!Spec => [](DmaFacts!TypeOK)
  BY DmaFacts!DmaTypeCorrect, DmaAssumption
<1> QED
  BY <1>1, <1>2, BusInvariant, BusIsADma, PTL

===============================================================================
