-------------------------------- MODULE Memory --------------------------------
(***************************************************************************)
(* The memory map: which array and index an address leads to, and what the *)
(* program's stores of bytes and words do there.  A ROM byte is known by   *)
(* its index in the cartridge, any other byte by its value.  The registers *)
(* are found here and handled by the modules of their devices.             *)
(***************************************************************************)
EXTENDS Integers

CONSTANTS
  Addresses,      (* the addresses that are looked at, a sample of the map *)
  Byte,           (* the bytes looked at, a sample of 0..255               *)
  Program,        (* the stores of the program: addresses with bytes       *)
  mbc1            (* whether the cartridge has the MBC1 controller         *)

Address == 0 .. 65535

MEMORY_ROM_BANK_SIZE == 16384
MEMORY_OAM_SIZE      == 160

(* Where every region starts and ends, as the header computes it. *)
MEMORY_ROM_BANK0_START    == 0
MEMORY_ROM_BANK0_END      == MEMORY_ROM_BANK0_START + MEMORY_ROM_BANK_SIZE - 1
MEMORY_ROM_BANKN_START    == 16384
MEMORY_ROM_BANKN_END      == MEMORY_ROM_BANKN_START + MEMORY_ROM_BANK_SIZE
MEMORY_VRAM_START         == 32768
MEMORY_VRAM_END           == MEMORY_VRAM_START + 8192 - 1
MEMORY_EXTERNAL_RAM_START == 40960
MEMORY_EXTERNAL_RAM_END   == MEMORY_EXTERNAL_RAM_START + 8192 - 1
MEMORY_WRAM_BANK0_START   == 49152
MEMORY_WRAM_BANK0_END     == MEMORY_WRAM_BANK0_START + 4096 - 1
MEMORY_WRAM_BANK1_START   == 53248
MEMORY_WRAM_BANK1_END     == MEMORY_WRAM_BANK1_START + 4096 - 1
MEMORY_WRAM_ECHO_START    == 57344
MEMORY_WRAM_ECHO_END      == 65023
MEMORY_OAM_START          == 65024
MEMORY_OAM_END            == MEMORY_OAM_START + MEMORY_OAM_SIZE - 1
MEMORY_NOT_USABLE_START   == 65184
MEMORY_NOT_USABLE_END     == 65279
MEMORY_IO_START           == 65280
MEMORY_IO_END             == MEMORY_IO_START + 128 - 1
MEMORY_HIGH_RAM_START     == 65408
MEMORY_HIGH_RAM_END       == MEMORY_HIGH_RAM_START + 127 - 1
MEMORY_INTERRUPT_ENABLE_REGISTER_ADDRESS == 65535

ASSUME MemoryAssumption ==
  /\ Addresses \subseteq Address
  /\ Byte \subseteq 0 .. 255
  /\ Program \subseteq Addresses \X Byte
  /\ mbc1 \in BOOLEAN

VARIABLES
  ram,             (* the bytes that can be stored, by their places        *)
  selectedRomBank

memoryVars == <<ram, selectedRomBank>>

-------------------------------------------------------------------------------
(* Mutant: the echo stands for the second bank. *)
Unechoed_Shifted(address) ==
  IF MEMORY_WRAM_BANK1_END < address /\ address <= MEMORY_WRAM_ECHO_END
  THEN address - MEMORY_WRAM_ECHO_START + MEMORY_WRAM_BANK1_START
  ELSE address

(* An address of the echo starts over as the address it stands for. *)
Unechoed(address) ==
  IF MEMORY_WRAM_BANK1_END < address /\ address <= MEMORY_WRAM_ECHO_END
  THEN address - MEMORY_WRAM_ECHO_START + MEMORY_WRAM_BANK0_START
  ELSE address

(* The tests of both accesses, in their order. *)
Direct(at) ==
  IF at <= MEMORY_ROM_BANK0_END         THEN <<"rom", at - MEMORY_ROM_BANK0_START>>
  ELSE IF at <= MEMORY_ROM_BANKN_END    THEN <<"romBankN", at - MEMORY_ROM_BANKN_START>>
  ELSE IF at <= MEMORY_VRAM_END         THEN <<"vram", at - MEMORY_VRAM_START>>
  ELSE IF at <= MEMORY_EXTERNAL_RAM_END THEN <<"externalRam", at - MEMORY_EXTERNAL_RAM_START>>
  ELSE IF at <= MEMORY_WRAM_BANK0_END   THEN <<"wramBank0", at - MEMORY_WRAM_BANK0_START>>
  ELSE IF at <= MEMORY_WRAM_BANK1_END   THEN <<"wramBank1", at - MEMORY_WRAM_BANK1_START>>
  ELSE IF at <= MEMORY_OAM_END          THEN <<"oam", at - MEMORY_OAM_START>>
  ELSE IF at <= MEMORY_NOT_USABLE_END   THEN <<"notUsable", at - MEMORY_NOT_USABLE_START>>
  ELSE IF at <= MEMORY_IO_END           THEN <<"io", at - MEMORY_IO_START>>
  ELSE IF at <= MEMORY_HIGH_RAM_END     THEN <<"highRam", at - MEMORY_HIGH_RAM_START>>
  ELSE <<"interruptEnable", at - MEMORY_INTERRUPT_ENABLE_REGISTER_ADDRESS>>

Place(address) == Direct(Unechoed(address))

(* The arrays of struct Memory that a store can change. *)
Arrays == {"vram", "externalRam", "wramBank0", "wramBank1", "oam", "highRam"}

Places == {place \in {Place(address) : address \in Addresses} : place[1] \in Arrays}

(* What is read at an address, by the contents of the arrays and the bank. *)
(* A register nobody handles reads as 0xff.                                *)
Reading(memory, bank, address) ==
  LET place == Place(address) IN
  CASE place[1] = "rom"       -> place
    [] place[1] = "romBankN"  -> <<"rom", place[2] + bank * MEMORY_ROM_BANK_SIZE>>
    [] place[1] \in Arrays    -> memory[place]
    [] place[1] = "notUsable" -> <<"byte", 0>>
    [] OTHER                  -> <<"byte", 255>>

memory_read_word(address) == Reading(ram, selectedRomBank, address)

-------------------------------------------------------------------------------
Stored(memory, address, value) ==
  LET place == Place(address) IN
  IF place \in DOMAIN memory THEN [memory EXCEPT ![place] = <<"byte", value>>] ELSE memory

(* Mutant: bank 0 can be selected. *)
handle_rom_write_AnyBank(bank, address, value) ==
  IF mbc1 /\ 8192 <= address /\ address <= 16383 THEN value % 32 ELSE bank

(* The bank after a store in the ROM, which only an MBC1 looks at. *)
handle_rom_write(bank, address, value) ==
  IF mbc1 /\ 8192 <= address /\ address <= 16383
  THEN IF value % 32 < 1 THEN 1 ELSE value % 32
  ELSE bank

(* The address arithmetic is 16 bits wide. *)
NextAddress(address) == (address + 1) % 65536

memory_write_word(address, value) ==
  /\ ram' = Stored(ram, address, value)
  /\ selectedRomBank' = handle_rom_write(selectedRomBank, address, value)

(* A word is two bytes, the lower one first. *)
StoredWord(memory, address, lowByte, highByte) ==
  Stored(Stored(memory, address, lowByte), NextAddress(address), highByte)

BankAfterWord(bank, address, lowByte, highByte) ==
  handle_rom_write(handle_rom_write(bank, address, lowByte), NextAddress(address), highByte)

memory_write_dword(address, lowByte, highByte) ==
  /\ ram' = StoredWord(ram, address, lowByte, highByte)
  /\ selectedRomBank' = BankAfterWord(selectedRomBank, address, lowByte, highByte)

-------------------------------------------------------------------------------
(* The arrays are not initialised. *)
MemoryInit ==
  /\ ram \in [Places -> {<<"byte", value>> : value \in Byte}]
  /\ selectedRomBank = 1

(* The words of the program: two of its stores at addresses in a row. *)
Words == {word \in Program \X Program : word[2][1] = NextAddress(word[1][1])}

MemoryNext ==
  \/ \E store \in Program : memory_write_word(store[1], store[2])
  \/ \E word \in Words : memory_write_dword(word[1][1], word[1][2], word[2][2])

MemorySpec == MemoryInit /\ [][MemoryNext]_memoryVars

-------------------------------------------------------------------------------
(* The memory is the places looked at, and the bank is one that a cartridge *)
(* with an MBC1 can have above bank 0.                                      *)
MemoryTypeOK ==
  /\ DOMAIN ram = Places
  /\ selectedRomBank \in 1 .. 31

(* Two addresses name the same byte: they are equal, or one of them is the *)
(* other's echo.                                                           *)
SameByte(a, b) ==
  \/ a = b
  \/ 49152 <= a /\ a <= 56831 /\ b = a + 8192
  \/ 49152 <= b /\ b <= 56831 /\ a = b + 8192

(* The addresses of RAM by the starts of their regions: all from the video *)
(* RAM to the OAM, and the high RAM.                                       *)
IsRam(address) ==
  \/ MEMORY_VRAM_START <= address /\ address < MEMORY_NOT_USABLE_START
  \/ MEMORY_HIGH_RAM_START <= address /\ address < MEMORY_INTERRUPT_ENABLE_REGISTER_ADDRESS

(* A store at a may bring another bank behind b. *)
MaySwitch(a, b) ==
  8192 <= a /\ a <= 16383 /\ MEMORY_ROM_BANKN_START <= b /\ b < MEMORY_VRAM_START

(* What b reads after a store of value at a: the value if they are the     *)
(* same byte of RAM, and otherwise what it read before.                    *)
Shows(a, value, b, before) ==
  IF IsRam(b) /\ SameByte(a, b) THEN <<"byte", value>> ELSE before

ByteReadsBack(a, value, b) ==
  \/ MaySwitch(a, b)
  \/ Reading(Stored(ram, a, value), handle_rom_write(selectedRomBank, a, value), b)
       = Shows(a, value, b, memory_read_word(b))

WordReadsBack(a, lowByte, highByte, b) ==
  \/ MaySwitch(a, b) \/ MaySwitch(NextAddress(a), b)
  \/ Reading(StoredWord(ram, a, lowByte, highByte),
             BankAfterWord(selectedRomBank, a, lowByte, highByte), b)
       = Shows(NextAddress(a), highByte, b, Shows(a, lowByte, b, memory_read_word(b)))

(* Whatever the memory holds, the next store in the RAM is seen at its own *)
(* address and at the echo of it and nowhere else, and a store anywhere    *)
(* else is seen nowhere, except that one in the ROM may change the bank    *)
(* behind the switchable addresses.  A word is stored as two bytes, the    *)
(* lower one first, across the end of a region or of the address space     *)
(* too.  Not said of what is read at the first address of the video RAM,   *)
(* where it is false: MEMORY_ROM_BANKN_END is that address, too.           *)
StoresReadBack ==
  \A b \in Addresses \ {MEMORY_VRAM_START} :
    /\ \A store \in Program : ByteReadsBack(store[1], store[2], b)
    /\ \A word \in Words : WordReadsBack(word[1][1], word[1][2], word[2][2], b)

===============================================================================
