# c-gameboy in TLA+

TLA+ models of the c-gameboy emulator, TLC configurations that check them on
small instances, and TLAPS proofs of their main properties for every instance.
Paths of the source are relative to the repository; the program is under
`src/src/`.

1. [The system](#1-the-system)
2. [The modules](#2-the-modules)
3. [What is checked](#3-what-is-checked)
4. [What is proved](#4-what-is-proved)
5. [Where code and documentation disagree](#5-where-code-and-documentation-disagree)
6. [What the models leave out](#6-what-the-models-leave-out)
7. [Plan](#7-plan)

## 1. The system

The program is one thread. `main` initialises every component and then runs a
loop whose body (main.c:140-197) executes one CPU instruction, or takes one
interrupt, or waits in HALT; ticks the keypad, the DMA, the timer, the PPU and
the serial port, in that order and by one fixed number of cycles; logs the byte
of a finished serial transfer; looks at the requests to quit and to dump the
memory; and, when the PPU has just entered VBlank, polls the input and shows the
frame. `SIGINT` arrives between any two statements and sets a flag.

The game is an arbitrary program. It reaches the devices only through handlers
that the components register for their I/O addresses (memory.c:207-224), and
they reach it only through the IF register, in which `cpu_request_interrupt`
sets a bit. The devices share little else: the keypad reads the keys of the
InputState that `input_update` fills; the DMA reads and writes the memory, and
reads it through the same handlers as the program; the PPU reads the video RAM
and the OAM when it draws a line.

| component | state | operations | what makes it hard | what makes it correct |
|---|---|---|---|---|
| CPU core `cpu.c` | pc, sp, registers, `ime`, `halted`, IF, IE | `cpu_execute_next`, `cpu_request_interrupt`, push and pop, IF and IE handlers | requests arrive between any two instructions; handlers nest; HALT waits for an event | no request is lost, every interrupted place is resumed, HALT can end |
| CPU instructions `cpu_instructions.c` | (the CPU's) | 500 opcodes | flags and widths | multi-byte and decimal arithmetic come out right; saved flags come back |
| PPU timing `ppu.c:316-387` | cycle counter, mode, LY | `ppu_tick`, write of LY | LY may be reset at any point of a frame | mode and LY agree, frames are complete, interrupt and frame come together, lines keep time |
| PPU registers, rendering `ppu.c` | LCDC, scroll, palettes, OAM | eleven register handlers, `ppu_render_line`, `oam_search` | state read before it was written; object heights and order; signed and wrapping indices | the frontmost object wins every pixel; drawing stays in the tiles; no assertion fails once the palettes are set |
| timer `timer.c` | DIV, TIMA, TMA, TAC, two counts | `timer_tick`, four register handlers | rate and run bit change within a period | DIV does not drift; TIMA keeps its rate and fires |
| serial port `serial.c` | two latches, two shift registers, two counters | `serial_tick`, SB and SC handlers | SB and SC are rewritten during a transfer | the byte logged is the byte sent, once, with one interrupt |
| DMA `dma.c` | countdown, source | `dma_tick`, register write | restarts and changes of memory during the countdown | one copy for the last request |
| keypad `keypad.c` | P1 | `keypad_tick`, read and write of P1 | a falling line is found by a read, a write or a tick | no press is swallowed or invented |
| input `input.c` | eight keys, quit, dump | `input_update` | events come in batches, polled only at VBlank | the keys follow the keyboard |
| main loop `main.c` | `isRunning`, the log | the loop, the signal handler, start and clean-up | order of the ticks; how the loop ends | a request to quit ends it; nothing restarts it |
| memory `memory.c` | ROM bank, RAMs, handler table | read and write of a byte or a word | region boundaries, echo, writes that are calls | every address belongs to its region; a store reads back |
| options, cartridge, graphics | options, file contents, SDL handles | parse, load, initialise, tear down | failure in the middle of the start | the clean-up undoes what was done, in reverse, and touches nothing else |

## 2. The modules

| module | models | written as |
|---|---|---|
| `Interrupts` | the interrupt numbers, `cpu_request_interrupt` | IF is the set of the interrupts whose bit is 1 |
| `InterruptControl` | the choice of `cpu_execute_next` between interrupt, HALT and instruction; EI, DI, HALT; IF and IE | one action per outcome |
| `Cpu` | InterruptControl with pc, sp and the stack in byte-wide memory, and the instructions that change them | one action per kind of instruction, conjoined with an action of InterruptControl |
| `CallStack` | abstract: a stack of words; interrupts, calls and returns | refined by `Cpu` |
| `Alu` | arithmetic, logic, shifts, bits, DAA, the flags byte | operators from registers to registers |
| `Arithmetic` | a program that only computes, with what its last decimal operation meant | state machine over `Alu` |
| `Ppu` | `ppu_tick`, the write of LY, the display of a frame | one action per outcome of the `switch` |
| `FrameClock` | abstract: LY, the VBlank request, the frame | refined by `Ppu` and `Screen` |
| `Screen` | Ppu with the registers, the OAM and the drawing of a line | extends `Ppu`; a pixel is an operator, an object its number; actions write a register, store in the OAM, or abort |
| `Timer` | `timer_tick` and four registers | DIV and TIMA as the two halves of a tick |
| `FreeRunningClock` | abstract: a clock modulo its period | refined by `Timer` (DIV) |
| `ReloadingCounter` | abstract: a counter that goes on from its reload value and makes a request when it passes its top | refined by `Timer` (TIMA) |
| `Serial` | `serial_tick`, SB, SC and the log | one action per outcome of a tick; bytes as functions from bits |
| `ByteLink` | abstract: offer, begin, end, acknowledge | refined by `Serial` |
| `DmaParameters`, `Dma` | the countdown and the copy | memory by pages |
| `PageCopy` | abstract: one copy for the last request | refined by `Dma`, and by `Bus` through `Dma` |
| `Memory` | regions, echo, ROM banks, byte and word accesses | an address leads to an array and an index; a ROM byte is known by its index, any other by its value |
| `Bus` | Memory with the keypad and the DMA on it | the copy reads byte by byte through the map and the handlers; `PageView` shows it to `Dma` as pages |
| `Keypad` | P1 with its two groups and shared lines | P1 as the groups selected and the lines that read low |
| `Input` | `input_update` on a queue of host events | the queue and the keyboard are outside the program |
| `Emulator` | the body of the main loop over all of the above | one action per call; instances share IF and the keys |
| `Startup` | `parse_options`, the initialisation with its failures, the clean-up | one action per branch and per step of `main`; a resource is garbage, null, made or released |
| `MC...` | constants for TLC; `MCSerialLog` adds a history variable | |
| `...Proofs` | theorems and their proofs | extend the modules they are about: `ScreenProofs` is about `Ppu` too, `CpuProofs` about `InterruptControl` and `Arithmetic`, `BusProofs` about `Memory`, `MainProofs` about `Startup`, `Emulator` and `Input` |

The modules of the devices take whatever the program writes to a register as an
action of its own between two ticks, and the CPU's taking of their interrupt as
an action `Acknowledge...`; `Emulator` instead puts every call in its place in
the loop, and uses the devices' own actions in it. Names are those of the
source (`ppu_tick`, `currentLine`, `handle_interrupt`); an action that has no
function of its own is named for the branch it stands for. Cycle counts are
CONSTANTS with the names of the macros. What `instructionCycles` stands for is
the `int instructionCycles = 1` of the loop (main.c:147), which every tick gets and
nothing changes.

Every definition commented `Mutant` is a plausible slip in the code (a dropped
guard, a wrong comparison, a missing reset). None is part of a specification:
with it in place of the definition it is named after, the property listed for it
in `PROJECT.json` fails.

## 3. What is checked

| run | properties | size and why it is enough |
|---|---|---|
| `screen` | `ShownFramesAreComplete`, `AbortsNeedAnUnsetPalette`, `FrontmostObjectWins`, `DrawsFromTheTiles`, `ImplementsFrameClock`, `VisibleLinesKeepTime`, `FramesComeUnlessAborted` | modes of 2, 3 and 2 cycles, three visible lines and two below: first, middle and last line are all different, and LY may be reset and any register written in every cycle; three objects of which a line has room for two, overlapping, in one column, flipped, tall, off the screen and partly covered by the background; both tables and maps, scrolled across both edges |
| `timer` | `DivNeverDrifts`, `ImplementsReloadingCounter`, `RunningTimerFires` | periods of 3 and 4 cycles, registers of 3 values: the periods are coprime, so every alignment of the two counts occurs |
| `serial` | `ImplementsByteLink`, `TransfersEnd` | all eight bits, two cycles a bit; the two bytes are no rotations of each other or of themselves |
| `bus` | `StoresReadBack`, `ImplementsPageCopy`, `RequestsAreServed`, `KeysAreAnnounced` | the real map; pages 0x80 (end of the ROM, by memory.h:22, and video RAM), 0xfe (the OAM itself) and 0xff (P1 and the DMA register) at two offsets; stores next to both sides of the echo, to the bank switch and across the registers; countdown of 3 with 2 cycles per instruction, so that it overshoots; two groups of keys sharing one line |
| `cpu` | `HaltedCanBeWoken`, `RequestsAreNotLost`, `ImplementsCallStack` | two sources, a stack of three words (a call, an interrupt in it, a word saved by that), six addresses with different bytes, the real widths of pc and sp |
| `arithmetic` | `DecimalResults`, `WideArithmetic`, `BitsAreKept` | every value of A is reached under many settings of the flags (4856 states); 14 operands, the ends of both digits and the sign among them |
| `emulator` | `PolledKeysAreLookedAt`, `KeysFollowTheKeyboard`, `EndsForGood`, `RequestsSurviveTheLoop`, `VBlankEndsHalt` | the whole loop with every period cut to one cycle, a screen of two lines, one key, at most `MaxEvents` = 2 host events between two polls, in two sessions (below) |
| `startup` | `CleanUpReverses`, `CleanUpIsDefined`, `ExitStatusTells`, `OptionsAreCheckedFirst` | every command line of up to `MaxArguments` = 3 words: an option, its path, and one more on either side; files that fit, are too short or too large, of both known types and an unknown one; every step may fail |
| `ppu_vblank_line`, `timer_rate`, `serial_log`, `sp_offset` | one each | counterexamples: section 5 |

Every passing run also checks its module's type invariant.

The two sessions of `emulator` are two sets of initial states of one
specification. In the first the host sends key events, quit events and SIGINT
between any two steps, and the program resets LY, uses P1 and the DMA and may
run into an unimplemented opcode, which stops the loop. In the second, headless,
the program handles interrupts: EI, DI, HALT, writes to IF and IE, the timer and
the serial port. What a property needs together is together in one of them; all
of it at once would be out of reach.

Bounds. `MaxEvents` bounds the queue of host events, `MaxArguments` the command
line. `Addresses`, `Offsets`, `Columns`, `Vram`, `Oams`, `Writes` and `Program` are
samples of what the program may hold or do; the theorems hold for all of them. `MaxStackWords` bounds the
stack, and `RoomAfterPush` and `RoomForInterrupt` are the discipline a program
needs to stay in it. `Code` bounds where instructions are executed. TIMA's count
is kept at zero where the code lets it go on falling. No other counter needs a
bound: each one is reset by the code.

Fairness. The loop never blocks, and in every iteration it ticks all devices
unconditionally, so `WF` of a device's tick states only that the program is
running; no fairness is assumed of the guest, of the host or of interrupts being
taken. `Emulator` assumes weak fairness of the loop as a whole. A property that
needs more says so as a premise the guest can break: `QuitEndsTheLoop` and
`FramesComeUnlessAborted` hold unless LY is reset for ever, `RequestsAreServed` unless
the DMA register is, `RunningTimerFires` unless TIMA is loaded for ever or the
timer stopped, `TransfersEnd` while the internal clock is selected.

Deadlock is checked except where the program really ends: the loop of `emulator`,
the program of `startup`, and `screen` when an assertion aborts it.

What the passing runs show, in words a user of the emulator would choose:

- A game may reset LY whenever it likes; no frame is shown with a line left over
  from the frame before, and every visible line has its 114 cycles.
- Clearing DIV does not disturb its period, whatever an instruction is charged.
- However TIMA, TMA and TAC are rewritten, TIMA requests its interrupt when it
  passes its largest value and at no other time, and goes on from the TMA of that
  moment. Nothing is claimed of its rate, which is wrong (section 5).
- Once the port takes a byte, that byte is logged, whatever is written meanwhile.
- The page copied by the DMA is the page asked for last, as it is at the end of
  the countdown; this holds for a copy of the OAM to itself, of a page that changes
  its bank meanwhile, and of the registers. The copy of the registers reads P1 as a
  program would, and swallows no press. (In `Bus` ticks and reads come in any order.
  In the loop the tick of the keypad comes directly before that of the DMA, so there
  the copy never finds a line the keypad has not seen fall.)
- Whatever the memory holds, the next byte stored in RAM is read at its own address
  and at its echo, a word too even where it crosses from one region into another;
  nothing else changes. A store that was lost would be found. Nothing is claimed of
  what is read at address 0x8000, which memory.h:22 gives to the ROM (section 5).
- A game that draws before it has set the palettes may end the emulator by an
  assertion. One that sets the palettes of what it displays never does.
- Of overlapping objects the one furthest to the left is seen, and in one column
  the one with the lowest number.
- The clean-up of a failed start touches handles nobody has assigned in two cases:
  the ROM cannot be opened, or the window or its renderer cannot be created.
- Reading and re-selecting P1 at awkward moments does not swallow a press, and a
  poll never overwrites keys the keypad has not looked at yet. (A press and a
  release within one frame do cancel out; that is `input_update`'s doing.)
- SIGINT always ends the loop. Closing the window does unless the game keeps LY
  from reaching VBlank, for that is the only place where the window is polled.
- Interrupts nest and return exactly. A request that five devices and a program
  have left in IF goes only in the CPU's own call: taken alone, or overwritten by a
  program that writes IF.
- Bytes shifted, rotated, swapped and changed bit by bit keep every other bit.

## 4. What is proved

The theorems hold for every value of the constants their module's `ASSUME`
allows: any height of the screen, any mode lengths, any period and register
width, any clock rate, any memory, keypad, code, set of interrupt sources and
depth of stack, command lines and queues of events of any length. The theorems
about `Arithmetic` are about all bytes and words, not the operands of the run.
`StartupAssumption` says that `MaxArguments` is a number, and `EmulatorAssumption`
that the guest writes sets of interrupts and that the DMA has a length, an
instruction a cost and the OAM a page.

| module | theorems |
|---|---|
| `TimerProofs` | `TimerTypeCorrect`, `TimaIsACounter`, `DivIsAClock` |
| `SerialProofs` | `SerialTypeCorrect`, `SerialImplementsByteLink` |
| `DmaProofs` | `DmaTypeCorrect`, `DmaImplementsPageCopy` |
| `KeypadProofs` | `KeypadTypeCorrect`, `NoPressIsSwallowed`, `RequestsNeedAHeldKey` |
| `CpuProofs` | `CpuTypeCorrect`, `HaltIsNeverDeaf`, `NoRequestIsLost`, `CpuImplementsCallStack`; `ArithmeticTypeCorrect`, `DecimalIsExact`, `WideIsExact`, `BitsKept` |
| `BusProofs` | `EchoIsTheOnlyAlias`, `MemoryTypeCorrect`, `MemoryReadsBack`; `KeysAnnouncedOnTheBus`, `BusReadsBack`, `BusCopiesPages`, `BusTypeCorrect` |
| `ScreenProofs` | `PpuTypeCorrect`, `ModeAgreesWithLine`, `FramesAreComplete`, `PpuImplementsFrameClock`, `VisibleLinesAreExact`; `ScreenIsAPpu`, `ScreenTypeCorrect`, `DrawingStaysInTheTiles`, `FrontmostObjectIsSeen`, `AssertionNeedsAnUnsetPalette` |
| `MainProofs` | `StartupTypeCorrect`, `CleanUpIsReverse`, `CleanUpUsesWhatIsSet`, `ExitStatusIsTrue`, `OptionsComeFirst`; `LoopTypeCorrect`, `StoppingIsFinal`, `PolledKeysAreSeen`, `KeysAreThoseOfTheKeyboard`, `LoopIsInterruptControl`, `RequestsSurvive`, `LoopCopiesPages`, `LoopAnnouncesPresses` |

The arguments.

*PPU.* That a shown frame is complete is not inductive: it says nothing until
LY leaves the screen. `PpuInv` adds `LinesAboveAreDrawn` (outside VBlank every
line above LY has been drawn) and `FrameWaitsInVBlank`. A reset of LY keeps
the first because there is no line above line 0. The invariant gives the step
simulation of `FrameClock`. `VisibleLinesAreExact` is about one cycle per
instruction, the charge of the program as it is, because a mode restarts its
count at 0 and drops what an instruction of several cycles overshoots; it rests
on `WithinMode`, that no count has reached the length of its mode.

*Timer.* The type invariant is inductive. `TimaIsACounter` maps TIMA and TMA to the
counter and its reload, and "running" to: not stopped, or started before (the count
has left its first value), for a stopped timer whose count has run out steps, too
(section 5). `TickSteps` says that a tick is then a step of the counter or none. For
DIV the value of the clock,
`Position`, is a product; the lemmas `ModBelow`, `WrapOnce`, `ModPeriod`,
`NextPeriod` and `PeriodsBelow` carry all of the non-linear arithmetic, and
`TickMovesClock` splits on whether the period ends and whether DIV overflows.

*Serial.* The byte on its way is the shift register turned back by the steps
already made (`Sending`). `TurnedBackOne` says a rotation is turned back by one
step more, so a tick leaves `Sending` alone; `SevenBackIsOneOn` says that after
seven steps the next rotation gives the byte back, so the end logs it. That the
end is reached only from a transfer with one step left is the type invariant.

*DMA.* The refinement needs of the invariant only that the source is a page: the
uninitialised one is used by nobody because nothing counts.

*Keypad.* `LookingAnnounces`: whichever of the three callers looks at the keys, a
line that has fallen unseen is announced there. All other steps leave it unseen
or change the input.

*CPU.* `CpuStepsControl` says that every step of the CPU is a step of its
interrupt control, so that most facts are proved on four variables. A HALT
copies `ime` into `halted` and only a handler, which clears both, or DI, which
is not executed in HALT, could part them. `CpuTypeCorrect` counts in words:
`PushType` and `PopType` move the stack by one, and `RoomAfterPush` leaves the
word an interrupt needs.

*Stack.* `CpuImplementsCallStack` maps the bytes above the stack pointer, two by
two, to the frames of `CallStack`. `PushFrames` and `PopFrames` say that two byte
accesses around a move of the pointer append a frame or drop the last one and leave
the others alone. Both need of the invariant that the pointer stays in the stack,
which is `CpuTypeCorrect`; a word is the same after it was split into two bytes and
put together again because pc has two bytes.

*Arithmetic.* An addition of words is two additions of bytes, the second with the
carry of the first (`ByteAdds`), and `WordSum` adds the two up, half carry and carry
included. `DecimalIsExact` takes a byte apart into its digits: before DAA the digits
are those of the binary sum or difference, and the flags N, H and C say which of
them passed 9 or borrowed, so that each case of the correction gives the digit it
should. `BitsKept` follows
the bit that leaves a byte into the carry and back (`Rotations`, `Shifts`), the two
digits through four rotations (`Swaps`), and for SET and RES takes a byte apart into
its eight bits and puts it together again (`FromItsBits`, `BitOfBits`).

*Memory.* The regions are a chain of comparisons; `Direct` takes an address to an
array and an index, and `Origin` (of the proofs) takes those back to the address,
so two addresses that are not each other's echo have different places
(`EchoIsTheOnlyAlias`, for all 65536 addresses, not the sample of the run).
`StoresReadBack` is an invariant: it says of every state what the next store, by
the operators the actions use (`Stored`, `StoredWord`, `handle_rom_write`), does to
every reading. `RegionsAgree` says that outside address 0x8000 the RAM by its
regions' starts is what `Direct` leads to an array, which `ByteStoreShows` needs;
applied twice it gives `WordStoreShows`. Of the state only its type is needed.

*Bus.* The bus is a keypad (`BusIsAKeypad`): a store in P1, a read of it and the
copy of its page are steps of `Keypad`, so `KeypadProofs` carries over by INSTANCE.
Through `PageView` it is also a DMA (`BusIsADma`), with `DmaProofs` carried over,
but only with `BusInv`: the memory holds bytes and bytes of the ROM, and the source
is a page. A byte the program stores, or a word, must be a store of the abstract
DMA, which changes two neighbouring bytes of the OAM at most
(`PlacesByRegion`, `OamInARow`); a change of the bank changes other pages only.
The copy of the bytes is the copy of the page because nothing outside the OAM
reads differently after it (`OamPageOnly`, `ReadAfterCopy`), the registers
included. `BusReadsBack` needs the type of the memory only. The assumptions on the samples are that `Addresses` holds every address of `Pages` at
`Offsets`, and an address of the OAM only at one of `Offsets`.

*Screen.* `ScreenIsAPpu`: a step of `Screen` is a step of `Ppu`, the drawing of a
line included, or leaves its variables alone; so what is proved about `Ppu` holds
of `Screen` without being proved again. The registers are typed one action at a
time. `DrawingStaysInTheTiles` bounds the number of the tile from both sides, for
the signed and the unsigned table, and the row within it, which is where
ppu.c adds an index that may be negative to a pointer.

*Objects of a line.* The search and the painting are loops over data of any length,
and the library's induction theorems cannot be used here. `CountingUp` replaces them:
the subsets of an interval are well-founded, so there is no least number at which a
set closed under successor stops. `StepByStep` gets from it that a function defined
by its first value and a step exists, which `found` and the colours under the
painting need, for TLA+ defines both by CHOOSE. `SearchFindsTheFirst` counts the
objects that cover the line beside those found: the room is gone exactly when so
many were found. qsort is specified by its result; `OrdersCanBeListed` shows that
there is one, by putting each object at the number of those before it, because
`DrawnBefore` is a strict order of the whole line. `TheLastPainterStays` then makes
the pixel that of the last object that sets it, which is the one `InFront` of the
others. `UncoloredPixel` follows a colour that was never set back to its palette:
the pixel is the background's or an object's, the colour number is one of the
palette's (`NumbersOfColors`), and a palette without one of its colours has none.

*Start and clean-up.* None of the properties of `Startup` is inductive: what the
clean-up meets depends on where it was entered. `StartupInv` says for each place of
`main` what is set up there (`SetUpByPlace`), who handles which registers
(`HandlersByPlace`), what the status is (`StatusByPlace`) and what of the command line
was parsed (`ParsedSoFar`). `Unwinding` carries it through the clean-up: of the
resources still to come none is released, of those behind none is made, and one that
was never assigned is accounted for by the step that failed. That no start is aborted
for a register follows from `Owning`: the handlers, as listed from the code, name no
register twice.

*Loop.* `LookedAt` says that from the tick of the keypad to the poll the lines of P1
are what the keys pull low. `KeyboardInv` says that the queue, replayed over the keys
of the last poll, leads to the keyboard, for each key an event has spoken of;
`Appended`, that an event decides about its own key alone, makes it inductive.
`LoopStepsControl` maps every call of the loop to an instruction, an interrupt, the
request of one device or a stutter of `InterruptControl`, so the loop inherits what is
proved of that. The DMA and the keypad of the loop are those of `Dma` and
`Keypad`, whose steps every call makes or leaves out (`LoopStepsDma`).
`RequestsSurvive` is stronger than the fact about `InterruptControl`, for it tells
the caller: `RequestsDropNothing` says that a tick or a register of a device only
adds to IF (`OnlyTheCpuDropsRequests`), `TheCpuTakesOneRequest` what an interrupt
removes, and `TheCpuDropsNoOther` that of the instructions only a write of IF does.

Model-checked only: liveness under fairness (beyond the prover), that is
`FramesComeUnlessAborted`, `RunningTimerFires`, `TransfersEnd`, `RequestsAreServed`,
`VBlankEndsHalt` and the second and third part of `EndsForGood`, whose first part is
`StoppingIsFinal`. Every safety property of a passing run is a theorem.

## 5. Where code and documentation disagree

- `ppu_vblank_line`: a VBlank line lasts one cycle too many, because ppu.c:370
  compares with `>` where the other modes use `>=` (`CYCLES_PER_LINE`, ppu.c:319).
- `timer_rate`: TIMA's count is never loaded again (timer.c:158-171), so once the
  first period is over TIMA steps at every instruction, at any rate. The test of
  the count is outside the test of the run bit, so then a stopped timer steps too.
- `serial_log`: a start with the external clock latches SB for good; when the
  program later sends a byte with the internal clock the older byte is logged.
- `sp_offset`: the offset of ADD SP,r and LD HL,SP+r is read as unsigned.

The models follow the code in four more places where it departs from what is
written beside it, or from its evident purpose. No run of its own shows them.

- ppu.c:91 says that an object of 16 pixels with Y=16 is first seen on line 0; the
  next two lines subtract the height twice, and it is above the screen.
- ppu.c:35-38 says that in one column the object with the lowest number is drawn
  first; the sort puts it last, so it is drawn last and stays on top.
- memory.h:22: the end of the banked ROM lacks the -1 of the other regions, so
  0x8000 reads from the ROM, one byte past the bank, and the first byte of video
  RAM cannot be read or written by the program. `Direct` does as the code does, and
  `StoresReadBack` leaves out what is read there, where it would be false.
- options.c:37 starts at the program's own name, which becomes `romPath`; the
  message for a missing ROM (options.c:87) is therefore never printed, and
  `main` loads `argv[1]` whatever was parsed.

## 6. What the models leave out

Inside the modelled components:

- In `Ppu`, `Timer`, `Serial` and `Emulator` an instruction touches at most one
  device register; words across two registers are stored in `Bus` only.
- The three upper bits of IF, which no device sets and the dispatch never reads.
- The `int` in which TIMA's count falls overflows after 2^31 cycles.
- The serial port has no partner, so `incomingData` and `receivedData` are 0.
- EI enables interrupts at once, which the comment at cpu_instructions.c:70 marks
  as still to be done. `Cpu` does as the code does; that a handler has room for
  the interrupt that may nest in it is left to the program (`RoomForInterrupt`).
- Repeated key-down events and other keys, which `input_update` skips. A tap
  shorter than a frame is dropped by the code, and so it is in `Input`.
- In `Alu` the operand of one-operand instructions is A, though the code has one
  function for eight operands. The loads between registers and memory, the 16-bit
  increments and the table of opcodes are left out: they are one assignment each,
  on which nothing but the program depends.
- In `Cpu` the program is arbitrary: registers and the rest of memory only decide
  which instruction comes, so any instruction may. The trace text is left out.
- In `Screen` the video RAM is a constant of a run, and a pixel is a colour number
  and its colour; the position of the pixel in the frame buffer is left out, and
  so is the window, which the code does not draw. Of the registers only the writes
  are actions, for a read changes nothing.
- In `Memory` a byte of the ROM is known by its index, whatever the file holds.
- In `Startup` the texts (help, messages, title and type of the cartridge) are
  left out. The dump of the memory writes files and changes no state of the
  program; `Emulator` leaves it out.

Of the hazards listed in `PROJECT.json` four have no property: the first byte of
video RAM (memory.h:22), a ROM larger than the banks (memory.c:174; `Startup` takes
the step, and nothing forbids it), keys that are down because nobody initialised
them (main.c:132; `KeysFollowTheKeyboard` speaks of keys an event has spoken of), and
the stack that grows because EI takes effect at once (cpu_instructions.c:68). Of
options.c:37 only the argument after `--serial-out` is covered, not the missing path
that is never noticed.

`graphics_update` hands the frame to SDL; of it the models have the step that
shows a frame. Not modelled at all are the build description and the test ROMs,
which hold no logic of the emulator.

## 7. Plan

Done, in this order: `Interrupts` and `Ppu` with `FrameClock`, `Timer`, `Serial`,
`Dma`, `Keypad` and `Input`, `InterruptControl` and `Cpu` with `CallStack`,
`Emulator` over all of them, `Alu` with `Arithmetic`; `Memory`, and `Bus` over it,
the keypad and the DMA; `Screen` over `Ppu`; `Startup`; and the proofs of section 4.

To come:

1. Registers and loads in one module with `Alu`, should a property of theirs be
   found that a test of the single instructions does not settle.
