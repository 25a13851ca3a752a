---------------------------------- MODULE Cpu ----------------------------------
(***************************************************************************)
(* InterruptControl with the program counter, the stack pointer and the    *)
(* memory the stack lives in, at their real widths.  The program is        *)
(* arbitrary: at every step it may hold any instruction that keeps pc in   *)
(* Code and the stack inside StackAddress; the registers and the rest of   *)
(* the memory decide only which instruction it is, and are left out.       *)
(***************************************************************************)
EXTENDS InterruptControl, Sequences

CONSTANTS
  Sources,        (* the interrupts that occur                             *)
  Code,           (* the addresses instructions are executed from          *)
  MaxStackWords   (* bound on the depth of the stack                       *)

Address == 0 .. 65535
Byte == 0 .. 255

Vector(interrupt) == 64 + 8 * interrupt

ASSUME CpuAssumption ==
  /\ Sources \subseteq Interrupt
  /\ Code \subseteq Address
  /\ 256 \in Code
  /\ \A interrupt \in Sources : Vector(interrupt) \in Code
  /\ MaxStackWords \in 1 .. 32000

InitialSp == 65534

StackAddress == InitialSp - 2 * MaxStackWords .. InitialSp - 1

VARIABLES pc, sp, memory

cpuVars == <<pc, sp, memory>>
vars == <<controlVars, cpuVars>>

(* RAM starts with whatever is there. *)
CpuInit ==
  /\ Init
  /\ pc = 256
  /\ sp = InitialSp
  /\ \E garbage \in {0, 255} : memory = [address \in StackAddress |-> garbage]

-------------------------------------------------------------------------------
LowByte(word) == word % 256
HighByte(word) == word \div 256
Wrap(value) == value % 65536

(* memory_write_dword and memory_read_dword: the low byte comes first. *)
Stored(mem, address, word) ==
  [mem EXCEPT ![address] = LowByte(word), ![Wrap(address + 1)] = HighByte(word)]

Loaded(address) == memory[Wrap(address + 1)] * 256 + memory[address]

cpu_push_dword(word) ==
  /\ sp' = Wrap(sp - 2)
  /\ memory' = Stored(memory, sp', word)

(* The word popped is Loaded(sp). *)
cpu_pop_dword == sp' = Wrap(sp + 2) /\ UNCHANGED memory

(* The discipline of the program: it pops only what was saved, keeps room  *)
(* for an interrupt whenever one may come, and stays in its code.          *)
StackWords == (InitialSp - sp) \div 2
RoomAfterPush == StackWords + 2 <= MaxStackWords
RoomForInterrupt == StackWords + 1 <= MaxStackWords
GoTo(address) == address \in Code /\ pc' = address
Skip(length) == GoTo(Wrap(pc + length))

-------------------------------------------------------------------------------
(* handle_interrupt with its push and its jump. *)
Interrupted(interrupt) ==
  /\ handle_interrupt(interrupt)
  /\ cpu_push_dword(pc)
  /\ pc' = Vector(interrupt)

Halted == StayHalted /\ UNCHANGED cpuVars

(* An instruction that touches neither the stack nor interrupts and goes   *)
(* on with the next one; it is one to three bytes long.                    *)
StraightLine ==
  /\ PlainInstruction
  /\ \E length \in 1 .. 3 : Skip(length)
  /\ UNCHANGED <<sp, memory>>

(* JP, JR and JP HL that jump. *)
Jump ==
  /\ PlainInstruction
  /\ \E target \in Code : GoTo(target)
  /\ UNCHANGED <<sp, memory>>

Ei == ei /\ RoomForInterrupt /\ Skip(1) /\ UNCHANGED <<sp, memory>>
Di == di /\ Skip(1) /\ UNCHANGED <<sp, memory>>
Halt == halt /\ Skip(1) /\ UNCHANGED <<sp, memory>>

(* LDH (a8),A to 0xff0f or 0xffff. *)
WriteControl ==
  /\ \/ \E value \in SUBSET Sources : write_interrupt_flags(value)
     \/ \E value \in SUBSET Sources : write_interrupt_enable(value)
  /\ Skip(2)
  /\ UNCHANGED <<sp, memory>>

(* Mutant: the return address is taken before the operand is fetched. *)
Call_BeforeOperand ==
  /\ PlainInstruction /\ RoomAfterPush
  /\ Wrap(pc + 1) \in Code
  /\ cpu_push_dword(Wrap(pc + 2))
  /\ \E target \in Code : GoTo(target)

(* A CALL that is taken saves the place after its operand. *)
Call ==
  /\ PlainInstruction /\ RoomAfterPush
  /\ Wrap(pc + 3) \in Code
  /\ cpu_push_dword(Wrap(pc + 3))
  /\ \E target \in Code : GoTo(target)

rst ==
  /\ PlainInstruction /\ RoomAfterPush
  /\ Wrap(pc + 1) \in Code
  /\ cpu_push_dword(Wrap(pc + 1))
  /\ \E page \in 0 .. 7 : GoTo(8 * page)

Push ==
  /\ PlainInstruction /\ RoomAfterPush
  /\ \E word \in Code : cpu_push_dword(word)
  /\ Skip(1)

Pop ==
  /\ PlainInstruction /\ StackWords > 0
  /\ cpu_pop_dword
  /\ Skip(1)

ret ==
  /\ PlainInstruction /\ StackWords > 0
  /\ GoTo(Loaded(sp))
  /\ cpu_pop_dword

reti ==
  /\ ei /\ StackWords > 0
  /\ GoTo(Loaded(sp))
  /\ cpu_pop_dword

Instruction ==
  \/ StraightLine \/ Jump \/ Ei \/ Di \/ Halt \/ WriteControl
  \/ Call \/ rst \/ Push \/ Pop \/ ret \/ reti

Request ==
  /\ \E interrupt \in Sources : DeviceRequest(interrupt)
  /\ UNCHANGED cpuVars

CpuNext ==
  \/ \E interrupt \in Sources : Interrupted(interrupt)
  \/ Halted \/ Instruction \/ Request

CpuSpec == CpuInit /\ [][CpuNext]_vars

-------------------------------------------------------------------------------
(* Registers keep their widths and the stack pointer stays on a word of    *)
(* its area, with room for one interrupt whenever one may be taken.        *)
CpuTypeOK ==
  /\ TypeOK
  /\ pc \in Code
  /\ sp \in {InitialSp - 2 * words : words \in 0 .. MaxStackWords}
  /\ memory \in [StackAddress -> Byte]
  /\ ime => RoomForInterrupt

(* The program on the byte-wide memory behaves as on a stack of words:     *)
(* whatever mixture of calls, returns, pushes and nested interrupts came   *)
(* before, every interrupted place is resumed exactly.                     *)
Frames == [i \in 1 .. StackWords |-> Loaded(sp + 2 * (i - 1))]
Words == INSTANCE CallStack
           WITH Vectors <- {Vector(interrupt) : interrupt \in Sources},
                frames <- Frames
ImplementsCallStack == Words!Spec

===============================================================================
