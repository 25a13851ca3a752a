------------------------------- MODULE CpuProofs -------------------------------
(***************************************************************************)
(* Proofs about the CPU.  First its choice between interrupts and          *)
(* instructions, for any program code, any set of interrupt sources and    *)
(* any depth of stack, up to the call stack it implements; then what its   *)
(* arithmetic instructions compute, for all bytes and all flags.           *)
(***************************************************************************)
EXTENDS Cpu, Arithmetic, FiniteSetTheorems, SequenceTheorems, TLAPS

(* Every step of the CPU is a step of its interrupt control, and the       *)
(* program writes no request that does not exist.                          *)
LEMMA CpuStepsControl == CpuNext => Next
BY CpuAssumption
DEF CpuAssumption, CpuNext, Next, cpu_execute_next, TakeInterrupt, Interrupted, Halted,
    Instruction, StraightLine, Jump, Ei, Di, Halt, WriteControl, GuestWritesFlags,
    Call, rst, Push, Pop, ret, reti, Request

(* Every step of the interrupt control keeps the types of its registers    *)
(* and never halts the CPU where no interrupt could wake it.               *)
LEMMA ControlNext ==
  ASSUME TypeOK, HaltedCanBeWoken, [Next]_controlVars
  PROVE  TypeOK' /\ HaltedCanBeWoken'
<1> USE DEF TypeOK, HaltedCanBeWoken
<1>1. ASSUME NEW interrupt \in Interrupt, handle_interrupt(interrupt)
      PROVE  TypeOK' /\ HaltedCanBeWoken'
  BY <1>1 DEF handle_interrupt
<1>2. ASSUME NEW interrupt \in Interrupt, DeviceRequest(interrupt)
      PROVE  TypeOK' /\ HaltedCanBeWoken'
  BY <1>2 DEF DeviceRequest, cpu_request_interrupt
<1>3. ASSUME NEW value \in SUBSET Interrupt,
             write_interrupt_flags(value) \/ write_interrupt_enable(value)
      PROVE  TypeOK' /\ HaltedCanBeWoken'
  BY <1>3 DEF write_interrupt_flags, write_interrupt_enable
<1>4. CASE ei
  BY <1>4 DEF ei
<1>5. CASE di
  BY <1>5 DEF di, Executes
<1>6. CASE halt
  <2>1. halted' \in BOOLEAN /\ ime' \in BOOLEAN /\ (halted' => ime')
    BY <1>6 DEF halt
  <2> QED
    BY <1>6, <2>1 DEF halt
<1>7. CASE UNCHANGED controlVars
  BY <1>7 DEF controlVars
<1> QED
  BY <1>1, <1>2, <1>3, <1>4, <1>5, <1>6, <1>7
  DEF Next, cpu_execute_next, TakeInterrupt, GuestWritesFlags, StayHalted, PlainInstruction

(* The control part of the invariant holds of every state of the CPU.      *)
LEMMA ControlAlways == CpuSpec => [](TypeOK /\ HaltedCanBeWoken)
<1>1. CpuInit => TypeOK /\ HaltedCanBeWoken
  BY DEF CpuInit, Init, TypeOK, HaltedCanBeWoken
<1>2. TypeOK /\ HaltedCanBeWoken /\ [CpuNext]_vars => TypeOK' /\ HaltedCanBeWoken'
  BY ControlNext, CpuStepsControl DEF vars
<1> QED
  BY <1>1, <1>2, PTL DEF CpuSpec

(* The CPU never waits in HALT with interrupts disabled, whatever the      *)
(* program and the devices do.                                             *)
THEOREM HaltIsNeverDeaf == CpuSpec => []HaltedCanBeWoken
BY ControlAlways, PTL

-------------------------------------------------------------------------------
(* An interrupt that is taken takes its own request away and no other.     *)
LEMMA OneRequestGoes ==
  ASSUME NEW interrupt \in Interrupt, handle_interrupt(interrupt)
  PROVE  LET gone == interruptFlags \ interruptFlags'
         IN  gone \subseteq Pending /\ Cardinality(gone) = 1 /\ ime /\ ~ime'
<1>1. interrupt \in Pending /\ interruptFlags \ interruptFlags' = {interrupt}
  BY DEF handle_interrupt, Chosen, Pending
<1>2. Cardinality({interrupt}) = 1
  BY FS_Singleton
<1> QED
  BY <1>1, <1>2 DEF handle_interrupt

(* No other step takes a request away but a write of the program to IF.    *)
LEMMA OthersKeepRequests ==
  ASSUME Next, ~TakeInterrupt, ~GuestWritesFlags
  PROVE  interruptFlags \ interruptFlags' = {}
BY DEF Next, cpu_execute_next, StayHalted, PlainInstruction, ei, di, halt, DeviceRequest,
       write_interrupt_enable, cpu_request_interrupt, controlVars

(* A request leaves IF only because that interrupt was enabled and taken,  *)
(* one at a time, or because the program wrote the register.               *)
THEOREM NoRequestIsLost == CpuSpec => RequestsAreNotLost
<1> DEFINE gone == interruptFlags \ interruptFlags'
           Kept == gone # {} /\ ~GuestWritesFlags
                     => gone \subseteq Pending /\ Cardinality(gone) = 1 /\ ime /\ ~ime'
<1>1. Next => Kept
  BY OneRequestGoes, OthersKeepRequests DEF TakeInterrupt
<1>2. [CpuNext]_vars => [Kept]_controlVars
  <2> HIDE DEF Kept
  <2> QED
    BY <1>1, CpuStepsControl DEF vars
<1> QED
  BY <1>2, PTL DEF CpuSpec, RequestsAreNotLost

-------------------------------------------------------------------------------
(* The two bytes of a word are bytes.                                      *)
LEMMA BytesOfAWord == \A word \in Address : LowByte(word) \in Byte /\ HighByte(word) \in Byte
<1> TAKE word \in Address
<1>1. word \in Nat /\ word <= 65535
  BY DEF Address
<1>2. word % 256 \in Nat /\ word % 256 <= 255
  BY <1>1
<1>3. word \div 256 \in Int /\ 0 <= word \div 256 /\ word \div 256 <= 255
  BY <1>1
<1> QED
  BY <1>2, <1>3 DEF Byte, LowByte, HighByte

(* The stack pointer, and the room it leaves, in words.                    *)
LEMMA SpInWords ==
  ASSUME NEW words \in 0 .. MaxStackWords, sp = InitialSp - 2 * words
  PROVE  StackWords = words
BY CpuAssumption DEF CpuAssumption, InitialSp, StackWords

(* Saving a word moves the stack pointer down by one word.                 *)
LEMMA PushType ==
  ASSUME CpuTypeOK, NEW word \in Address, cpu_push_dword(word), RoomForInterrupt
  PROVE  /\ memory' \in [StackAddress -> Byte]
         /\ sp' \in {InitialSp - 2 * words : words \in 0 .. MaxStackWords}
         /\ RoomAfterPush => RoomForInterrupt'
<1>1. memory' \in [StackAddress -> Byte]
  BY BytesOfAWord DEF CpuTypeOK, cpu_push_dword, Stored
<1>2. PICK words \in 0 .. MaxStackWords : sp = InitialSp - 2 * words
  BY DEF CpuTypeOK
<1>3. StackWords = words
  BY <1>2, SpInWords
<1>4. words + 1 \in 0 .. MaxStackWords
  BY <1>3, CpuAssumption DEF RoomForInterrupt, CpuAssumption
<1>5. sp' = InitialSp - 2 * (words + 1)
  BY <1>2, <1>4, CpuAssumption DEF CpuAssumption, cpu_push_dword, Wrap, InitialSp
<1>6. StackWords' = words + 1
  BY <1>4, <1>5, CpuAssumption DEF CpuAssumption, StackWords, InitialSp
<1>7. RoomAfterPush => RoomForInterrupt'
  BY <1>3, <1>6, CpuAssumption DEF RoomAfterPush, RoomForInterrupt, CpuAssumption
<1> QED
  BY <1>1, <1>4, <1>5, <1>7

(* Taking a word off moves the stack pointer up by one word.               *)
LEMMA PopType ==
  ASSUME CpuTypeOK, cpu_pop_dword, StackWords > 0
  PROVE  /\ memory' \in [StackAddress -> Byte]
         /\ sp' \in {InitialSp - 2 * words : words \in 0 .. MaxStackWords}
         /\ RoomForInterrupt'
<1>1. PICK words \in 0 .. MaxStackWords : sp = InitialSp - 2 * words
  BY DEF CpuTypeOK
<1>2. words - 1 \in 0 .. MaxStackWords
  BY <1>1, SpInWords, CpuAssumption DEF CpuAssumption
<1>3. sp' = InitialSp - 2 * (words - 1)
  BY <1>1, <1>2, CpuAssumption DEF CpuAssumption, cpu_pop_dword, Wrap, InitialSp
<1>4. StackWords' = words - 1
  BY <1>2, <1>3, CpuAssumption DEF CpuAssumption, StackWords, InitialSp
<1>5. RoomForInterrupt'
  BY <1>4, CpuAssumption DEF RoomForInterrupt, CpuAssumption
<1>6. memory' \in [StackAddress -> Byte]
  BY DEF CpuTypeOK, cpu_pop_dword
<1> QED
  BY <1>2, <1>3, <1>5, <1>6

(* A step that leaves the stack alone and enables interrupts only where    *)
(* there is room for one.                                                  *)
LEMMA SteadyType ==
  ASSUME CpuTypeOK, TypeOK', pc' \in Code, UNCHANGED <<sp, memory>>,
         ime' => ime \/ RoomForInterrupt
  PROVE  CpuTypeOK'
BY DEF CpuTypeOK, RoomForInterrupt, StackWords

(* Every step of the CPU keeps the registers in their ranges and the stack *)
(* inside its area.                                                        *)
LEMMA CpuTypeNext ==
  ASSUME CpuTypeOK, TypeOK', [CpuNext]_vars
  PROVE  CpuTypeOK'
<1> USE DEF GoTo, Skip
<1>1. \A word \in Code : word \in Address
  BY CpuAssumption DEF CpuAssumption
<1>2. CASE \E interrupt \in Sources : Interrupted(interrupt)
  <2>1. PICK interrupt \in Sources : Interrupted(interrupt)
    BY <1>2
  <2>2. ime /\ ~ime' /\ cpu_push_dword(pc) /\ pc' \in Code
    BY <2>1, CpuAssumption DEF CpuAssumption, Interrupted, handle_interrupt
  <2>3. pc \in Address /\ RoomForInterrupt
    BY <1>1, <2>2 DEF CpuTypeOK
  <2> QED
    BY <2>2, <2>3, PushType DEF CpuTypeOK
<1>3. CASE Call \/ rst \/ Push
  <2>1. PICK word \in Code : cpu_push_dword(word)
    BY <1>3 DEF Call, rst, Push
  <2>2. RoomAfterPush /\ pc' \in Code
    BY <1>3 DEF Call, rst, Push
  <2>3. RoomForInterrupt
    <3>1. PICK words \in 0 .. MaxStackWords : sp = InitialSp - 2 * words
      BY DEF CpuTypeOK
    <3> QED
      BY <2>2, <3>1, SpInWords, CpuAssumption
      DEF RoomAfterPush, RoomForInterrupt, CpuAssumption
  <2> QED
    BY <1>1, <2>1, <2>2, <2>3, PushType DEF CpuTypeOK
<1>4. CASE Pop \/ ret \/ reti
  <2>1. cpu_pop_dword /\ StackWords > 0 /\ pc' \in Code
    BY <1>4 DEF Pop, ret, reti
  <2> QED
    BY <2>1, PopType DEF CpuTypeOK
<1>5. CASE StraightLine \/ Jump \/ Di \/ Halt \/ WriteControl
  BY <1>5, SteadyType
  DEF StraightLine, Jump, Di, Halt, WriteControl, PlainInstruction, di, halt,
      write_interrupt_flags, write_interrupt_enable, controlVars
<1>6. CASE Ei
  BY <1>6, SteadyType DEF Ei
<1>7. CASE Halted \/ Request \/ UNCHANGED vars
  <2>1. UNCHANGED <<pc, sp, memory, ime>>
    BY <1>7 DEF Halted, StayHalted, Request, DeviceRequest, vars, cpuVars, controlVars
  <2> QED
    BY <2>1, SteadyType DEF CpuTypeOK
<1> QED
  BY <1>2, <1>3, <1>4, <1>5, <1>6, <1>7 DEF CpuNext, Instruction

(* Whatever mixture of calls, pushes, returns and nested interrupts runs,  *)
(* a program that keeps the discipline never leaves its stack and always   *)
(* has room for the interrupt that may come.                               *)
THEOREM CpuTypeCorrect == CpuSpec => []CpuTypeOK
<1>1. CpuInit => CpuTypeOK
  <2> SUFFICES ASSUME CpuInit PROVE CpuTypeOK
    OBVIOUS
  <2>1. TypeOK /\ pc \in Code
    <3>1. TypeOK
      BY DEF CpuInit, Init, TypeOK
    <3>2. pc \in Code
      BY CpuAssumption DEF CpuAssumption, CpuInit
    <3> QED
      BY <3>1, <3>2
  <2>2. memory \in [StackAddress -> Byte]
    <3>1. PICK garbage \in {0, 255} : memory = [address \in StackAddress |-> garbage]
      BY DEF CpuInit
    <3>2. garbage \in Byte
      BY DEF Byte
    <3> QED
      BY <3>1, <3>2
  <2>3. 0 \in 0 .. MaxStackWords /\ sp = InitialSp - 2 * 0
    BY CpuAssumption DEF CpuAssumption, CpuInit, InitialSp
  <2>4. StackWords = 0
    BY <2>3, SpInWords
  <2>5. RoomForInterrupt
    BY <2>4, CpuAssumption DEF CpuAssumption, RoomForInterrupt
  <2> QED
    BY <2>1, <2>2, <2>3, <2>5 DEF CpuTypeOK
<1>2. CpuTypeOK /\ TypeOK' /\ [CpuNext]_vars => CpuTypeOK'
  BY CpuTypeNext
<1> QED
  BY <1>1, <1>2, ControlAlways, PTL DEF CpuSpec

-------------------------------------------------------------------------------
(* A word is put together again from its two bytes.                        *)
LEMMA WordOfItsBytes ==
  \A word \in Address : HighByte(word) * 256 + LowByte(word) = word
<1> TAKE word \in Address
<1>1. word \in Nat
  BY DEF Address
<1>2. (word \div 256) * 256 + (word % 256) = word
  BY <1>1
<1> QED
  BY <1>2 DEF HighByte, LowByte

(* Two bytes of the memory are a word, and the addresses of the words      *)
(* saved lie in the area of the stack.                                     *)
LEMMA SlotAddresses ==
  ASSUME NEW words \in 0 .. MaxStackWords, NEW slot \in 1 .. words
  PROVE  LET address == InitialSp - 2 * words + 2 * (slot - 1)
         IN  /\ address \in StackAddress
             /\ Wrap(address + 1) = address + 1
             /\ address + 1 \in StackAddress
BY CpuAssumption DEF CpuAssumption, InitialSp, StackAddress, Wrap

(* A word is loaded from two bytes of the memory.                        *)
LEMMA LoadedType ==
  ASSUME NEW mem \in [StackAddress -> Byte], NEW a \in StackAddress, NEW b \in StackAddress
  PROVE  mem[b] * 256 + mem[a] \in Address
<1>1. mem[a] \in 0 .. 255 /\ mem[b] \in 0 .. 255
  BY DEF Byte
<1>2. \A high, low \in 0 .. 255 : high * 256 + low \in Address
  BY DEF Address
<1> QED
  BY <1>1, <1>2

(* The words saved, as a sequence.                                         *)
WordAt(mem, address) == mem[Wrap(address + 1)] * 256 + mem[address]

FramesAreWords ==
  /\ Frames \in Seq(Address)
  /\ Len(Frames) = StackWords
  /\ StackWords \in 0 .. MaxStackWords
  /\ sp = InitialSp - 2 * StackWords
  /\ \A slot \in 1 .. StackWords : Frames[slot] = WordAt(memory, sp + 2 * (slot - 1))

(* The frames of the stack are words.                                    *)
LEMMA FramesType == CpuTypeOK => FramesAreWords
<1> SUFFICES ASSUME CpuTypeOK PROVE FramesAreWords
  OBVIOUS
<1>1. PICK words \in 0 .. MaxStackWords : sp = InitialSp - 2 * words
  BY DEF CpuTypeOK
<1>2. StackWords = words
  BY <1>1, SpInWords
<1>3. \A slot \in 1 .. StackWords : Loaded(sp + 2 * (slot - 1)) \in Address
  <2> TAKE slot \in 1 .. StackWords
  <2> DEFINE address == sp + 2 * (slot - 1)
  <2>1. /\ address \in StackAddress
        /\ Wrap(address + 1) \in StackAddress
    BY <1>1, <1>2, SlotAddresses
  <2>2. memory \in [StackAddress -> Byte]
    BY DEF CpuTypeOK
  <2> HIDE DEF address
  <2>3. Loaded(address) \in Address
    BY <2>1, <2>2, LoadedType DEF Loaded
  <2> QED
    BY <2>3 DEF address
<1>4. words \in Nat
  BY <1>1, CpuAssumption DEF CpuAssumption
<1>5. Frames \in [1 .. words -> Address]
  BY <1>2, <1>3 DEF Frames
<1>6. Frames \in Seq(Address) /\ Len(Frames) = words
  BY <1>4, <1>5
<1> QED
  BY <1>1, <1>2, <1>6 DEF Frames, FramesAreWords, Loaded, WordAt

(* Saving a word puts it in front of those saved before.                   *)
LEMMA PushFrames ==
  ASSUME CpuTypeOK, CpuTypeOK', NEW word \in Address, cpu_push_dword(word), RoomForInterrupt
  PROVE  Frames' = <<word>> \o Frames
<1> DEFINE words == StackWords
<1>0. FramesAreWords'
  BY FramesType, PTL
<1>1. /\ Frames \in Seq(Address) /\ Len(Frames) = words
      /\ words \in 0 .. MaxStackWords /\ sp = InitialSp - 2 * words
      /\ \A slot \in 1 .. words : Frames[slot] = WordAt(memory, sp + 2 * (slot - 1))
  BY FramesType DEF FramesAreWords
<1>2. /\ Frames' \in Seq(Address) /\ Len(Frames') = StackWords'
      /\ sp' = InitialSp - 2 * StackWords'
      /\ StackWords' \in 0 .. MaxStackWords
      /\ \A slot \in 1 .. StackWords' : Frames'[slot] = WordAt(memory', sp' + 2 * (slot - 1))
  BY <1>0 DEF FramesAreWords
<1>3. StackWords' = words + 1
  <2>1. words + 1 <= MaxStackWords /\ sp' = sp - 2
    BY <1>1, CpuAssumption DEF RoomForInterrupt, cpu_push_dword, Wrap, CpuAssumption, InitialSp
  <2>2. PICK before \in Int : before = words
    BY <1>1, CpuAssumption DEF CpuAssumption
  <2>3. PICK after \in Int : after = StackWords'
    BY <1>2, CpuAssumption DEF CpuAssumption
  <2>4. sp' = InitialSp - 2 * after /\ sp = InitialSp - 2 * before
    BY <1>1, <1>2, <2>2, <2>3
  <2>5. after = before + 1
    BY <2>1, <2>4 DEF InitialSp
  <2> QED
    BY <2>2, <2>3, <2>5
<1> HIDE DEF words
<1>4. /\ words \in Nat /\ words + 1 \in 0 .. MaxStackWords
      /\ sp' = InitialSp - 2 * (words + 1) /\ sp = sp' + 2
  BY <1>1, <1>2, <1>3, CpuAssumption DEF CpuAssumption, InitialSp
<1>5. /\ sp' \in StackAddress /\ Wrap(sp' + 1) = sp' + 1 /\ sp' + 1 \in StackAddress
  BY <1>4, CpuAssumption DEF CpuAssumption, InitialSp, StackAddress, Wrap
<1>6. memory' = [memory EXCEPT ![sp'] = LowByte(word), ![sp' + 1] = HighByte(word)]
  BY <1>5 DEF cpu_push_dword, Stored
<1>7. DOMAIN memory = StackAddress
  BY DEF CpuTypeOK
<1>8. Frames'[1] = word
  <2>1. memory'[sp'] = LowByte(word) /\ memory'[sp' + 1] = HighByte(word)
    BY <1>4, <1>5, <1>6, <1>7 DEF InitialSp
  <2>2. Frames'[1] = memory'[Wrap(sp' + 1)] * 256 + memory'[sp']
    <3>1. 1 \in 1 .. StackWords' /\ sp' + 2 * (1 - 1) = sp'
      BY <1>3, <1>4, CpuAssumption DEF CpuAssumption, InitialSp
    <3>2. Frames'[1] = WordAt(memory', sp' + 2 * (1 - 1))
      BY <1>2, <3>1
    <3> QED
      BY <3>1, <3>2 DEF WordAt
  <2> QED
    BY <1>5, <2>1, <2>2, WordOfItsBytes
<1>9. ASSUME NEW slot \in 1 .. words PROVE Frames'[slot + 1] = Frames[slot]
  <2> DEFINE address == sp + 2 * (slot - 1)
  <2>1. /\ address \in StackAddress /\ Wrap(address + 1) = address + 1
        /\ address + 1 \in StackAddress
    BY <1>1, SlotAddresses
  <2>2. address # sp' /\ address # sp' + 1 /\ address + 1 # sp' /\ address + 1 # sp' + 1
    BY <1>4, CpuAssumption DEF CpuAssumption, InitialSp
  <2>3. slot + 1 \in 1 .. StackWords' /\ sp' + 2 * ((slot + 1) - 1) = address
    BY <1>3, <1>4, CpuAssumption DEF CpuAssumption, InitialSp
  <2> HIDE DEF address
  <2>4. memory'[address] = memory[address] /\ memory'[address + 1] = memory[address + 1]
    BY <1>5, <1>6, <1>7, <2>1, <2>2
  <2>5. Frames'[slot + 1] = WordAt(memory', address)
    BY <1>2, <2>3
  <2>6. Frames[slot] = WordAt(memory, address)
    BY <1>1 DEF address
  <2> QED
    BY <2>1, <2>4, <2>5, <2>6 DEF WordAt
<1>10. <<word>> \in Seq(Address) /\ Len(<<word>>) = 1 /\ <<word>>[1] = word
  OBVIOUS
<1> DEFINE pushed == <<word>> \o Frames
<1>11. pushed \in Seq(Address) /\ Len(pushed) = words + 1
       /\ \A slot \in 1 .. words + 1 :
            pushed[slot] = IF slot <= 1 THEN <<word>>[slot] ELSE Frames[slot - 1]
  BY <1>1, <1>4, <1>10, ConcatProperties
<1> HIDE DEF pushed
<1>12. ASSUME NEW slot \in 1 .. words + 1 PROVE Frames'[slot] = pushed[slot]
  <2>1. CASE slot = 1
    BY <1>4, <1>8, <1>10, <1>11, <2>1
  <2>2. CASE slot # 1
    <3>1. slot - 1 \in 1 .. words /\ (slot - 1) + 1 = slot /\ ~(slot <= 1)
      BY <1>4, <2>2
    <3> QED
      BY <1>9, <1>11, <3>1
  <2> QED
    BY <2>1, <2>2
<1>13. Len(Frames') = Len(pushed) /\ \A slot \in 1 .. Len(Frames') : Frames'[slot] = pushed[slot]
  BY <1>2, <1>3, <1>11, <1>12
<1>14. Frames' = pushed
  BY <1>2, <1>11, <1>13, SeqEqual
<1> QED
  BY <1>14 DEF pushed

(* Taking a word off takes the first of those saved.                       *)
LEMMA PopFrames ==
  ASSUME CpuTypeOK, CpuTypeOK', cpu_pop_dword, StackWords > 0
  PROVE  Frames # <<>> /\ Frames' = Tail(Frames) /\ Loaded(sp) = Head(Frames)
<1> DEFINE words == StackWords
<1>0. FramesAreWords'
  BY FramesType, PTL
<1>1. /\ Frames \in Seq(Address) /\ Len(Frames) = words
      /\ words \in 0 .. MaxStackWords /\ sp = InitialSp - 2 * words
      /\ \A slot \in 1 .. words : Frames[slot] = WordAt(memory, sp + 2 * (slot - 1))
  BY FramesType DEF FramesAreWords
<1>2. /\ Frames' \in Seq(Address) /\ Len(Frames') = StackWords'
      /\ sp' = InitialSp - 2 * StackWords'
      /\ StackWords' \in 0 .. MaxStackWords
      /\ \A slot \in 1 .. StackWords' : Frames'[slot] = WordAt(memory', sp' + 2 * (slot - 1))
  BY <1>0 DEF FramesAreWords
<1>3. words \in Nat /\ words > 0 /\ StackWords' = words - 1 /\ sp' = sp + 2
  <2>1. PICK before \in Int : before = words
    BY <1>1, CpuAssumption DEF CpuAssumption
  <2>2. PICK after \in Int : after = StackWords'
    BY <1>2, CpuAssumption DEF CpuAssumption
  <2>3. before > 0 /\ before <= MaxStackWords /\ sp = InitialSp - 2 * before
    BY <1>1, <2>1
  <2>4. sp' = sp + 2
    BY <2>1, <2>3, CpuAssumption DEF cpu_pop_dword, Wrap, CpuAssumption, InitialSp
  <2>5. sp' = InitialSp - 2 * after
    BY <1>2, <2>2
  <2>6. after = before - 1
    BY <2>3, <2>4, <2>5 DEF InitialSp
  <2> QED
    BY <2>1, <2>2, <2>3, <2>4, <2>6
<1> HIDE DEF words
<1>4. memory' = memory
  BY DEF cpu_pop_dword
<1>5. Frames # <<>>
  BY <1>1, <1>3, EmptySeq
<1> DEFINE rest == Tail(Frames)
<1>6. /\ rest \in Seq(Address) /\ Len(rest) = words - 1
      /\ \A slot \in 1 .. words - 1 : rest[slot] = Frames[slot + 1]
  BY <1>1, <1>5, HeadTailProperties
<1> HIDE DEF rest
<1>7. ASSUME NEW slot \in 1 .. words - 1 PROVE Frames'[slot] = rest[slot]
  <2>1. slot + 1 \in 1 .. words /\ sp' + 2 * (slot - 1) = sp + 2 * ((slot + 1) - 1)
    BY <1>1, <1>3, CpuAssumption DEF CpuAssumption, InitialSp
  <2>2. Frames[slot + 1] = WordAt(memory, sp + 2 * ((slot + 1) - 1))
    BY <1>1, <2>1
  <2>3. Frames'[slot] = WordAt(memory', sp' + 2 * (slot - 1))
    BY <1>2, <1>3
  <2>4. rest[slot] = Frames[slot + 1]
    BY <1>6
  <2> QED
    BY <1>4, <2>1, <2>2, <2>3, <2>4
<1>8. Frames' = rest
  <2>1. Len(Frames') = Len(rest) /\ \A slot \in 1 .. Len(Frames') : Frames'[slot] = rest[slot]
    BY <1>2, <1>3, <1>6, <1>7
  <2> QED
    BY <1>2, <1>6, <2>1, SeqEqual
<1>9. Loaded(sp) = Head(Frames)
  <2>1. 1 \in 1 .. words /\ sp + 2 * (1 - 1) = sp
    BY <1>1, <1>3, CpuAssumption DEF CpuAssumption, InitialSp
  <2>2. Frames[1] = WordAt(memory, sp + 2 * (1 - 1))
    BY <1>1, <2>1
  <2>3. Head(Frames) = Frames[1]
    BY <1>1, <1>5
  <2> QED
    BY <2>1, <2>2, <2>3 DEF WordAt, Loaded
<1> QED
  BY <1>5, <1>8, <1>9 DEF rest

(* An interrupt, a call or a push puts one word in front of the saved      *)
(* ones: the place that is interrupted, the place after the call, or any.  *)
LEMMA SavingSteps ==
  ASSUME CpuTypeOK, CpuTypeOK',
         (\E interrupt \in Sources : Interrupted(interrupt)) \/ Call \/ rst \/ Push
  PROVE  Words!Next
<1>1. \A word \in Code : word \in Address
  BY CpuAssumption DEF CpuAssumption
<1>2. RoomAfterPush => RoomForInterrupt
  <2>1. PICK words \in 0 .. MaxStackWords : sp = InitialSp - 2 * words
    BY DEF CpuTypeOK
  <2> QED
    BY <2>1, SpInWords, CpuAssumption DEF RoomAfterPush, RoomForInterrupt, CpuAssumption
<1>3. ASSUME NEW interrupt \in Sources, Interrupted(interrupt) PROVE Words!Interrupt
  <2>1. ime /\ ime' = FALSE /\ cpu_push_dword(pc)
    BY <1>3 DEF Interrupted, handle_interrupt
  <2>2. Frames' = <<pc>> \o Frames
    BY <1>1, <2>1, PushFrames DEF CpuTypeOK
  <2>3. pc' \in {Vector(source) : source \in Sources}
    BY <1>3 DEF Interrupted
  <2> QED
    BY <2>1, <2>2, <2>3 DEF Words!Interrupt
<1>4. CASE Call
  <2>1. Frames' = <<Wrap(pc + 3)>> \o Frames
    BY <1>1, <1>2, <1>4, PushFrames DEF Call
  <2>2. Wrap(pc + 3) = Words!After(3)
    BY DEF Wrap, Words!After
  <2> QED
    BY <1>4, <2>1, <2>2 DEF Call, PlainInstruction, controlVars, Words!Next, Words!Call
<1>5. CASE rst
  <2>1. Frames' = <<Wrap(pc + 1)>> \o Frames
    BY <1>1, <1>2, <1>5, PushFrames DEF rst
  <2>2. Wrap(pc + 1) = Words!After(1)
    BY DEF Wrap, Words!After
  <2> QED
    BY <1>5, <2>1, <2>2 DEF rst, PlainInstruction, controlVars, Words!Next, Words!Call
<1>6. CASE Push
  <2>1. PICK word \in Code : cpu_push_dword(word)
    BY <1>6 DEF Push
  <2>2. Frames' = <<word>> \o Frames
    BY <1>1, <1>2, <1>6, <2>1, PushFrames DEF Push
  <2>3. Frames \in Seq(Address)
    BY FramesType DEF FramesAreWords
  <2>4. Frames' # <<>> /\ Tail(Frames') = Frames
    BY <1>1, <2>2, <2>3
  <2>5. pc' = Words!After(1) /\ UNCHANGED ime
    BY <1>6 DEF Push, Skip, GoTo, Wrap, PlainInstruction, controlVars, Words!After
  <2> QED
    BY <2>4, <2>5 DEF Words!Next, Words!Push
<1> QED
  BY <1>3, <1>4, <1>5, <1>6 DEF Words!Next

(* A return resumes the place that was saved last, and POP drops it.       *)
LEMMA TakingSteps ==
  ASSUME CpuTypeOK, CpuTypeOK', Pop \/ ret \/ reti
  PROVE  Words!Next
<1>1. Frames # <<>> /\ Frames' = Tail(Frames) /\ Loaded(sp) = Head(Frames)
  BY PopFrames DEF Pop, ret, reti
<1>2. CASE Pop
  <2>1. pc' = Words!After(1) /\ UNCHANGED ime
    BY <1>2 DEF Pop, Skip, GoTo, Wrap, PlainInstruction, controlVars, Words!After
  <2> QED
    BY <1>1, <2>1 DEF Words!Next, Words!Drop
<1>3. CASE ret \/ reti
  <2>1. pc' = Loaded(sp) /\ ime' \in {ime, TRUE}
    BY <1>3 DEF ret, reti, GoTo, PlainInstruction, ei, controlVars
  <2> QED
    BY <1>1, <2>1 DEF Words!Next, Words!Return
<1> QED
  BY <1>2, <1>3

(* No other step touches a saved word.                                     *)
LEMMA OtherSteps ==
  ASSUME CpuTypeOK', UNCHANGED <<sp, memory>>
  PROVE  Words!Next
<1>1. Frames' = Frames
  BY DEF Frames, StackWords, Loaded
<1>2. ime' \in BOOLEAN
  BY DEF CpuTypeOK, TypeOK
<1> QED
  BY <1>1, <1>2 DEF Words!Next, Words!Run

(* On a byte-wide memory, whatever mixture of calls, returns, pushes and   *)
(* nested interrupts a program makes, and however deep, it behaves as on a *)
(* stack of words: every interrupted place is resumed exactly.             *)
THEOREM CpuImplementsCallStack == CpuSpec => ImplementsCallStack
<1>1. CpuInit => Words!Init
  <2> SUFFICES ASSUME CpuInit PROVE Words!Init
    OBVIOUS
  <2>1. StackWords = 0
    BY CpuAssumption DEF CpuInit, StackWords, InitialSp
  <2>2. Frames = <<>>
    BY <2>1 DEF Frames
  <2> QED
    BY <2>2 DEF CpuInit, Init, Words!Init
<1>2. CpuTypeOK /\ CpuTypeOK' /\ [CpuNext]_vars => [Words!Next]_(Words!stackVars)
  <2> SUFFICES ASSUME CpuTypeOK, CpuTypeOK', [CpuNext]_vars
               PROVE  [Words!Next]_(Words!stackVars)
    OBVIOUS
  <2>1. CASE (\E interrupt \in Sources : Interrupted(interrupt)) \/ Call \/ rst \/ Push
    BY <2>1, SavingSteps
  <2>2. CASE Pop \/ ret \/ reti
    BY <2>2, TakingSteps
  <2>3. CASE UNCHANGED <<sp, memory>>
    BY <2>3, OtherSteps
  <2> QED
    BY <2>1, <2>2, <2>3
    DEF CpuNext, Instruction, Halted, StraightLine, Jump, Ei, Di, Halt, WriteControl, Request,
        vars, cpuVars
<1> QED
  BY <1>1, <1>2, CpuTypeCorrect, PTL DEF CpuSpec, ImplementsCallStack, Words!Spec

-------------------------------------------------------------------------------
(* The two digits of a byte, and its highest and lowest bit.               *)
LEMMA Digits ==
  ASSUME NEW byte \in 0 .. 255
  PROVE  /\ byte \div 16 \in 0 .. 15 /\ byte % 16 \in 0 .. 15
         /\ byte = 16 * (byte \div 16) + (byte % 16)
OBVIOUS

(* The upper seven bits of a byte and its lowest.                        *)
LEMMA Halves ==
  ASSUME NEW byte \in 0 .. 255
  PROVE  /\ byte \div 2 \in 0 .. 127 /\ byte % 2 \in 0 .. 1
         /\ byte = 2 * (byte \div 2) + (byte % 2)
OBVIOUS

(* A bit of a byte is 0 or 1.                                            *)
LEMMA BitIsBit ==
  ASSUME NEW byte \in 0 .. 255, NEW n \in 0 .. 7
  PROVE  Bit(byte, n) \in 0 .. 1
<1>1. Weight[n + 1] \in {1, 2, 4, 8, 16, 32, 64, 128}
  BY DEF Weight
<1>2. byte \div Weight[n + 1] \in Int
  BY <1>1
<1> QED
  BY <1>2 DEF Bit

(* Eight bits make a byte.                                               *)
LEMMA FromBitsType ==
  ASSUME NEW bits \in [0 .. 7 -> 0 .. 1]
  PROVE  FromBits(bits) \in 0 .. 255
BY DEF FromBits

(* A byte and three flags are the registers.                             *)
LEMMA ResultType ==
  ASSUME NEW value \in 0 .. 255, NEW negative \in BOOLEAN, NEW halfCarry \in BOOLEAN,
         NEW carry \in BOOLEAN
  PROVE  Result(value, negative, halfCarry, carry) \in Registers
BY DEF Result, Registers

(* Setting or resetting a bit changes a byte into a byte.                  *)
LEMMA SetAndReset ==
  ASSUME NEW byte \in 0 .. 255, NEW n \in 0 .. 7
  PROVE  /\ byte + Weight[n + 1] * (1 - Bit(byte, n)) \in 0 .. 255
         /\ byte - Weight[n + 1] * Bit(byte, n) \in 0 .. 255
<1>1. CASE n = 0
  BY <1>1 DEF Weight, Bit
<1>2. CASE n = 1
  BY <1>2 DEF Weight, Bit
<1>3. CASE n = 2
  BY <1>3 DEF Weight, Bit
<1>4. CASE n = 3
  BY <1>4 DEF Weight, Bit
<1>5. CASE n = 4
  BY <1>5 DEF Weight, Bit
<1>6. CASE n = 5
  BY <1>6 DEF Weight, Bit
<1>7. CASE n = 6
  BY <1>7 DEF Weight, Bit
<1>8. CASE n = 7
  BY <1>8 DEF Weight, Bit
<1> QED
  BY <1>1, <1>2, <1>3, <1>4, <1>5, <1>6, <1>7, <1>8

(* Comparing numbers gives a flag.                                         *)
LEMMA Compared ==
  \A x, y \in Int : (x < y) \in BOOLEAN /\ (x > y) \in BOOLEAN /\ (x >= y) \in BOOLEAN
OBVIOUS

(* Numbers are closed, and bytes modulo 256.                               *)
LEMMA Computed == \A x, y \in Int : x + y \in Int /\ x - y \in Int /\ x % 256 \in 0 .. 255
OBVIOUS

(* Every instruction leaves a byte in A: first those that add or subtract. *)
LEMMA AdditionTypes ==
  ASSUME NEW r \in Registers, NEW value \in 0 .. 255
  PROVE  /\ add(r, value) \in Registers /\ adc(r, value) \in Registers
         /\ sub(r, value) \in Registers /\ sbc(r, value) \in Registers
         /\ cp(r, value) \in Registers
<1>1. /\ r.a \in 0 .. 255 /\ r.a \in Int /\ value \in Int
      /\ Nibble(r.a) \in Int /\ Nibble(value) \in Int /\ Carry(r) \in Int
  BY DEF Registers, Nibble, Carry
<1>2. 0 \in Int /\ 15 \in Int /\ 16 \in Int /\ 255 \in Int
  OBVIOUS
<1> DEFINE sum == r.a + value + Carry(r)
           result == Dword(r.a - value - Carry(r))
<1>3. sum \in Int /\ result \in Int
  <2>1. /\ r.a + value \in Int /\ sum \in Int
        /\ r.a - value \in Int /\ r.a - value - Carry(r) \in Int
    BY <1>1, Computed, Zenon
  <2>2. \A n \in Int : Dword(n) \in Int
    BY DEF Dword, DWORD_MAX
  <2> QED
    BY <2>1, <2>2, Zenon
<1>4. /\ Nibble(r.a) + Nibble(value) \in Int
      /\ Nibble(r.a) + Nibble(value) + Carry(r) \in Int
      /\ Nibble(r.a) - Nibble(value) \in Int
      /\ Nibble(r.a) - Nibble(value) - Carry(r) \in Int
  BY <1>1, Computed, Zenon
<1>5. /\ r.a + value \in Int /\ r.a - value \in Int /\ 255 - r.a \in Int
      /\ (r.a + value) % 256 \in 0 .. 255 /\ (r.a - value) % 256 \in 0 .. 255
      /\ sum % 256 \in 0 .. 255 /\ result % 256 \in 0 .. 255
  BY <1>1, <1>2, <1>3, Computed, ZenonT(60)
<1> HIDE DEF result
<1>6. add(r, value) \in Registers
  <2> DEFINE byte == (r.a + value) % 256
             half == Nibble(r.a) + Nibble(value) >= 16
             out == 255 - r.a < value
  <2>1. byte \in 0 .. 255
    BY <1>5, Zenon
  <2>2. half \in BOOLEAN
    BY <1>1, <1>2, <1>4, Compared, Zenon
  <2>3. out \in BOOLEAN
    BY <1>1, <1>5, Compared, ZenonT(60)
  <2>4. add(r, value) = Result(byte, FALSE, half, out)
    BY Zenon DEF add
  <2> HIDE DEF byte, half, out
  <2> QED
    BY <2>1, <2>2, <2>3, <2>4, ResultType, Zenon
<1>7. adc(r, value) \in Registers
  <2> DEFINE byte == sum % 256
             half == Nibble(r.a) + Nibble(value) + Carry(r) > 15
             out == sum > 255
  <2>1. byte \in 0 .. 255
    BY <1>5, Zenon
  <2>2. half \in BOOLEAN
    BY <1>1, <1>2, <1>4, Compared, Zenon
  <2>3. out \in BOOLEAN
    BY <1>2, <1>3, Compared, Zenon
  <2>4. adc(r, value) = Result(byte, FALSE, half, out)
    BY Zenon DEF adc
  <2> HIDE DEF byte, half, out
  <2> QED
    BY <2>1, <2>2, <2>3, <2>4, ResultType, Zenon
<1>8. sub(r, value) \in Registers
  <2> DEFINE byte == (r.a - value) % 256
             half == Nibble(r.a) < Nibble(value)
             out == value > r.a
  <2>1. byte \in 0 .. 255
    BY <1>5, Zenon
  <2>2. half \in BOOLEAN
    BY <1>1, <1>2, <1>4, Compared, Zenon
  <2>3. out \in BOOLEAN
    BY <1>1, Compared, Zenon
  <2>4. sub(r, value) = Result(byte, TRUE, half, out)
    BY Zenon DEF sub
  <2> HIDE DEF byte, half, out
  <2> QED
    BY <2>1, <2>2, <2>3, <2>4, ResultType, Zenon
<1>9. sbc(r, value) \in Registers
  <2> DEFINE byte == result % 256
             half == Nibble(r.a) - Nibble(value) - Carry(r) < 0
             out == result > 255
  <2>1. byte \in 0 .. 255
    BY <1>5, Zenon
  <2>2. half \in BOOLEAN
    BY <1>1, <1>2, <1>4, Compared, Zenon
  <2>3. out \in BOOLEAN
    BY <1>2, <1>3, Compared, Zenon
  <2>4. sbc(r, value) = Result(byte, TRUE, half, out)
    BY Zenon DEF sbc, result
  <2> HIDE DEF byte, half, out
  <2> QED
    BY <2>1, <2>2, <2>3, <2>4, ResultType, Zenon
<1>10. cp(r, value) \in Registers
  BY <1>1 DEF cp, Registers
<1> QED
  BY <1>6, <1>7, <1>8, <1>9, <1>10

(* Those that combine two bytes bit by bit.                              *)
LEMMA LogicTypes ==
  ASSUME NEW r \in Registers, NEW value \in 0 .. 255
  PROVE  /\ and(r, value) \in Registers /\ or(r, value) \in Registers
         /\ xor(r, value) \in Registers
<1>1. \A n \in 0 .. 7 : Bit(r.a, n) \in 0 .. 1 /\ Bit(value, n) \in 0 .. 1
  BY BitIsBit DEF Registers
<1>2. \A one, other \in 0 .. 1 : /\ one * other \in 0 .. 1 /\ (one + other) % 2 \in 0 .. 1
                                 /\ (IF one + other = 0 THEN 0 ELSE 1) \in 0 .. 1
  OBVIOUS
<1>3. and(r, value) \in Registers
  <2>1. [n \in 0 .. 7 |-> Bit(r.a, n) * Bit(value, n)] \in [0 .. 7 -> 0 .. 1]
    BY <1>1, <1>2, Zenon
  <2> QED
    BY <2>1, FromBitsType, ResultType, Zenon DEF and
<1>4. or(r, value) \in Registers
  <2>1. [n \in 0 .. 7 |-> IF Bit(r.a, n) + Bit(value, n) = 0 THEN 0 ELSE 1]
          \in [0 .. 7 -> 0 .. 1]
    BY <1>1, <1>2, Zenon
  <2> QED
    BY <2>1, FromBitsType, ResultType, Zenon DEF or
<1>5. xor(r, value) \in Registers
  <2>1. [n \in 0 .. 7 |-> (Bit(r.a, n) + Bit(value, n)) % 2] \in [0 .. 7 -> 0 .. 1]
    BY <1>1, <1>2, Zenon
  <2> QED
    BY <2>1, FromBitsType, ResultType, Zenon DEF xor
<1> QED
  BY <1>3, <1>4, <1>5

(* Those that rotate or shift.                                           *)
LEMMA RotationTypes ==
  ASSUME NEW r \in Registers
  PROVE  /\ {rlc(r), rrc(r), rl(r), rr(r)} \subseteq Registers
         /\ {rlca(r), rrca(r), rla(r), rra(r)} \subseteq Registers
         /\ {sla(r), srl(r), sra(r), swap(r)} \subseteq Registers
<1>1. PICK byte \in 0 .. 255, z \in BOOLEAN, n \in BOOLEAN, h \in BOOLEAN, c \in BOOLEAN :
        r = [a |-> byte, zero |-> z, negative |-> n, halfCarry |-> h, carry |-> c]
  BY DEF Registers
<1>2. rlc(r) \in Registers
  BY <1>1 DEF rlc, Shifted, Result, Registers, Lowest, Highest
<1>3. rrc(r) \in Registers
  BY <1>1 DEF rrc, Shifted, Result, Registers, Lowest, Highest
<1>4. rl(r) \in Registers
  BY <1>1 DEF rl, Shifted, Result, Registers, Lowest, Highest, Carry
<1>5. rr(r) \in Registers
  BY <1>1 DEF rr, Shifted, Result, Registers, Lowest, Highest, Carry
<1>6. sla(r) \in Registers
  BY <1>1 DEF sla, Shifted, Result, Registers, Lowest, Highest
<1>7. srl(r) \in Registers
  BY <1>1 DEF srl, Shifted, Result, Registers, Lowest, Highest
<1>8. sra(r) \in Registers
  BY <1>1 DEF sra, Shifted, Result, Registers, Lowest, Highest
<1>9. swap(r) \in Registers
  BY <1>1 DEF swap, Shifted, Result, Registers, Nibble
<1>10. \A s \in Registers : [s EXCEPT !.zero = FALSE] \in Registers
  BY ZenonT(60) DEF Registers
<1> QED
  BY <1>2, <1>3, <1>4, <1>5, <1>6, <1>7, <1>8, <1>9, <1>10 DEF rlca, rrca, rla, rra

(* Those that look at one bit, and the remaining ones.                   *)
LEMMA OtherTypes ==
  ASSUME NEW r \in Registers
  PROVE  /\ \A n \in 0 .. 7 : {bit(r, n), set(r, n), res(r, n)} \subseteq Registers
         /\ {inc(r), dec(r), cpl(r), scf(r), ccf(r), daa(r)} \subseteq Registers
<1>1. PICK byte \in 0 .. 255, z \in BOOLEAN, n \in BOOLEAN, h \in BOOLEAN, c \in BOOLEAN :
        r = [a |-> byte, zero |-> z, negative |-> n, halfCarry |-> h, carry |-> c]
  BY DEF Registers
<1>2. \A value \in 0 .. 255 : [r EXCEPT !.a = value] \in Registers
  BY DEF Registers
<1>3. \A m \in 0 .. 7 : {bit(r, m), set(r, m), res(r, m)} \subseteq Registers
  <2> TAKE m \in 0 .. 7
  <2>1. bit(r, m) \in Registers
    BY DEF bit, Registers
  <2>2. r.a \in 0 .. 255
    BY <1>1
  <2> QED
    BY <1>2, <2>1, <2>2, SetAndReset, ZenonT(60) DEF set, res
<1>4. cpl(r) \in Registers
  <2>1. \A value \in 0 .. 255 :
          [r EXCEPT !.a = value, !.negative = TRUE, !.halfCarry = TRUE] \in Registers
    BY DEF Registers
  <2>2. 255 - r.a \in 0 .. 255
    BY <1>1
  <2> QED
    BY <2>1, <2>2, Zenon DEF cpl
<1>5. scf(r) \in Registers
  BY <1>1, ZenonT(60) DEF scf, Registers
<1>6. ccf(r) \in Registers
  BY <1>1, ZenonT(60) DEF ccf, Registers
<1>7. inc(r) \in Registers
  BY <1>1 DEF inc, Result, Registers
<1>8. dec(r) \in Registers
  BY <1>1 DEF dec, Result, Registers
<1>9. daa(r) \in Registers
  BY <1>1 DEF daa, Result, Registers
<1> QED
  BY <1>3, <1>4, <1>5, <1>6, <1>7, <1>8, <1>9

(* PUSH AF then POP AF changes nothing.                                    *)
LEMMA SavedFlags ==
  ASSUME NEW r \in Registers
  PROVE  cpu_write_af(cpu_read_af(r)) = r
<1>1. PICK byte \in 0 .. 255, z \in BOOLEAN, n \in BOOLEAN, h \in BOOLEAN, c \in BOOLEAN :
        r = [a |-> byte, zero |-> z, negative |-> n, halfCarry |-> h, carry |-> c]
  BY DEF Registers
<1>2. PICK bz \in 0 .. 1, bn \in 0 .. 1, bh \in 0 .. 1, bc \in 0 .. 1 :
        (bz = 1 <=> z) /\ (bn = 1 <=> n) /\ (bh = 1 <=> h) /\ (bc = 1 <=> c)
  <2>1. \A flag \in BOOLEAN : \E one \in 0 .. 1 : one = 1 <=> flag
    OBVIOUS
  <2> QED
    BY <2>1
<1>3. PICK word \in Int : word = 256 * byte + 128 * bz + 64 * bn + 32 * bh + 16 * bc
  OBVIOUS
<1>4. cpu_read_af(r) = word
  BY <1>1, <1>2, <1>3 DEF cpu_read_af, read_flags_byte
<1>5. word \div 256 = byte /\ (word \div 128) % 2 = bz
  BY <1>3
<1>6. (word \div 64) % 2 = bn /\ (word \div 32) % 2 = bh /\ (word \div 16) % 2 = bc
  BY <1>3, SMTT(40)
<1>7. /\ Bit(word, 7) = (word \div 128) % 2 /\ Bit(word, 6) = (word \div 64) % 2
      /\ Bit(word, 5) = (word \div 32) % 2 /\ Bit(word, 4) = (word \div 16) % 2
  BY DEF Bit, Weight
<1> QED
  BY <1>1, <1>2, <1>4, <1>5, <1>6, <1>7 DEF cpu_write_af

(* A rotation and its opposite leave A and the carry as they were.       *)
LEMMA Rotations ==
  ASSUME NEW r \in Registers
  PROVE  /\ rrc(rlc(r)).a = r.a /\ rlc(rrc(r)).a = r.a
         /\ \A back \in {rr(rl(r)), rl(rr(r))} : back.a = r.a /\ (back.carry <=> r.carry)
<1>1. PICK byte \in 0 .. 255, z \in BOOLEAN, n \in BOOLEAN, h \in BOOLEAN, c \in BOOLEAN :
        r = [a |-> byte, zero |-> z, negative |-> n, halfCarry |-> h, carry |-> c]
  BY DEF Registers
<1>2. rrc(rlc(r)).a = r.a
  BY <1>1 DEF rrc, rlc, Shifted, Result, Lowest, Highest
<1>3. rlc(rrc(r)).a = r.a
  BY <1>1 DEF rrc, rlc, Shifted, Result, Lowest, Highest
<1>4. PICK one \in 0 .. 1 : one = Carry(r) /\ (one = 1 <=> r.carry)
  BY <1>1 DEF Carry
<1>5. r.a = byte
  BY <1>1
<1>6. rr(rl(r)).a = r.a /\ (rr(rl(r)).carry <=> r.carry)
  <2>1. PICK left \in 0 .. 255 : /\ left = ((2 * byte) % 256) + one
                                 /\ left = 2 * (byte % 128) + one
    OBVIOUS
  <2>2. rl(r).a = left /\ (rl(r).carry <=> byte >= 128)
    BY <1>4, <1>5, <2>1 DEF rl, Shifted, Result, Highest
  <2>3. left \div 2 + (IF byte >= 128 THEN 128 ELSE 0) = byte /\ (left % 2 = 1 <=> one = 1)
    BY <2>1
  <2>4. 128 * Carry(rl(r)) = IF byte >= 128 THEN 128 ELSE 0
    BY <2>2 DEF Carry
  <2>5. /\ rr(rl(r)).a = rl(r).a \div 2 + 128 * Carry(rl(r))
        /\ rr(rl(r)).carry <=> rl(r).a % 2 = 1
    BY DEF rr, Shifted, Result, Lowest
  <2> QED
    BY <1>4, <1>5, <2>2, <2>3, <2>4, <2>5
<1>7. rl(rr(r)).a = r.a /\ (rl(rr(r)).carry <=> r.carry)
  <2>1. PICK right \in 0 .. 255 : right = byte \div 2 + 128 * one
    OBVIOUS
  <2>2. rr(r).a = right /\ (rr(r).carry <=> byte % 2 = 1)
    BY <1>4, <1>5, <2>1 DEF rr, Shifted, Result, Lowest
  <2>3. /\ ((2 * right) % 256) + (IF byte % 2 = 1 THEN 1 ELSE 0) = byte
        /\ right >= 128 <=> one = 1
    BY <2>1
  <2>4. Carry(rr(r)) = IF byte % 2 = 1 THEN 1 ELSE 0
    BY <2>2 DEF Carry
  <2>5. /\ rl(rr(r)).a = ((2 * rr(r).a) % 256) + Carry(rr(r))
        /\ rl(rr(r)).carry <=> rr(r).a >= 128
    BY DEF rl, Shifted, Result, Highest
  <2> QED
    BY <1>4, <1>5, <2>2, <2>3, <2>4, <2>5
<1> QED
  BY <1>2, <1>3, <1>6, <1>7

(* A rotation through the carry brings back the bit that a shift dropped.  *)
LEMMA Shifts ==
  ASSUME NEW r \in Registers
  PROVE  /\ rr(sla(r)).a = r.a /\ ~rr(sla(r)).carry
         /\ rl(srl(r)).a = r.a /\ ~rl(srl(r)).carry
         /\ rl(sra(r)).a = r.a /\ (rl(sra(r)).carry <=> Highest(r))
<1>1. PICK byte \in 0 .. 255 : r.a = byte
  BY DEF Registers
<1>2. rr(sla(r)).a = r.a /\ ~rr(sla(r)).carry
  <2>1. PICK left \in 0 .. 255 : left = (2 * byte) % 256 /\ left = 2 * (byte % 128)
    OBVIOUS
  <2>2. sla(r).a = left /\ (sla(r).carry <=> byte >= 128)
    BY <1>1, <2>1 DEF sla, Shifted, Result, Highest
  <2>3. left \div 2 + (IF byte >= 128 THEN 128 ELSE 0) = byte /\ left % 2 = 0
    BY <2>1
  <2>4. 128 * Carry(sla(r)) = IF byte >= 128 THEN 128 ELSE 0
    BY <2>2 DEF Carry
  <2>5. /\ rr(sla(r)).a = sla(r).a \div 2 + 128 * Carry(sla(r))
        /\ rr(sla(r)).carry <=> sla(r).a % 2 = 1
    BY DEF rr, Shifted, Result, Lowest
  <2> QED
    BY <1>1, <2>2, <2>3, <2>4, <2>5
<1>3. ASSUME NEW s, NEW right \in 0 .. 255, right % 128 = byte \div 2,
             s.a = right, s.carry <=> byte % 2 = 1
      PROVE  rl(s).a = r.a /\ (rl(s).carry <=> right >= 128)
  <2>1. ((2 * right) % 256) + (IF byte % 2 = 1 THEN 1 ELSE 0) = byte
    <3>1. (2 * right) % 256 = 2 * (right % 128)
      OBVIOUS
    <3> QED
      BY <1>3, <3>1
  <2>2. Carry(s) = IF byte % 2 = 1 THEN 1 ELSE 0
    BY <1>3 DEF Carry
  <2>3. rl(s).a = ((2 * s.a) % 256) + Carry(s) /\ (rl(s).carry <=> s.a >= 128)
    BY DEF rl, Shifted, Result, Highest
  <2> QED
    BY <1>1, <1>3, <2>1, <2>2, <2>3
<1>4. rl(srl(r)).a = r.a /\ ~rl(srl(r)).carry
  <2>1. PICK right \in 0 .. 127 : right = byte \div 2
    OBVIOUS
  <2>2. srl(r).a = right /\ (srl(r).carry <=> byte % 2 = 1)
    BY <1>1, <2>1 DEF srl, Shifted, Result, Lowest
  <2>3. right % 128 = byte \div 2 /\ ~(right >= 128) /\ right \in 0 .. 255
    BY <2>1
  <2> QED
    BY <1>3, <2>2, <2>3
<1>5. rl(sra(r)).a = r.a /\ (rl(sra(r)).carry <=> Highest(r))
  <2>1. PICK right \in 0 .. 255 : /\ right = byte \div 2 + (IF byte >= 128 THEN 128 ELSE 0)
                                  /\ right % 128 = byte \div 2
                                  /\ right >= 128 <=> byte >= 128
    OBVIOUS
  <2>2. sra(r).a = right /\ (sra(r).carry <=> byte % 2 = 1)
    BY <1>1, <2>1 DEF sra, Shifted, Result, Lowest, Highest
  <2>3. Highest(r) <=> byte >= 128
    BY <1>1 DEF Highest
  <2> QED
    BY <1>3, <2>1, <2>2, <2>3
<1> QED
  BY <1>2, <1>4, <1>5

(* SWAP is a rotation by four places, and undone by another.             *)
LEMMA Swaps ==
  ASSUME NEW r \in Registers
  PROVE  swap(r).a = rlc(rlc(rlc(rlc(r)))).a /\ swap(swap(r)).a = r.a
<1>1. PICK upper \in 0 .. 15, lower \in 0 .. 15 : r.a = 16 * upper + lower
  BY Digits DEF Registers
<1>2. ASSUME NEW s, NEW high \in 0 .. 15, NEW low \in 0 .. 15, s.a = 16 * high + low
      PROVE  swap(s).a = 16 * low + high
  <2>1. s.a % 16 = low /\ s.a \div 16 = high
    BY <1>2
  <2> QED
    BY <2>1 DEF swap, Shifted, Result, Nibble
<1>3. ASSUME NEW s, NEW top \in 0 .. 1, NEW rest \in 0 .. 127, s.a = 128 * top + rest
      PROVE  rlc(s).a = 2 * rest + top
  <2>1. (2 * s.a) % 256 = 2 * rest /\ (s.a >= 128 <=> top = 1)
    BY <1>3
  <2> QED
    BY <2>1 DEF rlc, Shifted, Result, Highest
<1>4. PICK b7 \in 0 .. 1, b6 \in 0 .. 1, b5 \in 0 .. 1, b4 \in 0 .. 1 :
        upper = 8 * b7 + 4 * b6 + 2 * b5 + b4
  OBVIOUS
<1> DEFINE once == rlc(r)
           twice == rlc(once)
           thrice == rlc(twice)
<1>5. once.a = 32 * (4 * b6 + 2 * b5 + b4) + 2 * lower + b7
  BY <1>1, <1>3, <1>4
<1> HIDE DEF once
<1>6. twice.a = 64 * (2 * b5 + b4) + 4 * lower + 2 * b7 + b6
  BY <1>3, <1>5
<1> HIDE DEF twice
<1>7. thrice.a = 128 * b4 + 8 * lower + 4 * b7 + 2 * b6 + b5
  BY <1>3, <1>6
<1> HIDE DEF thrice
<1>8. rlc(thrice).a = 16 * lower + upper
  BY <1>3, <1>4, <1>7
<1>9. swap(r).a = 16 * lower + upper /\ swap(swap(r)).a = 16 * upper + lower
  BY <1>1, <1>2
<1> QED
  BY <1>1, <1>8, <1>9 DEF once, twice, thrice

(* A byte is made of its bits, one at each place.                        *)
BitsOf(byte) == [n \in 0 .. 7 |-> Bit(byte, n)]

LEMMA FromItsBits ==
  ASSUME NEW byte \in 0 .. 255
  PROVE  BitsOf(byte) \in [0 .. 7 -> 0 .. 1] /\ FromBits(BitsOf(byte)) = byte
<1>1. BitsOf(byte) \in [0 .. 7 -> 0 .. 1]
  BY BitIsBit, Zenon DEF BitsOf
<1>2. PICK upper \in 0 .. 15, lower \in 0 .. 15 : byte = 16 * upper + lower
  BY Digits
<1>3. \A digit \in 0 .. 15 : \E e3, e2, e1, e0 \in 0 .. 1 : digit = 8 * e3 + 4 * e2 + 2 * e1 + e0
  OBVIOUS
<1>4. PICK b7 \in 0 .. 1, b6 \in 0 .. 1, b5 \in 0 .. 1, b4 \in 0 .. 1 :
        upper = 8 * b7 + 4 * b6 + 2 * b5 + b4
  BY <1>3, ZenonT(60)
<1>5. PICK b3 \in 0 .. 1, b2 \in 0 .. 1, b1 \in 0 .. 1, b0 \in 0 .. 1 :
        lower = 8 * b3 + 4 * b2 + 2 * b1 + b0
  BY <1>3, ZenonT(60)
<1>6. byte = b0 + 2 * b1 + 4 * b2 + 8 * b3 + 16 * b4 + 32 * b5 + 64 * b6 + 128 * b7
  BY <1>2, <1>4, <1>5
<1>7. /\ (byte \div 1) % 2 = b0 /\ (byte \div 2) % 2 = b1
      /\ (byte \div 4) % 2 = b2 /\ (byte \div 8) % 2 = b3
  BY <1>6
<1>8. /\ (byte \div 16) % 2 = b4 /\ (byte \div 32) % 2 = b5
      /\ (byte \div 64) % 2 = b6 /\ (byte \div 128) % 2 = b7
  BY <1>6
<1>9. /\ BitsOf(byte)[0] = b0 /\ BitsOf(byte)[1] = b1 /\ BitsOf(byte)[2] = b2
      /\ BitsOf(byte)[3] = b3 /\ BitsOf(byte)[4] = b4 /\ BitsOf(byte)[5] = b5
      /\ BitsOf(byte)[6] = b6 /\ BitsOf(byte)[7] = b7
  BY <1>7, <1>8 DEF BitsOf, Bit, Weight
<1> QED
  BY <1>1, <1>6, <1>9 DEF FromBits

LEMMA BitOfBits ==
  ASSUME NEW bits \in [0 .. 7 -> 0 .. 1], NEW n \in 0 .. 7
  PROVE  Bit(FromBits(bits), n) = bits[n]
<1>1. PICK b0 \in 0 .. 1, b1 \in 0 .. 1, b2 \in 0 .. 1, b3 \in 0 .. 1,
           b4 \in 0 .. 1, b5 \in 0 .. 1, b6 \in 0 .. 1, b7 \in 0 .. 1 :
        /\ bits[0] = b0 /\ bits[1] = b1 /\ bits[2] = b2 /\ bits[3] = b3
        /\ bits[4] = b4 /\ bits[5] = b5 /\ bits[6] = b6 /\ bits[7] = b7
  OBVIOUS
<1>2. PICK byte \in 0 .. 255 : /\ byte = FromBits(bits)
                               /\ byte = b0 + 2 * b1 + 4 * b2 + 8 * b3 + 16 * b4
                                          + 32 * b5 + 64 * b6 + 128 * b7
  BY <1>1 DEF FromBits
<1>3. /\ (byte \div 1) % 2 = b0 /\ (byte \div 2) % 2 = b1
      /\ (byte \div 4) % 2 = b2 /\ (byte \div 8) % 2 = b3
  BY <1>2
<1>4. /\ (byte \div 16) % 2 = b4 /\ (byte \div 32) % 2 = b5
      /\ (byte \div 64) % 2 = b6 /\ (byte \div 128) % 2 = b7
  BY <1>2
<1> QED
  BY <1>1, <1>2, <1>3, <1>4 DEF Bit, Weight

(* SET and RES change one bit of A and leave the others.                   *)
LEMMA ChangedBits ==
  ASSUME NEW r \in Registers, NEW n \in 0 .. 7
  PROVE  /\ set(r, n).a = FromBits([BitsOf(r.a) EXCEPT ![n] = 1])
         /\ res(r, n).a = FromBits([BitsOf(r.a) EXCEPT ![n] = 0])
<1>1. PICK bits \in [0 .. 7 -> 0 .. 1] :
        bits = BitsOf(r.a) /\ FromBits(bits) = r.a /\ bits[n] = Bit(r.a, n)
  BY FromItsBits DEF Registers, BitsOf
<1>2. /\ FromBits([bits EXCEPT ![n] = 1]) = FromBits(bits) + Weight[n + 1] * (1 - bits[n])
      /\ FromBits([bits EXCEPT ![n] = 0]) = FromBits(bits) - Weight[n + 1] * bits[n]
  <2>1. CASE n = 0
    BY <2>1 DEF FromBits, Weight
  <2>2. CASE n = 1
    BY <2>2 DEF FromBits, Weight
  <2>3. CASE n = 2
    BY <2>3 DEF FromBits, Weight
  <2>4. CASE n = 3
    BY <2>4 DEF FromBits, Weight
  <2>5. CASE n = 4
    BY <2>5 DEF FromBits, Weight
  <2>6. CASE n = 5
    BY <2>6 DEF FromBits, Weight
  <2>7. CASE n = 6
    BY <2>7 DEF FromBits, Weight
  <2>8. CASE n = 7
    BY <2>8 DEF FromBits, Weight
  <2> QED
    BY <2>1, <2>2, <2>3, <2>4, <2>5, <2>6, <2>7, <2>8
<1>3. /\ set(r, n).a = r.a + Weight[n + 1] * (1 - Bit(r.a, n))
      /\ res(r, n).a = r.a - Weight[n + 1] * Bit(r.a, n)
  BY DEF set, res, Registers
<1> QED
  BY <1>1, <1>2, <1>3

LEMMA OneBitSeen ==
  ASSUME NEW r \in Registers, NEW n \in 0 .. 7
  PROVE  /\ ~bit(set(r, n), n).zero /\ bit(res(r, n), n).zero
         /\ \A changed \in {set(r, n), res(r, n)}, other \in 0 .. 7 \ {n} :
              bit(changed, other).zero <=> bit(r, other).zero
<1>1. {r, set(r, n), res(r, n)} \subseteq Registers
  BY OtherTypes
<1>2. \A s \in Registers, m \in 0 .. 7 : bit(s, m).zero <=> Bit(s.a, m) = 0
  BY DEF bit, Registers
<1>3. BitsOf(r.a) \in [0 .. 7 -> 0 .. 1] /\ FromBits(BitsOf(r.a)) = r.a
  BY FromItsBits DEF Registers
<1>4. ASSUME NEW one \in 0 .. 1, NEW changed \in Registers,
             changed.a = FromBits([BitsOf(r.a) EXCEPT ![n] = one])
      PROVE  /\ bit(changed, n).zero <=> one = 0
             /\ \A other \in 0 .. 7 \ {n} : bit(changed, other).zero <=> bit(r, other).zero
  <2>1. [BitsOf(r.a) EXCEPT ![n] = one] \in [0 .. 7 -> 0 .. 1]
    BY <1>3
  <2>2. \A m \in 0 .. 7 : Bit(changed.a, m) = [BitsOf(r.a) EXCEPT ![n] = one][m]
    BY <1>4, <2>1, BitOfBits
  <2>3. \A m \in 0 .. 7 : Bit(r.a, m) = BitsOf(r.a)[m]
    BY DEF BitsOf
  <2> QED
    BY <1>1, <1>2, <1>3, <2>2, <2>3
<1>5. /\ bit(set(r, n), n).zero <=> 1 = 0
      /\ \A other \in 0 .. 7 \ {n} : bit(set(r, n), other).zero <=> bit(r, other).zero
  <2>1. set(r, n) \in Registers /\ 1 \in 0 .. 1
    BY <1>1
  <2>2. set(r, n).a = FromBits([BitsOf(r.a) EXCEPT ![n] = 1])
    BY ChangedBits
  <2> QED
    BY <1>4, <2>1, <2>2, ZenonT(60)
<1>6. /\ bit(res(r, n), n).zero <=> 0 = 0
      /\ \A other \in 0 .. 7 \ {n} : bit(res(r, n), other).zero <=> bit(r, other).zero
  <2>1. res(r, n) \in Registers /\ 0 \in 0 .. 1
    BY <1>1
  <2>2. res(r, n).a = FromBits([BitsOf(r.a) EXCEPT ![n] = 0])
    BY ChangedBits
  <2> QED
    BY <1>4, <2>1, <2>2, ZenonT(60)
<1> QED
  BY <1>5, <1>6

(* So what only moves bits around loses none.                            *)
LEMMA BitsKeptNow == ArithmeticTypeOK => BitsAreKept
<1> SUFFICES ASSUME regs \in Registers
             PROVE  BitsAreKept
  BY DEF ArithmeticTypeOK
<1>1. RotationsAreInverse
  BY Rotations DEF RotationsAreInverse
<1>2. ShiftsAreUndone
  BY Shifts DEF ShiftsAreUndone
<1>3. SwapMovesFourPlaces
  BY Swaps DEF SwapMovesFourPlaces
<1>4. OneBitChanges
  BY OneBitSeen DEF OneBitChanges
<1>5. SavedFlagsComeBack
  BY SavedFlags DEF SavedFlagsComeBack
<1> QED
  BY <1>1, <1>2, <1>3, <1>4, <1>5 DEF BitsAreKept

(* Adding two bytes and a carry leaves a byte and a carry.                 *)
ByteAdds(x, y, carry, s, out) ==
  /\ x \in 0 .. 255 /\ y \in 0 .. 255 /\ s \in 0 .. 255
  /\ carry \in 0 .. 1 /\ out \in 0 .. 1
  /\ x + y + carry = 256 * out + s

(* Any two bytes and a carry have such a sum.                            *)
LEMMA ByteSum ==
  ASSUME NEW x \in 0 .. 255, NEW y \in 0 .. 255, NEW carry \in 0 .. 1
  PROVE  \E s, out : ByteAdds(x, y, carry, s, out)
<1>1. CASE x + y + carry > 255
  <2>1. x + y + carry - 256 \in 0 .. 255 /\ x + y + carry = 256 * 1 + (x + y + carry - 256)
    BY <1>1
  <2>2. ByteAdds(x, y, carry, x + y + carry - 256, 1)
    BY <2>1 DEF ByteAdds
  <2> QED
    BY <2>2
<1>2. CASE ~(x + y + carry > 255)
  <2>1. x + y + carry \in 0 .. 255 /\ x + y + carry = 256 * 0 + (x + y + carry)
    BY <1>2
  <2>2. ByteAdds(x, y, carry, x + y + carry, 0)
    BY <2>1 DEF ByteAdds
  <2> QED
    BY <2>2
<1> QED
  BY <1>1, <1>2

(* The sum modulo 256 and the comparisons that find the carry.           *)
LEMMA ByteSumFacts ==
  ASSUME NEW x, NEW y, NEW carry, NEW s, NEW out, ByteAdds(x, y, carry, s, out)
  PROVE  /\ (x + y + carry) % 256 = s
         /\ x + y + carry > 255 <=> out = 1
         /\ carry = 0 => (x + y) % 256 = s /\ (255 - x < y <=> out = 1)
<1> USE DEF ByteAdds
<1>1. (x + y + carry) % 256 = s
  OBVIOUS
<1>2. x + y + carry > 255 <=> out = 1
  OBVIOUS
<1>3. carry = 0 => x + y + carry = x + y
  OBVIOUS
<1>4. carry = 0 => (255 - x < y <=> out = 1)
  OBVIOUS
<1> QED
  BY <1>1, <1>2, <1>3, <1>4

(* A sum of words, as the 16-bit number that is left of it.                *)
LEMMA DwordOfSum ==
  ASSUME NEW dword \in Int, 0 <= dword, dword <= 65535, NEW more \in 0 .. 1
  PROVE  dword = Dword(65536 * more + dword)
BY DEF Dword, DWORD_MAX

(* Two words added byte by byte are added: the sum and both carries.       *)
LEMMA WordSum ==
  ASSUME NEW x1, NEW x0, NEW y1, NEW y0, NEW s1, NEW s0, NEW carry, NEW out,
         ByteAdds(x0, y0, 0, s0, carry), ByteAdds(x1, y1, carry, s1, out)
  PROVE  /\ add_hl_rr(Join(x1, x0), Join(y1, y0)).hl = Join(s1, s0)
         /\ add_hl_rr(Join(x1, x0), Join(y1, y0)).carry <=> out = 1
         /\ add_hl_rr(Join(x1, x0), Join(y1, y0)).halfCarry
              <=> (x1 % 16) + (y1 % 16) + carry > 15
<1> USE DEF ByteAdds
<1> DEFINE x == 256 * x1 + x0
           y == 256 * y1 + y0
<1>1. x + y = 65536 * out + (256 * s1 + s0)
  OBVIOUS
<1>2. 256 * s1 + s0 \in Int /\ 0 <= 256 * s1 + s0 /\ 256 * s1 + s0 <= 65535
  OBVIOUS
<1>3. 256 * s1 + s0 = Dword(65536 * out + (256 * s1 + s0))
  BY <1>2, DwordOfSum DEF ByteAdds
<1>4. 65536 * out + (256 * s1 + s0) > 65535 <=> out = 1
  BY <1>2
<1>5. LowerBits(x) = 256 * (x1 % 16) + x0
  BY DEF LowerBits
<1>6. LowerBits(y) = 256 * (y1 % 16) + y0
  BY DEF LowerBits
<1>7. x1 % 16 \in 0 .. 15 /\ y1 % 16 \in 0 .. 15
  OBVIOUS
<1>8. \A xn, yn \in 0 .. 15 : 256 * xn + x0 + (256 * yn + y0) = 256 * (xn + yn + carry) + s0
  OBVIOUS
<1>9. \A xn, yn \in 0 .. 15 :
        Bit12(256 * (xn + yn + carry) + s0) # 0 <=> xn + yn + carry > 15
  BY DEF Bit12
<1> HIDE DEF x, y
<1>10. /\ add_hl_rr(x, y).hl = Dword(x + y) /\ (add_hl_rr(x, y).carry <=> x + y > DWORD_MAX)
       /\ add_hl_rr(x, y).halfCarry <=> Bit12(LowerBits(x) + LowerBits(y)) # 0
  BY Zenon DEF add_hl_rr
<1>11. add_hl_rr(x, y).hl = 256 * s1 + s0 /\ (add_hl_rr(x, y).carry <=> out = 1)
  BY <1>1, <1>3, <1>4, <1>10 DEF DWORD_MAX
<1>12. LowerBits(x) + LowerBits(y) = 256 * ((x1 % 16) + (y1 % 16) + carry) + s0
  BY <1>5, <1>6, <1>7, <1>8
<1>13. add_hl_rr(x, y).halfCarry <=> (x1 % 16) + (y1 % 16) + carry > 15
  BY <1>7, <1>9, <1>10, <1>12
<1> QED
  BY <1>11, <1>13 DEF x, y, Join

(* Subtracting byte by byte what was added gives the word back, and        *)
(* borrows exactly where the addition carried.                             *)
LEMMA LowerDifferenceFacts ==
  ASSUME NEW x0, NEW y0, NEW s0, NEW carry, ByteAdds(x0, y0, 0, s0, carry)
  PROVE  (s0 - y0) % 256 = x0 /\ (y0 > s0 <=> carry = 1)
<1> USE DEF ByteAdds
<1>1. s0 - y0 = x0 - 256 * carry
  OBVIOUS
<1>2. (x0 - 256 * carry) % 256 = x0
  OBVIOUS
<1> QED
  BY <1>1, <1>2, SMTT(40)

(* The same with the borrow of the lower byte.                           *)
LEMMA UpperDifferenceFacts ==
  ASSUME NEW x1, NEW y1, NEW s1, NEW carry, NEW out, ByteAdds(x1, y1, carry, s1, out)
  PROVE  /\ Dword(s1 - y1 - carry) % 256 = x1
         /\ Dword(s1 - y1 - carry) > 255 <=> out = 1
         /\ (s1 % 16) - (y1 % 16) - carry < 0 <=> (x1 % 16) + (y1 % 16) + carry > 15
<1> USE DEF ByteAdds
<1>1. s1 - y1 - carry = x1 - 256 * out
  OBVIOUS
<1>2. Dword(x1 - 256 * out) % 256 = x1 /\ (Dword(x1 - 256 * out) > 255 <=> out = 1)
  <2>1. CASE out = 0
    BY <2>1 DEF Dword, DWORD_MAX
  <2>2. CASE out = 1
    BY <2>2 DEF Dword, DWORD_MAX
  <2> QED
    BY <2>1, <2>2
<1>3. PICK xn \in 0 .. 15, yn \in 0 .. 15 : xn = x1 % 16 /\ yn = y1 % 16
  OBVIOUS
<1>4. s1 % 16 = (xn + yn + carry) % 16
  BY <1>3
<1>5. ((xn + yn + carry) % 16) - yn - carry < 0 <=> xn + yn + carry > 15
  OBVIOUS
<1> QED
  BY <1>1, <1>2, <1>3, <1>4, <1>5

(* The carries of adding a byte to a word, from the exclusive or.          *)
LEMMA OffsetCarries ==
  ASSUME NEW x1 \in 0 .. 255, NEW x0 \in 0 .. 255, NEW word \in 0 .. 255
  PROVE  LET offset == add_signed_word_to_dword(Join(x1, x0), word)
         IN  /\ offset.carry <=> 255 - x0 < word
             /\ offset.halfCarry <=> (x0 % 16) + (word % 16) >= 16
<1>1. PICK dword \in Int : dword = 256 * x1 + x0
  OBVIOUS
<1>2. PICK sum \in Int : sum = (dword + word) % 65536 /\ sum = Dword(dword + word)
  BY DEF Dword, DWORD_MAX
<1>3. /\ Bit(dword, 8) = (dword \div 256) % 2 /\ Bit(dword, 4) = (dword \div 16) % 2
      /\ Bit(word, 8) = (word \div 256) % 2 /\ Bit(word, 4) = (word \div 16) % 2
      /\ Bit(sum, 8) = (sum \div 256) % 2 /\ Bit(sum, 4) = (sum \div 16) % 2
  BY DEF Bit, Weight
<1>4. /\ add_signed_word_to_dword(dword, word).carry
          = ((Bit(dword, 8) + Bit(word, 8) + Bit(sum, 8)) % 2 = 1)
      /\ add_signed_word_to_dword(dword, word).halfCarry
          = ((Bit(dword, 4) + Bit(word, 4) + Bit(sum, 4)) % 2 = 1)
  BY <1>2 DEF add_signed_word_to_dword
<1>5. PICK carry \in 0 .. 1 : carry = 1 <=> 255 - x0 < word
  OBVIOUS
<1>6. PICK low \in 0 .. 255 : x0 + word = 256 * carry + low
  BY <1>5
<1>7. PICK high \in 0 .. 255 : high = (x1 + carry) % 256 /\ sum = 256 * high + low
  BY <1>1, <1>2, <1>6, SMTT(40)
<1>8. (((dword \div 256) % 2) + ((word \div 256) % 2) + ((sum \div 256) % 2)) % 2 = carry
  <2>1. dword \div 256 = x1 /\ word \div 256 = 0 /\ sum \div 256 = high
    BY <1>1, <1>7
  <2>2. ((x1 % 2) + (0 % 2) + (high % 2)) % 2 = carry
    BY <1>7
  <2> QED
    BY <2>1, <2>2
<1>9. PICK half \in 0 .. 1 : half = 1 <=> (x0 % 16) + (word % 16) >= 16
  OBVIOUS
<1>10. (((dword \div 16) % 2) + ((word \div 16) % 2) + ((sum \div 16) % 2)) % 2 = half
  <2>1. PICK xd \in 0 .. 15, xn \in 0 .. 15 : x0 = 16 * xd + xn
    BY Digits
  <2>2. PICK wd \in 0 .. 15, wn \in 0 .. 15 : word = 16 * wd + wn
    BY Digits
  <2>3. PICK ln \in 0 .. 15 : xn + wn = 16 * half + ln
    BY <1>9, <2>1, <2>2
  <2>4. dword = 16 * (16 * x1 + xd) + xn /\ sum = 16 * (16 * high + ((xd + wd + half) % 16)) + ln
    <3>1. xd + wd + half = 16 * carry + ((xd + wd + half) % 16) /\ low = 16 * ((xd + wd + half) % 16) + ln
      BY <1>6, <2>1, <2>2, <2>3
    <3> QED
      BY <1>1, <1>7, <2>1, <3>1
  <2>5. dword \div 16 = 16 * x1 + xd /\ word \div 16 = wd
    BY <2>2, <2>4
  <2>6. sum \div 16 = 16 * high + ((xd + wd + half) % 16)
    BY <2>4
  <2>7. (((16 * x1 + xd) % 2) + (wd % 2) + ((16 * high + ((xd + wd + half) % 16)) % 2)) % 2 = half
    OBVIOUS
  <2> QED
    BY <2>5, <2>6, <2>7
<1>11. Join(x1, x0) = dword /\ (carry = 1 <=> 255 - x0 < word)
  BY <1>1, <1>5 DEF Join
<1>12. add_signed_word_to_dword(dword, word).carry <=> carry = 1
  BY <1>3, <1>4, <1>8, ZenonT(60)
<1>13. add_signed_word_to_dword(dword, word).halfCarry <=> half = 1
  BY <1>3, <1>4, <1>10
<1> QED
  BY <1>9, <1>11, <1>12, <1>13

(* Another value in A leaves registers, with the same flags.               *)
LEMMA WithA ==
  ASSUME NEW r \in Registers, NEW value \in 0 .. 255
  PROVE  LET s == [r EXCEPT !.a = value]
         IN  s \in Registers /\ s.a = value /\ s.carry = r.carry
BY DEF Registers

(* What the four instructions leave in A and in the flags.                 *)
LEMMA AddFields ==
  ASSUME NEW r, NEW value
  PROVE  /\ add(r, value).a = (r.a + value) % 256
         /\ add(r, value).carry <=> 255 - r.a < value
         /\ add(r, value).halfCarry <=> (r.a % 16) + (value % 16) >= 16
BY Zenon DEF add, Result, Nibble

(* With the carry.                                                       *)
LEMMA AdcFields ==
  ASSUME NEW r, NEW value
  PROVE  /\ adc(r, value).a = (r.a + value + Carry(r)) % 256
         /\ adc(r, value).carry <=> r.a + value + Carry(r) > 255
         /\ adc(r, value).halfCarry <=> (r.a % 16) + (value % 16) + Carry(r) > 15
BY Zenon DEF adc, Result, Nibble

(* The difference.                                                       *)
LEMMA SubFields ==
  ASSUME NEW r, NEW value
  PROVE  sub(r, value).a = (r.a - value) % 256 /\ (sub(r, value).carry <=> value > r.a)
BY Zenon DEF sub, Result

(* The difference with the borrow, in a 16-bit variable.                 *)
LEMMA SbcFields ==
  ASSUME NEW r, NEW value
  PROVE  LET result == Dword(r.a - value - Carry(r))
         IN  /\ sbc(r, value).a = result % 256
             /\ sbc(r, value).carry <=> result > 255
             /\ sbc(r, value).halfCarry <=> (r.a % 16) - (value % 16) - Carry(r) < 0
BY Zenon DEF sbc, Result, Nibble

(* The lower byte of a sum, and the carry it leaves.                       *)
LEMMA LowerByte ==
  ASSUME regs \in Registers, NEW x, NEW y, NEW s, NEW carry, ByteAdds(x, y, 0, s, carry)
  PROVE  /\ LowerSum(x, y) \in Registers
         /\ LowerSum(x, y).a = s /\ Carry(LowerSum(x, y)) = carry
         /\ LowerSum(x, y).carry <=> 255 - x < y
         /\ LowerSum(x, y).halfCarry <=> (x % 16) + (y % 16) >= 16
<1> DEFINE r == [regs EXCEPT !.a = x]
<1>0. x \in 0 .. 255 /\ y \in 0 .. 255 /\ carry \in 0 .. 1
  BY DEF ByteAdds
<1>1. r \in Registers /\ r.a = x
  BY <1>0, WithA
<1>2. LowerSum(x, y) = add(r, y)
  BY DEF LowerSum
<1> HIDE DEF r
<1>3. add(r, y) \in Registers
  BY <1>0, <1>1, AdditionTypes
<1>4. /\ add(r, y).a = (x + y) % 256 /\ (add(r, y).carry <=> 255 - x < y)
      /\ add(r, y).halfCarry <=> (x % 16) + (y % 16) >= 16
  BY <1>1, AddFields, ZenonT(60)
<1>5. (x + y) % 256 = s /\ (255 - x < y <=> carry = 1)
  BY ByteSumFacts
<1>6. Carry(add(r, y)) = carry
  BY <1>0, <1>4, <1>5 DEF Carry
<1> QED
  BY <1>2, <1>3, <1>4, <1>5, <1>6, ZenonT(60)

(* The upper byte, to which that carry is added.                           *)
LEMMA UpperByte ==
  ASSUME NEW low \in Registers, NEW x, NEW y, NEW s, NEW out,
         ByteAdds(x, y, Carry(low), s, out)
  PROVE  /\ UpperSum(low, x, y).a = s
         /\ UpperSum(low, x, y).carry <=> out = 1
         /\ UpperSum(low, x, y).halfCarry <=> (x % 16) + (y % 16) + Carry(low) > 15
<1> DEFINE r == [low EXCEPT !.a = x]
<1>1. r \in Registers /\ r.a = x /\ r.carry = low.carry
  BY WithA DEF ByteAdds
<1>2. UpperSum(low, x, y) = adc(r, y)
  BY DEF UpperSum
<1> HIDE DEF r
<1>3. Carry(r) = Carry(low)
  BY <1>1, Zenon DEF Carry
<1>4. /\ adc(r, y).a = (x + y + Carry(low)) % 256
      /\ adc(r, y).carry <=> x + y + Carry(low) > 255
      /\ adc(r, y).halfCarry <=> (x % 16) + (y % 16) + Carry(low) > 15
  BY <1>1, <1>3, AdcFields, ZenonT(60)
<1>5. (x + y + Carry(low)) % 256 = s /\ (x + y + Carry(low) > 255 <=> out = 1)
  BY ByteSumFacts
<1> QED
  BY <1>2, <1>4, <1>5, ZenonT(60)

(* Subtracting from the lower byte of a sum gives the lower byte back.     *)
LEMMA LowerBack ==
  ASSUME NEW low \in Registers, NEW x, NEW y, NEW carry, ByteAdds(x, y, 0, low.a, carry)
  PROVE  LET back == LowerDifference(low, y)
         IN  back \in Registers /\ back.a = x /\ Carry(back) = carry
<1>1. sub(low, y) \in Registers
  BY AdditionTypes DEF ByteAdds
<1>2. (low.a - y) % 256 = x /\ (y > low.a <=> carry = 1)
  BY LowerDifferenceFacts
<1>3. sub(low, y).a = x /\ (sub(low, y).carry <=> carry = 1)
  BY <1>2, SubFields, ZenonT(60)
<1>4. Carry(sub(low, y)) = carry
  BY <1>3 DEF Carry, ByteAdds
<1> QED
  BY <1>1, <1>3, <1>4, Zenon DEF LowerDifference

(* Subtracting with borrow from the upper byte gives the upper byte back.  *)
LEMMA UpperBack ==
  ASSUME NEW low \in Registers, NEW s, NEW x, NEW y, NEW out, ByteAdds(x, y, Carry(low), s, out)
  PROVE  /\ UpperDifference(low, s, y).a = x
         /\ UpperDifference(low, s, y).carry <=> out = 1
         /\ UpperDifference(low, s, y).halfCarry <=> (x % 16) + (y % 16) + Carry(low) > 15
<1> DEFINE r == [low EXCEPT !.a = s]
<1>1. r \in Registers /\ r.a = s /\ r.carry = low.carry
  BY WithA DEF ByteAdds
<1>2. UpperDifference(low, s, y) = sbc(r, y)
  BY DEF UpperDifference
<1> HIDE DEF r
<1>3. Carry(r) = Carry(low)
  BY <1>1, Zenon DEF Carry
<1>4. /\ Dword(s - y - Carry(low)) % 256 = x
      /\ Dword(s - y - Carry(low)) > 255 <=> out = 1
      /\ (s % 16) - (y % 16) - Carry(low) < 0 <=> (x % 16) + (y % 16) + Carry(low) > 15
  BY UpperDifferenceFacts
<1> QED
  BY <1>1, <1>2, <1>3, <1>4, SbcFields

(* All three comparisons, for any two words and any flags before.          *)
LEMMA WideBytes ==
  ASSUME regs \in Registers, NEW x1 \in 0 .. 255, NEW x0 \in 0 .. 255,
         NEW y1 \in 0 .. 255, NEW y0 \in 0 .. 255
  PROVE  /\ AddedAsWords(x1, x0, y1, y0) /\ SubtractedAgain(x1, x0, y1, y0)
         /\ OffsetAsLowerByte(x1, x0, y0)
<1>1. PICK s0, carry : ByteAdds(x0, y0, 0, s0, carry)
  <2>1. 0 \in 0 .. 1
    OBVIOUS
  <2> QED
    BY <2>1, ByteSum, ZenonT(60)
<1>2. carry \in 0 .. 1
  BY <1>1 DEF ByteAdds
<1>3. PICK s1, out : ByteAdds(x1, y1, carry, s1, out)
  BY <1>2, ByteSum, ZenonT(60)
<1> DEFINE low == LowerSum(x0, y0)
           high == UpperSum(low, x1, y1)
           back == LowerDifference(low, y0)
           highBack == UpperDifference(back, high.a, y1)
           word == add_hl_rr(Join(x1, x0), Join(y1, y0))
           offset == add_signed_word_to_dword(Join(x1, x0), y0)
<1>4. /\ low \in Registers /\ low.a = s0 /\ Carry(low) = carry
      /\ low.carry <=> 255 - x0 < y0
      /\ low.halfCarry <=> (x0 % 16) + (y0 % 16) >= 16
  BY <1>1, LowerByte
<1>5. offset.carry <=> 255 - x0 < y0
  BY OffsetCarries, ZenonT(60)
<1>6. offset.halfCarry <=> (x0 % 16) + (y0 % 16) >= 16
  BY OffsetCarries, ZenonT(60)
<1>7. OffsetAsLowerByte(x1, x0, y0)
  BY <1>4, <1>5, <1>6, Zenon DEF OffsetAsLowerByte
<1> HIDE DEF low
<1>8. /\ high.a = s1 /\ (high.carry <=> out = 1)
      /\ high.halfCarry <=> (x1 % 16) + (y1 % 16) + carry > 15
  BY <1>3, <1>4, UpperByte
<1>9. /\ word.hl = Join(s1, s0) /\ (word.carry <=> out = 1)
      /\ word.halfCarry <=> (x1 % 16) + (y1 % 16) + carry > 15
  BY <1>1, <1>3, WordSum, SMTT(60)
<1> HIDE DEF word
<1>10. SumIsThatOfWords(low, high, word)
  BY <1>4, <1>8, <1>9 DEF SumIsThatOfWords
<1> HIDE DEF high
<1>11. back \in Registers /\ back.a = x0 /\ Carry(back) = carry
  BY <1>1, <1>4, LowerBack
<1> HIDE DEF back
<1>12. ByteAdds(x1, y1, Carry(back), high.a, out)
  BY <1>3, <1>8, <1>11
<1>13. /\ highBack.a = x1 /\ (highBack.carry <=> out = 1)
       /\ highBack.halfCarry <=> (x1 % 16) + (y1 % 16) + Carry(back) > 15
  BY <1>11, <1>12, UpperBack
<1> HIDE DEF highBack
<1>14. GivesBack(back, highBack, x1, x0, high)
  BY <1>8, <1>11, <1>13, Zenon DEF GivesBack
<1>15. AddedAsWords(x1, x0, y1, y0)
  BY <1>10, Zenon DEF AddedAsWords, low, high, word
<1>16. SubtractedAgain(x1, x0, y1, y0)
  BY <1>14, Zenon DEF SubtractedAgain, low, high, back, highBack
<1> QED
  BY <1>7, <1>15, <1>16

(* So for any two operands, whatever is in A.                            *)
LEMMA WideNow == ArithmeticTypeOK => WideArithmetic
<1> SUFFICES ASSUME regs \in Registers, NEW upper \in Operands, NEW other \in Operands
             PROVE  /\ AddedAsWords(upper, regs.a, regs.a, other)
                    /\ SubtractedAgain(upper, regs.a, regs.a, other)
                    /\ OffsetAsLowerByte(upper, regs.a, other)
  BY Zenon DEF ArithmeticTypeOK, WideArithmetic
<1>1. upper \in 0 .. 255 /\ other \in 0 .. 255 /\ regs.a \in 0 .. 255
  BY ArithmeticAssumption DEF ArithmeticAssumption, Registers
<1> QED
  BY <1>1, WideBytes, Zenon

-------------------------------------------------------------------------------
(* The instructions keep the registers in their ranges, whatever the order *)
(* and the operands.                                                       *)
THEOREM ArithmeticTypeCorrect == ArithmeticSpec => []ArithmeticTypeOK
<1>1. ArithmeticInit => ArithmeticTypeOK
  <2>1. Bit(432, 7) \in 0 .. 1 /\ 432 \div 256 \in 0 .. 255
    BY DEF Bit, Weight
  <2> QED
    BY <2>1 DEF ArithmeticInit, ArithmeticTypeOK, cpu_write_af, Registers
<1>2. ASSUME ArithmeticTypeOK, [ArithmeticNext]_arithmeticVars
      PROVE  ArithmeticTypeOK'
  <2>1. regs \in Registers
    BY <1>2 DEF ArithmeticTypeOK
  <2>2. ASSUME NEW result \in Registers, Compute(result)
        PROVE  ArithmeticTypeOK'
    BY <2>2 DEF Compute, ArithmeticTypeOK
  <2>3. ASSUME NEW value \in Operands, Add(value) \/ Subtract(value)
        PROVE  ArithmeticTypeOK'
    <3>1. value \in 0 .. 255
      BY ArithmeticAssumption DEF ArithmeticAssumption
    <3>2. regs' \in Registers
      BY <2>1, <2>3, <3>1, AdditionTypes, Zenon DEF Add, Subtract, Arithmetic
    <3>3. total' \in {NoTotal} \cup -100 .. 199
      <4>1. PICK meaning : /\ total' = IF IsDecimal(regs.a) /\ IsDecimal(value) THEN meaning ELSE NoTotal
                           /\ meaning \in {Decimal(regs.a) + Decimal(value),
                                           Decimal(regs.a) + Decimal(value) + Carry(regs),
                                           Decimal(regs.a) - Decimal(value),
                                           Decimal(regs.a) - Decimal(value) - Carry(regs)}
        BY <2>3, Zenon DEF Add, Subtract, Arithmetic
      <4>2. \A byte \in 0 .. 255 : IsDecimal(byte) => Decimal(byte) \in 0 .. 99
        BY DEF IsDecimal, Decimal, Nibble
      <4>3. regs.a \in 0 .. 255 /\ Carry(regs) \in 0 .. 1
        BY <2>1 DEF Registers, Carry
      <4>5. CASE IsDecimal(regs.a) /\ IsDecimal(value)
        <5>1. Decimal(regs.a) \in 0 .. 99 /\ Decimal(value) \in 0 .. 99
          BY <3>1, <4>2, <4>3, <4>5
        <5>2. PICK m \in 0 .. 99, n \in 0 .. 99 : m = Decimal(regs.a) /\ n = Decimal(value)
          BY <5>1, Zenon
        <5>3. PICK one \in 0 .. 1 : one = Carry(regs)
          BY <4>3, Zenon
        <5>4. meaning \in {m + n, m + n + one, m - n, m - n - one}
          BY <4>1, <5>2, <5>3, Zenon
        <5>5. meaning \in -100 .. 199
          BY <5>4
        <5> QED
          BY <4>1, <4>5, <5>5, Zenon
      <4> QED
        BY <4>1, <4>5, Zenon
    <3> QED
      BY <3>2, <3>3 DEF ArithmeticTypeOK
  <2>4. ASSUME NEW value \in Operands, Combine(value) \/ Load(value)
        PROVE  ArithmeticTypeOK'
    <3>1. value \in 0 .. 255
      BY ArithmeticAssumption DEF ArithmeticAssumption
    <3>2. [regs EXCEPT !.a = value] \in Registers
      BY <2>1, <3>1, WithA
    <3> QED
      BY <2>1, <2>2, <2>4, <3>1, <3>2, AdditionTypes, LogicTypes, ZenonT(60) DEF Combine, Load
  <2>5. ASSUME NEW n \in 0 .. 7, OneBit(n)
        PROVE  ArithmeticTypeOK'
    BY <2>1, <2>2, <2>5, OtherTypes DEF OneBit
  <2>6. CASE Adjust \/ Modify
    BY <2>1, <2>2, <2>6, OtherTypes DEF Adjust, Modify
  <2>7. CASE Rotate \/ Shift
    BY <2>1, <2>2, <2>7, RotationTypes DEF Rotate, Shift
  <2>8. CASE SaveAndRestore
    BY <2>1, <2>2, <2>8, SavedFlags DEF SaveAndRestore
  <2>9. CASE UNCHANGED arithmeticVars
    BY <1>2, <2>9 DEF arithmeticVars, ArithmeticTypeOK
  <2> QED
    BY <1>2, <2>3, <2>4, <2>5, <2>6, <2>7, <2>8, <2>9, Zenon DEF ArithmeticNext
<1> QED
  BY <1>1, <1>2, PTL DEF ArithmeticSpec

-------------------------------------------------------------------------------
(* What DAA makes of a sum and of a difference.                            *)
LEMMA DaaAfterSum ==
  ASSUME NEW r, ~r.negative
  PROVE  LET high == r.carry \/ r.a > 153
             low == r.halfCarry \/ r.a % 16 > 9
         IN  /\ daa(r).a = (r.a + ((IF high THEN 96 ELSE 0) + (IF low THEN 6 ELSE 0))) % 256
             /\ daa(r).carry <=> high
BY Zenon DEF daa, Result, Nibble

(* After a difference only the flags decide.                             *)
LEMMA DaaAfterDifference ==
  ASSUME NEW r, r.negative
  PROVE  /\ daa(r).a = (r.a + ((IF r.carry THEN 160 ELSE 0)
                              + (IF r.halfCarry THEN 250 ELSE 0))) % 256
         /\ daa(r).carry <=> r.carry
BY Zenon DEF daa, Result, Nibble

(* The digits of a sum: h tens and l ones, of two digits each, added in    *)
(* binary as a; and of a difference.                                       *)
HighCorrected(h, l, a) == 16 * h + l > 255 \/ a > 153

LowCorrected(l, a) == l >= 16 \/ a % 16 > 9

AdjustedSum(h, l, a) ==
  (a + ((IF HighCorrected(h, l, a) THEN 96 ELSE 0) + (IF LowCorrected(l, a) THEN 6 ELSE 0)))
    % 256

AdjustedDifference(h, l, a) ==
  (a + ((IF 16 * h + l < 0 THEN 160 ELSE 0) + (IF l < 0 THEN 250 ELSE 0))) % 256

BinarySum(h, l, a) ==
  h \in 0 .. 18 /\ l \in 0 .. 19 /\ a \in 0 .. 255 /\ a = (16 * h + l) % 256

BinaryDifference(h, l, a) ==
  h \in -9 .. 9 /\ l \in -10 .. 9 /\ a \in 0 .. 255 /\ a = (16 * h + l) % 256

AdjustedTo(adjusted, carry, number) ==
  /\ IsDecimal(adjusted) /\ Decimal(adjusted) = number % 100
  /\ carry <=> number \notin 0 .. 99

(* Two digits and a carry after the correction of a sum.                 *)
LEMMA SumOfDigits ==
  ASSUME NEW h, NEW l, NEW a, BinarySum(h, l, a)
  PROVE  AdjustedTo(AdjustedSum(h, l, a), HighCorrected(h, l, a), 10 * h + l)
<1>0. h \in 0 .. 18 /\ l \in 0 .. 19 /\ a \in 0 .. 255 /\ a = (16 * h + l) % 256
  BY DEF BinarySum
<1> DEFINE high == 16 * h + l > 255 \/ a > 153
           low == l >= 16 \/ a % 16 > 9
           adjusted == (a + ((IF high THEN 96 ELSE 0) + (IF low THEN 6 ELSE 0))) % 256
           number == 10 * h + l
<1>1. PICK c \in 0 .. 1 : (c = 1 <=> l > 9) /\ l - 10 * c \in 0 .. 9
  BY <1>0
<1>2. PICK d \in 0 .. 1 : (d = 1 <=> h + c > 9) /\ h + c - 10 * d \in 0 .. 9
  BY <1>0, <1>1
<1>3. low <=> c = 1
  BY <1>0, <1>1, SMTT(40)
<1>4. high <=> d = 1
  BY <1>0, <1>1, <1>2, SMTT(40)
<1> HIDE DEF high, low
<1>5. adjusted = (a + (96 * d + 6 * c)) % 256
  BY <1>0, <1>3, <1>4
<1>6. (a + (96 * d + 6 * c)) % 256 = 16 * (h + c - 10 * d) + (l - 10 * c)
  BY <1>0, <1>1, <1>2, SMTT(40)
<1>7. number = 100 * d + 10 * (h + c - 10 * d) + (l - 10 * c)
  BY <1>0, <1>1, <1>2
<1> HIDE DEF adjusted, number
<1>8. \A tens, ones \in 0 .. 9 :
        /\ IsDecimal(16 * tens + ones) /\ Decimal(16 * tens + ones) = 10 * tens + ones
        /\ (100 * d + 10 * tens + ones) % 100 = 10 * tens + ones
        /\ d = 1 <=> 100 * d + 10 * tens + ones \notin 0 .. 99
  BY DEF IsDecimal, Decimal, Nibble
<1>9. IsDecimal(adjusted) /\ Decimal(adjusted) = number % 100 /\ (high <=> number \notin 0 .. 99)
  BY <1>0, <1>1, <1>2, <1>4, <1>5, <1>6, <1>7, <1>8
<1> QED
  BY <1>9 DEF high, low, adjusted, number, AdjustedTo, AdjustedSum, HighCorrected, LowCorrected

(* Two digits and a borrow after that of a difference.                   *)
LEMMA DifferenceOfDigits ==
  ASSUME NEW h, NEW l, NEW a, BinaryDifference(h, l, a)
  PROVE  AdjustedTo(AdjustedDifference(h, l, a), 16 * h + l < 0, 10 * h + l)
<1>0. h \in -9 .. 9 /\ l \in -10 .. 9 /\ a \in 0 .. 255 /\ a = (16 * h + l) % 256
  BY DEF BinaryDifference
<1> DEFINE adjusted == (a + ((IF 16 * h + l < 0 THEN 160 ELSE 0)
                              + (IF l < 0 THEN 250 ELSE 0))) % 256
           number == 10 * h + l
<1>1. PICK c \in 0 .. 1 : (c = 1 <=> l < 0) /\ l + 10 * c \in 0 .. 9
  BY <1>0
<1>2. PICK d \in 0 .. 1 : (d = 1 <=> h - c < 0) /\ h - c + 10 * d \in 0 .. 9
  BY <1>0, <1>1
<1>3. 16 * h + l < 0 <=> d = 1
  BY <1>0, <1>1, <1>2
<1>4. adjusted = (a + (160 * d + 250 * c)) % 256
  BY <1>0, <1>1, <1>3
<1>5. (a + (160 * d + 250 * c)) % 256 = 16 * (h - c + 10 * d) + (l + 10 * c)
  BY <1>0, <1>1, <1>2
<1>6. number = 10 * (h - c + 10 * d) + (l + 10 * c) - 100 * d
  BY <1>0, <1>1, <1>2
<1> HIDE DEF adjusted, number
<1>7. \A tens, ones \in 0 .. 9 :
        /\ IsDecimal(16 * tens + ones) /\ Decimal(16 * tens + ones) = 10 * tens + ones
        /\ (10 * tens + ones - 100 * d) % 100 = 10 * tens + ones
        /\ d = 1 <=> 10 * tens + ones - 100 * d \notin 0 .. 99
  BY SMTT(40) DEF IsDecimal, Decimal, Nibble
<1>8. IsDecimal(adjusted) /\ Decimal(adjusted) = number % 100
      /\ (16 * h + l < 0 <=> number \notin 0 .. 99)
  BY <1>0, <1>1, <1>2, <1>3, <1>4, <1>5, <1>6, <1>7, SMTT(40)
<1> QED
  BY <1>8 DEF adjusted, number, AdjustedTo, AdjustedDifference

(* DAA after any sum, and after any difference, of two-digit numbers.      *)
LEMMA DecimalSum ==
  ASSUME NEW x \in 0 .. 255, NEW y \in 0 .. 255, NEW one \in 0 .. 1, NEW r,
         IsDecimal(x), IsDecimal(y), ~r.negative, r.a = (x + y + one) % 256,
         r.carry <=> x + y + one > 255,
         r.halfCarry <=> (x % 16) + (y % 16) + one > 15
  PROVE  HoldsDecimal(daa(r), Decimal(x) + Decimal(y) + one)
<1>1. PICK x1 \in 0 .. 9, x0 \in 0 .. 9 : x1 = x \div 16 /\ x0 = x % 16 /\ x = 16 * x1 + x0
  BY DEF IsDecimal, Nibble
<1>2. PICK y1 \in 0 .. 9, y0 \in 0 .. 9 : y1 = y \div 16 /\ y0 = y % 16 /\ y = 16 * y1 + y0
  BY DEF IsDecimal, Nibble
<1>3. PICK h \in 0 .. 18, l \in 0 .. 19 : h = x1 + y1 /\ l = x0 + y0 + one
  OBVIOUS
<1>4. PICK a \in 0 .. 255 : a = (16 * h + l) % 256
  OBVIOUS
<1>5. x + y + one = 16 * h + l
  BY <1>1, <1>2, <1>3
<1>6. Decimal(x) + Decimal(y) + one = 10 * h + l
  BY <1>1, <1>2, <1>3 DEF Decimal, Nibble
<1> DEFINE high == r.carry \/ r.a > 153
           low == r.halfCarry \/ r.a % 16 > 9
<1>7. r.a = a /\ (high <=> 16 * h + l > 255 \/ a > 153) /\ (low <=> l >= 16 \/ a % 16 > 9)
  BY <1>1, <1>2, <1>3, <1>4, <1>5
<1>8. /\ daa(r).a = (r.a + ((IF high THEN 96 ELSE 0) + (IF low THEN 6 ELSE 0))) % 256
      /\ daa(r).carry <=> high
  BY DaaAfterSum
<1> HIDE DEF high, low
<1>9. daa(r).a = AdjustedSum(h, l, a) /\ (daa(r).carry <=> HighCorrected(h, l, a))
  BY <1>7, <1>8 DEF AdjustedSum, HighCorrected, LowCorrected
<1>10. AdjustedTo(AdjustedSum(h, l, a), HighCorrected(h, l, a), 10 * h + l)
  BY <1>3, <1>4, SumOfDigits, Zenon DEF BinarySum
<1> QED
  BY <1>6, <1>9, <1>10, ZenonT(60) DEF HoldsDecimal, AdjustedTo

(* The same for a difference, with a borrow or without.                  *)
LEMMA DecimalDifference ==
  ASSUME NEW x \in 0 .. 255, NEW y \in 0 .. 255, NEW one \in 0 .. 1, NEW r,
         IsDecimal(x), IsDecimal(y), r.negative, r.a = (x - y - one) % 256,
         r.carry <=> x - y - one < 0,
         r.halfCarry <=> (x % 16) - (y % 16) - one < 0
  PROVE  HoldsDecimal(daa(r), Decimal(x) - Decimal(y) - one)
<1>1. PICK x1 \in 0 .. 9, x0 \in 0 .. 9 : x1 = x \div 16 /\ x0 = x % 16 /\ x = 16 * x1 + x0
  BY DEF IsDecimal, Nibble
<1>2. PICK y1 \in 0 .. 9, y0 \in 0 .. 9 : y1 = y \div 16 /\ y0 = y % 16 /\ y = 16 * y1 + y0
  BY DEF IsDecimal, Nibble
<1>3. PICK h \in -9 .. 9, l \in -10 .. 9 : h = x1 - y1 /\ l = x0 - y0 - one
  OBVIOUS
<1>4. PICK a \in 0 .. 255 : a = (16 * h + l) % 256
  OBVIOUS
<1>5. x - y - one = 16 * h + l
  BY <1>1, <1>2, <1>3
<1>6. Decimal(x) - Decimal(y) - one = 10 * h + l
  BY <1>1, <1>2, <1>3 DEF Decimal, Nibble
<1>7. r.a = a /\ (r.carry <=> 16 * h + l < 0) /\ (r.halfCarry <=> l < 0)
  BY <1>1, <1>2, <1>3, <1>4, <1>5
<1>8. /\ daa(r).a = (r.a + ((IF r.carry THEN 160 ELSE 0)
                            + (IF r.halfCarry THEN 250 ELSE 0))) % 256
      /\ daa(r).carry <=> r.carry
  BY DaaAfterDifference
<1>9. daa(r).a = AdjustedDifference(h, l, a) /\ (daa(r).carry <=> 16 * h + l < 0)
  BY <1>7, <1>8 DEF AdjustedDifference
<1>10. AdjustedTo(AdjustedDifference(h, l, a), 16 * h + l < 0, 10 * h + l)
  BY <1>3, <1>4, DifferenceOfDigits, Zenon DEF BinaryDifference
<1> QED
  BY <1>6, <1>9, <1>10, ZenonT(60) DEF HoldsDecimal, AdjustedTo

(* Every step keeps the promise of DAA.                                    *)
LEMMA DecimalNext ==
  ASSUME ArithmeticTypeOK, DecimalResults, [ArithmeticNext]_arithmeticVars
  PROVE  DecimalResults'
<1>1. regs \in Registers /\ regs.a \in 0 .. 255 /\ Carry(regs) \in 0 .. 1
  BY DEF ArithmeticTypeOK, Registers, Carry
<1>2. ASSUME NEW result, NEW value, NEW meaning, Arithmetic(result, value, meaning),
             IsDecimal(regs.a) /\ IsDecimal(value) => HoldsDecimal(daa(result), meaning)
      PROVE  DecimalResults'
  BY <1>2, Zenon DEF Arithmetic, DecimalResults
<1>3. ASSUME NEW value \in Operands, Add(value)
      PROVE  DecimalResults'
  <2>1. value \in 0 .. 255
    BY ArithmeticAssumption DEF ArithmeticAssumption
  <2>2. CASE Arithmetic(add(regs, value), value, Decimal(regs.a) + Decimal(value))
    <3>1. IsDecimal(regs.a) /\ IsDecimal(value)
            => HoldsDecimal(daa(add(regs, value)), Decimal(regs.a) + Decimal(value) + 0)
      <4>1. /\ ~add(regs, value).negative
            /\ add(regs, value).a = (regs.a + value + 0) % 256
            /\ add(regs, value).carry <=> regs.a + value + 0 > 255
            /\ add(regs, value).halfCarry <=> (regs.a % 16) + (value % 16) + 0 > 15
        <5>1. ~add(regs, value).negative
          BY Zenon DEF add, Result
        <5> QED
          BY <1>1, <2>1, <5>1, AddFields
      <4>2. 0 \in 0 .. 1
        OBVIOUS
      <4> QED
        BY <1>1, <2>1, <4>1, <4>2, DecimalSum, ZenonT(60)
    <3>2. \A m, n \in Int : m + n + 0 = m + n
      OBVIOUS
    <3>3. Decimal(regs.a) \in Int /\ Decimal(value) \in Int
      BY <1>1, <2>1, SMTT(40) DEF Decimal, Nibble
    <3> QED
      BY <1>2, <2>2, <3>1, <3>2, <3>3, Zenon
  <2>3. CASE Arithmetic(adc(regs, value), value, Decimal(regs.a) + Decimal(value) + Carry(regs))
    <3>1. ~adc(regs, value).negative
      BY Zenon DEF adc, Result
    <3>2. IsDecimal(regs.a) /\ IsDecimal(value)
            => HoldsDecimal(daa(adc(regs, value)), Decimal(regs.a) + Decimal(value) + Carry(regs))
      BY <1>1, <2>1, <3>1, AdcFields, DecimalSum, ZenonT(60)
    <3> QED
      BY <1>2, <2>3, <3>2, Zenon
  <2> QED
    BY <1>3, <2>2, <2>3 DEF Add
<1>4. ASSUME NEW value \in Operands, Subtract(value)
      PROVE  DecimalResults'
  <2>1. value \in 0 .. 255
    BY ArithmeticAssumption DEF ArithmeticAssumption
  <2>2. CASE Arithmetic(sub(regs, value), value, Decimal(regs.a) - Decimal(value))
    <3>1. IsDecimal(regs.a) /\ IsDecimal(value)
            => HoldsDecimal(daa(sub(regs, value)), Decimal(regs.a) - Decimal(value) - 0)
      <4>1. /\ sub(regs, value).negative
            /\ sub(regs, value).a = (regs.a - value - 0) % 256
            /\ sub(regs, value).carry <=> regs.a - value - 0 < 0
            /\ sub(regs, value).halfCarry <=> (regs.a % 16) - (value % 16) - 0 < 0
        <5>1. sub(regs, value).negative /\ (sub(regs, value).halfCarry <=> regs.a % 16 < value % 16)
          BY Zenon DEF sub, Result, Nibble
        <5> QED
          BY <1>1, <2>1, <5>1, SubFields
      <4>2. 0 \in 0 .. 1
        OBVIOUS
      <4> QED
        BY <1>1, <2>1, <4>1, <4>2, DecimalDifference, ZenonT(60)
    <3>2. \A m, n \in Int : m - n - 0 = m - n
      OBVIOUS
    <3>3. Decimal(regs.a) \in Int /\ Decimal(value) \in Int
      BY <1>1, <2>1 DEF Decimal, Nibble
    <3> QED
      BY <1>2, <2>2, <3>1, <3>2, <3>3, Zenon
  <2>3. CASE Arithmetic(sbc(regs, value), value, Decimal(regs.a) - Decimal(value) - Carry(regs))
    <3>1. sbc(regs, value).negative
      BY Zenon DEF sbc, Result
    <3>2. \A x, y \in 0 .. 255, one \in 0 .. 1 :
            /\ Dword(x - y - one) % 256 = (x - y - one) % 256
            /\ Dword(x - y - one) > 255 <=> x - y - one < 0
      BY SMTT(40) DEF Dword, DWORD_MAX
    <3>3. IsDecimal(regs.a) /\ IsDecimal(value)
            => HoldsDecimal(daa(sbc(regs, value)), Decimal(regs.a) - Decimal(value) - Carry(regs))
      <4>1. /\ sbc(regs, value).a = (regs.a - value - Carry(regs)) % 256
            /\ sbc(regs, value).carry <=> regs.a - value - Carry(regs) < 0
            /\ sbc(regs, value).halfCarry
                 <=> (regs.a % 16) - (value % 16) - Carry(regs) < 0
        <5>1. /\ Dword(regs.a - value - Carry(regs)) % 256 = (regs.a - value - Carry(regs)) % 256
              /\ Dword(regs.a - value - Carry(regs)) > 255 <=> regs.a - value - Carry(regs) < 0
          BY <1>1, <2>1, <3>2, Zenon
        <5> QED
          BY <5>1, SbcFields, ZenonT(60)
      <4> QED
        BY <1>1, <2>1, <3>1, <4>1, DecimalDifference, ZenonT(60)
    <3> QED
      BY <1>2, <2>3, <3>3, Zenon
  <2> QED
    BY <1>4, <2>2, <2>3 DEF Subtract
<1>5. ASSUME NEW result, Compute(result)
      PROVE  DecimalResults'
  BY <1>5 DEF Compute, DecimalResults
<1>6. CASE UNCHANGED arithmeticVars
  BY <1>6 DEF arithmeticVars, DecimalResults
<1> QED
  BY <1>3, <1>4, <1>5, <1>6, Zenon
  DEF ArithmeticNext, Combine, Load, OneBit, Adjust, Rotate, Shift, Modify, SaveAndRestore

(* Decimal arithmetic is exact, in every state of every program.           *)
THEOREM DecimalIsExact == ArithmeticSpec => []DecimalResults
<1>1. ArithmeticInit => DecimalResults
  BY DEF ArithmeticInit, DecimalResults
<1> QED
  BY <1>1, DecimalNext, ArithmeticTypeCorrect, PTL DEF ArithmeticSpec

(* Numbers of two bytes are added and subtracted byte by byte, whatever    *)
(* instructions ran before and whatever flags they left.                   *)
THEOREM WideIsExact == ArithmeticSpec => []WideArithmetic
BY ArithmeticTypeCorrect, WideNow, PTL

(* A rotation is undone by its opposite, and saved flags come back, in     *)
(* every state of every program.                                           *)
THEOREM BitsKept == ArithmeticSpec => []BitsAreKept
BY ArithmeticTypeCorrect, BitsKeptNow, PTL

===============================================================================
