------------------------------ MODULE SerialProofs -----------------------------
(***************************************************************************)
(* Proofs about the serial port, for any rate of the internal clock and    *)
(* any bytes the program sends.                                            *)
(***************************************************************************)
EXTENDS Serial, TLAPS

-------------------------------------------------------------------------------
(* Rotations of a byte.                                                    *)
LEMMA AroundTheByte ==
  ASSUME NEW i \in Bit, NEW steps \in 0 .. 7
  PROVE  /\ (i + steps + 1) % 8 \in Bit
         /\ (i + steps) % 8 \in Bit
         /\ (((i + steps + 1) % 8) + 7) % 8 = (i + steps) % 8
<1>1. i \in Nat /\ i <= 7 /\ steps \in Nat /\ steps <= 7
  BY DEF Bit
<1>2. (i + steps + 1) % 8 \in Bit /\ (i + steps) % 8 \in Bit
  BY <1>1 DEF Bit
<1>3. (((i + steps + 1) % 8) + 7) % 8 = (i + steps) % 8
  BY <1>1, Z3
<1> QED
  BY <1>2, <1>3

(* Turning a byte back by no step, and by every step, leaves it as it is.  *)
LEMMA TurnedBackNone == \A byte \in Byte : TurnedBack(byte, 0) = byte
<1> TAKE byte \in Byte
<1>1. \A i \in Bit : (i + 0) % 8 = i
  BY DEF Bit
<1> QED
  BY <1>1 DEF TurnedBack, Byte

(* A rotation is turned back by one step more.                             *)
LEMMA TurnedBackOne ==
  ASSUME NEW byte \in Byte, NEW steps \in 0 .. 7
  PROVE  TurnedBack(RotateLeft(byte), steps + 1) = TurnedBack(byte, steps)
<1>1. ASSUME NEW i \in Bit
      PROVE  RotateLeft(byte)[(i + (steps + 1)) % 8] = byte[(i + steps) % 8]
  <2>1. (i + (steps + 1)) % 8 = (i + steps + 1) % 8
    BY DEF Bit
  <2> QED
    BY <2>1, AroundTheByte DEF RotateLeft
<1> QED
  BY <1>1 DEF TurnedBack

(* Seven steps back are one step on.                                       *)
LEMMA SevenBackIsOneOn == \A byte \in Byte : TurnedBack(byte, 7) = RotateLeft(byte)
BY DEF TurnedBack, RotateLeft

(* A rotated byte is a byte.                                               *)
LEMMA RotateLeftType == \A byte \in Byte : RotateLeft(byte) \in Byte
<1> TAKE byte \in Byte
<1>1. \A i \in Bit : (i + 7) % 8 \in Bit
  BY DEF Bit
<1> QED
  BY <1>1 DEF Byte, RotateLeft

-------------------------------------------------------------------------------
(* What the registers hold once a transfer that is asked for has begun.    *)
LEMMA NowType ==
  ASSUME TypeOK
  PROVE  /\ StepsNow \in 1 .. 8
         /\ OutgoingNow \in Byte
         /\ CyclesNow \in 1 .. SERIAL_STEP_CYCLES_INTERNAL
BY SerialAssumption DEF SerialAssumption, TypeOK, StepsNow, OutgoingNow, CyclesNow

(* A tick keeps the types.                                                 *)
LEMMA WaitType == ASSUME TypeOK, WaitForStep PROVE TypeOK'
<1>1. CountedCycles \in 1 .. SERIAL_STEP_CYCLES_INTERNAL
  BY NowType, SerialAssumption DEF SerialAssumption, CountedCycles, WaitForStep, StepDue
<1> QED
  BY <1>1, NowType DEF TypeOK, WaitForStep

LEMMA ShiftType ==
  ASSUME TypeOK, ShiftOneOfMany \/ CompleteTransfer
  PROVE  TypeOK'
<1>1. CountedCycles + SERIAL_STEP_CYCLES_INTERNAL \in 1 .. SERIAL_STEP_CYCLES_INTERNAL
  BY NowType, SerialAssumption
  DEF SerialAssumption, CountedCycles, ShiftOneOfMany, CompleteTransfer, ShiftBit, StepDue
<1>2. StepsNow - 1 \in 0 .. 7
  BY NowType
<1>3. RotateLeft(OutgoingNow) \in Byte
  BY NowType, RotateLeftType
<1>4. CASE ShiftOneOfMany
  BY <1>1, <1>2, <1>3, <1>4 DEF TypeOK, ShiftOneOfMany, ShiftBit
<1>5. CASE CompleteTransfer
  <2>1. /\ dataToSend' \in Byte /\ outgoingData' \in Byte
        /\ serialLog' \in Byte \cup {NoByte}
    BY <1>3, <1>5 DEF TypeOK, CompleteTransfer, ShiftBit
  <2>2. interruptFlags' \in SUBSET {INTERRUPT_SERIAL}
    BY <1>5 DEF TypeOK, CompleteTransfer, cpu_request_interrupt
  <2>3. /\ transferStepsRemaining' \in 0 .. 8
        /\ transferStepCyclesRemaining' \in 0 .. SERIAL_STEP_CYCLES_INTERNAL
    BY <1>1, <1>2, <1>5 DEF CompleteTransfer, ShiftBit
  <2>4. startTransfer' = FALSE /\ transferInProgress' = FALSE
    BY <1>5 DEF CompleteTransfer
  <2>5. internalClockSelect' \in BOOLEAN
    BY <1>5 DEF TypeOK, CompleteTransfer, ShiftBit
  <2> QED
    BY <2>1, <2>2, <2>3, <2>4, <2>5 DEF TypeOK
<1> QED
  BY <1>4, <1>5

(* Whatever the program writes and when, the counters of a transfer under  *)
(* way stay inside it.                                                     *)
THEOREM SerialTypeCorrect == Spec => []TypeOK
<1>1. Init => TypeOK
  <2>1. ZeroByte \in Byte
    BY DEF ZeroByte, Byte
  <2>2. SERIAL_STEP_CYCLES_INTERNAL \in Nat
    BY SerialAssumption DEF SerialAssumption
  <2> SUFFICES ASSUME Init PROVE TypeOK
    OBVIOUS
  <2>3. 0 \in 0 .. 8 /\ 0 \in 0 .. SERIAL_STEP_CYCLES_INTERNAL
    BY <2>2
  <2>4. startTransfer \in BOOLEAN /\ internalClockSelect \in BOOLEAN
        /\ transferInProgress \in BOOLEAN /\ ~transferInProgress
    BY DEF Init
  <2> QED
    BY <2>1, <2>3, <2>4 DEF Init, TypeOK
<1>2. TypeOK /\ [Next]_vars => TypeOK'
  <2> SUFFICES ASSUME TypeOK, [Next]_vars PROVE TypeOK'
    OBVIOUS
  <2>1. CASE serial_tick
    BY <2>1, WaitType, ShiftType DEF serial_tick
  <2>2. ASSUME NEW byte \in SentBytes, write_sb(byte) PROVE TypeOK'
    BY <2>2, SerialAssumption DEF SerialAssumption, TypeOK, write_sb
  <2>3. ASSUME NEW start \in BOOLEAN, NEW internal \in BOOLEAN, write_sc(start, internal)
        PROVE  TypeOK'
    BY <2>3 DEF TypeOK, write_sc
  <2>4. CASE AcknowledgeSerial
    BY <2>4 DEF TypeOK, AcknowledgeSerial
  <2>5. CASE UNCHANGED vars
    BY <2>5 DEF TypeOK, vars
  <2> QED
    BY <2>1, <2>2, <2>3, <2>4, <2>5 DEF Next
<1> QED
  BY <1>1, <1>2, PTL DEF Spec

-------------------------------------------------------------------------------
(* A byte on its way is a byte, so it is not the mark of none.             *)
LEMMA SendingType ==
  ASSUME TypeOK, transferInProgress
  PROVE  Sending \in Byte /\ Sending # NoByte
<1>1. \A i \in Bit : (i + (8 - transferStepsRemaining)) % 8 \in Bit
  BY DEF TypeOK, Bit
<1> QED
  BY <1>1, SerialAssumption DEF SerialAssumption, TypeOK, Sending, TurnedBack, Byte

(* The byte a tick works on, turned back by the steps already made, is the *)
(* byte on its way, or the one offered if the tick begins the transfer.    *)
LEMMA OriginNow ==
  ASSUME TypeOK
  PROVE  TurnedBack(OutgoingNow, 8 - StepsNow)
           = IF transferInProgress THEN Sending ELSE dataToSend
BY TurnedBackNone DEF TypeOK, OutgoingNow, StepsNow, Sending

(* A tick that does not end the transfer begins one or changes nothing the *)
(* link speaks of.                                                         *)
LEMMA TickKeepsByte ==
  ASSUME TypeOK, WaitForStep \/ ShiftOneOfMany
  PROVE  /\ Sending' = (IF transferInProgress THEN Sending ELSE dataToSend)
         /\ UNCHANGED <<dataToSend, serialLog, interruptFlags>>
<1>1. CASE WaitForStep
  <2>1. Sending' = TurnedBack(OutgoingNow, 8 - StepsNow)
    BY <1>1 DEF WaitForStep, Sending
  <2> QED
    BY <1>1, <2>1, OriginNow DEF WaitForStep
<1>2. CASE ShiftOneOfMany
  <2>1. 8 - StepsNow \in 0 .. 7 /\ 8 - (StepsNow - 1) = (8 - StepsNow) + 1
    BY NowType
  <2>2. Sending' = TurnedBack(RotateLeft(OutgoingNow), (8 - StepsNow) + 1)
    BY <1>2, <2>1 DEF ShiftOneOfMany, ShiftBit, Sending
  <2>3. Sending' = TurnedBack(OutgoingNow, 8 - StepsNow)
    BY <2>1, <2>2, NowType, TurnedBackOne
  <2> QED
    BY <1>2, <2>3, OriginNow DEF ShiftOneOfMany, ShiftBit
<1> QED
  BY <1>1, <1>2

(* The tick that ends a transfer logs the byte it started with.            *)
LEMMA EndLogsByte ==
  ASSUME TypeOK, CompleteTransfer
  PROVE  /\ transferInProgress
         /\ serialLog' = Sending
         /\ Sending' = NoByte
<1>1. StepsNow = 1 /\ transferInProgress
  BY NowType DEF CompleteTransfer, ShiftBit, StepsNow
<1>2. Sending = TurnedBack(OutgoingNow, 7)
  BY <1>1, OriginNow
<1> QED
  BY <1>1, <1>2, NowType, SevenBackIsOneOn DEF CompleteTransfer, ShiftBit, Sending

(* Whatever the program writes during a transfer, the byte logged is the   *)
(* one the transfer took when it began, logged once and announced once.    *)
THEOREM SerialImplementsByteLink == Spec => ImplementsByteLink
<1>1. Init => Link!Init
  BY DEF Init, Link!Init, ZeroByte, Byte, Sending
<1>2. TypeOK /\ [Next]_vars => [Link!Next]_(Link!linkVars)
  <2> SUFFICES ASSUME TypeOK, [Next]_vars PROVE [Link!Next]_(Link!linkVars)
    OBVIOUS
  <2> USE DEF Link!linkVars, Link!Next
  <2>1. CASE WaitForStep \/ ShiftOneOfMany
    BY <2>1, TickKeepsByte DEF Link!Begin, Sending
  <2>2. CASE CompleteTransfer
    BY <2>2, EndLogsByte, SendingType
    DEF Link!End, CompleteTransfer, ShiftBit, cpu_request_interrupt
  <2>3. ASSUME NEW byte \in SentBytes, write_sb(byte)
        PROVE  [Link!Next]_(Link!linkVars)
    BY <2>3, SerialAssumption DEF SerialAssumption, write_sb, Link!Offer, Sending
  <2>4. CASE AcknowledgeSerial
    BY <2>4 DEF AcknowledgeSerial, Link!Acknowledge, Sending
  <2>5. CASE UNCHANGED <<dataToSend, transferInProgress, outgoingData,
                         transferStepsRemaining, serialLog, interruptFlags>>
    BY <2>5 DEF Sending
  <2> QED
    BY <2>1, <2>2, <2>3, <2>4, <2>5 DEF Next, serial_tick, write_sc, vars
<1> QED
  BY <1>1, <1>2, SerialTypeCorrect, PTL DEF Spec, ImplementsByteLink, Link!Spec

===============================================================================
