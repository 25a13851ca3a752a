-------------------------------- MODULE Serial --------------------------------
(***************************************************************************)
(* The serial port: a shift register clocked by serial_tick, and the two   *)
(* registers SB and SC, which the guest may write at any moment of a       *)
(* transfer.  There is no link partner, so only zeros come in: incomingData*)
(* and receivedData stay 0 and are left out.  The byte the main loop       *)
(* appends to the log when a transfer completes is part of the step that   *)
(* completes it, because nothing runs in between.                          *)
(***************************************************************************)
EXTENDS Interrupts

CONSTANTS
  SERIAL_STEP_CYCLES_INTERNAL,  (* cycles per bit of the internal clock    *)
  SentBytes,                    (* the bytes the guest writes to SB        *)
  NoByte,                       (* nothing logged yet                      *)
  instructionCycles

(* A byte as its eight bits, bit 7 leaving first. *)
Bit == 0 .. 7
Byte == [Bit -> {0, 1}]
ZeroByte == [i \in Bit |-> 0]

ASSUME SerialAssumption ==
  /\ SERIAL_STEP_CYCLES_INTERNAL \in Nat
  /\ instructionCycles \in 1 .. SERIAL_STEP_CYCLES_INTERNAL
  /\ SentBytes \subseteq Byte
  /\ NoByte \notin Byte

VARIABLES
  dataToSend,                   (* SB as the guest wrote it                *)
  startTransfer,                (* the two bits of SC                      *)
  internalClockSelect,
  transferInProgress,
  outgoingData,
  transferStepsRemaining,
  transferStepCyclesRemaining,
  serialLog,                    (* the last byte logged                    *)
  interruptFlags

vars == <<dataToSend, startTransfer, internalClockSelect, transferInProgress,
          outgoingData, transferStepsRemaining, transferStepCyclesRemaining,
          serialLog, interruptFlags>>

Init ==
  /\ dataToSend = ZeroByte /\ outgoingData = ZeroByte
  /\ startTransfer = FALSE /\ internalClockSelect = FALSE
  /\ transferInProgress = FALSE
  /\ transferStepsRemaining = 0 /\ transferStepCyclesRemaining = 0
  /\ serialLog = NoByte
  /\ interruptFlags = {}

-------------------------------------------------------------------------------
(* serial_tick.  A transfer that starts takes its first cycle in the same  *)
(* call, so every action speaks of the registers as the start leaves them. *)

(* Mutant: the bit that leaves does not come back in at the other end. *)
RotateLeft_Shift(byte) == [i \in Bit |-> IF i = 0 THEN 0 ELSE byte[i - 1]]

RotateLeft(byte) == [i \in Bit |-> byte[(i + 7) % 8]]

StepsNow == IF transferInProgress THEN transferStepsRemaining ELSE 8

CyclesNow ==
  IF transferInProgress THEN transferStepCyclesRemaining
                        ELSE SERIAL_STEP_CYCLES_INTERNAL

OutgoingNow == IF transferInProgress THEN outgoingData ELSE dataToSend

Active == startTransfer \/ transferInProgress

CountedCycles ==
  IF internalClockSelect THEN CyclesNow - instructionCycles ELSE CyclesNow

StepDue == internalClockSelect /\ CountedCycles <= 0

(* No bit moves: the clock has cycles left, or it is the external one. *)
WaitForStep ==
  /\ Active /\ ~StepDue
  /\ transferInProgress' = TRUE
  /\ transferStepsRemaining' = StepsNow
  /\ transferStepCyclesRemaining' = CountedCycles
  /\ outgoingData' = OutgoingNow
  /\ UNCHANGED <<dataToSend, startTransfer, internalClockSelect, serialLog, interruptFlags>>

ShiftBit ==
  /\ Active /\ StepDue
  /\ transferStepsRemaining' = StepsNow - 1
  /\ transferStepCyclesRemaining' = CountedCycles + SERIAL_STEP_CYCLES_INTERNAL
  /\ outgoingData' = RotateLeft(OutgoingNow)
  /\ UNCHANGED <<dataToSend, internalClockSelect>>

ShiftOneOfMany ==
  /\ ShiftBit
  /\ transferStepsRemaining' > 0
  /\ transferInProgress' = TRUE
  /\ UNCHANGED <<startTransfer, serialLog, interruptFlags>>

(* Mutant: a completed transfer does not clear the flag of being under way. *)
CompleteTransfer_StaysInProgress ==
  /\ ShiftBit
  /\ transferStepsRemaining' <= 0
  /\ startTransfer' = FALSE
  /\ UNCHANGED transferInProgress
  /\ serialLog' = outgoingData'
  /\ interruptFlags' = cpu_request_interrupt(interruptFlags, INTERRUPT_SERIAL)

CompleteTransfer ==
  /\ ShiftBit
  /\ transferStepsRemaining' <= 0
  /\ transferInProgress' = FALSE
  /\ startTransfer' = FALSE
  /\ serialLog' = outgoingData'
  /\ interruptFlags' = cpu_request_interrupt(interruptFlags, INTERRUPT_SERIAL)

serial_tick == WaitForStep \/ ShiftOneOfMany \/ CompleteTransfer

-------------------------------------------------------------------------------
write_sb(byte) ==
  /\ dataToSend' = byte
  /\ UNCHANGED <<startTransfer, internalClockSelect, transferInProgress, outgoingData,
                 transferStepsRemaining, transferStepCyclesRemaining, serialLog,
                 interruptFlags>>

(* Mutant: a start in the middle of a transfer begins it again. *)
write_sc_Restarts(start, internal) ==
  /\ startTransfer' = start
  /\ internalClockSelect' = internal
  /\ transferStepsRemaining' = IF start THEN 8 ELSE transferStepsRemaining
  /\ UNCHANGED <<dataToSend, transferInProgress, outgoingData,
                 transferStepCyclesRemaining, serialLog, interruptFlags>>

(* A transfer under way is neither cancelled nor restarted. *)
write_sc(start, internal) ==
  /\ startTransfer' = start
  /\ internalClockSelect' = internal
  /\ UNCHANGED <<dataToSend, transferInProgress, outgoingData, transferStepsRemaining,
                 transferStepCyclesRemaining, serialLog, interruptFlags>>

(* The CPU takes the interrupt, or the guest clears its bit. *)
AcknowledgeSerial ==
  /\ INTERRUPT_SERIAL \in interruptFlags
  /\ interruptFlags' = interruptFlags \ {INTERRUPT_SERIAL}
  /\ UNCHANGED <<dataToSend, startTransfer, internalClockSelect, transferInProgress,
                 outgoingData, transferStepsRemaining, transferStepCyclesRemaining,
                 serialLog>>

Next ==
  \/ serial_tick
  \/ \E byte \in SentBytes : write_sb(byte)
  \/ \E start, internal \in BOOLEAN : write_sc(start, internal)
  \/ AcknowledgeSerial

Spec == Init /\ [][Next]_vars

(* Every iteration of the main loop ticks the port. *)
FairSpec == Spec /\ WF_vars(serial_tick)

-------------------------------------------------------------------------------
(* Types, and the counters of a transfer under way: bits left to send, and *)
(* cycles left to the next of them.                                        *)
TypeOK ==
  /\ dataToSend \in Byte /\ outgoingData \in Byte
  /\ startTransfer \in BOOLEAN /\ internalClockSelect \in BOOLEAN
  /\ transferInProgress \in BOOLEAN
  /\ transferStepsRemaining \in 0 .. 8
  /\ transferStepCyclesRemaining \in 0 .. SERIAL_STEP_CYCLES_INTERNAL
  /\ transferInProgress =>
       transferStepsRemaining # 0 /\ transferStepCyclesRemaining # 0
  /\ serialLog \in Byte \cup {NoByte}
  /\ interruptFlags \in SUBSET {INTERRUPT_SERIAL}

(* The byte a transfer started with: what has been shifted so far, turned  *)
(* back.                                                                   *)
TurnedBack(byte, steps) == [i \in Bit |-> byte[(i + steps) % 8]]

Sending ==
  IF transferInProgress THEN TurnedBack(outgoingData, 8 - transferStepsRemaining)
                        ELSE NoByte

(* The port is a ByteLink: whatever the guest writes to SB and SC during a *)
(* transfer, and however often it stops the clock, the byte that is logged *)
(* is the one the transfer took when it started, logged once and announced *)
(* by one interrupt.                                                       *)
Link == INSTANCE ByteLink
          WITH Bytes <- Byte, None <- NoByte, offered <- dataToSend,
               sending <- Sending, logged <- serialLog,
               requested <- INTERRUPT_SERIAL \in interruptFlags
ImplementsByteLink == Link!Spec

(* A transfer ends as long as the guest leaves the internal clock on, even *)
(* if it goes on writing SB and SC.                                        *)
TransfersEnd ==
  <>[]internalClockSelect => [](transferInProgress => <>~transferInProgress)

===============================================================================
