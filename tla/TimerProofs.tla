------------------------------ MODULE TimerProofs ------------------------------
(***************************************************************************)
(* Proofs about the timer, for any lengths of the periods and any width of *)
(* the registers.                                                          *)
(***************************************************************************)
EXTENDS Timer, TLAPS

(* A tick keeps the types of DIV and of its count.                         *)
LEMMA DivType ==
  ASSUME TypeOK, TickDiv
  PROVE  div' \in Byte /\ divIncrementCyclesLeft' \in 1 .. DIV_INCREMENT_CYCLES
BY TimerAssumption DEF TimerAssumption, TypeOK, TickDiv, Byte

(* A tick keeps the types of TIMA and of its count.                        *)
LEMMA TimaType ==
  ASSUME TypeOK, TickTima, tma' = tma
  PROVE  /\ tima' \in Byte
         /\ timaIncrementCyclesLeft' \in 0 .. TIMER_INPUT_CLOCK_CYCLES_4096HZ
         /\ interruptFlags' \in SUBSET {INTERRUPT_TIMER}
<1> USE TimerAssumption DEF TimerAssumption, TypeOK, TickTima
<1>1. NextCount \in 0 .. TIMER_INPUT_CLOCK_CYCLES_4096HZ
  BY DEF NextCount
<1>2. CASE StepTima
  <2>1. tima' \in Byte
    BY <1>2 DEF StepTima, Byte
  <2>2. interruptFlags' \in SUBSET {INTERRUPT_TIMER}
    BY <1>2 DEF StepTima, cpu_request_interrupt
  <2> QED
    BY <1>1, <2>1, <2>2
<1>3. CASE NextCount > 0 /\ UNCHANGED <<tima, interruptFlags>>
  BY <1>1, <1>3
<1> QED
  BY <1>2, <1>3

(* Every step keeps the types.                                             *)
LEMMA TimerTypeNext == TypeOK /\ [Next]_vars => TypeOK'
<1> SUFFICES ASSUME TypeOK, [Next]_vars PROVE TypeOK'
  OBVIOUS
<1> USE DEF TypeOK
<1>1. CASE timer_tick
  BY <1>1, DivType, TimaType DEF timer_tick
<1>2. CASE write_div
  BY <1>2, TimerAssumption DEF write_div, TimerAssumption, Byte
<1>3. ASSUME NEW value \in Byte, write_tima(value) \/ write_tma(value)
      PROVE  TypeOK'
  BY <1>3 DEF write_tima, write_tma
<1>4. ASSUME NEW newSelect \in Select, NEW newStopped \in BOOLEAN,
             write_tac(newSelect, newStopped)
      PROVE  TypeOK'
  BY <1>4 DEF write_tac
<1>5. CASE AcknowledgeTimer
  BY <1>5 DEF AcknowledgeTimer
<1>6. CASE UNCHANGED vars
  BY <1>6 DEF vars
<1> QED
  BY <1>1, <1>2, <1>3, <1>4, <1>5, <1>6 DEF Next, GuestWrite, LoadTima

(* Every register keeps a byte and both counts stay inside their periods.  *)
THEOREM TimerTypeCorrect == Spec => []TypeOK
<1>1. Init => TypeOK
  BY TimerAssumption DEF TimerAssumption, Init, TypeOK, Byte, Select
<1> QED
  BY <1>1, TimerTypeNext, PTL DEF Spec

-------------------------------------------------------------------------------
(* Whether TIMA may move: the timer runs, or has run for a tick before.    *)
Running == ~stopped \/ timaIncrementCyclesLeft < TIMER_INPUT_CLOCK_CYCLES_4096HZ

(* A tick moves TIMA as the counter does, or not at all.                   *)
LEMMA TickSteps ==
  ASSUME TypeOK, TickTima, UNCHANGED <<tma, stopped>>
  PROVE  \/ Counter!Step
         \/ UNCHANGED <<tima, tma, interruptFlags>> /\ (Running' <=> Running)
<1> USE TimerAssumption DEF TimerAssumption, TypeOK
<1>1. timaIncrementCyclesLeft' = NextCount /\ (Running' <=> Running)
  BY DEF TickTima, NextCount, Running
<1>2. CASE StepTima
  <2>1. Running
    BY <1>2 DEF StepTima, NextCount, Running
  <2>2. CASE tima = ByteSize - 1
    <3>1. tima' = tma /\ INTERRUPT_TIMER \in interruptFlags'
      BY <1>2, <2>2 DEF StepTima, cpu_request_interrupt
    <3> QED
      BY <1>1, <2>1, <2>2, <3>1 DEF Counter!Step, Running
  <2>3. CASE tima # ByteSize - 1
    <3>1. tima < ByteSize - 1 /\ tima' = tima + 1 /\ interruptFlags' = interruptFlags
      BY <1>2, <2>3 DEF StepTima, Byte
    <3> QED
      BY <1>1, <2>1, <3>1 DEF Counter!Step, Running
  <2> QED
    BY <2>2, <2>3
<1>3. CASE UNCHANGED <<tima, interruptFlags>>
  BY <1>1, <1>3
<1> QED
  BY <1>2, <1>3 DEF TickTima

(* TIMA and its interrupt are a counter that reloads: it requests when it  *)
(* passes its largest value and at no other time, whatever the program     *)
(* loads and selects, and does not move before it was started once.        *)
THEOREM TimaIsACounter == Spec => ImplementsReloadingCounter
<1>1. Init => Counter!Init
  BY TimerAssumption DEF TimerAssumption, Init, Counter!Init
<1>2. TypeOK /\ TypeOK' /\ [Next]_vars => [Counter!Next]_(Counter!counterVars)
  <2> SUFFICES ASSUME TypeOK, TypeOK', [Next]_vars
               PROVE  [Counter!Next]_(Counter!counterVars)
    OBVIOUS
  <2>1. ASSUME UNCHANGED <<tima, tma, interruptFlags>>, Running' <=> Running
        PROVE  UNCHANGED Counter!counterVars
    BY <2>1 DEF Counter!counterVars, Running
  <2>2. CASE timer_tick
    BY <2>1, <2>2, TickSteps DEF timer_tick, Counter!Next
  <2>3. CASE UNCHANGED <<tima, timaIncrementCyclesLeft, tma, stopped, interruptFlags>>
    BY <2>1, <2>3 DEF Running
  <2>4. ASSUME NEW value \in Byte, write_tima(value) PROVE Counter!Next
    BY <2>4 DEF write_tima, Counter!Next, Counter!Load, Byte
  <2>5. ASSUME NEW value \in Byte, write_tma(value) PROVE Counter!Next
    BY <2>5 DEF write_tma, Counter!Next, Counter!SetReload, Byte
  <2>6. ASSUME NEW newSelect \in Select, NEW newStopped \in BOOLEAN,
               write_tac(newSelect, newStopped)
        PROVE  Counter!Next
    BY <2>6 DEF write_tac, Counter!Next, Counter!Switch
  <2>7. CASE AcknowledgeTimer
    BY <2>7 DEF AcknowledgeTimer, Counter!Next, Counter!Acknowledge
  <2> QED
    BY <2>2, <2>3, <2>4, <2>5, <2>6, <2>7 DEF Next, GuestWrite, LoadTima, write_div, vars
<1> QED
  BY <1>1, <1>2, TimerTypeCorrect, PTL DEF Spec, ImplementsReloadingCounter, Counter!Spec

-------------------------------------------------------------------------------
(* Arithmetic of a clock of steps periods: products and remainders.        *)
LEMMA ModBelow == \A a, b \in Nat : a < b => a % b = a
BY Z3

LEMMA ModWrap == \A a, b \in Nat : b > 0 /\ b <= a /\ a < 2 * b => a % b = a - b
BY Z3

LEMMA WrapOnce ==
  ASSUME NEW now \in Int, NEW step \in Int, NEW all \in Nat,
         now + step \in Nat, all > 0, all <= now + step, now + step < 2 * all
  PROVE  (now + step) % all = now + step - all
BY ModWrap

LEMMA ModPeriod == \A d, p, x \in Nat : x < p => (d * p + x) % p = x
BY Z3

LEMMA NextPeriod == \A d, p \in Nat : (d + 1) * p = d * p + p
BY Z3

LEMMA PeriodsBelow == \A d, s, p \in Nat : d < s => d * p + p <= s * p /\ d * p \in Nat
BY Z3

(* The cycles since the clock last stood at zero.                          *)
Position == div * DIV_INCREMENT_CYCLES + (DIV_INCREMENT_CYCLES - divIncrementCyclesLeft)

(* A tick moves the clock by exactly the cycles of the instruction, across *)
(* the end of a period and of all periods.                                 *)
LEMMA TickMovesClock ==
  ASSUME TypeOK, TickDiv
  PROVE  Position' = (Position + instructionCycles) % (DIV_INCREMENT_CYCLES * ByteSize)
<1> DEFINE P == DIV_INCREMENT_CYCLES
           all == ByteSize * P
           left == divIncrementCyclesLeft - instructionCycles
<1>1. /\ P \in Nat \ {0} /\ instructionCycles \in 1 .. P
      /\ ByteSize \in Nat \ {0, 1}
      /\ div \in 0 .. ByteSize - 1 /\ divIncrementCyclesLeft \in 1 .. P
  BY TimerAssumption DEF TimerAssumption, TypeOK, Byte
<1>2. div * P \in Nat /\ div * P + P <= all /\ all \in Nat /\ P * ByteSize = all
  BY <1>1, PeriodsBelow, Z3
<1>3. P <= all /\ all > 0
  BY <1>1, <1>2
<1>4. CASE left > 0
  <2>1. Position' = Position + instructionCycles
    BY <1>1, <1>2, <1>4 DEF TickDiv, Position
  <2>2. Position + instructionCycles \in Nat /\ Position + instructionCycles < all
    BY <1>1, <1>2, <1>4 DEF Position
  <2> QED
    BY <1>2, <2>1, <2>2, ModBelow
<1>5. CASE left <= 0 /\ div + 1 < ByteSize
  <2>1. div' = div + 1 /\ divIncrementCyclesLeft' = left + P
    BY <1>1, <1>5, ModBelow DEF TickDiv
  <2>2. div' * P = div * P + P /\ (div + 1) * P + P <= all
    BY <1>1, <1>5, <2>1, NextPeriod, PeriodsBelow
  <2>3. Position' = Position + instructionCycles
    BY <1>1, <1>2, <2>1, <2>2 DEF Position
  <2>4. Position + instructionCycles \in Nat /\ Position + instructionCycles < all
    BY <1>1, <1>2, <1>5, <2>1, <2>2 DEF Position
  <2> QED
    BY <1>2, <2>3, <2>4, ModBelow
<1>6. CASE left <= 0 /\ div + 1 = ByteSize
  <2>1. div' = 0 /\ divIncrementCyclesLeft' = left + P
    BY <1>1, <1>6 DEF TickDiv
  <2>2. div * P + P = all /\ div' * P = 0
    BY <1>1, <1>6, <2>1, NextPeriod
  <2>3. Position' = Position + instructionCycles - all
    BY <1>1, <1>2, <2>1, <2>2 DEF Position
  <2>4. /\ Position + instructionCycles \in Nat
        /\ all <= Position + instructionCycles
        /\ Position + instructionCycles < 2 * all
    BY <1>1, <1>2, <1>3, <1>6, <2>2 DEF Position
  <2>5. (Position + instructionCycles) % all = Position + instructionCycles - all
    <3>1. Position \in Int /\ instructionCycles \in Int
      BY <1>1, <1>2 DEF Position
    <3>2. all \in Nat /\ all > 0
      BY <1>2, <1>3
    <3> HIDE DEF all
    <3> QED
      BY <2>4, <3>1, <3>2, WrapOnce
  <2> QED
    BY <1>2, <2>3, <2>5
<1> QED
  BY <1>1, <1>4, <1>5, <1>6

(* A write to DIV keeps the position inside the period.                    *)
LEMMA ClearKeepsPosition ==
  ASSUME TypeOK, write_div
  PROVE  Position' = Position % DIV_INCREMENT_CYCLES
<1> DEFINE P == DIV_INCREMENT_CYCLES
<1>1. /\ P \in Nat \ {0} /\ div \in Nat /\ divIncrementCyclesLeft \in 1 .. P
      /\ P - divIncrementCyclesLeft \in Nat /\ P - divIncrementCyclesLeft < P
  BY TimerAssumption DEF TimerAssumption, TypeOK, Byte
<1>2. Position % P = P - divIncrementCyclesLeft
  BY <1>1, ModPeriod DEF Position
<1>3. Position' = 0 * P + (P - divIncrementCyclesLeft)
  BY DEF write_div, Position
<1> QED
  BY <1>1, <1>2, <1>3

(* DIV and its count are one clock that never drifts: no cycle is lost at  *)
(* a step, at an overflow or when the program clears DIV.                  *)
THEOREM DivIsAClock == Spec => DivNeverDrifts
<1>1. Init => Clock!Init
  <2> SUFFICES ASSUME Init PROVE Clock!Init
    OBVIOUS
  <2>1. DIV_INCREMENT_CYCLES \in Nat
    BY TimerAssumption DEF TimerAssumption
  <2> QED
    BY <2>1 DEF Init, Clock!Init
<1>2. TypeOK /\ [Next]_vars => [Clock!Next]_Position
  <2> SUFFICES ASSUME TypeOK, [Next]_vars PROVE [Clock!Next]_Position
    OBVIOUS
  <2>1. CASE timer_tick
    BY <2>1, TickMovesClock DEF timer_tick, Clock!Next, Clock!Tick, Position
  <2>2. CASE write_div
    BY <2>2, ClearKeepsPosition DEF Clock!Next, Clock!Clear, Position
  <2>3. CASE UNCHANGED <<div, divIncrementCyclesLeft>>
    BY <2>3 DEF Position
  <2>4. CASE ~timer_tick /\ ~write_div
    BY <2>3, <2>4
    DEF Next, GuestWrite, LoadTima, write_tima, write_tma, write_tac,
        AcknowledgeTimer, vars
  <2> QED
    BY <2>1, <2>2, <2>4
<1> QED
  BY <1>1, <1>2, TimerTypeCorrect, PTL
  DEF Spec, DivNeverDrifts, Clock!Spec, Position

===============================================================================
