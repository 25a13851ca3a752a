------------------------------ MODULE KeypadProofs -----------------------------
(***************************************************************************)
(* Proofs about the keypad, for any number of groups and lines.            *)
(***************************************************************************)
EXTENDS Keypad, TLAPS

(* Every variable of the keypad keeps its type.                            *)
THEOREM KeypadTypeCorrect == Spec => []TypeOK
<1>1. Init => TypeOK
  BY DEF Init, TypeOK
<1>2. TypeOK /\ [Next]_vars => TypeOK'
  <2> SUFFICES ASSUME TypeOK, [Next]_vars PROVE TypeOK'
    OBVIOUS
  <2> USE DEF TypeOK
  <2>1. CASE update_state /\ UNCHANGED pressed /\ selected' \in SUBSET Groups
    BY <2>1 DEF update_state, Level, cpu_request_interrupt
  <2>2. CASE \E keys \in SUBSET Keys : PollInput(keys)
    BY <2>2 DEF PollInput
  <2>3. CASE AcknowledgeKeypad
    BY <2>3 DEF AcknowledgeKeypad
  <2>4. CASE UNCHANGED vars
    BY <2>4 DEF vars
  <2> QED
    BY <2>1, <2>2, <2>3, <2>4 DEF Next, keypad_tick, read_p1, write_p1
<1> QED
  BY <1>1, <1>2, PTL DEF Spec

(* Looking at the keys announces every line that has fallen unseen.        *)
LEMMA LookingAnnounces ==
  ASSUME update_state, Unseen # {}
  PROVE  INTERRUPT_KEYPAD \in interruptFlags'
BY DEF update_state, Unseen, cpu_request_interrupt

(* A press is never swallowed by the program's own accesses, whichever     *)
(* groups it selects and in whatever order it reads, writes and            *)
(* acknowledges.                                                           *)
THEOREM NoPressIsSwallowed == Spec => PressesAreAnnounced
<1> DEFINE Announced == \A line \in Unseen :
                          \/ INTERRUPT_KEYPAD \in interruptFlags'
                          \/ line \in Unseen'
                          \/ pressed' # pressed
<1>1. Next => Announced
  <2> SUFFICES ASSUME Next PROVE Announced
    OBVIOUS
  <2>1. CASE update_state
    BY <2>1, LookingAnnounces
  <2>2. CASE UNCHANGED <<selected, low, pressed>>
    BY <2>2 DEF Unseen, Level
  <2>3. CASE \E keys \in SUBSET Keys : PollInput(keys)
    <3>1. UNCHANGED <<selected, low, interruptFlags>>
      BY <2>3 DEF PollInput
    <3>2. CASE pressed' = pressed
      BY <3>1, <3>2 DEF Unseen, Level
    <3> QED
      BY <3>2
  <2> QED
    BY <2>1, <2>2, <2>3 DEF Next, keypad_tick, read_p1, write_p1, AcknowledgeKeypad
<1>2. [Next]_vars => [Announced]_vars
  <2> HIDE DEF Announced
  <2> QED
    BY <1>1
<1> QED
  BY <1>2, PTL DEF Spec, PressesAreAnnounced

(* A request comes from a key held down in a selected group: releasing     *)
(* keys or selecting other groups requests nothing.                        *)
THEOREM RequestsNeedAHeldKey == Spec => RequestsComeFromHeldKeys
<1> DEFINE FromHeldKeys ==
             INTERRUPT_KEYPAD \in interruptFlags' \ interruptFlags
               => \E group \in selected, line \in Lines : <<group, line>> \in pressed
<1>1. Next => FromHeldKeys
  <2> SUFFICES ASSUME Next, INTERRUPT_KEYPAD \in interruptFlags' \ interruptFlags
               PROVE  \E group \in selected, line \in Lines : <<group, line>> \in pressed
    OBVIOUS
  <2>1. update_state /\ Level \ low # {}
    BY DEF Next, keypad_tick, read_p1, write_p1, update_state, PollInput, AcknowledgeKeypad
  <2>2. PICK line \in Lines : line \in Level
    BY <2>1 DEF Level
  <2> QED
    BY <2>2 DEF Level
<1>2. [Next]_vars => [FromHeldKeys]_vars
  <2> HIDE DEF FromHeldKeys
  <2> QED
    BY <1>1
<1> QED
  BY <1>2, PTL DEF Spec, RequestsComeFromHeldKeys

===============================================================================
