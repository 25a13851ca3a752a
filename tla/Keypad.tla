-------------------------------- MODULE Keypad --------------------------------
(***************************************************************************)
(* The keypad: eight keys in two groups that share four output lines.  The *)
(* P1 register holds the groups the program has selected and the lines     *)
(* that read low; it is brought up to date by every access of the program  *)
(* and by keypad_tick, and a line that falls requests the interrupt.       *)
(***************************************************************************)
EXTENDS Interrupts

CONSTANTS Groups, Lines

Keys == Groups \X Lines

VARIABLES
  selected,        (* the groups whose selection bit in P1 is 1            *)
  low,             (* the lines whose output bit in P1 is 0                *)
  pressed,         (* the keys held down in InputState                     *)
  interruptFlags

vars == <<selected, low, pressed, interruptFlags>>

(* P1 starts as 0xcf, and the keys as the uninitialised InputState has them. *)
Init ==
  /\ selected = {}
  /\ low = {}
  /\ pressed \in SUBSET Keys
  /\ interruptFlags = {}

-------------------------------------------------------------------------------
(* The lines that the selected keys pull low. *)
Level == {line \in Lines : \E group \in selected : <<group, line>> \in pressed}

(* Mutant: rising lines request the interrupt too. *)
update_state_AnyEdge ==
  /\ low' = Level
  /\ interruptFlags' = IF Level # low
                       THEN cpu_request_interrupt(interruptFlags, INTERRUPT_KEYPAD)
                       ELSE interruptFlags

update_state ==
  /\ low' = Level
  /\ interruptFlags' = IF Level \ low # {}
                       THEN cpu_request_interrupt(interruptFlags, INTERRUPT_KEYPAD)
                       ELSE interruptFlags

(* Mutant: P1 is brought up to date only when the program looks at it. *)
keypad_tick_Idle == UNCHANGED vars

keypad_tick == update_state /\ UNCHANGED <<selected, pressed>>

(* The program reads P1: the keys are looked at first. *)
read_p1 == update_state /\ UNCHANGED <<selected, pressed>>

(* The program writes P1: the keys are looked at under the old selection,  *)
(* and the lines keep what that showed until the next look.                *)
write_p1(groups) ==
  /\ update_state
  /\ selected' = groups
  /\ UNCHANGED pressed

(* The main loop polls the input. *)
PollInput(keys) == pressed' = keys /\ UNCHANGED <<selected, low, interruptFlags>>

(* The CPU takes the interrupt, or the guest clears its bit. *)
AcknowledgeKeypad ==
  /\ INTERRUPT_KEYPAD \in interruptFlags
  /\ interruptFlags' = interruptFlags \ {INTERRUPT_KEYPAD}
  /\ UNCHANGED <<selected, low, pressed>>

Next ==
  \/ keypad_tick
  \/ read_p1
  \/ \E groups \in SUBSET Groups : write_p1(groups)
  \/ \E keys \in SUBSET Keys : PollInput(keys)
  \/ AcknowledgeKeypad

Spec == Init /\ [][Next]_vars

-------------------------------------------------------------------------------
(* Every variable keeps its type. *)
TypeOK ==
  /\ selected \in SUBSET Groups
  /\ low \in SUBSET Lines
  /\ pressed \in SUBSET Keys
  /\ interruptFlags \in SUBSET {INTERRUPT_KEYPAD}

(* The lines that have fallen since P1 was last brought up to date. *)
Unseen == Level \ low

(* A key press is never swallowed by the program's own accesses: a line    *)
(* that has fallen and was not seen yet is announced by an interrupt, or   *)
(* stays unseen, or rises again because the input changed; re-selecting    *)
(* the groups in between does not lose it.                                 *)
PressesAreAnnounced ==
  [][\A line \in Unseen :
       \/ INTERRUPT_KEYPAD \in interruptFlags'
       \/ line \in Unseen'
       \/ pressed' # pressed]_vars

(* Releasing keys, or selecting groups in which no key is held, requests   *)
(* nothing.                                                                *)
RequestsComeFromHeldKeys ==
  [][(INTERRUPT_KEYPAD \in interruptFlags' \ interruptFlags
        => \E group \in selected, line \in Lines : <<group, line>> \in pressed)]_vars

===============================================================================
