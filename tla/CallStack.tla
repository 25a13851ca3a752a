------------------------------- MODULE CallStack -------------------------------
(***************************************************************************)
(* The stack of a program as its author thinks of it: words, not bytes and *)
(* addresses.  An interrupt saves exactly the place it interrupted, a call *)
(* the place after it, and a return resumes exactly what is on top; no     *)
(* other step moves or changes a saved word.                               *)
(***************************************************************************)
EXTENDS Naturals, Sequences

CONSTANT Vectors  (* where interrupt handlers start                        *)

VARIABLES pc,
          frames,   (* the saved words, the last one saved first           *)
          ime       (* interrupts are enabled                              *)

stackVars == <<pc, frames, ime>>

After(length) == (pc + length) % 65536

Init == frames = <<>> /\ ime = TRUE

Interrupt ==
  /\ ime /\ ime' = FALSE
  /\ frames' = <<pc>> \o frames
  /\ pc' \in Vectors

(* CALL a16 is three bytes long, RST one. *)
Call ==
  /\ \E length \in {1, 3} : frames' = <<After(length)>> \o frames
  /\ UNCHANGED ime

Push ==
  /\ frames' # <<>> /\ Tail(frames') = frames
  /\ pc' = After(1)
  /\ UNCHANGED ime

(* RETI enables interrupts, RET leaves them alone. *)
Return ==
  /\ frames # <<>> /\ frames' = Tail(frames)
  /\ pc' = Head(frames)
  /\ ime' \in {ime, TRUE}

Drop ==
  /\ frames # <<>> /\ frames' = Tail(frames)
  /\ pc' = After(1)
  /\ UNCHANGED ime

Run == UNCHANGED frames /\ ime' \in BOOLEAN

Next == Interrupt \/ Call \/ Push \/ Return \/ Drop \/ Run

Spec == Init /\ [][Next]_stackVars

===============================================================================
