------------------------------ MODULE FrameClock ------------------------------
(***************************************************************************)
(* What the rest of the emulator may rely on from the picture processor,   *)
(* with no mode and no cycle in it: LY runs through the lines in turn, the *)
(* guest may send it back to 0, and the step onto the first line below the *)
(* screen, and no other, requests VBlank and owes the display a frame.     *)
(***************************************************************************)
EXTENDS Naturals

CONSTANTS Height,   (* number of visible lines                             *)
          NumLines  (* number of lines of a whole frame                    *)

VARIABLES line,       (* LY                                                *)
          requested,  (* VBlank is requested and not acknowledged          *)
          frameDue    (* a frame is finished and not shown yet             *)

clockVars == <<line, requested, frameDue>>

Init == line = 0 /\ ~requested /\ ~frameDue

NextLine ==
  /\ ~frameDue
  /\ line' = IF line + 1 = NumLines THEN 0 ELSE line + 1
  /\ frameDue' <=> line' = Height
  /\ requested' <=> requested \/ line' = Height

Restart ==
  /\ ~frameDue
  /\ line' = 0
  /\ UNCHANGED <<requested, frameDue>>

Show == frameDue /\ ~frameDue' /\ UNCHANGED <<line, requested>>

Acknowledge == requested /\ ~requested' /\ UNCHANGED <<line, frameDue>>

Next == NextLine \/ Restart \/ Show \/ Acknowledge

Spec == Init /\ [][Next]_clockVars

===============================================================================
