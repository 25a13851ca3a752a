--------------------------- MODULE FreeRunningClock ---------------------------
(***************************************************************************)
(* A clock of Steps periods of Period cycles each, of which only the       *)
(* number of the current period is visible.  It neither gains nor loses a  *)
(* cycle, whatever is added at a time, and clearing the visible number     *)
(* keeps the position inside the period.                                   *)
(***************************************************************************)
EXTENDS Naturals

CONSTANTS Period, Steps, Cycles  (* Cycles: how far one tick moves it      *)

VARIABLE time

Init == time = 0

Tick == time' = (time + Cycles) % (Period * Steps)

Clear == time' = time % Period

Next == Tick \/ Clear

Spec == Init /\ [][Next]_time

===============================================================================
