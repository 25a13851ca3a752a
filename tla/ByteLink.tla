------------------------------- MODULE ByteLink -------------------------------
(***************************************************************************)
(* What the serial port promises, with no bit in it: a transfer takes the  *)
(* byte that is offered when it starts, and when it ends that very byte is *)
(* logged and the interrupt requested, whatever is offered meanwhile.      *)
(***************************************************************************)
CONSTANTS Bytes, None  (* None: no transfer is under way                   *)

VARIABLES offered,    (* the byte in SB                                    *)
          sending,    (* the byte on its way, or None                      *)
          logged,     (* the last byte written to the log, or None         *)
          requested   (* the serial interrupt is requested                 *)

linkVars == <<offered, sending, logged, requested>>

Init ==
  /\ offered \in Bytes /\ sending = None /\ logged = None
  /\ requested = FALSE

Offer(byte) == offered' = byte /\ UNCHANGED <<sending, logged, requested>>

Begin ==
  /\ sending = None
  /\ sending' = offered
  /\ UNCHANGED <<offered, logged, requested>>

End ==
  /\ sending # None
  /\ logged' = sending
  /\ sending' = None
  /\ requested' = TRUE
  /\ UNCHANGED offered

Acknowledge ==
  /\ requested /\ requested' = FALSE
  /\ UNCHANGED <<offered, sending, logged>>

Next == (\E byte \in Bytes : Offer(byte)) \/ Begin \/ End \/ Acknowledge

Spec == Init /\ [][Next]_linkVars

===============================================================================
