------------------------------ MODULE MCSerialLog ------------------------------
(***************************************************************************)
(* The serial port at the pace of the main loop, which ticks it after      *)
(* every instruction, with a history variable: the byte SB held when the   *)
(* guest started the present transfer by the internal clock, the one the   *)
(* port can serve.                                                         *)
(***************************************************************************)
EXTENDS MCSerial

VARIABLES started, guestTurn

historyVars == <<vars, started, guestTurn>>

HistoryInit == Init /\ started = NoByte /\ guestTurn = TRUE

Tick ==
  /\ guestTurn' = TRUE
  /\ \/ (WaitForStep \/ ShiftOneOfMany) /\ UNCHANGED started
     \/ CompleteTransfer /\ started' = NoByte

Idle == ~Active /\ ~guestTurn /\ guestTurn' = TRUE /\ UNCHANGED <<vars, started>>

(* A start during a transfer the internal clock already drives asks for    *)
(* nothing new; any other start with that clock does.                      *)
WriteSc ==
  \E start, internal \in BOOLEAN :
    /\ guestTurn /\ guestTurn' = FALSE
    /\ write_sc(start, internal)
    /\ started' = IF start /\ internal /\ ~(transferInProgress /\ internalClockSelect)
                  THEN dataToSend ELSE started

WriteSb ==
  \E byte \in SentBytes :
    /\ guestTurn /\ guestTurn' = FALSE
    /\ write_sb(byte)
    /\ UNCHANGED started

HistorySpec == HistoryInit /\ [][Tick \/ Idle \/ WriteSc \/ WriteSb]_historyVars

(* What the usage text says of the log, that the bytes written to the link *)
(* port go there: the byte a completed transfer logs is the one SB held    *)
(* when the guest started it.                                              *)
LogsTheByteStarted ==
  [][CompleteTransfer /\ started # NoByte => serialLog' = started]_historyVars

===============================================================================
