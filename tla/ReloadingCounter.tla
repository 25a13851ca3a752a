---------------------------- MODULE ReloadingCounter ----------------------------
(***************************************************************************)
(* A counter from 0 to Top that, when it passes Top, goes on from a value  *)
(* of the program's choice and makes a request, at that step and no other, *)
(* which stays until it is acknowledged.  Both values may be loaded at any *)
(* moment; how often the counter steps is not said, but it takes no step   *)
(* before it has been set running.                                         *)
(***************************************************************************)
EXTENDS Naturals

CONSTANT Top

VARIABLES count, reload, running, requested

counterVars == <<count, reload, running, requested>>

Init == count = 0 /\ reload = 0 /\ ~running /\ ~requested

Step ==
  /\ running
  /\ \/ count < Top /\ count' = count + 1 /\ UNCHANGED requested
     \/ count = Top /\ count' = reload /\ requested'
  /\ UNCHANGED <<reload, running>>

Load == count' \in 0 .. Top /\ UNCHANGED <<reload, running, requested>>

SetReload == reload' \in 0 .. Top /\ UNCHANGED <<count, running, requested>>

Switch == running' \in BOOLEAN /\ UNCHANGED <<count, reload, requested>>

Acknowledge == ~requested' /\ UNCHANGED <<count, reload, running>>

Next == Step \/ Load \/ SetReload \/ Switch \/ Acknowledge

Spec == Init /\ [][Next]_counterVars

===============================================================================
