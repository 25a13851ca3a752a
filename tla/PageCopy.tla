------------------------------- MODULE PageCopy -------------------------------
(***************************************************************************)
(* What a program may expect of the OAM DMA, with no countdown in it: the  *)
(* page requested last is copied once, all at the same moment, as it is at *)
(* that moment; nothing else changes the OAM, except the program's own     *)
(* stores, a byte or a word at a time.                                     *)
(***************************************************************************)
EXTENDS Integers

CONSTANTS Page, Oam, None

VARIABLES ram,   (* what every page holds, by offset                       *)
          due    (* the page whose copy is requested, or None              *)

copyVars == <<ram, due>>

Init == due = None

Ask == due' \in Page /\ UNCHANGED ram

Copy ==
  /\ due # None
  /\ ram' = [ram EXCEPT ![Oam] = ram[due]]
  /\ due' = None

(* A store may show in several pages, and may change the bank a page shows. *)
Store ==
  /\ \E i \in DOMAIN ram[Oam] :
       \A k \in DOMAIN ram[Oam] \ {i, i + 1} : ram'[Oam][k] = ram[Oam][k]
  /\ UNCHANGED due

Next == Ask \/ Copy \/ Store

Spec == Init /\ [][Next]_copyVars

===============================================================================
