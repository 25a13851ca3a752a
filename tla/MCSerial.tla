------------------------------- MODULE MCSerial -------------------------------
(* Two bytes that no rotation maps onto each other or onto themselves. *)
EXTENDS Serial

TwoBytes == {[i \in Bit |-> IF i = 0 THEN 1 ELSE 0],
             [i \in Bit |-> IF i \in {1, 2, 6} THEN 1 ELSE 0]}

===============================================================================
