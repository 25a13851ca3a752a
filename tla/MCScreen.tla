-------------------------------- MODULE MCScreen -------------------------------
(* A screen of three lines and five of its columns; three objects of which a *)
(* line has room for two.                                                    *)
EXTENDS Screen

SampleColumns == {0, 1, 4, 7, 159}

(* Every byte differs from its neighbours, and colour 0 is not rare. *)
SampleVram == [address \in VramIndex |-> (address * 37 + address \div 16) % 256]

Object(y0, x0, pattern, attributes) == <<y0, x0, pattern, attributes>>

(* Small and tall objects on and beside the lines, on top of each other.   *)
SampleOams ==
  { [i \in 0 .. 2 |-> CASE i = 0 -> Object(16, 9, 1, 0)
                        [] i = 1 -> Object(17, 8, 2, 128)
                        [] i = 2 -> Object(15, 8, 255, 80)],
    [i \in 0 .. 2 |-> CASE i = 0 -> Object(25, 8, 255, 64)
                        [] i = 1 -> Object(18, 5, 7, 32)
                        [] i = 2 -> Object(18, 5, 8, 16)] }

SampleWrites ==
  {<<"LCDC", 147>>, <<"LCDC", 134>>, <<"LCDC", 139>>, <<"SCX", 253>>, <<"SCY", 254>>,
   <<"BGP", 228>>, <<"OBP0", 99>>, <<"OBP1", 228>>, <<"STAT", 255>>}

===============================================================================
