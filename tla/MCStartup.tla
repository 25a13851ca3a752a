-------------------------------- MODULE MCStartup ------------------------------
(* Three arguments after the name of the program, and a file of every kind. *)
EXTENDS Startup

SampleWords == Options \cup {"--unknown", "game"}

SampleFiles ==
  [size : {"fits"}, code : {0, 1, 19}]
    \cup {[size |-> "short", code |-> 0], [size |-> "large", code |-> 1]}

===============================================================================
