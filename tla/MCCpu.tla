--------------------------------- MODULE MCCpu ---------------------------------
(* Two sources, their handlers, an RST target and a main program of four   *)
(* addresses, one of them with two different non-zero bytes.               *)
EXTENDS Cpu

TwoSources == {INTERRUPT_VBLANK, INTERRUPT_TIMER}
SmallCode == {56, 64, 80, 256, 257, 259}

===============================================================================
