-------------------------------- MODULE Startup --------------------------------
(***************************************************************************)
(* The start of the program and its end: the options, the serial log, the  *)
(* cartridge, the memory and the graphics are set up one after the other,  *)
(* each may fail, and whatever was set up is torn down again from there.   *)
(* The loop in the middle is that of Emulator and may stop at any time.    *)
(***************************************************************************)
EXTENDS Naturals, Sequences

CONSTANTS
  Words,          (* what may stand on the command line: options and paths *)
  MaxArguments,   (* bounds the command line                               *)
  Files,          (* the ROM files: their sizes and type codes             *)
  None

ASSUME StartupAssumption == MaxArguments \in Nat

Options == {"--headless", "--help", "--serial-out", "--small"}
IsOption(word) == word \in Options \cup {"--unknown"}

(* What has to be torn down, in the order it is set up. *)
Order == <<"log", "data", "window", "renderer", "texture">>
Sdl == {"window", "renderer", "texture"}
Resources == {Order[k] : k \in 1 .. 5} \cup {"rom"}

(* The components in the order of their init functions, and the registers  *)
(* each one handles.                                                       *)
Components == <<"ppu", "cpu", "dma", "timer", "serial", "keypad">>
Owned ==
  [ppu    |-> {"LCDC", "STAT", "SCX", "SCY", "LY", "LYC", "BGP", "OBP0", "OBP1", "WX", "WY"},
   cpu    |-> {"IF", "IE"},
   dma    |-> {"DMA"},
   timer  |-> {"DIV", "TIMA", "TMA", "TAC"},
   serial |-> {"SB", "SC"},
   keypad |-> {"P1"}]
Registers == UNION {Owned[Components[k]] : k \in 1 .. 6}

VARIABLES
  argv, i,        (* the command line, and the arguments parsed            *)
  romPath, serialOutPath, exitEarly, headless, smallWindow,
  at,             (* the place in main                                     *)
  statusCode,
  resource,       (* "garbage" until it is assigned, then "null" or "made" *)
  rom,            (* the file that was loaded                              *)
  loadedPath,
  cartridgeType,
  handlers,       (* the context of every register's handler               *)
  left,           (* how many of Order the clean-up still has to tear down *)
  undefined       (* what was used without having been set                 *)

optionVars == <<romPath, serialOutPath, exitEarly, headless, smallWindow>>
cartridgeVars == <<rom, loadedPath, cartridgeType>>
startupVars ==
  <<argv, i, optionVars, at, statusCode, resource, cartridgeVars, handlers, left, undefined>>

CommandLines ==
  {<<>>} \cup UNION {{<<"emulator">> \o line : line \in [1 .. n -> Words]} : n \in 0 .. MaxArguments}

StartupInit ==
  /\ argv \in CommandLines
  /\ i = 0
  /\ romPath = None /\ serialOutPath = None
  /\ exitEarly = FALSE /\ headless = FALSE /\ smallWindow = FALSE
  /\ at = "options"
  /\ statusCode = 0
  /\ resource = [r \in Resources |-> IF r \in {"log", "rom"} THEN "null" ELSE "garbage"]
  /\ rom = None /\ loadedPath = None /\ cartridgeType = {}
  /\ handlers = [register \in Registers |-> "garbage"]
  /\ left = 0
  /\ undefined = {}

-------------------------------------------------------------------------------
(* parse_options: one action per branch of its loop.  The first argument   *)
(* looked at is the name of the program.                                   *)

arg == argv[i + 1]
Parsing == at = "options" /\ i < Len(argv)
afterOptions == <<resource, cartridgeVars, handlers, left, undefined>>

Path ==
  /\ Parsing /\ ~IsOption(arg)
  /\ romPath' = IF romPath = None THEN arg ELSE romPath
  /\ i' = i + 1
  /\ UNCHANGED <<argv, serialOutPath, exitEarly, headless, smallWindow, at, statusCode, afterOptions>>

Switch ==
  /\ Parsing /\ arg \in {"--headless", "--small"}
  /\ headless' = (headless \/ arg = "--headless")
  /\ smallWindow' = (smallWindow \/ arg = "--small")
  /\ i' = i + 1
  /\ UNCHANGED <<argv, romPath, serialOutPath, exitEarly, at, statusCode, afterOptions>>

(* Mutant: the program starts after the help. *)
Help_Continues ==
  /\ Parsing /\ arg = "--help"
  /\ exitEarly' = TRUE
  /\ i' = i + 1
  /\ UNCHANGED <<argv, romPath, serialOutPath, headless, smallWindow, at, statusCode, afterOptions>>

Help ==
  /\ Parsing /\ arg = "--help"
  /\ exitEarly' = TRUE
  /\ at' = "exited"
  /\ UNCHANGED <<argv, i, romPath, serialOutPath, headless, smallWindow, statusCode, afterOptions>>

(* Mutant: the option may be the last argument. *)
SerialOut_Last ==
  /\ Parsing /\ arg = "--serial-out"
  /\ serialOutPath' = IF i + 2 <= Len(argv) THEN argv[i + 2] ELSE None
  /\ i' = i + 2
  /\ UNCHANGED <<argv, romPath, exitEarly, headless, smallWindow, at, statusCode, afterOptions>>

(* The word after the option is its path, whatever it looks like. *)
SerialOut ==
  /\ Parsing /\ arg = "--serial-out" /\ i # Len(argv) - 1
  /\ serialOutPath' = argv[i + 2]
  /\ i' = i + 2
  /\ UNCHANGED <<argv, romPath, exitEarly, headless, smallWindow, at, statusCode, afterOptions>>

BadOption ==
  /\ Parsing
  /\ \/ arg = "--serial-out" /\ i = Len(argv) - 1
     \/ IsOption(arg) /\ arg \notin Options
  /\ statusCode' = 1
  /\ at' = "exited"
  /\ UNCHANGED <<argv, i, optionVars, afterOptions>>

(* Only an empty command line has no path: the name of the program is one. *)
OptionsEnd ==
  /\ at = "options" /\ i >= Len(argv)
  /\ at' = IF romPath = None THEN "exited" ELSE "log"
  /\ statusCode' = IF romPath = None THEN 1 ELSE 0
  /\ UNCHANGED <<argv, i, optionVars, afterOptions>>

parse_options == Path \/ Switch \/ Help \/ SerialOut \/ BadOption \/ OptionsEnd

-------------------------------------------------------------------------------
(* A failed step jumps to the clean-up, at a label from which the first k   *)
(* resources are torn down, that of the failed step among them.             *)
CleanUpFrom(k) == at' = "cleanup" /\ left' = k

(* Mutant: every failure jumps to the label of the cartridge. *)
Fail_Cartridge(k) == CleanUpFrom(2) /\ statusCode' = 1

(* Mutant: the status is forgotten. *)
Fail_Silent(k) == CleanUpFrom(k) /\ UNCHANGED statusCode

Fail(k) == CleanUpFrom(k) /\ statusCode' = 1

Goes(place) == at' = place /\ UNCHANGED <<statusCode, left>>

Has(r, state) == resource' = [resource EXCEPT ![r] = state]

open_serial_log_file ==
  /\ at = "log"
  /\ \/ serialOutPath = None /\ Goes("load") /\ UNCHANGED resource
     \/ serialOutPath # None /\ Has("log", "made") /\ Goes("load")
     \/ serialOutPath # None /\ Has("log", "null") /\ Fail(1)
  /\ UNCHANGED <<argv, i, optionVars, cartridgeVars, handlers, undefined>>

(* The ROM is the first argument on the command line, not the path that     *)
(* was parsed.  The file stays open when there is no memory for it.         *)
FirstArgument == IF Len(argv) > 1 THEN argv[2] ELSE None

LoadFails ==
  /\ at = "load"
  /\ \/ UNCHANGED resource /\ Fail(2)
     \/ /\ FirstArgument # None
        /\ resource' = [resource EXCEPT !["rom"] = "made", !["data"] = "null"]
        /\ Fail(2)
     \/ /\ FirstArgument # None
        /\ resource' = [resource EXCEPT !["rom"] = "made", !["data"] = "made"]
        /\ Goes("aborted")
  /\ UNCHANGED <<argv, i, optionVars, cartridgeVars, handlers, undefined>>

LoadSucceeds ==
  /\ at = "load" /\ FirstArgument # None
  /\ rom' \in Files
  /\ loadedPath' = FirstArgument
  /\ resource' = [resource EXCEPT !["rom"] = "released", !["data"] = "made"]
  /\ Goes("header")
  /\ UNCHANGED <<argv, i, optionVars, cartridgeType, handlers, undefined>>

cartridge_load == LoadFails \/ LoadSucceeds

(* Behind the end of a file that is too short for a header there may be    *)
(* any code.  Of the codes two are known, the others fail an assertion.    *)
Codes == IF rom.size = "short" THEN {0, 1, 19} ELSE {rom.code}
TypeOf(code) == IF code = 0 THEN {"ROM"} ELSE {"ROM", "MBC1"}
IsKnown(code) == code \in {0, 1}

Uses(things, when) == undefined' = IF when THEN undefined \cup things ELSE undefined

cartridge_get_header ==
  /\ at = "header"
  /\ \E code \in Codes : Goes(IF IsKnown(code) THEN "memory" ELSE "aborted")
  /\ Uses({"header"}, rom.size = "short")
  /\ UNCHANGED <<argv, i, optionVars, resource, cartridgeVars, handlers>>

(* The file is copied into the banks, large enough for it or not, and its  *)
(* header is read again.  This step reports no failure.                    *)
memory_init ==
  /\ at = "memory"
  /\ \/ \E code \in Codes :
          IF IsKnown(code)
          THEN /\ cartridgeType' = TypeOf(code)
               /\ Goes("graphics")
               /\ handlers' = [register \in Registers |-> "null"]
          ELSE Goes("aborted") /\ UNCHANGED <<cartridgeType, handlers>>
     \/ rom.size = "large" /\ Goes("crashed") /\ UNCHANGED <<cartridgeType, handlers>>
  /\ Uses({"banks"}, rom.size = "large")
  /\ UNCHANGED <<argv, i, optionVars, resource, rom, loadedPath>>

(* Mutant: without a display nothing is assigned. *)
graphics_init_HeadlessUnset ==
  /\ at = "graphics"
  /\ IF headless THEN UNCHANGED resource
     ELSE resource' = [r \in Resources |-> IF r \in Sdl THEN "made" ELSE resource[r]]
  /\ Goes("ppu")
  /\ UNCHANGED <<argv, i, optionVars, cartridgeVars, handlers, undefined>>

(* The handles are assigned one after the other, up to the one that fails. *)
graphics_init ==
  /\ at = "graphics"
  /\ \/ /\ headless
        /\ resource' = [r \in Resources |-> IF r \in Sdl THEN "null" ELSE resource[r]]
        /\ Goes("ppu")
     \/ ~headless /\ Has("window", "null") /\ Fail(5)
     \/ /\ ~headless
        /\ resource' = [resource EXCEPT !["window"] = "made", !["renderer"] = "null"]
        /\ Fail(5)
     \/ /\ ~headless
        /\ resource' = [resource EXCEPT !["window"] = "made", !["renderer"] = "made",
                                        !["texture"] = "null"]
        /\ Fail(5)
     \/ /\ ~headless
        /\ resource' = [r \in Resources |-> IF r \in Sdl THEN "made" ELSE resource[r]]
        /\ Goes("ppu")
  /\ UNCHANGED <<argv, i, optionVars, cartridgeVars, handlers, undefined>>

(* A component asks to handle its registers; no other may have done so.    *)
RegisterHandlers ==
  \E k \in 1 .. 6 :
    LET component == Components[k]
        free == \A register \in Owned[component] : handlers[register] = "null" IN
    /\ at = component
    /\ handlers' = [register \in Registers |->
                      IF free /\ register \in Owned[component] THEN component
                      ELSE handlers[register]]
    /\ Goes(IF ~free THEN "aborted" ELSE IF k < 6 THEN Components[k + 1] ELSE "loop")
    /\ UNCHANGED <<argv, i, optionVars, resource, cartridgeVars, undefined>>

(* The loop ends; how, is said in Emulator. *)
LoopEnds ==
  /\ at = "loop"
  /\ CleanUpFrom(5)
  /\ UNCHANGED <<argv, i, optionVars, statusCode, resource, cartridgeVars, handlers, undefined>>

-------------------------------------------------------------------------------
(* Mutant: the renderer is torn down before its texture. *)
Last_Swapped == <<"log", "data", "window", "texture", "renderer">>[left]

Last == Order[left]

(* Tearing down releases what was made and leaves alone what is null.  A   *)
(* handle that was never assigned may be null by chance; if not, releasing *)
(* it ends the program, or not.                                            *)
TearDown ==
  /\ at = "cleanup" /\ left > 0
  /\ IF resource[Last] = "made" THEN Has(Last, "released") ELSE UNCHANGED resource
  /\ left' = left - 1
  /\ Uses({Last}, resource[Last] = "garbage")
  /\ \/ UNCHANGED at
     \/ resource[Last] = "garbage" /\ at' = "crashed"
  /\ UNCHANGED <<argv, i, optionVars, statusCode, cartridgeVars, handlers>>

Return ==
  /\ at = "cleanup" /\ left = 0
  /\ at' = "exited"
  /\ UNCHANGED <<argv, i, optionVars, statusCode, resource, cartridgeVars, handlers, left, undefined>>

Step ==
  \/ parse_options
  \/ open_serial_log_file \/ cartridge_load \/ cartridge_get_header \/ memory_init
  \/ graphics_init \/ RegisterHandlers
  \/ TearDown \/ Return

StartupNext == Step \/ LoopEnds

StartupSpec == StartupInit /\ [][StartupNext]_startupVars

-------------------------------------------------------------------------------
Owners == {Components[k] : k \in 1 .. 6}

(* The arguments are read up to the last one and no further, and every     *)
(* resource and handler is in one of its states.                           *)
StartupTypeOK ==
  /\ i \in 0 .. Len(argv)
  /\ statusCode \in {0, 1}
  /\ resource \in [Resources -> {"garbage", "null", "made", "released"}]
  /\ handlers \in [Registers -> {"garbage", "null"} \cup Owners]
  /\ cartridgeType \in SUBSET {"ROM", "MBC1"}
  /\ left \in 0 .. 5
  /\ undefined \subseteq Resources \cup {"header", "banks"}

(* Wherever the start fails and however the loop ends, what was made is    *)
(* released before main returns, except the file of a ROM for which there  *)
(* was no memory.                                                          *)
NothingIsLeaked ==
  at = "exited" =>
    \A r \in Resources : resource[r] = "made" => r = "rom" /\ resource["data"] = "null"

(* What was made later is released earlier: the texture before its         *)
(* renderer, that before its window, and the log last.                     *)
ReleasedInReverse ==
  \A j, k \in 1 .. 5 :
    j < k /\ resource[Order[j]] = "released" => resource[Order[k]] # "made"

(* The clean-up undoes all that was done and nothing else, in reverse.     *)
CleanUpReverses == NothingIsLeaked /\ ReleasedInReverse

(* The clean-up uses a handle that was never assigned in two cases only:   *)
(* the ROM could not be opened, or the window or its renderer could not be *)
(* created.  A program that ran its loop is never ended by its clean-up.   *)
CleanUpIsDefined ==
  /\ undefined \cap (Resources \ {"data", "renderer", "texture"}) = {}
  /\ "data" \in undefined => statusCode = 1 /\ rom = None
  /\ undefined \cap Sdl # {} => statusCode = 1 /\ resource["texture"] = "garbage"
  /\ at = "crashed" => undefined # {}

(* The exit status is 0 if the help was asked for or the loop was reached, *)
(* with every component initialised, and 1 if anything failed before.  The *)
(* start is aborted only by a ROM it cannot read or does not know.         *)
ExitStatusTells ==
  /\ at = "exited" => (statusCode = 0 <=> exitEarly \/ handlers["P1"] = "keypad")
  /\ at = "aborted" => cartridgeType = {}

(* Nothing is opened, and no old log overwritten, on a command line with a *)
(* wrong option anywhere in it or a request for help: each one is noticed, *)
(* unless it stands where the path of the log is due.                      *)
OptionsAreCheckedFirst ==
  at \notin {"options", "exited"} =>
    \A k \in 1 .. Len(argv) :
      argv[k] \in {"--help", "--unknown"} => k > 1 /\ argv[k - 1] = "--serial-out"

===============================================================================
