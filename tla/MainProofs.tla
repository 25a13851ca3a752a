------------------------------- MODULE MainProofs -------------------------------
(***************************************************************************)
(* Proofs about main: its start and its clean-up, by an invariant that     *)
(* says for each place of main what is set up there, and its loop, in      *)
(* which the components share the IF register and the keys.  They hold for *)
(* command lines of any length, any files, any guest, any sessions and     *)
(* queues of events of any length.                                         *)
(***************************************************************************)
EXTENDS Emulator, Startup, FiniteSetTheorems, SequenceTheorems, TLAPS

-------------------------------------------------------------------------------
(* The start and the clean-up.                                             *)

(* What the start may have made when it has come to a place.               *)
Before == {"options", "log", "load"}
Loaded == {"header", "memory", "graphics"}
Ready == Owners \cup {"loop"}
Ended == {"exited", "aborted", "crashed"}

PlaceIsKnown == at \in Before \cup Loaded \cup Ready \cup Ended \cup {"cleanup"}

LogMayBeOpen == resource["log"] \in {"null", "made"}

SetUpByPlace ==
  /\ at \in {"options", "log"} => resource["log"] = "null"
  /\ at \in Before =>
       /\ LogMayBeOpen /\ resource["rom"] = "null" /\ rom = None
       /\ \A r \in Sdl \cup {"data"} : resource[r] = "garbage"
  /\ at \in Loaded \cup Ready =>
       LogMayBeOpen /\ resource["rom"] = "released" /\ resource["data"] = "made"
  /\ at \in Loaded => \A r \in Sdl : resource[r] = "garbage"
  /\ at \in Ready => \A r \in Sdl : resource[r] \in {"null", "made"}

(* During the clean-up: above left nothing is made, below it nothing       *)
(* released, and what was never assigned is what the failed step says.     *)
Unwinding ==
  at = "cleanup" =>
    /\ \A k \in 1 .. 5 : IF k <= left THEN resource[Order[k]] # "released"
                                      ELSE resource[Order[k]] # "made"
    /\ resource["rom"] = "made" => resource["data"] = "null"
    /\ resource["log"] # "garbage"
    /\ left >= 2 /\ resource["data"] = "garbage" => statusCode = 1 /\ rom = None
    /\ left >= 3 => resource["window"] # "garbage"
    /\ left >= 4 /\ resource["renderer"] = "garbage" =>
         statusCode = 1 /\ resource["texture"] = "garbage"
    /\ left >= 5 /\ resource["texture"] = "garbage" => statusCode = 1

NothingUndefined ==
  at \in Before \cup Loaded \cup Ready => undefined \subseteq {"header", "banks"}

(* The components before the one that is initialised handle their          *)
(* registers, and nobody handles the others.                               *)
HandledBy(component) == \A register \in Owned[component] : handlers[register] = component
Unhandled(component) == \A register \in Owned[component] : handlers[register] = "null"

HandlersByPlace ==
  /\ at \in Before \cup Loaded =>
       IF at = "graphics" THEN handlers = [register \in Registers |-> "null"]
       ELSE handlers = [register \in Registers |-> "garbage"]
  /\ \A k \in 1 .. 6 : at = Components[k] =>
       \A j \in 1 .. 6 : IF j < k THEN HandledBy(Components[j]) ELSE Unhandled(Components[j])
  /\ at = "loop" => \A j \in 1 .. 6 : HandledBy(Components[j])

StatusByPlace ==
  /\ at \in Before \cup Loaded \cup Ready => statusCode = 0 /\ ~exitEarly
  /\ at = "cleanup" => ~exitEarly /\ (statusCode = 0 <=> handlers["P1"] = "keypad")
  /\ at \in Before \cup {"header", "memory"} => cartridgeType = {}

(* Every argument that was parsed and is a wrong option or a request for   *)
(* help stood where a path was due.                                        *)
IsDue(k) == argv[k] \in {"--help", "--unknown"} => k > 1 /\ argv[k - 1] = "--serial-out"

ParsedSoFar ==
  /\ at # "exited" => \A k \in 1 .. i : IsDue(k)
  /\ at \notin {"options", "exited"} => i = Len(argv)

StartupInv ==
  /\ StartupTypeOK /\ PlaceIsKnown /\ SetUpByPlace /\ Unwinding /\ NothingUndefined
  /\ HandlersByPlace /\ StatusByPlace /\ ParsedSoFar
  /\ CleanUpReverses /\ CleanUpIsDefined /\ ExitStatusTells

(* The resources, spelled out.                                             *)
LEMMA OrderNames ==
  /\ Order[1] = "log" /\ Order[2] = "data" /\ Order[3] = "window"
  /\ Order[4] = "renderer" /\ Order[5] = "texture"
  /\ Resources = {"log", "data", "window", "renderer", "texture", "rom"}
  /\ \A k \in 1 .. 5 : Order[k] \in Resources
BY DEF Order, Resources

(* The components, spelled out.                                            *)
LEMMA ComponentNames ==
  /\ Components[1] = "ppu" /\ Components[2] = "cpu" /\ Components[3] = "dma"
  /\ Components[4] = "timer" /\ Components[5] = "serial" /\ Components[6] = "keypad"
  /\ Owners = {"ppu", "cpu", "dma", "timer", "serial", "keypad"}
BY DEF Components, Owners

(* No component is initialised twice.                                      *)
LEMMA ComponentsDiffer == \A j, k \in 1 .. 6 : Components[j] = Components[k] => j = k
BY ComponentNames

(* No register belongs to two components.                                  *)
LEMMA Owning ==
  /\ \A k \in 1 .. 6 : Components[k] \in DOMAIN Owned
  /\ \A k \in 1 .. 6 : Owned[Components[k]] \subseteq Registers
  /\ \A j, k \in 1 .. 6 :
       \A register \in Owned[Components[j]] : register \in Owned[Components[k]] => j = k
  /\ "P1" \in Owned["keypad"] /\ "P1" \in Registers
<1>1. \A k \in 1 .. 6 : Owned[Components[k]] \subseteq Registers
  BY DEF Registers
<1>2. \A j, k \in 1 .. 6 :
       \A register \in Owned[Components[j]] : register \in Owned[Components[k]] => j = k
  BY ComponentNames DEF Owned
<1>3. "P1" \in Owned["keypad"] /\ \A k \in 1 .. 6 : Components[k] \in DOMAIN Owned
  BY ComponentNames DEF Owned
<1>4. "P1" \in Registers
  BY <1>1, <1>3, ComponentNames
<1> QED
  BY <1>1, <1>2, <1>3, <1>4

(* A command line has a length.                                            *)
LEMMA ArgvIsSeq == ASSUME NEW line \in CommandLines PROVE Len(line) \in Nat
<1>1. CASE line = <<>>
  BY <1>1
<1>2. CASE line # <<>>
  <2>0. PICK n \in 0 .. MaxArguments :
          \E words \in [1 .. n -> Words] : line = <<"emulator">> \o words
    BY <1>2 DEF CommandLines
  <2>1. PICK words \in [1 .. n -> Words] : line = <<"emulator">> \o words
    BY <2>0
  <2>2. words \in Seq(Words) /\ <<"emulator">> \in Seq({"emulator"})
    BY <2>1, StartupAssumption DEF StartupAssumption
  <2>3. words \in Seq(Words \cup {"emulator"}) /\ <<"emulator">> \in Seq(Words \cup {"emulator"})
    BY <2>2
  <2> QED
    BY <2>1, <2>3, ConcatProperties
<1> QED
  BY <1>1, <1>2

(* Before the start nothing is set up.                                     *)
LEMMA StartupInitInv == ASSUME StartupInit PROVE StartupInv /\ Len(argv) \in Nat
<1> USE DEF StartupInit
<1>1. StartupTypeOK /\ Len(argv) \in Nat
  BY ArgvIsSeq, OrderNames DEF StartupTypeOK
<1>2. PlaceIsKnown
  BY DEF PlaceIsKnown, Before
<1>3. SetUpByPlace /\ Unwinding
  BY OrderNames, ComponentNames
  DEF SetUpByPlace, Before, Loaded, Ready, Unwinding, LogMayBeOpen, Sdl
<1>4. NothingUndefined /\ HandlersByPlace /\ StatusByPlace
  BY ComponentNames DEF NothingUndefined, HandlersByPlace, StatusByPlace, Before, Loaded, Ready
<1>5. ParsedSoFar
  BY DEF ParsedSoFar
<1>6. CleanUpReverses /\ CleanUpIsDefined /\ ExitStatusTells
  BY OrderNames
  DEF CleanUpReverses, CleanUpIsDefined, ExitStatusTells, NothingIsLeaked, ReleasedInReverse, Sdl
<1> QED
  BY <1>1, <1>2, <1>3, <1>4, <1>5, <1>6 DEF StartupInv

(* Parsing touches nothing that is set up.                                 *)
LEMMA ParsingKeepsInv ==
  ASSUME StartupInv, Len(argv) \in Nat, parse_options
  PROVE  StartupInv' /\ argv' = argv
<1> USE DEF StartupInv
<1>1. at = "options" /\ i \in 0 .. Len(argv) /\ argv' = argv /\ UNCHANGED afterOptions
  BY DEF StartupTypeOK, parse_options, Path, Switch, Help, SerialOut, BadOption, OptionsEnd, Parsing
<1>2. statusCode = 0 /\ ~exitEarly
  BY <1>1 DEF StatusByPlace, Before
<1>3. /\ at' \in {"options", "log", "exited"} /\ statusCode' \in {0, 1}
      /\ i' \in 0 .. Len(argv)
      /\ at' # "exited" => statusCode' = 0 /\ ~exitEarly'
      /\ at' = "exited" => (statusCode' = 0 <=> exitEarly')
  <2>1. CASE Path \/ Switch \/ Help \/ SerialOut
    BY <1>1, <1>2, <2>1 DEF Path, Switch, Help, SerialOut, Parsing
  <2>2. CASE BadOption \/ OptionsEnd
    BY <1>1, <1>2, <2>2 DEF BadOption, OptionsEnd, optionVars, Parsing
  <2> QED
    BY <2>1, <2>2 DEF parse_options
<1>4. /\ resource' = resource /\ handlers' = handlers /\ left' = left /\ undefined' = undefined
      /\ rom' = rom /\ cartridgeType' = cartridgeType
  BY <1>1 DEF afterOptions, cartridgeVars
<1>5. StartupTypeOK' /\ PlaceIsKnown'
  BY <1>1, <1>3, <1>4 DEF StartupTypeOK, PlaceIsKnown, Before, Ended
<1>6. SetUpByPlace' /\ Unwinding' /\ NothingUndefined'
  BY <1>1, <1>3, <1>4, ComponentNames
  DEF SetUpByPlace, Unwinding, NothingUndefined, Before, Loaded, Ready, LogMayBeOpen
<1>7. HandlersByPlace' /\ StatusByPlace'
  BY <1>1, <1>3, <1>4, ComponentNames
  DEF HandlersByPlace, StatusByPlace, Before, Loaded, Ready
<1>8. ParsedSoFar'
  <2> USE DEF ParsedSoFar, IsDue, arg, Parsing
  <2>1. CASE Path \/ Switch
    BY <1>1, <2>1 DEF Path, Switch, IsOption, Options
  <2>2. CASE Help \/ BadOption
    BY <1>1, <2>2 DEF Help, BadOption
  <2>3. CASE SerialOut
    BY <1>1, <2>3 DEF SerialOut
  <2>4. CASE OptionsEnd
    BY <1>1, <2>4 DEF OptionsEnd, optionVars
  <2> QED
    BY <2>1, <2>2, <2>3, <2>4 DEF parse_options
<1>9. CleanUpReverses' /\ CleanUpIsDefined'
  BY <1>1, <1>3, <1>4, OrderNames
  DEF SetUpByPlace, NothingUndefined, Before, CleanUpReverses, NothingIsLeaked, ReleasedInReverse,
      CleanUpIsDefined, Sdl
<1>10. ExitStatusTells'
  BY <1>1, <1>3, <1>4, Owning DEF HandlersByPlace, Before, ExitStatusTells
<1> QED
  BY <1>1, <1>5, <1>6, <1>7, <1>8, <1>9, <1>10

(* Opening the log, loading the ROM and setting up the memory and the      *)
(* display: each succeeds, fails or ends the program.                      *)
LEMMA LogKeepsInv ==
  ASSUME StartupInv, open_serial_log_file
  PROVE  StartupInv'
<1> USE DEF StartupInv
<1>1. at = "log" /\ UNCHANGED <<argv, i, optionVars, cartridgeVars, handlers, undefined>>
  BY DEF open_serial_log_file
<1>2. \/ at' = "load" /\ UNCHANGED <<statusCode, left>>
      \/ at' = "cleanup" /\ left' = 1 /\ statusCode' = 1
  BY DEF open_serial_log_file, Goes, Fail, CleanUpFrom
<1>3. \E state \in {"null", "made"} : resource' = [resource EXCEPT !["log"] = state]
  BY <1>1, OrderNames DEF open_serial_log_file, Has, SetUpByPlace, StartupTypeOK
<1>4. /\ rom = None /\ rom' = None /\ cartridgeType' = cartridgeType /\ exitEarly' = exitEarly
      /\ statusCode = 0 /\ ~exitEarly /\ undefined' = undefined /\ handlers' = handlers
  BY <1>1 DEF cartridgeVars, optionVars, SetUpByPlace, StatusByPlace, Before
<1>5. resource["log"] = "null" /\ resource["rom"] = "null"
      /\ \A r \in Sdl \cup {"data"} : resource[r] = "garbage"
  BY <1>1 DEF SetUpByPlace, Before
<1>6. StartupTypeOK' /\ PlaceIsKnown' /\ ParsedSoFar'
  BY <1>1, <1>2, <1>3, <1>4, OrderNames
  DEF StartupTypeOK, PlaceIsKnown, Before, ParsedSoFar, IsDue
<1>7. SetUpByPlace' /\ Unwinding' /\ NothingUndefined'
  BY <1>1, <1>2, <1>3, <1>4, <1>5, OrderNames, ComponentNames
  DEF StartupTypeOK, SetUpByPlace, Unwinding, NothingUndefined, Before, Loaded, Ready,
      LogMayBeOpen, Sdl
<1>8. HandlersByPlace' /\ StatusByPlace'
  BY <1>1, <1>2, <1>4, ComponentNames, Owning
  DEF HandlersByPlace, StatusByPlace, Before, Loaded, Ready
<1>9. CleanUpReverses' /\ CleanUpIsDefined' /\ ExitStatusTells'
  BY <1>1, <1>2, <1>3, <1>4, <1>5, OrderNames
  DEF StartupTypeOK, NothingUndefined, Before, CleanUpReverses, NothingIsLeaked, ReleasedInReverse,
      CleanUpIsDefined, ExitStatusTells, Sdl
<1> QED
  BY <1>6, <1>7, <1>8, <1>9

(* The file is read, or is not: then only the log is closed, or all stops. *)
LEMMA LoadKeepsInv ==
  ASSUME StartupInv, cartridge_load
  PROVE  StartupInv'
<1> USE DEF StartupInv
<1>1. at = "load" /\ UNCHANGED <<argv, i, optionVars, cartridgeType, handlers, undefined>>
  BY DEF cartridge_load, LoadFails, LoadSucceeds, cartridgeVars
<1>2. /\ rom = None /\ cartridgeType = {} /\ statusCode = 0 /\ ~exitEarly /\ ~exitEarly'
      /\ LogMayBeOpen /\ resource["rom"] = "null"
      /\ \A r \in Sdl \cup {"data"} : resource[r] = "garbage"
      /\ undefined \subseteq {"header", "banks"}
  BY <1>1 DEF SetUpByPlace, StatusByPlace, NothingUndefined, Before, optionVars
<1>3. /\ handlers = [register \in Registers |-> "garbage"] /\ handlers["P1"] = "garbage"
      /\ handlers' = handlers
  BY <1>1, Owning DEF HandlersByPlace, Before
<1>4. \/ /\ at' = "cleanup" /\ left' = 2 /\ statusCode' = 1 /\ rom' = None
         /\ \/ resource' = resource
            \/ resource' = [resource EXCEPT !["rom"] = "made", !["data"] = "null"]
      \/ /\ at' = "aborted" /\ UNCHANGED <<statusCode, left>> /\ rom' = None
         /\ resource' = [resource EXCEPT !["rom"] = "made", !["data"] = "made"]
      \/ /\ at' = "header" /\ UNCHANGED <<statusCode, left>>
         /\ resource' = [resource EXCEPT !["rom"] = "released", !["data"] = "made"]
  BY <1>2 DEF cartridge_load, LoadFails, LoadSucceeds, Goes, Fail, CleanUpFrom, cartridgeVars
<1>5. StartupTypeOK' /\ PlaceIsKnown' /\ ParsedSoFar'
  BY <1>1, <1>2, <1>4, OrderNames
  DEF StartupTypeOK, PlaceIsKnown, Before, Loaded, Ended, ParsedSoFar, IsDue
<1>6. SetUpByPlace' /\ Unwinding' /\ NothingUndefined'
  BY <1>1, <1>2, <1>4, OrderNames, ComponentNames
  DEF StartupTypeOK, SetUpByPlace, Unwinding, NothingUndefined, Before, Loaded, Ready,
      LogMayBeOpen, Sdl
<1>7. HandlersByPlace' /\ StatusByPlace'
  BY <1>1, <1>2, <1>3, <1>4, ComponentNames
  DEF HandlersByPlace, StatusByPlace, Before, Loaded, Ready
<1>8. CleanUpReverses' /\ CleanUpIsDefined' /\ ExitStatusTells'
  BY <1>1, <1>2, <1>4, OrderNames
  DEF StartupTypeOK, LogMayBeOpen, CleanUpReverses, NothingIsLeaked, ReleasedInReverse,
      CleanUpIsDefined, ExitStatusTells, Sdl
<1> QED
  BY <1>5, <1>6, <1>7, <1>8

(* The header and the memory: the program goes on, aborts or crashes.      *)
LEMMA HeaderKeepsInv ==
  ASSUME StartupInv, cartridge_get_header
  PROVE  StartupInv'
<1> USE DEF StartupInv
<1>1. /\ at = "header" /\ at' \in {"memory", "aborted"}
      /\ UNCHANGED <<argv, i, optionVars, statusCode, left, resource, cartridgeVars, handlers>>
      /\ undefined' \in {undefined, undefined \cup {"header"}}
  BY DEF cartridge_get_header, Goes, Uses
<1>2. /\ cartridgeType = {} /\ statusCode = 0 /\ ~exitEarly /\ ~exitEarly'
      /\ undefined \subseteq {"header", "banks"} /\ cartridgeType' = {} /\ rom' = rom
  BY <1>1 DEF StatusByPlace, NothingUndefined, Before, Loaded, optionVars, cartridgeVars
<1>3. StartupTypeOK' /\ PlaceIsKnown' /\ ParsedSoFar'
  BY <1>1, <1>2 DEF StartupTypeOK, PlaceIsKnown, Before, Loaded, Ended, ParsedSoFar, IsDue
<1>4. SetUpByPlace' /\ Unwinding' /\ NothingUndefined'
  BY <1>1, <1>2, ComponentNames
  DEF SetUpByPlace, Unwinding, NothingUndefined, Before, Loaded, Ready, LogMayBeOpen
<1>5. HandlersByPlace' /\ StatusByPlace'
  BY <1>1, <1>2, ComponentNames DEF HandlersByPlace, StatusByPlace, Before, Loaded, Ready
<1>6. CleanUpReverses' /\ CleanUpIsDefined' /\ ExitStatusTells'
  BY <1>1, <1>2, OrderNames
  DEF CleanUpReverses, NothingIsLeaked, ReleasedInReverse, CleanUpIsDefined, ExitStatusTells, Sdl
<1> QED
  BY <1>3, <1>4, <1>5, <1>6

(* The banks are filled, and no register has a handler yet.                *)
LEMMA MemoryKeepsInv ==
  ASSUME StartupInv, memory_init
  PROVE  StartupInv'
<1> USE DEF StartupInv
<1>1. /\ at = "memory"
      /\ UNCHANGED <<argv, i, optionVars, statusCode, left, resource, rom>>
      /\ undefined' \in {undefined, undefined \cup {"banks"}}
      /\ \/ /\ at' = "graphics" /\ cartridgeType' \in SUBSET {"ROM", "MBC1"}
            /\ handlers' = [register \in Registers |-> "null"]
         \/ at' = "aborted" /\ UNCHANGED <<cartridgeType, handlers>>
         \/ at' = "crashed" /\ UNCHANGED <<cartridgeType, handlers>> /\ "banks" \in undefined'
  BY DEF memory_init, Goes, Uses, TypeOf
<1>2. /\ cartridgeType = {} /\ statusCode = 0 /\ ~exitEarly /\ ~exitEarly'
      /\ undefined \subseteq {"header", "banks"}
  BY <1>1 DEF StatusByPlace, NothingUndefined, Before, Loaded, optionVars
<1>3. StartupTypeOK' /\ PlaceIsKnown' /\ ParsedSoFar'
  BY <1>1, <1>2 DEF StartupTypeOK, PlaceIsKnown, Before, Loaded, Ended, ParsedSoFar, IsDue
<1>4. SetUpByPlace' /\ Unwinding' /\ NothingUndefined'
  BY <1>1, <1>2, ComponentNames
  DEF SetUpByPlace, Unwinding, NothingUndefined, Before, Loaded, Ready, LogMayBeOpen
<1>5. HandlersByPlace' /\ StatusByPlace'
  BY <1>1, <1>2, ComponentNames DEF HandlersByPlace, StatusByPlace, Before, Loaded, Ready
<1>6. CleanUpReverses' /\ CleanUpIsDefined' /\ ExitStatusTells'
  BY <1>1, <1>2, OrderNames
  DEF CleanUpReverses, NothingIsLeaked, ReleasedInReverse, CleanUpIsDefined, ExitStatusTells, Sdl
<1> QED
  BY <1>3, <1>4, <1>5, <1>6

(* The window, the renderer and the texture, of which the first may fail.  *)
LEMMA GraphicsKeepsInv ==
  ASSUME StartupInv, graphics_init
  PROVE  StartupInv'
<1> USE DEF StartupInv
<1>1. at = "graphics" /\ UNCHANGED <<argv, i, optionVars, cartridgeVars, handlers, undefined>>
  BY DEF graphics_init
<1>2. /\ statusCode = 0 /\ ~exitEarly /\ ~exitEarly' /\ LogMayBeOpen
      /\ resource["rom"] = "released" /\ resource["data"] = "made"
      /\ \A r \in Sdl : resource[r] = "garbage"
      /\ undefined' \subseteq {"header", "banks"} /\ rom' = rom /\ undefined' = undefined
  BY <1>1 DEF SetUpByPlace, StatusByPlace, NothingUndefined, Loaded, optionVars, cartridgeVars
<1>3. /\ handlers = [register \in Registers |-> "null"] /\ handlers' = handlers
      /\ handlers["P1"] = "null"
  BY <1>1, Owning DEF HandlersByPlace, Loaded
<1>4. /\ resource' \in [Resources -> {"garbage", "null", "made", "released"}]
      /\ \A r \in Resources \ Sdl : resource'[r] = resource[r]
      /\ \A r \in Sdl : resource'[r] # "released"
      /\ \/ at' = "ppu" /\ UNCHANGED <<statusCode, left>>
            /\ \A r \in Sdl : resource'[r] \in {"null", "made"}
         \/ at' = "cleanup" /\ left' = 5 /\ statusCode' = 1 /\ resource'["window"] # "garbage"
            /\ (resource'["renderer"] = "garbage" => resource'["texture"] = "garbage")
  BY <1>2, OrderNames DEF StartupTypeOK, graphics_init, Has, Goes, Fail, CleanUpFrom, Sdl
<1>5. StartupTypeOK' /\ PlaceIsKnown' /\ ParsedSoFar'
  BY <1>1, <1>4, ComponentNames
  DEF StartupTypeOK, PlaceIsKnown, Before, Loaded, Ready, Ended, ParsedSoFar, IsDue, cartridgeVars
<1>6. SetUpByPlace' /\ Unwinding' /\ NothingUndefined'
  BY <1>2, <1>4, OrderNames, ComponentNames
  DEF StartupTypeOK, SetUpByPlace, Unwinding, NothingUndefined, Before, Loaded, Ready,
      LogMayBeOpen, Sdl
<1>7. HandlersByPlace' /\ StatusByPlace'
  <2>1. \A k \in 1 .. 6 : Unhandled(Components[k])'
    BY <1>3, Owning DEF Unhandled
  <2> QED
    BY <1>2, <1>3, <1>4, <2>1, ComponentNames
    DEF HandlersByPlace, StatusByPlace, Before, Loaded, Ready
<1>8. CleanUpReverses' /\ CleanUpIsDefined' /\ ExitStatusTells'
  BY <1>2, <1>4, OrderNames
  DEF StartupTypeOK, LogMayBeOpen, CleanUpReverses, NothingIsLeaked, ReleasedInReverse,
      CleanUpIsDefined, ExitStatusTells, Sdl
<1> QED
  BY <1>5, <1>6, <1>7, <1>8

(* A component finds its registers free and claims them: the start is      *)
(* never aborted here.                                                     *)
LEMMA RegistrationKeepsInv ==
  ASSUME StartupInv, RegisterHandlers
  PROVE  StartupInv'
<1> USE DEF StartupInv
<1>1. PICK k \in 1 .. 6 :
        /\ at = Components[k]
        /\ LET free == \A register \in Owned[Components[k]] : handlers[register] = "null"
           IN  /\ handlers' = [register \in Registers |->
                                 IF free /\ register \in Owned[Components[k]] THEN Components[k]
                                 ELSE handlers[register]]
               /\ Goes(IF ~free THEN "aborted" ELSE IF k < 6 THEN Components[k + 1] ELSE "loop")
        /\ UNCHANGED <<argv, i, optionVars, resource, cartridgeVars, undefined>>
  BY DEF RegisterHandlers
<1>2. \A j \in 1 .. 6 : IF j < k THEN HandledBy(Components[j]) ELSE Unhandled(Components[j])
  BY <1>1 DEF HandlersByPlace
<1>3. \A register \in Owned[Components[k]] : handlers[register] = "null"
  BY <1>2 DEF Unhandled
<1>4. /\ handlers' = [register \in Registers |->
                        IF register \in Owned[Components[k]] THEN Components[k]
                        ELSE handlers[register]]
      /\ at' = IF k < 6 THEN Components[k + 1] ELSE "loop"
      /\ UNCHANGED <<statusCode, left>>
  BY <1>1, <1>3 DEF Goes
<1>5. \A j \in 1 .. 6 : IF j < k + 1 THEN HandledBy(Components[j])' ELSE Unhandled(Components[j])'
  <2>1. ASSUME NEW j \in 1 .. 6, j < k PROVE HandledBy(Components[j])'
    BY <1>2, <1>4, <2>1, Owning DEF HandledBy
  <2>2. HandledBy(Components[k])'
    BY <1>4, Owning DEF HandledBy
  <2>3. ASSUME NEW j \in 1 .. 6, j > k PROVE Unhandled(Components[j])'
    BY <1>2, <1>4, <2>3, Owning DEF Unhandled
  <2> QED
    BY <2>1, <2>2, <2>3
<1>6. HandlersByPlace'
  <2>1. CASE k = 6
    BY <1>4, <1>5, <2>1, ComponentNames DEF HandlersByPlace, Before, Loaded
  <2>2. CASE k < 6
    <3>1. at' = Components[k + 1] /\ k + 1 \in 1 .. 6
      BY <1>4, <2>2
    <3>2. \A m \in 1 .. 6 : at' = Components[m] => m = k + 1
      BY <3>1, ComponentsDiffer
    <3> QED
      BY <1>5, <3>1, <3>2, ComponentNames DEF HandlersByPlace, Before, Loaded
  <2> QED
    BY <2>1, <2>2
<1>7. at \in Ready /\ at' \in Ready
  BY <1>1, <1>4, ComponentNames DEF Ready, Owners
<1>8. /\ statusCode = 0 /\ ~exitEarly /\ ~exitEarly' /\ undefined \subseteq {"header", "banks"}
      /\ resource["rom"] = "released" /\ resource["data"] = "made" /\ LogMayBeOpen
      /\ \A r \in Sdl : resource[r] \in {"null", "made"}
      /\ rom' = rom /\ cartridgeType' = cartridgeType
  BY <1>1, <1>7 DEF StatusByPlace, NothingUndefined, SetUpByPlace, optionVars, cartridgeVars
<1>9. StartupTypeOK' /\ PlaceIsKnown' /\ ParsedSoFar'
  <2>1. handlers' \in [Registers -> {"garbage", "null"} \cup Owners]
    BY <1>4 DEF StartupTypeOK, Owners
  <2> QED
    BY <1>1, <1>4, <1>7, <1>8, <2>1, ComponentNames
    DEF StartupTypeOK, PlaceIsKnown, Ready, ParsedSoFar, IsDue
<1>10. SetUpByPlace' /\ Unwinding' /\ NothingUndefined' /\ StatusByPlace'
  BY <1>1, <1>4, <1>7, <1>8, ComponentNames
  DEF SetUpByPlace, Unwinding, NothingUndefined, StatusByPlace, Before, Loaded, Ready, LogMayBeOpen
<1>11. CleanUpReverses' /\ CleanUpIsDefined' /\ ExitStatusTells'
  BY <1>1, <1>7, <1>8, OrderNames, ComponentNames
  DEF Ready, LogMayBeOpen, CleanUpReverses, NothingIsLeaked, ReleasedInReverse, CleanUpIsDefined,
      ExitStatusTells, Sdl
<1> QED
  BY <1>6, <1>9, <1>10, <1>11

(* The end of the loop starts the whole clean-up.                          *)
LEMMA LoopEndKeepsInv ==
  ASSUME StartupInv, LoopEnds
  PROVE  StartupInv'
<1> USE DEF StartupInv
<1>1. /\ at = "loop" /\ at' = "cleanup" /\ left' = 5
      /\ UNCHANGED <<argv, i, optionVars, statusCode, resource, cartridgeVars, handlers, undefined>>
  BY DEF LoopEnds, CleanUpFrom
<1>2. /\ statusCode = 0 /\ ~exitEarly /\ ~exitEarly' /\ undefined \subseteq {"header", "banks"}
      /\ resource["rom"] = "released" /\ resource["data"] = "made" /\ LogMayBeOpen
      /\ \A r \in Sdl : resource[r] \in {"null", "made"}
  BY <1>1 DEF StatusByPlace, NothingUndefined, SetUpByPlace, optionVars, Ready
<1>3. handlers["P1"] = "keypad"
  <2>1. HandledBy(Components[6])
    BY <1>1 DEF HandlersByPlace
  <2> QED
    BY <2>1, Owning, ComponentNames DEF HandledBy
<1>4. StartupTypeOK' /\ PlaceIsKnown' /\ ParsedSoFar'
  BY <1>1 DEF StartupTypeOK, PlaceIsKnown, ParsedSoFar, IsDue, cartridgeVars
<1>5. SetUpByPlace' /\ Unwinding' /\ NothingUndefined' /\ HandlersByPlace' /\ StatusByPlace'
  BY <1>1, <1>2, <1>3, OrderNames, ComponentNames
  DEF SetUpByPlace, Unwinding, NothingUndefined, HandlersByPlace, StatusByPlace, Before, Loaded,
      Ready, LogMayBeOpen, Sdl
<1>6. CleanUpReverses' /\ CleanUpIsDefined' /\ ExitStatusTells'
  BY <1>1, <1>2, OrderNames
  DEF LogMayBeOpen, CleanUpReverses, NothingIsLeaked, ReleasedInReverse, CleanUpIsDefined,
      ExitStatusTells, Sdl
<1> QED
  BY <1>4, <1>5, <1>6

(* One resource is released, or a handle that was never assigned is used.  *)
LEMMA TearDownKeepsInv ==
  ASSUME StartupInv, TearDown
  PROVE  StartupInv'
<1> USE DEF StartupInv
<1>1. /\ at = "cleanup" /\ left \in 1 .. 5 /\ left' = left - 1
      /\ at' = "cleanup" \/ (at' = "crashed" /\ resource[Order[left]] = "garbage")
      /\ UNCHANGED <<argv, i, optionVars, statusCode, cartridgeVars, handlers>>
  BY DEF TearDown, StartupTypeOK, Last
<1>2. PICK last \in Resources : last = Order[left]
  BY <1>1, OrderNames
<1>3. /\ resource' = IF resource[last] = "made" THEN [resource EXCEPT ![last] = "released"]
                     ELSE resource
      /\ undefined' = IF resource[last] = "garbage" THEN undefined \cup {last} ELSE undefined
  BY <1>2 DEF TearDown, Last, Has, Uses
<1>4. ~exitEarly /\ ~exitEarly' /\ rom' = rom /\ cartridgeType' = cartridgeType
  BY <1>1 DEF StatusByPlace, optionVars, cartridgeVars
<1>5. StartupTypeOK' /\ PlaceIsKnown' /\ ParsedSoFar'
  BY <1>1, <1>2, <1>3, <1>4
  DEF StartupTypeOK, PlaceIsKnown, Ended, ParsedSoFar, IsDue
<1>6. Unwinding'
  BY <1>1, <1>2, <1>3, <1>4, OrderNames DEF Unwinding, StartupTypeOK
<1>7. SetUpByPlace' /\ NothingUndefined' /\ HandlersByPlace' /\ StatusByPlace'
  BY <1>1, <1>4, ComponentNames
  DEF SetUpByPlace, NothingUndefined, HandlersByPlace, StatusByPlace, Before, Loaded, Ready
<1>8. CleanUpReverses'
  BY <1>1, <1>2, <1>3, OrderNames
  DEF CleanUpReverses, NothingIsLeaked, ReleasedInReverse, Unwinding, StartupTypeOK
<1>9. CleanUpIsDefined'
  <2>1. CASE resource[last] = "garbage"
    <3>1. /\ last \in {"data", "renderer", "texture"} /\ statusCode = 1
          /\ last = "data" => rom = None
          /\ last # "data" => resource["texture"] = "garbage"
      BY <1>1, <1>2, <2>1, OrderNames DEF Unwinding
    <3>2. resource' = resource /\ undefined' = undefined \cup {last}
      BY <1>3, <2>1
    <3> QED
      BY <1>1, <1>4, <3>1, <3>2, OrderNames DEF CleanUpIsDefined, Sdl
  <2>2. CASE resource[last] # "garbage"
    <3>1. resource'["texture"] = "garbage" <=> resource["texture"] = "garbage"
      BY <1>2, <1>3, <2>2, OrderNames DEF StartupTypeOK
    <3> QED
      BY <1>1, <1>2, <1>3, <1>4, <2>2, <3>1 DEF CleanUpIsDefined
  <2> QED
    BY <2>1, <2>2
<1>10. ExitStatusTells'
  BY <1>1 DEF ExitStatusTells
<1> QED
  BY <1>5, <1>6, <1>7, <1>8, <1>9, <1>10

(* main returns when the clean-up is through.                              *)
LEMMA ReturnKeepsInv ==
  ASSUME StartupInv, Return
  PROVE  StartupInv'
<1> USE DEF StartupInv
<1>1. /\ at = "cleanup" /\ left = 0 /\ at' = "exited" /\ exitEarly' = exitEarly
      /\ UNCHANGED <<argv, i, optionVars, statusCode, resource, cartridgeVars, handlers, left,
                     undefined>>
  BY DEF Return, optionVars
<1>2. StartupTypeOK' /\ PlaceIsKnown' /\ ParsedSoFar' /\ SetUpByPlace' /\ Unwinding'
      /\ NothingUndefined' /\ HandlersByPlace' /\ StatusByPlace'
  BY <1>1, ComponentNames
  DEF StartupTypeOK, PlaceIsKnown, Ended, ParsedSoFar, IsDue, SetUpByPlace, Unwinding,
      NothingUndefined,
      HandlersByPlace, StatusByPlace, Before, Loaded, Ready, cartridgeVars
<1>3. CleanUpReverses' /\ CleanUpIsDefined' /\ ExitStatusTells'
  BY <1>1, OrderNames
  DEF CleanUpReverses, NothingIsLeaked, ReleasedInReverse, CleanUpIsDefined, ExitStatusTells,
      Unwinding, StatusByPlace, cartridgeVars
<1> QED
  BY <1>2, <1>3

(* The start, the loop and the clean-up keep the invariant.                *)
LEMMA StartupInvAlways == StartupSpec => []StartupInv
<1> DEFINE Inv == StartupInv /\ Len(argv) \in Nat
<1>1. StartupInit => Inv
  BY StartupInitInv
<1>2. Inv /\ [StartupNext]_startupVars => Inv'
  <2> SUFFICES ASSUME Inv, [StartupNext]_startupVars PROVE Inv'
    OBVIOUS
  <2>1. argv' = argv
    BY ParsingKeepsInv
    DEF StartupNext, Step, startupVars, open_serial_log_file, cartridge_load, LoadFails,
        LoadSucceeds, cartridge_get_header, memory_init, graphics_init, RegisterHandlers, LoopEnds,
        TearDown, Return
  <2>2. CASE StartupNext
    BY <2>1, <2>2, ParsingKeepsInv, LogKeepsInv, LoadKeepsInv, HeaderKeepsInv, MemoryKeepsInv,
       GraphicsKeepsInv, RegistrationKeepsInv, LoopEndKeepsInv, TearDownKeepsInv, ReturnKeepsInv
    DEF StartupNext, Step
  <2>3. CASE UNCHANGED startupVars
    <3> USE <2>3 DEF startupVars, optionVars, cartridgeVars, StartupInv
    <3>1. StartupTypeOK' /\ PlaceIsKnown' /\ SetUpByPlace' /\ Unwinding'
      BY DEF StartupTypeOK, PlaceIsKnown, SetUpByPlace, Unwinding, LogMayBeOpen
    <3>2. NothingUndefined' /\ HandlersByPlace' /\ StatusByPlace' /\ ParsedSoFar'
      BY DEF NothingUndefined, HandlersByPlace, HandledBy, Unhandled, StatusByPlace, ParsedSoFar,
             IsDue
    <3>3. CleanUpReverses' /\ CleanUpIsDefined' /\ ExitStatusTells'
      BY DEF CleanUpReverses, NothingIsLeaked, ReleasedInReverse, CleanUpIsDefined,
             ExitStatusTells
    <3> QED
      BY <2>1, <3>1, <3>2, <3>3
  <2> QED
    BY <2>2, <2>3
<1>3. Inv => StartupInv
  OBVIOUS
<1> HIDE DEF Inv
<1> QED
  BY <1>1, <1>2, <1>3, PTL DEF StartupSpec

(* Every place leaves its variables in their types, for any command line.  *)
THEOREM StartupTypeCorrect == StartupSpec => []StartupTypeOK
<1>1. StartupInv => StartupTypeOK
  BY DEF StartupInv
<1> QED
  BY <1>1, StartupInvAlways, PTL

(* What was made is released, in reverse, wherever the start fails.        *)
THEOREM CleanUpIsReverse == StartupSpec => []CleanUpReverses
<1>1. StartupInv => CleanUpReverses
  BY DEF StartupInv
<1> QED
  BY <1>1, StartupInvAlways, PTL

(* Unset handles are used in the two known cases only.                     *)
THEOREM CleanUpUsesWhatIsSet == StartupSpec => []CleanUpIsDefined
<1>1. StartupInv => CleanUpIsDefined
  BY DEF StartupInv
<1> QED
  BY <1>1, StartupInvAlways, PTL

(* The exit status tells a start that failed from one that did not.        *)
THEOREM ExitStatusIsTrue == StartupSpec => []ExitStatusTells
<1>1. StartupInv => ExitStatusTells
  BY DEF StartupInv
<1> QED
  BY <1>1, StartupInvAlways, PTL

(* Nothing is opened before every option was looked at.                    *)
THEOREM OptionsComeFirst == StartupSpec => []OptionsAreCheckedFirst
<1>1. StartupInv => OptionsAreCheckedFirst
  BY DEF StartupInv, ParsedSoFar, IsDue, OptionsAreCheckedFirst
<1> QED
  BY <1>1, StartupInvAlways, PTL

-------------------------------------------------------------------------------
(* The loop.  A page is copied in it as in the DMA by itself.              *)
DmaFacts == INSTANCE DmaProofs WITH cycleCounter <- dmaCycles

(* What every step of the loop does to the place it is at and to the flags *)
(* of the loop.                                                            *)
LoopTypeOK == TypeOK /\ enteringVBlank \in BOOLEAN

(* Every call of the loop leads to the next one.                           *)
LEMMA LoopTypeNext == ASSUME LoopTypeOK, [Next]_vars PROVE LoopTypeOK'
<1> USE DEF LoopTypeOK, TypeOK
<1>1. CASE CpuStep
  <2>1. enteringVBlank = FALSE /\ isRunning \in BOOLEAN
    BY <1>1 DEF CpuStep
  <2>2. isRunning' \in BOOLEAN /\ enteringVBlank' = FALSE
    BY <1>1, <2>1
    DEF CpuStep, NoInstruction, ControlInstruction, DeviceInstruction, UnimplementedInstruction,
        AccessDevice, deviceVars, ppuVars, Ppu!write_ly
  <2> QED
    BY <1>1, <2>2 DEF CpuStep
<1>2. CASE KeypadStep
  BY <1>2 DEF KeypadStep, ppuVars
<1>3. CASE DmaStep
  BY <1>3 DEF DmaStep, ppuVars
<1>4. CASE TimerStep
  BY <1>4 DEF TimerStep, ppuVars
<1>5. CASE PpuStep
  BY <1>5 DEF PpuStep, Ppu!ppu_tick, Ppu!StayInMode, Ppu!StartDrawing, Ppu!StartHBlank,
              Ppu!StartNextLine, Ppu!EnterVBlank, Ppu!StayInVBlank, Ppu!LeaveVBlank
<1>6. CASE SerialStep
  BY <1>6 DEF SerialStep, ppuVars
<1>7. CASE CheckQuit
  BY <1>7 DEF CheckQuit, NextIteration, deviceVars, ppuVars
<1>8. CASE Display
  BY <1>8 DEF Display, NextIteration, Ppu!graphics_update
<1>9. CASE HostActs
  BY <1>9 DEF HostActs, deviceVars, ppuVars, inputVars
<1>10. CASE UNCHANGED vars
  BY <1>10 DEF vars, loopVars, deviceVars, ppuVars
<1> QED
  BY <1>1, <1>2, <1>3, <1>4, <1>5, <1>6, <1>7, <1>8, <1>9, <1>10 DEF Next, Loop

(* The loop is at one of its calls, and VBlank is on its way only there.   *)
THEOREM LoopTypeCorrect == Spec => []TypeOK
<1>1. Init => LoopTypeOK
  BY DEF Init, LoopTypeOK, TypeOK, Ppu!Init
<1>2. LoopTypeOK /\ [Next]_vars => LoopTypeOK'
  BY LoopTypeNext
<1>3. LoopTypeOK => TypeOK
  BY DEF LoopTypeOK
<1> QED
  BY <1>1, <1>2, <1>3, PTL DEF Spec

(* Nothing sets the loop going again, and a stopped one executes nothing.  *)
THEOREM StoppingIsFinal == Spec => StopIsFinal
<1> DEFINE Final == ~isRunning => ~isRunning' /\ phase' # "cpu"
<1>1. TypeOK /\ [Next]_vars => [Final]_vars
  <2> SUFFICES ASSUME TypeOK, Next, ~isRunning PROVE ~isRunning' /\ phase' # "cpu"
    OBVIOUS
  <2>1. ~CpuStep
    BY DEF CpuStep, TypeOK
  <2>2. CASE KeypadStep \/ DmaStep \/ TimerStep \/ PpuStep \/ SerialStep
    BY <2>2 DEF KeypadStep, DmaStep, TimerStep, PpuStep, SerialStep
  <2>3. CASE CheckQuit \/ Display
    <3>1. isRunning = FALSE
      BY DEF TypeOK
    <3>2. isRunning' = FALSE
      BY <2>3, <3>1 DEF CheckQuit, Display
    <3> QED
      BY <2>3, <3>2 DEF CheckQuit, Display, NextIteration
  <2>4. CASE HostActs
    BY <2>4 DEF HostActs, TypeOK
  <2> QED
    BY <2>1, <2>2, <2>3, <2>4 DEF Next, Loop
<1> HIDE DEF Final
<1>2. Spec => [][Final]_vars
  BY <1>1, LoopTypeCorrect, PTL DEF Spec
<1> QED
  BY <1>2 DEF Final, StopIsFinal

-------------------------------------------------------------------------------
(* From the tick of the keypad to the poll of the input the lines are what *)
(* the keys pull low.                                                      *)
LookedAt ==
  phase \in {"dma", "timer", "ppu", "serial", "checks", "display"} => Keypad!Level = low

(* Nothing changes the keys between the tick of the keypad and the poll.   *)
LEMMA LookedAtNext == ASSUME LookedAt, [Next]_vars PROVE LookedAt'
<1>1. CASE KeypadStep
  BY <1>1 DEF KeypadStep, LookedAt, Keypad!keypad_tick, Keypad!update_state, Keypad!Level
<1>2. CASE DmaStep \/ TimerStep \/ PpuStep \/ SerialStep \/ CheckQuit
  BY <1>2 DEF DmaStep, TimerStep, PpuStep, SerialStep, CheckQuit, NextIteration, deviceVars,
              padVars, inputVars, LookedAt, Keypad!Level
<1>3. CASE CpuStep \/ Display
  BY <1>3 DEF CpuStep, Display, NextIteration, LookedAt
<1>4. CASE HostActs
  BY <1>4 DEF HostActs, deviceVars, padVars, inputVars, LookedAt, Keypad!Level, Input!HostEvent,
              Input!PressKey, Input!ReleaseKey, Input!Command, Input!Happens, Input!stateVars
<1>5. CASE UNCHANGED vars
  BY <1>5 DEF vars, loopVars, deviceVars, padVars, inputVars, LookedAt, Keypad!Level
<1> QED
  BY <1>1, <1>2, <1>3, <1>4, <1>5 DEF Next, Loop

(* No press that was polled is overwritten before it was looked at.        *)
THEOREM PolledKeysAreSeen == Spec => []PolledKeysAreLookedAt
<1>1. Init => LookedAt
  BY DEF Init, LookedAt
<1>2. LookedAt => PolledKeysAreLookedAt
  BY DEF LookedAt, PolledKeysAreLookedAt
<1>3. LookedAt /\ [Next]_vars => LookedAt'
  BY LookedAtNext
<1> QED
  BY <1>1, <1>2, <1>3, PTL DEF Spec

-------------------------------------------------------------------------------
(* The queue of events, replayed over the keys of the last poll, leads to  *)
(* the keyboard as it is.                                                  *)
Key == Groups \X Lines

Event == [type : {"down", "up"}, key : Key] \cup [type : {"quit", "dump"}]

Replays(key) == Input!DownAfter(key) <=> key \in held

KeyboardInv ==
  /\ events \in Seq(Event)
  /\ heard \subseteq Key /\ held \subseteq heard
  /\ \A key \in heard : Replays(key)

(* An event at the end of the queue decides about its own key alone.       *)
LEMMA Appended ==
  ASSUME events \in Seq(Event), NEW event \in Event, events' = Append(events, event),
         UNCHANGED pressed, NEW key
  PROVE  IF event.type \in {"down", "up"} /\ event.key = key
         THEN Input!DownAfter(key)' <=> event.type = "down"
         ELSE Input!DownAfter(key)' <=> Input!DownAfter(key)
<1> DEFINE n == Len(events) + 1
           about == Input!About(key)
<1>1. /\ n \in Nat /\ DOMAIN events = 1 .. n - 1 /\ DOMAIN events' = 1 .. n
      /\ events'[n] = event /\ \A j \in 1 .. n - 1 : events'[j] = events[j]
  OBVIOUS
<1>2. about \subseteq 1 .. n - 1
  BY <1>1 DEF Input!About
<1>3. about' = IF event.type \in {"down", "up"} /\ event.key = key THEN about \cup {n} ELSE about
  BY <1>1 DEF Input!About
<1> HIDE DEF about, n
<1>4. CASE event.type \in {"down", "up"} /\ event.key = key
  <2>1. about' = about \cup {n} /\ n \in about' /\ \A j \in about' : j <= n
    BY <1>1, <1>2, <1>3, <1>4
  <2>2. \A j \in about' : (\A m \in about' : m <= j) => j = n
    BY <1>1, <1>2, <2>1
  <2>3. Input!DownAfter(key)' <=> events'[n].type = "down"
    BY <2>1, <2>2 DEF Input!DownAfter, about
  <2> QED
    BY <1>1, <1>4, <2>3
<1>5. CASE ~(event.type \in {"down", "up"} /\ event.key = key)
  <2>1. about' = about
    BY <1>3, <1>5
  <2>2. \A j \in about : events'[j] = events[j]
    BY <1>1, <1>2
  <2> QED
    BY <1>5, <2>1, <2>2 DEF Input!DownAfter, about
<1> QED
  BY <1>4, <1>5

(* Every event, and the poll, keeps the queue and the keyboard together.   *)
LEMMA KeyboardNext == ASSUME KeyboardInv, [Next]_vars PROVE KeyboardInv'
<1> USE DEF KeyboardInv
<1>1. CASE UNCHANGED <<events, held, heard, pressed>>
  BY <1>1 DEF Replays, Input!DownAfter, Input!About
<1>2. CASE Input!PressKey
  <2>1. PICK key \in Key \ held :
          /\ events' = Append(events, [type |-> "down", key |-> key])
          /\ UNCHANGED pressed /\ held' = held \cup {key} /\ heard' = heard \cup {key}
    BY <1>2 DEF Input!PressKey, Input!Happens, Input!stateVars, Key
  <2> DEFINE event == [type |-> "down", key |-> key]
  <2>2. event \in Event /\ event.type = "down" /\ event.key = key
    BY DEF Event
  <2> HIDE DEF event
  <2>3. events' = Append(events, event) /\ events' \in Seq(Event)
    BY <2>1, <2>2 DEF event
  <2>4. ASSUME NEW other \in heard' PROVE Replays(other)'
    BY <2>1, <2>2, <2>3, <2>4, Appended DEF Replays
  <2> QED
    BY <2>1, <2>3, <2>4
<1>3. CASE Input!ReleaseKey
  <2>1. PICK key \in held :
          /\ events' = Append(events, [type |-> "up", key |-> key])
          /\ UNCHANGED pressed /\ held' = held \ {key} /\ heard' = heard \cup {key}
    BY <1>3 DEF Input!ReleaseKey, Input!Happens, Input!stateVars
  <2> DEFINE event == [type |-> "up", key |-> key]
  <2>2. event \in Event /\ event.type = "up" /\ event.key = key
    BY <2>1 DEF Event
  <2> HIDE DEF event
  <2>3. events' = Append(events, event) /\ events' \in Seq(Event)
    BY <2>1, <2>2 DEF event
  <2>4. ASSUME NEW other \in heard' PROVE Replays(other)'
    BY <2>1, <2>2, <2>3, <2>4, Appended DEF Replays
  <2> QED
    BY <2>1, <2>3, <2>4
<1>4. CASE Input!Command
  <2>1. PICK type \in {"quit", "dump"} :
          /\ events' = Append(events, [type |-> type])
          /\ UNCHANGED <<pressed, held, heard>>
    BY <1>4 DEF Input!Command, Input!Happens, Input!stateVars
  <2> DEFINE event == [type |-> type]
  <2>2. event \in Event /\ event.type \notin {"down", "up"}
    BY <2>1 DEF Event
  <2> HIDE DEF event
  <2>3. events' = Append(events, event) /\ events' \in Seq(Event)
    BY <2>1, <2>2 DEF event
  <2>4. ASSUME NEW other \in heard' PROVE Replays(other)'
    BY <2>1, <2>2, <2>3, <2>4, Appended DEF Replays
  <2> QED
    BY <2>1, <2>3, <2>4
<1>5. CASE Input!input_update
  <2>1. /\ pressed' = {key \in Key : Input!DownAfter(key)} /\ events' = <<>>
        /\ UNCHANGED <<held, heard>>
    BY <1>5 DEF Input!input_update, Key
  <2>2. \A key : Input!About(key)' = {}
    BY <2>1 DEF Input!About
  <2>3. \A key : Input!DownAfter(key)' <=> key \in pressed'
    BY <2>2 DEF Input!DownAfter
  <2> QED
    BY <2>1, <2>3 DEF Replays
<1>6. CASE Next
  BY <1>1, <1>2, <1>3, <1>4, <1>5, <1>6
  DEF Next, Loop, CpuStep, KeypadStep, DmaStep, TimerStep, PpuStep, SerialStep, CheckQuit, Display,
      HostActs, inputVars, Input!HostEvent, NoInstruction, ControlInstruction, DeviceInstruction,
      UnimplementedInstruction
<1> QED
  BY <1>1, <1>6 DEF vars, inputVars

(* After a poll the keypad shows the keyboard.                             *)
THEOREM KeysAreThoseOfTheKeyboard == Spec => []KeysFollowTheKeyboard
<1>1. Init => KeyboardInv
  BY DEF Init, Input!Init, KeyboardInv
<1>2. KeyboardInv => KeysFollowTheKeyboard
  <2> SUFFICES ASSUME KeyboardInv, events = <<>> PROVE pressed \cap heard = held
    BY DEF KeysFollowTheKeyboard, Input!PressedFollowsTheKeyboard
  <2>1. \A key : Input!About(key) = {}
    BY DEF Input!About
  <2> QED
    BY <2>1 DEF KeyboardInv, Replays, Input!DownAfter
<1>3. KeyboardInv /\ [Next]_vars => KeyboardInv'
  BY KeyboardNext
<1> QED
  BY <1>1, <1>2, <1>3, PTL DEF Spec

-------------------------------------------------------------------------------
(* A device requests its interrupt or leaves the CPU alone.                *)
Requests(interrupt) ==
  \/ interruptFlags' = cpu_request_interrupt(interruptFlags, interrupt)
  \/ UNCHANGED interruptFlags

LEMMA PpuRequests == ASSUME PpuStep PROVE Requests(INTERRUPT_VBLANK)
BY DEF PpuStep, Requests, Ppu!ppu_tick, Ppu!StayInMode, Ppu!StartDrawing, Ppu!StartHBlank,
       Ppu!StartNextLine, Ppu!EnterVBlank, Ppu!StayInVBlank, Ppu!LeaveVBlank,
       Ppu!cpu_request_interrupt, cpu_request_interrupt, Ppu!INTERRUPT_VBLANK, INTERRUPT_VBLANK

LEMMA TimerRequests == ASSUME TimerStep PROVE Requests(INTERRUPT_TIMER)
BY DEF TimerStep, Requests, Timer!timer_tick, Timer!TickTima, Timer!StepTima,
       Timer!cpu_request_interrupt, cpu_request_interrupt, Timer!INTERRUPT_TIMER, INTERRUPT_TIMER

LEMMA SerialRequests == ASSUME SerialStep PROVE Requests(INTERRUPT_SERIAL)
BY DEF SerialStep, Requests, Serial!serial_tick, Serial!WaitForStep, Serial!ShiftOneOfMany,
       Serial!CompleteTransfer, Serial!cpu_request_interrupt, cpu_request_interrupt,
       Serial!INTERRUPT_SERIAL, INTERRUPT_SERIAL

LEMMA KeypadRequests == ASSUME Keypad!update_state PROVE Requests(INTERRUPT_KEYPAD)
BY DEF Keypad!update_state, Requests, Keypad!cpu_request_interrupt, cpu_request_interrupt,
       Keypad!INTERRUPT_KEYPAD, INTERRUPT_KEYPAD

LEMMA DeviceInstructionRequests ==
  ASSUME DeviceInstruction
  PROVE  Requests(INTERRUPT_KEYPAD) /\ UNCHANGED cpuVars
BY KeypadRequests
DEF DeviceInstruction, AccessDevice, Requests, Ppu!write_ly, Timer!write_tac, Serial!write_sc,
    Keypad!read_p1, Keypad!write_p1

(* Every step of the loop is a step of the interrupt control: an           *)
(* instruction or an interrupt, a request of one device, or nothing.       *)
LEMMA LoopStepsControl == ASSUME [Next]_vars PROVE [Cpu!Next]_(Cpu!controlVars)
<1> USE DEF Cpu!controlVars, cpuVars
<1>1. ASSUME NEW interrupt \in Interrupt, Requests(interrupt), UNCHANGED cpuVars
      PROVE  [Cpu!Next]_(Cpu!controlVars)
  BY <1>1 DEF Requests, Cpu!Next, Cpu!DeviceRequest, Cpu!cpu_request_interrupt,
              cpu_request_interrupt, Cpu!Interrupt, Interrupt, Cpu!INTERRUPT_VBLANK,
              Cpu!INTERRUPT_KEYPAD, INTERRUPT_VBLANK, INTERRUPT_KEYPAD
<1>2. /\ INTERRUPT_VBLANK \in Interrupt /\ INTERRUPT_TIMER \in Interrupt
      /\ INTERRUPT_SERIAL \in Interrupt /\ INTERRUPT_KEYPAD \in Interrupt
      /\ Cpu!Interrupt = Interrupt
  BY DEF Interrupt, INTERRUPT_VBLANK, INTERRUPT_TIMER, INTERRUPT_SERIAL, INTERRUPT_KEYPAD,
         Cpu!Interrupt, Cpu!INTERRUPT_VBLANK, Cpu!INTERRUPT_KEYPAD
<1>3. CASE CpuStep
  <2>1. CASE NoInstruction
    BY <2>1 DEF NoInstruction, Cpu!Next, Cpu!cpu_execute_next
  <2>2. CASE ControlInstruction
    BY <1>2, <2>2, EmulatorAssumption
    DEF EmulatorAssumption, ControlInstruction, Cpu!Next, Cpu!cpu_execute_next, Cpu!GuestWritesFlags
  <2>3. CASE DeviceInstruction
    BY <1>1, <1>2, <2>3, DeviceInstructionRequests
  <2>4. CASE UnimplementedInstruction
    BY <2>4 DEF UnimplementedInstruction
  <2> QED
    BY <1>3, <2>1, <2>2, <2>3, <2>4 DEF CpuStep
<1>4. CASE KeypadStep
  BY <1>1, <1>2, <1>4, KeypadRequests DEF KeypadStep, Keypad!keypad_tick
<1>5. CASE TimerStep \/ PpuStep \/ SerialStep
  BY <1>1, <1>2, <1>5, TimerRequests, PpuRequests, SerialRequests DEF TimerStep, PpuStep, SerialStep
<1>6. CASE DmaStep \/ CheckQuit \/ Display \/ HostActs \/ UNCHANGED vars
  BY <1>6 DEF DmaStep, CheckQuit, Display, HostActs, vars, Ppu!graphics_update
<1> QED
  BY <1>3, <1>4, <1>5, <1>6 DEF Next, Loop

(* The loop, with all devices at work on IF, is an interrupt control.      *)
THEOREM LoopIsInterruptControl == Spec => Cpu!Spec
<1>1. Init => Cpu!Init
  BY DEF Init
<1>2. [Next]_vars => [Cpu!Next]_(Cpu!controlVars)
  BY LoopStepsControl
<1> QED
  BY <1>1, <1>2, PTL DEF Spec, Cpu!Spec

(* A step that only makes a request, or leaves IF alone, drops none.       *)
LEMMA RequestsDropNothing ==
  ASSUME NEW interrupt, Requests(interrupt) \/ UNCHANGED interruptFlags
  PROVE  interruptFlags \ interruptFlags' = {}
BY DEF Requests, cpu_request_interrupt

(* No tick and none of the other calls drops a request, wherever it comes  *)
(* from.                                                                   *)
LEMMA OnlyTheCpuDropsRequests ==
  ASSUME Next, ~CpuStep
  PROVE  interruptFlags \ interruptFlags' = {}
<1>1. CASE KeypadStep
  BY <1>1, KeypadRequests, RequestsDropNothing DEF KeypadStep, Keypad!keypad_tick
<1>2. CASE TimerStep \/ PpuStep \/ SerialStep
  BY <1>2, TimerRequests, PpuRequests, SerialRequests, RequestsDropNothing
  DEF TimerStep, PpuStep, SerialStep
<1>3. CASE DmaStep \/ CheckQuit \/ Display \/ HostActs
  BY <1>3, RequestsDropNothing DEF DmaStep, CheckQuit, Display, HostActs, Ppu!graphics_update
<1> QED
  BY <1>1, <1>2, <1>3 DEF Next, Loop

(* What the CPU's call may drop: the one request it takes, or those a      *)
(* write of the program clears.                                            *)
Taken(gone) ==
  gone \subseteq Cpu!Pending /\ Cpu!Cardinality(gone) = 1 /\ ime /\ ~ime'

Written ==
  /\ "IF" \in session.program /\ interruptFlags' \in GuestMasks
  /\ Cpu!Executes /\ UNCHANGED <<cpuVars, deviceVars>>

LEMMA TheCpuTakesOneRequest ==
  ASSUME Cpu!TakeInterrupt
  PROVE  Taken(interruptFlags \ interruptFlags')
<1>1. PICK interrupt \in Cpu!Interrupt : Cpu!handle_interrupt(interrupt)
  BY DEF Cpu!TakeInterrupt
<1>2. interrupt \in Cpu!Pending /\ interruptFlags \ interruptFlags' = {interrupt}
  BY <1>1 DEF Cpu!handle_interrupt, Cpu!Chosen, Cpu!Pending
<1>3. Cpu!Cardinality({interrupt}) = 1
  BY FS_Singleton DEF Cpu!Cardinality, Cardinality
<1> QED
  BY <1>1, <1>2, <1>3 DEF Cpu!handle_interrupt, Taken

LEMMA TheCpuDropsNoOther ==
  ASSUME CpuStep
  PROVE  \/ interruptFlags \ interruptFlags' = {}
         \/ Taken(interruptFlags \ interruptFlags')
         \/ Written
<1>1. CASE NoInstruction
  BY <1>1, TheCpuTakesOneRequest, RequestsDropNothing
  DEF NoInstruction, Cpu!StayHalted, Cpu!controlVars
<1>2. CASE ControlInstruction
  <2>1. ASSUME NEW value \in GuestMasks, "IF" \in session.program,
               Cpu!write_interrupt_flags(value)
        PROVE  Written
    BY <1>2, <2>1 DEF ControlInstruction, Cpu!write_interrupt_flags, Written, cpuVars
  <2>2. CASE UNCHANGED interruptFlags
    BY <2>2, RequestsDropNothing
  <2> QED
    BY <1>2, <2>1, <2>2
    DEF ControlInstruction, Cpu!PlainInstruction, Cpu!ei, Cpu!di, Cpu!halt,
        Cpu!write_interrupt_enable, Cpu!controlVars
<1>3. CASE DeviceInstruction
  BY <1>3, DeviceInstructionRequests, RequestsDropNothing
<1>4. CASE UnimplementedInstruction
  BY <1>4, RequestsDropNothing DEF UnimplementedInstruction
<1> QED
  BY <1>1, <1>2, <1>3, <1>4 DEF CpuStep

(* A request leaves IF only in the CPU's own call, by being taken alone or *)
(* by a write of a program that writes IF: no tick, no register of a       *)
(* device and no other interrupt removes it.                               *)
THEOREM RequestsSurvive == Spec => RequestsSurviveTheLoop
<1> DEFINE gone == interruptFlags \ interruptFlags'
           Kept == gone # {} =>
                     /\ phase = "cpu" /\ phase' = "keypad"
                     /\ Taken(gone) \/ Written
<1>1. Next => Kept
  BY OnlyTheCpuDropsRequests, TheCpuDropsNoOther DEF CpuStep
<1>2. [Next]_vars => [Kept]_vars
  <2> HIDE DEF Kept
  <2> QED
    BY <1>1
<1> QED
  BY <1>2, PTL DEF Spec, RequestsSurviveTheLoop, Taken, Written

-------------------------------------------------------------------------------
(* Every step of the loop is a step of the DMA or leaves it alone.         *)
LEMMA LoopStepsDma == ASSUME [Next]_vars PROVE [DmaFacts!Next]_(DmaFacts!vars)
<1> USE DEF DmaFacts!vars, dmaVars
<1>1. CASE UNCHANGED dmaVars
  BY <1>1
<1>2. CASE \E page \in Pages : Dma!write_dma(page)
  BY <1>2 DEF Dma!write_dma, DmaFacts!write_dma, DmaFacts!Next, DmaFacts!GuestRestart
<1>3. CASE Dma!dma_tick
  BY <1>3 DEF Dma!dma_tick, Dma!CountDown, Dma!CopyPage, Dma!Counting, Dma!Left, DmaFacts!Next,
              DmaFacts!dma_tick, DmaFacts!CountDown, DmaFacts!CopyPage, DmaFacts!Counting,
              DmaFacts!Left
<1>4. CASE CpuStep
  BY <1>1, <1>2, <1>4 DEF CpuStep, NoInstruction, ControlInstruction, DeviceInstruction,
                          UnimplementedInstruction, AccessDevice, deviceVars
<1>5. CASE DmaStep
  BY <1>1, <1>3, <1>5 DEF DmaStep
<1> QED
  BY <1>1, <1>4, <1>5
  DEF Next, Loop, KeypadStep, TimerStep, PpuStep, SerialStep, CheckQuit, Display, HostActs, vars,
      deviceVars

(* So the copy into the OAM is in the whole loop what it is by itself.     *)
THEOREM LoopCopiesPages == Spec => DmaFacts!ImplementsPageCopy
<1>1. Init => DmaFacts!Init
  BY DEF Init, Dma!Init, DmaFacts!Init
<1>2. [Next]_vars => [DmaFacts!Next]_(DmaFacts!vars)
  BY LoopStepsDma
<1>3. DmaFacts!Spec => DmaFacts!ImplementsPageCopy
  BY DmaFacts!DmaImplementsPageCopy, EmulatorAssumption DEF EmulatorAssumption
<1> QED
  BY <1>1, <1>2, <1>3, PTL DEF Spec, DmaFacts!Spec

-------------------------------------------------------------------------------
(* In the whole loop, too, looking at P1 announces what it shows: a line   *)
(* that has fallen is announced, or stays unseen, or the keys change.      *)
THEOREM LoopAnnouncesPresses == Spec => Keypad!PressesAreAnnounced
<1> DEFINE Announced == \A line \in Keypad!Unseen :
                          \/ Keypad!INTERRUPT_KEYPAD \in interruptFlags'
                          \/ line \in Keypad!Unseen'
                          \/ pressed' # pressed
<1>1. Next => Announced
  <2> SUFFICES ASSUME Next PROVE Announced
    OBVIOUS
  <2>1. CASE UNCHANGED <<selected, low, pressed>>
    BY <2>1 DEF Keypad!Unseen, Keypad!Level
  <2>2. CASE Keypad!update_state
    BY <2>2 DEF Keypad!update_state, Keypad!Unseen, Keypad!cpu_request_interrupt
  <2>3. CASE pressed' # pressed
    BY <2>3
  <2>4. CpuStep => Keypad!update_state \/ UNCHANGED <<selected, low, pressed>>
    BY DEF CpuStep, NoInstruction, ControlInstruction, DeviceInstruction, UnimplementedInstruction,
           AccessDevice, Keypad!read_p1, Keypad!write_p1, deviceVars, padVars
  <2>5. KeypadStep => Keypad!update_state
    BY DEF KeypadStep, Keypad!keypad_tick
  <2>6. Display => UNCHANGED <<selected, low>>
    BY DEF Display, padVars
  <2> HIDE DEF Announced
  <2> QED
    BY <2>1, <2>2, <2>3, <2>4, <2>5, <2>6
    DEF Next, Loop, DmaStep, TimerStep, PpuStep, SerialStep, CheckQuit, HostActs, deviceVars,
        padVars, inputVars, Input!HostEvent, Input!PressKey, Input!ReleaseKey, Input!Command,
        Input!Happens, Input!stateVars
<1>2. [Next]_vars => [Announced]_(Keypad!vars)
  <2> HIDE DEF Announced
  <2>1. UNCHANGED vars => UNCHANGED Keypad!vars
    BY DEF vars, deviceVars, padVars, inputVars, Keypad!vars
  <2> QED
    BY <1>1, <2>1
<1> QED
  BY <1>2, PTL DEF Spec, Keypad!PressesAreAnnounced

===============================================================================
