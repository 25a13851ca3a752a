--------------------------------- MODULE Input ---------------------------------
(***************************************************************************)
(* The host's keyboard and window, as an SDL event queue, and              *)
(* input_update, which empties the queue into the InputState.  The queue   *)
(* and the keyboard are outside the program; the actions on them are the   *)
(* events it reacts to (repeated key-down events, which it skips, and      *)
(* other keys, which it ignores, are left out).                            *)
(***************************************************************************)
EXTENDS Naturals, Sequences

CONSTANTS
  Keys,       (* the keys of the keypad                                    *)
  MaxEvents   (* bound on the events between two polls                     *)

VARIABLES
  events,      (* the queue                                                *)
  held,        (* the keys that are down on the keyboard                   *)
  heard,       (* history: the keys an event has spoken of                 *)
  pressed,     (* InputState: the keys                                     *)
  quit,        (* InputState: the window was closed, or q or Escape        *)
  dumpMemory   (* InputState: m was pressed                                *)

hostVars == <<events, held, heard>>
stateVars == <<pressed, quit, dumpMemory>>
inputVars == <<events, held, heard, pressed, quit, dumpMemory>>

(* The keys are not initialised; the other two are set by the first poll,  *)
(* in main, before the loop.                                               *)
Init ==
  /\ events = <<>> /\ held = {} /\ heard = {}
  /\ pressed \in SUBSET Keys
  /\ quit = FALSE /\ dumpMemory = FALSE

-------------------------------------------------------------------------------
Happens(event) ==
  /\ Len(events) < MaxEvents
  /\ events' = Append(events, event)
  /\ UNCHANGED stateVars

PressKey ==
  \E key \in Keys \ held :
    /\ Happens([type |-> "down", key |-> key])
    /\ held' = held \cup {key}
    /\ heard' = heard \cup {key}

ReleaseKey ==
  \E key \in held :
    /\ Happens([type |-> "up", key |-> key])
    /\ held' = held \ {key}
    /\ heard' = heard \cup {key}

Command ==
  /\ \E type \in {"quit", "dump"} : Happens([type |-> type])
  /\ UNCHANGED <<held, heard>>

HostEvent == PressKey \/ ReleaseKey \/ Command

-------------------------------------------------------------------------------
Commanded(type) == \E i \in DOMAIN events : events[i].type = type

About(key) == {i \in DOMAIN events : events[i].type \in {"down", "up"} /\ events[i].key = key}

(* Mutant: once a batch holds a press of a key, its release is overlooked. *)
DownAfter_AnyPress(key) ==
  IF About(key) = {} THEN key \in pressed
  ELSE \E i \in About(key) : events[i].type = "down"

(* Whether key is down once the events have been gone through in order. *)
DownAfter(key) ==
  IF About(key) = {} THEN key \in pressed
  ELSE \E i \in About(key) :
         events[i].type = "down" /\ \A j \in About(key) : j <= i

input_update ==
  /\ pressed' = {key \in Keys : DownAfter(key)}
  /\ quit' = Commanded("quit")
  /\ dumpMemory' = Commanded("dump")
  /\ events' = <<>>
  /\ UNCHANGED <<held, heard>>

Next == HostEvent \/ input_update

Spec == Init /\ [][Next]_inputVars

-------------------------------------------------------------------------------
(* After a poll the keypad shows the keyboard: of the keys it ever heard   *)
(* of, exactly those that are down now are pressed, however many events    *)
(* piled up between two polls.  (A key it has not heard of shows what the  *)
(* uninitialised state happened to hold.)                                  *)
PressedFollowsTheKeyboard == events = <<>> => pressed \cap heard = held

===============================================================================
