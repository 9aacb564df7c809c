--------------------------------- MODULE Game ---------------------------------
(***************************************************************************)
(* The shared game rules (shared/gameimpl.[ch]) and the sizes both ends    *)
(* are built with (shared/globals.h).  A frame is advanced by the pure     *)
(* function game_simulate; server and clients run the same one, and the    *)
(* whole rollback scheme rests on their giving it the same arguments.      *)
(***************************************************************************)
EXTENDS Integers

CONSTANTS
    MAX_CLIENTS,        \* player slots of the server
    FRAME_BUFFER_SIZE   \* frames kept in each ring of states and of events

ASSUME GlobalsAssumption ==
    /\ MAX_CLIENTS \in Nat \ {0}
    /\ FRAME_BUFFER_SIZE \in Nat \ {0, 1}

Slots == 0 .. MAX_CLIENTS - 1

(***************************************************************************)
(* Frames index the rings modulo their size.  Frame is what an int holds:  *)
(* a client that knows no frame yet has -1.                                *)
(***************************************************************************)
RingIndex == 0 .. FRAME_BUFFER_SIZE - 1
Ring(f) == f % FRAME_BUFFER_SIZE

(***************************************************************************)
(* PlayerInput: movements_held[0..3] as the set of keys held down.         *)
(* memset(0) leaves no key held and no join or leave.                      *)
(***************************************************************************)
Keys == {"A", "D", "W", "S"}
PlayerInput == SUBSET Keys
NoInput == {}

PlayerEvent == {"NONE", "JOIN", "LEAVE"}

GameEvents == [player_events : [Slots -> PlayerEvent],
               player_inputs : [Slots -> PlayerInput]]

NoEvents == [player_events |-> [i \in Slots |-> "NONE"],
             player_inputs |-> [i \in Slots |-> NoInput]]

PlayerData == [x : Int, y : Int, active : BOOLEAN]
GameState == [Slots -> PlayerData]

InitialState == [i \in Slots |-> [x |-> 0, y |-> 0, active |-> FALSE]]

(***************************************************************************)
(* game_simulate, for one player: its join or leave, then, if it plays,    *)
(* the movement its held keys ask for.  Opposite keys cancel.              *)
(***************************************************************************)
Spawned == [x |-> 400, y |-> 400, active |-> TRUE]

HandleJoin(player, event) == \* mutant: a leave is not handled
    IF event = "JOIN" THEN Spawned ELSE player

HandleEvent(player, event) ==
    CASE event = "JOIN"  -> Spawned
      [] event = "LEAVE" -> [player EXCEPT !.active = FALSE]
      [] OTHER           -> player

Held(input, key) == IF key \in input THEN 1 ELSE 0

HandleMovement(player, input) ==
    IF player.active
    THEN [player EXCEPT !.x = @ - Held(input, "A") + Held(input, "D"),
                        !.y = @ - Held(input, "W") + Held(input, "S")]
    ELSE player

GameSimulate(state, events) ==
    [i \in Slots |-> HandleMovement(HandleEvent(state[i], events.player_events[i]),
                                    events.player_inputs[i])]

===============================================================================
