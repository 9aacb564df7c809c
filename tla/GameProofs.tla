------------------------------ MODULE GameProofs -------------------------------
(***************************************************************************)
(* Facts about the shared game rules, for every number of players.         *)
(***************************************************************************)
EXTENDS Game, TLAPS

LEMMA InitialStateType == InitialState \in GameState
BY DEF InitialState, GameState, PlayerData

LEMMA NoEventsType == NoEvents \in GameEvents
BY DEF NoEvents, GameEvents, PlayerEvent, PlayerInput, NoInput

LEMMA RingType == ASSUME NEW f \in Int PROVE Ring(f) \in RingIndex
BY GlobalsAssumption DEF Ring, RingIndex

(***************************************************************************)
(* Frames less than a ring apart have entries of their own: what the       *)
(* server's window (gameserver.c:304) and the client's throttle            *)
(* (client/main.c:76) rely on.                                             *)
(***************************************************************************)
THEOREM RingDistinct ==
    ASSUME NEW f \in Nat, NEW k \in 1 .. FRAME_BUFFER_SIZE - 1
    PROVE  Ring(f + k) # Ring(f)
<1> DEFINE n == FRAME_BUFFER_SIZE
           q == f \div n
           p == (f + k) \div n
<1>1. n \in Nat /\ n > 1 /\ k \in Nat /\ 0 < k /\ k < n
      BY GlobalsAssumption
<1> HIDE DEF n
<1>2. q \in Int /\ p \in Int /\ f % n \in Int
      BY <1>1, SMT
<1>3. f = n * q + (f % n) /\ f + k = n * p + ((f + k) % n)
      BY <1>1, SMT
<1> HIDE DEF p, q
<1>4. SUFFICES ASSUME (f + k) % n = f % n PROVE FALSE
      BY DEF Ring, n
<1>5. n * p - n * q = k
      BY <1>1, <1>2, <1>3, <1>4, SMT
<1>6. n * (p - q) = k
      BY <1>1, <1>2, <1>5, SMT
<1>7. CASE p - q <= 0
      BY <1>1, <1>2, <1>6, <1>7, SMT
<1>8. CASE p - q >= 1
      BY <1>1, <1>2, <1>6, <1>8, SMT
<1>9. QED
      BY <1>2, <1>7, <1>8, SMT

LEMMA HandleEventType ==
    ASSUME NEW player \in PlayerData, NEW event \in PlayerEvent
    PROVE  HandleEvent(player, event) \in PlayerData
<1>1. CASE event = "JOIN"
      BY <1>1 DEF HandleEvent, Spawned, PlayerData
<1>2. CASE event = "LEAVE"
  <2>1. HandleEvent(player, event) = [player EXCEPT !.active = FALSE]
        BY <1>2 DEF HandleEvent
  <2>2. QED
        BY <2>1 DEF PlayerData
<1>3. CASE event = "NONE"
      BY <1>3 DEF HandleEvent
<1>4. QED
      BY <1>1, <1>2, <1>3 DEF PlayerEvent

LEMMA HandleMovementType ==
    ASSUME NEW player \in PlayerData, NEW input
    PROVE  HandleMovement(player, input) \in PlayerData
<1>1. \A key : Held(input, key) \in Int
      BY DEF Held
<1> HIDE DEF Held
<1>2. player.x - Held(input, "A") + Held(input, "D") \in Int
      BY <1>1 DEF PlayerData
<1>3. player.y - Held(input, "W") + Held(input, "S") \in Int
      BY <1>1 DEF PlayerData
<1>4. QED
      BY <1>2, <1>3 DEF HandleMovement, PlayerData

\* Moving a player neither adds it to the game nor takes it out.
LEMMA HandleMovementActive ==
    ASSUME NEW player \in PlayerData, NEW input
    PROVE  HandleMovement(player, input).active = player.active
BY DEF HandleMovement, PlayerData

(***************************************************************************)
(* game_simulate maps states to states (shared/gameimpl.c:5 to 37).        *)
(***************************************************************************)
THEOREM GameSimulateType ==
    ASSUME NEW state \in GameState, NEW events \in GameEvents
    PROVE  GameSimulate(state, events) \in GameState
<1>1. ASSUME NEW i \in Slots
      PROVE  HandleMovement(HandleEvent(state[i], events.player_events[i]),
                            events.player_inputs[i]) \in PlayerData
  <2>1. state[i] \in PlayerData /\ events.player_events[i] \in PlayerEvent
        BY DEF GameState, GameEvents
  <2>2. QED
        BY <2>1, HandleEventType, HandleMovementType
<1>2. QED
      BY <1>1 DEF GameSimulate, GameState

===============================================================================
