------------------------------ MODULE ServerProofs ------------------------------
(***************************************************************************)
(* Every step of the server keeps the types, the invariant ServerInv, the  *)
(* roster and what ends each wait, and so does whatever others do to the   *)
(* connections, for any number of slots and clients and any ring size.     *)
(* OpenServerProofs and NetcodeProofs use these lemmas, each with the      *)
(* clients of its own specification.                                       *)
(***************************************************************************)
EXTENDS ServerMain, GameProofs, SequenceTheorems, FiniteSetTheorems, TLAPS

Types == NetworkTypeOK /\ ServerTypeOK

Inv == Types /\ ServerInv

-------------------------------------------------------------------------------
(***************************************************************************)
(* Initially.                                                              *)
(***************************************************************************)
LEMMA SlotsNonEmpty == 0 \in Slots
BY GlobalsAssumption DEF Slots

LEMMA InitType == NetworkInit /\ ServerInit => Types
<1> SUFFICES ASSUME NetworkInit, ServerInit PROVE Types
    OBVIOUS
<1>1. NetworkTypeOK
      BY DEF NetworkInit, NetworkTypeOK, SocketState
<1>2. ServerTypeOK
  <2>1. /\ game_states \in [RingIndex -> GameState] /\ game_events \in [RingIndex -> GameEvents]
        /\ confirmed \in Seq(GameEvents) /\ truth \in Seq(GameState)
        BY InitialStateType, NoEventsType DEF ServerInit
  <2>2. QED
        BY <2>1, SlotsNonEmpty
        DEF ServerInit, ServerTypeOK, AcceptPC, ThreadPC, SimPC, MainPC
<1>3. QED
      BY <1>1, <1>2 DEF Types

LEMMA InitInv == NetworkInit /\ ServerInit => Inv
<1> SUFFICES ASSUME NetworkInit, ServerInit PROVE Inv
    OBVIOUS
<1>1. ServerInv
      BY NetworkAssumption
      DEF NetworkInit, ServerInit, ServerInv, StopsOnce, SlotBeingFilled, SlotInUse, ConnectedFirst,
          SimReady, Lockstep, Joined, Filling, Filled, Undoing, to_shutdown
<1>2. QED
      BY <1>1, InitType DEF Inv

-------------------------------------------------------------------------------
\* The sequence without one of its elements.
Without(q, i) == SubSeq(q, 1, i - 1) \o SubSeq(q, i + 1, Len(q))

LEMMA WithoutType ==
    ASSUME NEW S, NEW q \in Seq(S), NEW i \in DOMAIN q
    PROVE  Without(q, i) \in Seq(S)
<1>1. i \in 1 .. Len(q) /\ Len(q) \in Nat
      OBVIOUS
<1>2. SubSeq(q, 1, i - 1) \in Seq(S) /\ SubSeq(q, i + 1, Len(q)) \in Seq(S)
      BY <1>1, SubSeqProperties
<1>3. QED
      BY <1>2, ConcatProperties DEF Without

LEMMA CloseServerEndType ==
    ASSUME NetworkTypeOK, NEW c \in Clients, CloseServerEnd(c)
    PROVE  /\ server_end' \in [Clients -> SocketState]
           /\ up' \in [Clients -> Seq(InputsMessage)]
BY DEF NetworkTypeOK, CloseServerEnd, SocketState

LEMMA ServerDiesType ==
    ASSUME NetworkTypeOK, ServerDies
    PROVE  /\ server_up' \in BOOLEAN
           /\ server_end' \in [Clients -> SocketState]
           /\ up' \in [Clients -> Seq(InputsMessage)]
<1>1. \A c \in Clients : (IF client_end[c] = "none" THEN "none" ELSE "closed") \in SocketState
      BY DEF SocketState
<1>2. server_end' \in [Clients -> SocketState]
      BY <1>1 DEF ServerDies
<1>3. <<>> \in Seq(InputsMessage)
      OBVIOUS
<1>4. up' \in [Clients -> Seq(InputsMessage)]
      BY <1>3, Zenon DEF ServerDies
<1>5. QED
      BY <1>2, <1>4 DEF ServerDies

(***************************************************************************)
(* The accept thread.                                                      *)
(***************************************************************************)
LEMMA AcceptType ==
    ASSUME Inv, AcceptThread
    PROVE  Types'
<1> USE DEF Inv, Types, NetworkTypeOK, ServerTypeOK, AcceptPC, ThreadPC, SocketState,
            networkVars, serverVars, acceptVars, slotVars, threadVars, ringVars, mainVars
<1>0. ASSUME NEW c \in Clients, AcceptConnection(c) PROVE Types'
      BY <1>0 DEF AcceptConnection
<1>0a. CASE AcceptStops
  <2>1. \A c \in Clients, kept \in SUBSET Backlog :
           (IF c \in kept THEN "open" ELSE IF c \in Backlog THEN "closed" ELSE server_end[c]) \in SocketState
        OBVIOUS
  <2>2. server_end' \in [Clients -> SocketState]
        BY <1>0a, <2>1 DEF AcceptStops
  <2>3. QED
        BY <1>0a, <2>2 DEF AcceptStops
<1>1. CASE AcceptLimitReached
  <2>1. accept_fd \in Clients
        BY <1>1 DEF AcceptLimitReached, Admitting, ServerInv, SlotBeingFilled
  <2>2. server_end' \in [Clients -> SocketState] /\ up' \in [Clients -> Seq(InputsMessage)]
        BY <1>1, <2>1, CloseServerEndType DEF AcceptLimitReached
  <2>3. QED
        BY <1>1, <2>2, SlotsNonEmpty DEF AcceptLimitReached, AcceptForget
<1>2. CASE AcceptNoSlot
  <2>1. accept_fd \in Clients
        BY <1>2 DEF AcceptNoSlot, Admitting, ServerInv, SlotBeingFilled
  <2>2. server_end' \in [Clients -> SocketState] /\ up' \in [Clients -> Seq(InputsMessage)]
        BY <1>2, <2>1, CloseServerEndType DEF AcceptNoSlot
  <2>3. QED
        BY SMTT(30), <1>2, <2>2, SlotsNonEmpty DEF AcceptNoSlot, AcceptForget
<1>3. ASSUME NEW s \in Slots, AcceptFindSlot(s) PROVE Types'
      BY <1>3 DEF AcceptFindSlot
<1>4. CASE AcceptMark
      BY <1>4 DEF AcceptMark, AcceptStep
<1>5. CASE AcceptSetFd
      BY <1>5 DEF AcceptSetFd, AcceptStep
<1>6. CASE AcceptSetFrame
      BY <1>6 DEF AcceptSetFrame, AcceptStep
<1>7. CASE AcceptCountRead
      BY <1>7 DEF AcceptCountRead, AcceptStep
<1>8. CASE AcceptCountWrite
      BY <1>8 DEF AcceptCountWrite, AcceptStep
<1>9. CASE AcceptSpawn
      BY <1>9 DEF AcceptSpawn
<1>10. CASE AcceptSpawnFails
       BY <1>10 DEF AcceptSpawnFails, AcceptStep, Undoing
<1>10a. CASE AcceptUndoFd
        BY <1>10a DEF AcceptUndoFd, AcceptStep, Undoing
<1>10b. CASE AcceptUndoRead
        BY <1>10b DEF AcceptUndoRead, AcceptStep, Undoing
<1>10c. CASE AcceptUndoWrite
        BY <1>10c DEF AcceptUndoWrite, AcceptStep, Undoing
<1>10d. CASE AcceptUndoUnlock
        BY <1>10d DEF AcceptUndoUnlock, AcceptStep, Undoing
<1>11. CASE AcceptUndo
  <2>1. accept_fd \in Clients
        BY <1>11 DEF AcceptUndo, ServerInv, SlotBeingFilled
  <2>2. server_end' \in [Clients -> SocketState] /\ up' \in [Clients -> Seq(InputsMessage)]
        BY <1>11, <2>1, CloseServerEndType DEF AcceptUndo
  <2>3. QED
        BY <1>11, <2>2, SlotsNonEmpty DEF AcceptUndo, AcceptForget
<1>12. CASE AcceptUnlock
       BY <1>12, SlotsNonEmpty DEF AcceptUnlock, AcceptForget
<1>13. QED
       BY <1>0, <1>0a, <1>1, <1>2, <1>3, <1>4, <1>5, <1>6, <1>7, <1>8, <1>9, <1>10, <1>10a, <1>10b, <1>10c,
          <1>10d, <1>11, <1>12
       DEF AcceptThread

(***************************************************************************)
(* The client threads.                                                     *)
(***************************************************************************)
LEMMA RingEntry ==
    ASSUME NEW f \in Nat, NEW events \in [RingIndex -> GameEvents], NEW e \in GameEvents
    PROVE  [events EXCEPT ![Ring(f)] = e] \in [RingIndex -> GameEvents]
BY RingType

LEMMA AnnounceType ==
    ASSUME NEW s \in Slots, NEW e \in GameEvents, NEW event \in PlayerEvent
    PROVE  [e EXCEPT !.player_events[s] = event] \in GameEvents
BY DEF GameEvents

LEMMA StoreType ==
    ASSUME NEW s \in Slots, NEW e \in GameEvents, NEW input \in PlayerInput
    PROVE  [e EXCEPT !.player_inputs[s] = input] \in GameEvents
BY DEF GameEvents

\* What is received and what is left are messages, however many recv() returns.
LEMMA ReceivingType ==
    ASSUME Inv, NEW s \in Slots, ThreadReceiving(s)
    PROVE  /\ Head(up[cd_fd[s]]) \in InputsMessage
           /\ up' \in [Clients -> Seq(InputsMessage)]
<1> USE DEF Inv, Types, NetworkTypeOK
<1>1. cd_fd[s] \in Clients
      BY DEF ThreadReceiving, ThreadStep, ServerInv, SlotInUse
<1> DEFINE queue == up[cd_fd[s]]
<1>2. queue \in Seq(InputsMessage)
      BY <1>1
<1>3. PICK n \in RecvSizes(queue) : up' = [up EXCEPT ![cd_fd[s]] = SubSeq(@, n + 1, Len(@))]
      BY DEF ThreadReceiving
<1> HIDE DEF queue
<1>4. n \in 1 .. Len(queue) /\ Len(queue) \in Nat
      BY <1>2, <1>3, LenProperties DEF RecvSizes
<1>5. Head(queue) \in InputsMessage
      BY <1>2, <1>4, HeadTailProperties
<1>6. \A i \in n + 1 .. Len(queue) : queue[i] \in InputsMessage
      BY <1>2, <1>4
<1>7. SubSeq(queue, n + 1, Len(queue)) \in Seq(InputsMessage)
      BY <1>2, <1>4, <1>6, SubSeqProperties
<1>8. up' = [up EXCEPT ![cd_fd[s]] = SubSeq(queue, n + 1, Len(queue))]
      BY <1>1, <1>3 DEF queue
<1>9. up' \in [Clients -> Seq(InputsMessage)]
      BY <1>7, <1>8
<1>10. QED
       BY <1>5, <1>9 DEF queue

LEMMA ThreadType ==
    ASSUME Inv, NEW s \in Slots, ClientThread(s)
    PROVE  Types'
<1> USE DEF Inv, Types, NetworkTypeOK, ServerTypeOK, ThreadPC, SocketState,
            networkVars, serverVars, acceptVars, slotVars, threadVars, ringVars, mainVars
<1>1. CASE ThreadInit(s)
  <2>1. game_events[Ring(server_frame)] \in GameEvents /\ game_states[Ring(server_frame)] \in GameState
        BY RingType
  <2> DEFINE e == [game_events[Ring(server_frame)] EXCEPT !.player_events[s] = "JOIN"]
  <2>2. e \in GameEvents
        BY <2>1, AnnounceType DEF PlayerEvent
  <2>3. game_events' = [game_events EXCEPT ![Ring(server_frame)] = e]
        BY <1>1 DEF ThreadInit
  <2> HIDE DEF e
  <2>4. game_events' \in [RingIndex -> GameEvents] /\ game_events'[Ring(server_frame)] = e
        BY <2>2, <2>3, RingEntry, RingType
  <2>5. InitPlayer(server_frame, game_states[Ring(server_frame)], e, s) \in InitMessage
        BY <2>1, <2>2 DEF InitPlayer, InitMessage
  <2>6. thread_msg' \in [Slots -> InitMessage \cup {NoMessage}]
        BY <1>1, <2>4, <2>5 DEF ThreadInit
  <2>7. QED
        BY <1>1, <2>4, <2>6 DEF ThreadInit, ThreadStep
<1>2. CASE ThreadSendInit(s)
  <2>1. thread_msg[s] \in InitMessage /\ cd_fd[s] \in Clients
        BY <1>2 DEF ThreadSendInit, ThreadStep, ServerInv, SlotInUse
  <2>2. Append(down[cd_fd[s]], thread_msg[s]) \in Seq(InitMessage \cup EventsMessage)
        BY <2>1, AppendProperties
  <2>3. down' \in [Clients -> Seq(InitMessage \cup EventsMessage)]
        BY <1>2, <2>1, <2>2 DEF ThreadSendInit, Delivered
  <2>4. QED
        BY <1>2, <2>3 DEF ThreadSendInit, ThreadStep, NextRecv
<1>3. CASE ThreadSendInitFails(s)
      BY <1>3 DEF ThreadSendInitFails, ThreadStep
<1>4. CASE ThreadSendInitKills(s)
      BY <1>4, ServerDiesType DEF ThreadSendInitKills, ServerDies
<1>5. CASE ThreadStoreInput(s)
  <2> DEFINE m == Head(up[cd_fd[s]])
  <2>1. ThreadReceiving(s)
        BY <1>5 DEF ThreadStoreInput
  <2>2. m \in InputsMessage /\ up' \in [Clients -> Seq(InputsMessage)]
        BY <2>1, ReceivingType
  <2>3. m.frame \in Nat /\ m.input \in PlayerInput
        BY <2>2 DEF InputsMessage
  <2> HIDE DEF m
  <2> DEFINE e == [game_events[Ring(m.frame)] EXCEPT !.player_inputs[s] = m.input]
  <2>4. e \in GameEvents
        BY <2>3, RingType, StoreType
  <2>5. game_events' = [game_events EXCEPT ![Ring(m.frame)] = e]
        BY <1>5 DEF ThreadStoreInput, m
  <2>6. game_events' \in [RingIndex -> GameEvents]
        BY <2>3, <2>4, <2>5, RingEntry
  <2>7. cd_client_frame' \in [Slots -> Int]
        BY SMTT(30), <1>5, <2>3 DEF ThreadStoreInput, m
  <2>8. sim_pc' \in SimPC
        BY <1>5 DEF ThreadStoreInput, SignalSimulation, SimPC
  <2>9. QED
        BY <1>5, <2>2, <2>6, <2>7, <2>8 DEF ThreadStoreInput, ThreadReceiving, ThreadStep, NextRecv
<1>6. CASE ThreadIgnoreInput(s)
  <2>1. up' \in [Clients -> Seq(InputsMessage)]
        BY <1>6, ReceivingType DEF ThreadIgnoreInput
  <2>2. QED
        BY <1>6, <2>1 DEF ThreadIgnoreInput, ThreadReceiving, ThreadStep, NextRecv
<1>6a. CASE ThreadRecvPart(s)
       BY <1>6a, ServerDiesType DEF ThreadRecvPart, ServerDies
<1>7. CASE ThreadRecvEnd(s)
      BY <1>7 DEF ThreadRecvEnd, ThreadStep
<1>8. CASE ThreadClose(s)
  <2>1. cd_fd[s] \in Clients
        BY <1>8 DEF ThreadClose, ThreadStep, ServerInv, SlotInUse
  <2>2. server_end' \in [Clients -> SocketState] /\ up' \in [Clients -> Seq(InputsMessage)]
        BY <1>8, <2>1, CloseServerEndType DEF ThreadClose
  <2>3. QED
        BY <1>8, <2>2 DEF ThreadClose, ThreadStep
<1>8a. CASE ThreadForgetFd(s)
       BY <1>8a DEF ThreadForgetFd, ThreadStep
<1>9. CASE ThreadLeave(s)
  <2> DEFINE e == [game_events[Ring(server_frame)] EXCEPT !.player_events[s] = "LEAVE"]
  <2>1. game_events[Ring(server_frame)] \in GameEvents
        BY RingType
  <2>2. e \in GameEvents /\ game_events' = [game_events EXCEPT ![Ring(server_frame)] = e]
        BY <1>9, <2>1, AnnounceType DEF ThreadLeave, PlayerEvent
  <2> HIDE DEF e
  <2>3. game_events' \in [RingIndex -> GameEvents]
        BY <2>2, RingEntry
  <2>4. QED
        BY <1>9, <2>3 DEF ThreadLeave, ThreadStep
<1>10. CASE ThreadRemove(s)
  <2>1. removing' = [removing EXCEPT ![s] = Append(removing[s], client_count)]
        BY <1>10 DEF ThreadRemove
  <2>2. removing' \in [Slots -> Seq(Int)]
        BY <2>1, AppendProperties
  <2>3. QED
        BY <1>10, <2>2 DEF ThreadRemove, ThreadStep
<1>11. CASE ThreadRemoved(s)
  <2>1. PICK i \in DOMAIN removing[s] :
           /\ client_count' = removing[s][i] - 1
           /\ removing' = [removing EXCEPT ![s] = Without(removing[s], i)]
        BY <1>11 DEF ThreadRemoved, Without
  <2>2. removing[s][i] \in Int
        BY ElementOfSeq
  <2>3. removing' \in [Slots -> Seq(Int)]
        BY <2>1, WithoutType
  <2>4. /\ clients_lock' = "free"
        /\ UNCHANGED <<networkVars, acceptVars, slotVars, thread_pc, thread_msg, ringVars, sim_pc, mainVars>>
        BY <1>11 DEF ThreadRemoved
  <2>5. client_count' \in Int
        BY <2>1, <2>2
  <2>6. QED
        BY SMTT(30), <2>3, <2>4, <2>5
<1>12. QED
       BY <1>1, <1>2, <1>3, <1>4, <1>5, <1>6, <1>7, <1>8, <1>9, <1>10, <1>11,
          <1>6a, <1>8a
       DEF ClientThread

(***************************************************************************)
(* The simulation thread.                                                  *)
(***************************************************************************)
LEMMA CopiesType ==
    ASSUME NEW slots \in SUBSET Slots, NEW c
    PROVE  Copies(slots, c) \in Nat
<1>1. IsFiniteSet(Slots)
      BY FS_Interval, GlobalsAssumption DEF Slots
<1>2. IsFiniteSet({s \in slots : cd_fd[s] = c})
      BY <1>1, FS_Subset
<1>3. QED
      BY <1>2, FS_CardinalityType DEF Copies

LEMMA SimType ==
    ASSUME Inv, SimulationThread \/ SimSpuriousWakeup
    PROVE  Types'
<1> USE DEF Inv, Types, NetworkTypeOK, ServerTypeOK, SimPC, SocketState,
            networkVars, serverVars, acceptVars, slotVars, threadVars, ringVars, mainVars
<1>1. CASE SimTest
      BY <1>1 DEF SimTest
<1>2. CASE SimSpuriousWakeup
      BY <1>2 DEF SimSpuriousWakeup
<1>2a. CASE SimTestLate
       BY <1>2a DEF SimTestLate
<1>2b. CASE SimStops
       BY <1>2b DEF SimStops
<1>3. CurrentEvents \in GameEvents /\ NextState \in GameState
      BY RingType, GameSimulateType DEF CurrentEvents, NextState
<1>4. ASSUME SimSimulating
      PROVE  /\ game_states' \in [RingIndex -> GameState]
             /\ confirmed' \in Seq(GameEvents)
             /\ truth' \in Seq(GameState)
      BY <1>3, <1>4, RingType, AppendProperties DEF SimSimulating
<1>5. ASSUME NEW slots \in SUBSET Slots
      PROVE  Broadcast(slots, FrameGameEvents(server_frame, CurrentEvents))
                \in [Clients -> Seq(InitMessage \cup EventsMessage)]
  <2> DEFINE m == FrameGameEvents(server_frame, CurrentEvents)
  <2>1. m \in InitMessage \cup EventsMessage
        BY <1>3 DEF FrameGameEvents, EventsMessage
  <2> HIDE DEF m
  <2>2. ASSUME NEW c \in Clients
        PROVE  down[c] \o [i \in 1 .. Copies(slots, c) |-> m] \in Seq(InitMessage \cup EventsMessage)
    <3>1. Copies(slots, c) \in Nat
          BY CopiesType
    <3>2. [i \in 1 .. Copies(slots, c) |-> m] \in Seq(InitMessage \cup EventsMessage)
      <4> DEFINE n == Copies(slots, c)
                 S == InitMessage \cup EventsMessage
      <4> HIDE DEF n, S
      <4>1. [i \in 1 .. n |-> m] \in [1 .. n -> S]
            BY <2>1 DEF S
      <4>2. n \in Nat
            BY <3>1 DEF n
      <4>3. [i \in 1 .. n |-> m] \in Seq(S)
        <5>1. [1 .. n -> S] \in {[1 .. k -> S] : k \in Nat}
              BY <4>2
        <5>2. [i \in 1 .. n |-> m] \in UNION {[1 .. k -> S] : k \in Nat}
              BY <4>1, <5>1
        <5>3. QED
              BY <5>2, SeqDef
      <4>4. QED
            BY <4>3 DEF n, S
    <3>3. QED
          BY <3>2, ConcatProperties
  <2>3. QED
        BY <2>2 DEF Broadcast, m
<1>6. CASE SimStep
  <2>1. down' \in [Clients -> Seq(InitMessage \cup EventsMessage)]
        BY <1>5, <1>6 DEF SimStep, BroadcastTo
  <2>2. server_frame + 1 \in Nat
        OBVIOUS
  <2>3. game_events' \in [RingIndex -> GameEvents] /\ server_frame' \in Nat
        BY <1>6, <2>2, NoEventsType, RingEntry DEF SimStep
  <2>4. QED
        BY <1>4, <1>6, <2>1, <2>3 DEF SimStep
<1>7. CASE SimKills
  <2>1. down' \in [Clients -> Seq(InitMessage \cup EventsMessage)]
    <3>1. PICK s \in Slots :
             down' = Broadcast({t \in BroadcastTo : t < s},
                               FrameGameEvents(server_frame, CurrentEvents))
          BY <1>7 DEF SimKills
    <3>2. {t \in BroadcastTo : t < s} \in SUBSET Slots
          BY DEF BroadcastTo
    <3>3. QED
          BY <1>5, <3>1, <3>2
  <2>2. QED
        BY <1>4, <1>7, <2>1, ServerDiesType DEF SimKills, ServerDies
<1>8. QED
      BY <1>1, <1>2, <1>2a, <1>2b, <1>6, <1>7 DEF SimulationThread

(***************************************************************************)
(* The main thread.                                                        *)
(***************************************************************************)
LEMMA NextSlotType ==
    ASSUME main_slot \in Slots, NEW loop, NEW after, NextSlot(loop, after)
    PROVE  /\ main_slot' \in Slots
           /\ main_pc' \in {loop, after}
           /\ UNCHANGED <<up, down, client_end, server_up, client_count, clients_lock, acceptVars,
                           slotVars, thread_msg, removing, ringVars>>
BY SlotsNonEmpty DEF NextSlot, MainStep

LEMMA MainType ==
    ASSUME Inv, BeginShutdown \/ ServerShutdown
    PROVE  Types'
<1> USE DEF Inv, Types, NetworkTypeOK, ServerTypeOK, MainPC,
            acceptVars, slotVars, threadVars, ringVars
<1>1. CASE BeginShutdown
  <2>1. thread_pc' \in [Slots -> ThreadPC]
    <3>1. PICK testing \in SUBSET Slots :
             thread_pc' = [s \in Slots |-> IF s \in testing THEN "close" ELSE thread_pc[s]]
          BY <1>1 DEF BeginShutdown
    <3>2. QED
          BY <3>1 DEF ThreadPC
  <2>2. sim_pc' \in SimPC
        BY <1>1 DEF BeginShutdown, SimPC
  <2>3. QED
        BY <1>1, <2>1, <2>2 DEF BeginShutdown, MainStep
<1>2. CASE MainCount("count", "walk", "signal")
      BY <1>2 DEF MainCount, MainStep
<1>3. CASE MainSkipClient
      BY <1>3, NextSlotType DEF MainSkipClient
<1>4. CASE MainShutClient
  <2>1. \A c \in Clients : (IF cd_fd[main_slot] = c THEN "closed" ELSE server_end[c]) \in SocketState
        BY DEF SocketState
  <2>2. server_end' \in [Clients -> SocketState]
        BY <1>4, <2>1 DEF MainShutClient
  <2>3. QED
        BY <1>4, <2>2 DEF MainShutClient, MainStep
<1>5. CASE MainCloseClient
      BY <1>5, NextSlotType DEF MainCloseClient
<1>6. CASE MainSignal
      BY <1>6 DEF MainSignal, MainStep, SignalSimulation, SimPC
<1>7. CASE MainJoinSimulation
      BY <1>7 DEF MainJoinSimulation, MainStep
<1>8. CASE MainJoinAccept
      BY <1>8 DEF MainJoinAccept, MainStep
<1>9. CASE MainCount("recount", "join_clients", "destroy")
      BY <1>9 DEF MainCount, MainStep
<1>10. CASE MainJoinClient
       BY <1>10, NextSlotType DEF MainJoinClient
<1>11. CASE MainReturns
       BY <1>11, ServerDiesType DEF MainReturns, ServerDies
<1>12. QED
       BY <1>1, <1>2, <1>3, <1>4, <1>5, <1>6, <1>7, <1>8, <1>9, <1>10, <1>11 DEF ServerShutdown

-------------------------------------------------------------------------------
(***************************************************************************)
(* The invariant is kept by the accept thread.                             *)
(***************************************************************************)
LEMMA AcceptInv ==
    ASSUME Inv, AcceptThread
    PROVE  ServerInv'
<1> USE DEF Inv, Types, NetworkTypeOK, ServerTypeOK, ServerInv, StopsOnce, SlotBeingFilled, SlotInUse,
            ConnectedFirst, SimReady, Lockstep, Joined, Filling, Filled, Undoing, to_shutdown, mainVars
<1>0. ASSUME NEW c \in Clients, AcceptConnection(c) PROVE ServerInv'
  <2>1. /\ server_up /\ listening /\ accept_pc = "accept" /\ accept_pc' = "lock" /\ accept_fd' = c
        /\ server_end[c] = "none" /\ client_end[c] # "none"
        /\ server_end' = [server_end EXCEPT ![c] = "open"]
        /\ UNCHANGED <<server_up, listening, client_end, thread_pc, thread_msg, cd_is_connected,
                       cd_client_frame, server_frame, sim_pc, main_pc>>
        BY <1>0 DEF AcceptConnection, threadVars, ringVars
  <2>2. PICK renamed \in SUBSET Slots :
           /\ \A s \in renamed : thread_pc[s] = "forget"
           /\ cd_fd' = [s \in Slots |-> IF s \in renamed THEN c ELSE cd_fd[s]]
    <3>1. CASE UNCHANGED cd_fd
      <4> DEFINE none == {s \in Slots : FALSE}
      <4>1. none \in SUBSET Slots /\ \A s \in none : thread_pc[s] = "forget"
            OBVIOUS
      <4>2. cd_fd' = [s \in Slots |-> IF s \in none THEN c ELSE cd_fd[s]]
            BY <3>1
      <4> HIDE DEF none
      <4>3. QED
            BY <4>1, <4>2
    <3>2. ASSUME NEW fd \in Released,
                 cd_fd' = [s \in Slots |-> IF cd_fd[s] = fd THEN c ELSE cd_fd[s]]
          PROVE  \E renamed \in SUBSET Slots :
                    /\ \A s \in renamed : thread_pc[s] = "forget"
                    /\ cd_fd' = [s \in Slots |-> IF s \in renamed THEN c ELSE cd_fd[s]]
      <4> DEFINE renamed == {s \in Slots : cd_fd[s] = fd}
      <4>1. \A s \in renamed : thread_pc[s] = "forget"
            BY <2>1 DEF Released
      <4>2. cd_fd' = [s \in Slots |-> IF s \in renamed THEN c ELSE cd_fd[s]]
            BY <3>2
      <4>3. QED
            BY <4>1, <4>2
    <3>3. QED
          BY <1>0, <3>1, <3>2 DEF AcceptConnection
  <2>3. \A s \in Slots : cd_fd[s] # c
        BY <2>1
  <2>4. SlotBeingFilled'
        BY <2>1, <2>2, <2>3
  <2>5. SlotInUse'
        BY <2>1, <2>2, <2>3, NetworkAssumption
  <2>6. ConnectedFirst' /\ SimReady' /\ Lockstep' /\ StopsOnce'
        BY <2>1
  <2>7. QED
        BY <2>4, <2>5, <2>6
<1>0a. CASE AcceptStops
  <2>1. PICK kept \in SUBSET Backlog :
           server_end' = [c \in Clients |-> IF c \in kept THEN "open"
                                          ELSE IF c \in Backlog THEN "closed"
                                          ELSE server_end[c]]
        BY <1>0a DEF AcceptStops
  <2>2. /\ \A c \in Clients : server_end[c] # "none" => server_end'[c] # "none"
        /\ \A c \in Clients : server_end'[c] # "none" => server_end[c] # "none" \/ client_end[c] # "none"
        BY <2>1 DEF Backlog
  <2>3. QED
        BY <1>0a, <2>2 DEF AcceptStops, slotVars, threadVars, ringVars
<1>1. CASE AcceptLimitReached
      BY <1>1 DEF AcceptLimitReached, Admitting, AcceptForget, CloseServerEnd, slotVars,
                  threadVars, ringVars
<1>2. CASE AcceptNoSlot
      BY <1>2 DEF AcceptNoSlot, Admitting, AcceptForget, CloseServerEnd, slotVars, threadVars, ringVars
<1>3. ASSUME NEW s \in Slots, AcceptFindSlot(s) PROVE ServerInv'
      BY <1>3 DEF AcceptFindSlot, Admitting, FreeSlot, networkVars, slotVars, threadVars, ringVars
<1>4. CASE AcceptMark
      BY <1>4 DEF AcceptMark, AcceptStep, networkVars, threadVars, ringVars
<1>5. CASE AcceptSetFd
      BY <1>5, NetworkAssumption DEF AcceptSetFd, AcceptStep, networkVars, threadVars, ringVars
<1>6. CASE AcceptSetFrame
      BY <1>6 DEF AcceptSetFrame, AcceptStep, networkVars, threadVars, ringVars
<1>7. CASE AcceptCountRead
      BY <1>7 DEF AcceptCountRead, AcceptStep, networkVars, slotVars, threadVars, ringVars
<1>8. CASE AcceptCountWrite
      BY <1>8 DEF AcceptCountWrite, AcceptStep, networkVars, slotVars, threadVars, ringVars
<1>9. CASE AcceptSpawn
      BY <1>9 DEF AcceptSpawn, networkVars, slotVars, ringVars
<1>10. CASE AcceptSpawnFails
       BY <1>10 DEF AcceptSpawnFails, AcceptStep, networkVars, threadVars, ringVars
<1>10a. CASE AcceptUndoFd
        BY <1>10a, NetworkAssumption DEF AcceptUndoFd, AcceptStep, networkVars, threadVars, ringVars
<1>10b. CASE AcceptUndoRead
        BY <1>10b DEF AcceptUndoRead, AcceptStep, networkVars, slotVars, threadVars, ringVars
<1>10c. CASE AcceptUndoWrite
        BY <1>10c DEF AcceptUndoWrite, AcceptStep, networkVars, slotVars, threadVars, ringVars
<1>10d. CASE AcceptUndoUnlock
        BY <1>10d DEF AcceptUndoUnlock, AcceptStep, networkVars, slotVars, threadVars, ringVars
<1>11. CASE AcceptUndo
       BY <1>11 DEF AcceptUndo, AcceptForget, CloseServerEnd, slotVars, threadVars, ringVars
<1>12. CASE AcceptUnlock
       BY <1>12 DEF AcceptUnlock, AcceptForget, networkVars, slotVars, threadVars, ringVars
<1>13. QED
       BY <1>0, <1>0a, <1>1, <1>2, <1>3, <1>4, <1>5, <1>6, <1>7, <1>8, <1>9, <1>10, <1>10a, <1>10b, <1>10c,
          <1>10d, <1>11, <1>12
       DEF AcceptThread

(***************************************************************************)
(* ... by the thread of a client ...                                       *)
(***************************************************************************)
LEMMA ThreadInv ==
    ASSUME Inv, NEW s \in Slots, ClientThread(s)
    PROVE  ServerInv'
<1> USE DEF Inv, Types, NetworkTypeOK, ServerTypeOK, ServerInv, StopsOnce, SlotBeingFilled, SlotInUse,
            ConnectedFirst, SimReady, Lockstep, Joined, Filling, Filled, Undoing, to_shutdown, mainVars
<1>1. CASE ThreadInit(s)
  <2>1. thread_msg'[s] \in InitMessage
    <3> DEFINE e == [game_events[Ring(server_frame)] EXCEPT !.player_events[s] = "JOIN"]
    <3>1. game_events[Ring(server_frame)] \in GameEvents /\ game_states[Ring(server_frame)] \in GameState
          BY RingType
    <3>2. e \in GameEvents
          BY <3>1, AnnounceType DEF PlayerEvent
    <3>3. game_events' = [game_events EXCEPT ![Ring(server_frame)] = e]
          BY <1>1 DEF ThreadInit
    <3> HIDE DEF e
    <3>4. game_events'[Ring(server_frame)] = e
          BY <3>3, RingType
    <3>5. InitPlayer(server_frame, game_states[Ring(server_frame)], e, s) \in InitMessage
          BY <3>1, <3>2 DEF InitPlayer, InitMessage
    <3>6. QED
          BY <1>1, <3>4, <3>5 DEF ThreadInit
  <2>2. /\ thread_pc[s] = "init" /\ thread_pc' = [thread_pc EXCEPT ![s] = "send_init"]
        /\ sim_pc # "simulate" /\ sim_pc' = sim_pc
        /\ \A t \in Slots : t # s => thread_msg'[t] = thread_msg[t]
        /\ UNCHANGED <<server_up, listening, server_end, client_end, accept_pc, accept_fd, accept_slot,
                       cd_is_connected, cd_fd, cd_client_frame, server_frame, main_pc>>
        BY <1>1 DEF ThreadInit, ThreadStep, StateLockFree, networkVars, acceptVars, slotVars
  <2>3. SlotBeingFilled'
        BY <2>2
  <2>4. SlotInUse'
    <3>1. SlotInUse /\ thread_pc \in [Slots -> ThreadPC]
          OBVIOUS
    <3> HIDE DEF Inv, Types, NetworkTypeOK, ServerTypeOK, ServerInv
    <3>2. QED
          BY <2>1, <2>2, <3>1
  <2>5. ConnectedFirst' /\ SimReady' /\ Lockstep' /\ StopsOnce'
        BY <2>2
  <2>6. QED
        BY <2>3, <2>4, <2>5
<1>2. CASE ThreadSendInit(s)
  <2>1. /\ thread_pc[s] = "send_init" /\ thread_pc' = [thread_pc EXCEPT ![s] = NextRecv]
        /\ NextRecv \in {"listen", "close"}
        /\ \A t \in Slots : t # s => thread_msg'[t] = thread_msg[t]
        /\ UNCHANGED <<server_up, listening, server_end, client_end, accept_pc, accept_fd,
                        accept_slot, cd_is_connected, cd_fd, cd_client_frame, server_frame,
                        sim_pc, main_pc>>
        BY <1>2 DEF ThreadSendInit, ThreadStep, NextRecv, acceptVars, slotVars, ringVars
  <2>2. SlotBeingFilled'
        BY <2>1
  <2>3. SlotInUse'
    <3>1. SlotInUse /\ thread_pc \in [Slots -> ThreadPC]
          OBVIOUS
    <3> HIDE DEF Inv, Types, NetworkTypeOK, ServerTypeOK, ServerInv
    <3>2. QED
          BY <2>1, <3>1
  <2>4. ConnectedFirst' /\ SimReady' /\ Lockstep' /\ StopsOnce'
        BY <2>1
  <2>5. QED
        BY <2>2, <2>3, <2>4
<1>3. CASE ThreadSendInitFails(s)
  <2>1. /\ thread_pc[s] = "send_init" /\ thread_pc' = [thread_pc EXCEPT ![s] = "close"]
        /\ \A t \in Slots : t # s => thread_msg'[t] = thread_msg[t]
        /\ UNCHANGED <<server_up, listening, server_end, client_end, accept_pc, accept_fd,
                        accept_slot, cd_is_connected, cd_fd, cd_client_frame, server_frame,
                        sim_pc, main_pc>>
        BY <1>3 DEF ThreadSendInitFails, ThreadStep, networkVars, acceptVars, slotVars, ringVars
  <2>2. SlotBeingFilled'
        BY <2>1
  <2>3. SlotInUse'
    <3>1. SlotInUse /\ thread_pc \in [Slots -> ThreadPC]
          OBVIOUS
    <3> HIDE DEF Inv, Types, NetworkTypeOK, ServerTypeOK, ServerInv
    <3>2. QED
          BY <2>1, <3>1
  <2>4. ConnectedFirst' /\ SimReady' /\ Lockstep' /\ StopsOnce'
        BY <2>1
  <2>5. QED
        BY <2>2, <2>3, <2>4
<1>4. CASE ThreadSendInitKills(s)
      BY SMTT(30), <1>4 DEF ThreadSendInitKills, ServerDies, serverVars, acceptVars, slotVars, threadVars, ringVars
<1>5. CASE ThreadStoreInput(s)
  <2> DEFINE m == Head(up[cd_fd[s]])
  <2>1. /\ thread_pc[s] = "listen" /\ thread_pc' = [thread_pc EXCEPT ![s] = NextRecv]
        /\ NextRecv \in {"listen", "close"}
        /\ sim_pc # "simulate" /\ sim_pc' # "simulate"
        BY <1>5 DEF ThreadStoreInput, ThreadReceiving, ThreadStep, NextRecv, StateLockFree,
                    SignalSimulation
  <2>2. m.frame \in Nat
        BY <1>5, ReceivingType DEF ThreadStoreInput, InputsMessage
  <2>3. server_frame <= m.frame /\ m.frame < server_frame + FRAME_BUFFER_SIZE
    <3>1. ~InputRefused(s, m.frame)
          BY <1>5 DEF ThreadStoreInput
    <3> HIDE DEF m
    <3>2. QED
          BY SMTT(30), <2>2, <3>1, GlobalsAssumption DEF InputRefused
  <2>4. cd_client_frame' = [cd_client_frame EXCEPT ![s] = m.frame]
        BY <1>5 DEF ThreadStoreInput
  <2> HIDE DEF m
  <2>5. UNCHANGED <<accept_pc, accept_fd, accept_slot, thread_msg, cd_is_connected, cd_fd,
                    server_end, client_end, server_up, listening, server_frame, main_pc>>
        BY <1>5 DEF ThreadStoreInput, ThreadReceiving, acceptVars
  <2>6. \A t \in Slots : Joined(t)' => Joined(t)
        BY <2>1
  <2>7. cd_client_frame'[s] = m.frame /\ \A t \in Slots : t # s => cd_client_frame'[t] = cd_client_frame[t]
        BY <2>4
  <2>8. Lockstep /\ server_frame \in Nat
        OBVIOUS
  <2>9. Lockstep'
    <3> HIDE DEF Inv, Joined
    <3>1. SUFFICES ASSUME NEW t \in Slots, Joined(t)'
                   PROVE  \/ cd_client_frame'[t] = -1
                          \/ /\ server_frame - 1 <= cd_client_frame'[t]
                             /\ cd_client_frame'[t] < server_frame + FRAME_BUFFER_SIZE
          BY <2>5
    <3>2. CASE t = s
      <4>1. cd_client_frame'[t] = m.frame
            BY <2>7, <3>2
      <4>2. QED
            BY <2>2, <2>3, <2>8, <4>1
    <3>3. CASE t # s
          BY <2>6, <2>7, <2>8, <3>1, <3>3
    <3>4. QED
          BY <3>2, <3>3
  <2>10. SlotBeingFilled'
        BY <2>1, <2>4, <2>5
  <2>11. SlotInUse'
        BY SMTT(30), <2>1, <2>4, <2>5
  <2>12. ConnectedFirst' /\ SimReady' /\ StopsOnce'
        BY <2>1, <2>5
  <2>13. QED
        BY <2>9, <2>10, <2>11, <2>12
<1>6. CASE ThreadIgnoreInput(s)
  <2>1. /\ thread_pc[s] = "listen" /\ thread_pc' = [thread_pc EXCEPT ![s] = NextRecv]
        /\ NextRecv \in {"listen", "close"}
        /\ UNCHANGED <<accept_pc, accept_fd, accept_slot, thread_msg, slotVars, sim_pc, server_end,
                       client_end, server_up, listening, server_frame, main_pc>>
        BY <1>6 DEF ThreadIgnoreInput, ThreadReceiving, ThreadStep, NextRecv, acceptVars, slotVars
  <2>2. SlotBeingFilled'
        BY <2>1 DEF slotVars
  <2>3. SlotInUse'
        BY SMTT(30), <2>1 DEF slotVars
  <2>4. ConnectedFirst' /\ SimReady' /\ Lockstep' /\ StopsOnce'
        BY SMTT(30), <2>1 DEF slotVars
  <2>5. QED
        BY <2>2, <2>3, <2>4
<1>6a. CASE ThreadRecvPart(s)
       BY SMTT(30), <1>6a DEF ThreadRecvPart, ServerDies, serverVars, acceptVars, slotVars, threadVars, ringVars
<1>7. CASE ThreadRecvEnd(s)
  <2>1. /\ thread_pc[s] = "listen" /\ thread_pc' = [thread_pc EXCEPT ![s] = "close"]
        /\ UNCHANGED <<server_up, listening, server_end, client_end, accept_pc, accept_fd,
                        accept_slot, thread_msg, cd_is_connected, cd_fd, cd_client_frame,
                        server_frame, sim_pc, main_pc>>
        BY <1>7 DEF ThreadRecvEnd, ThreadStep, networkVars, acceptVars, slotVars, ringVars
  <2>2. SlotBeingFilled'
        BY <2>1
  <2>3. SlotInUse'
        BY SMTT(30), <2>1
  <2>4. ConnectedFirst' /\ SimReady' /\ Lockstep' /\ StopsOnce'
        BY SMTT(30), <2>1
  <2>5. QED
        BY <2>2, <2>3, <2>4
<1>8. CASE ThreadClose(s)
  <2>1. /\ thread_pc[s] = "close" /\ thread_pc' = [thread_pc EXCEPT ![s] = "forget"]
        /\ server_end' = [server_end EXCEPT ![cd_fd[s]] = "closed"]
        /\ UNCHANGED <<server_up, listening, client_end, accept_pc, accept_fd, accept_slot, thread_msg,
                       cd_is_connected, cd_fd, cd_client_frame, server_frame, sim_pc, main_pc>>
        BY <1>8 DEF ThreadClose, ThreadStep, CloseServerEnd, acceptVars, slotVars, ringVars
  <2>2. /\ cd_fd[s] \in Clients /\ cd_fd[s] # NoFd
        /\ \A t \in Slots : t # s /\ cd_fd[t] = cd_fd[s] => thread_pc[t] = "forget"
        BY <2>1, NetworkAssumption
  <2>3. ASSUME accept_pc \notin {"accept", "unlock", "ended"} PROVE accept_fd # cd_fd[s]
        BY <2>1, <2>2, <2>3 DEF AcceptPC
  <2>4. SlotBeingFilled'
        BY <2>1, <2>2, <2>3
  <2>5. SlotInUse'
        BY <2>1, <2>2
  <2>6. ConnectedFirst' /\ SimReady' /\ Lockstep' /\ StopsOnce'
        BY <2>1, <2>2
  <2>7. QED
        BY <2>4, <2>5, <2>6
<1>8a. CASE ThreadForgetFd(s)
  <2>1. /\ thread_pc[s] = "forget" /\ thread_pc' = [thread_pc EXCEPT ![s] = "leave"]
        /\ cd_fd' = [cd_fd EXCEPT ![s] = NoFd]
        /\ UNCHANGED <<server_up, listening, server_end, client_end, accept_pc, accept_fd,
                        accept_slot, thread_msg, cd_is_connected, cd_client_frame,
                        server_frame, sim_pc, main_pc>>
        BY <1>8a, NetworkAssumption DEF ThreadForgetFd, ThreadStep, networkVars, acceptVars, ringVars
  <2>2. SlotBeingFilled'
        BY <2>1, NetworkAssumption
  <2>3. SlotInUse'
        BY <2>1, NetworkAssumption
  <2>4. ConnectedFirst' /\ SimReady' /\ Lockstep' /\ StopsOnce'
        BY SMTT(30), <2>1, NetworkAssumption
  <2>5. QED
        BY <2>2, <2>3, <2>4
<1>9. CASE ThreadLeave(s)
  <2>1. /\ thread_pc[s] = "leave" /\ thread_pc' = [thread_pc EXCEPT ![s] = "remove"]
        /\ UNCHANGED <<server_up, listening, server_end, client_end, accept_pc, accept_fd, accept_slot,
                       thread_msg, cd_is_connected, cd_fd, cd_client_frame, server_frame, sim_pc, main_pc>>
        BY <1>9 DEF ThreadLeave, ThreadStep, networkVars, acceptVars, slotVars
  <2>2. SlotBeingFilled'
        BY <2>1
  <2>3. SlotInUse'
        BY <2>1
  <2>4. ConnectedFirst' /\ SimReady' /\ Lockstep' /\ StopsOnce'
        BY <2>1
  <2>5. QED
        BY <2>2, <2>3, <2>4
<1>10. CASE ThreadRemove(s)
  <2>1. /\ thread_pc[s] = "remove" /\ thread_pc' = [thread_pc EXCEPT ![s] = "none"]
        /\ cd_is_connected' = [cd_is_connected EXCEPT ![s] = FALSE]
        /\ UNCHANGED <<server_up, listening, server_end, client_end, accept_pc, accept_fd,
                        accept_slot, thread_msg, cd_fd, cd_client_frame, server_frame, sim_pc,
                        main_pc>>
        BY <1>10 DEF ThreadRemove, ThreadStep, networkVars, acceptVars, ringVars
  <2>2. SlotBeingFilled'
        BY <2>1
  <2>3. SlotInUse'
        BY <2>1
  <2>4. ConnectedFirst' /\ SimReady' /\ Lockstep' /\ StopsOnce'
        BY <2>1
  <2>5. QED
        BY <2>2, <2>3, <2>4
<1>11. CASE ThreadRemoved(s)
  <2>1. UNCHANGED <<server_up, listening, server_end, client_end, accept_pc, accept_fd, accept_slot,
                    thread_pc, thread_msg, cd_is_connected, cd_fd, cd_client_frame, server_frame,
                    sim_pc, main_pc>>
        BY <1>11 DEF ThreadRemoved, networkVars, acceptVars, slotVars, ringVars, mainVars
  <2>2. SlotBeingFilled' /\ SlotInUse'
        BY SMTT(30), <2>1
  <2>3. ConnectedFirst' /\ SimReady' /\ Lockstep' /\ StopsOnce'
        BY <2>1
  <2>4. QED
        BY <2>2, <2>3
<1>12. QED
       BY <1>1, <1>2, <1>3, <1>4, <1>5, <1>6, <1>7, <1>8, <1>9, <1>10, <1>11,
          <1>6a, <1>8a
       DEF ClientThread

(***************************************************************************)
(* ... by the simulation thread ...                                        *)
(***************************************************************************)
LEMMA SimInv ==
    ASSUME Inv, SimulationThread \/ SimSpuriousWakeup
    PROVE  ServerInv'
<1> USE DEF Inv, Types, NetworkTypeOK, ServerTypeOK, ServerInv, StopsOnce, SlotBeingFilled, SlotInUse,
            ConnectedFirst, SimReady, Lockstep, Joined, Filling, Filled, Undoing, to_shutdown, mainVars
<1>1. CASE SimTest
      BY <1>1 DEF SimTest, CanSimulate, networkVars, acceptVars, slotVars, threadVars, ringVars
<1>2. CASE SimSpuriousWakeup
      BY <1>2 DEF SimSpuriousWakeup, networkVars, acceptVars, slotVars, threadVars, ringVars
<1>2a. CASE SimTestLate
       BY <1>2a DEF SimTestLate, networkVars, acceptVars, slotVars, threadVars, ringVars
<1>2b. CASE SimStops
       BY <1>2b DEF SimStops, networkVars, acceptVars, slotVars, threadVars, ringVars
<1>3. CASE SimStep
  <2>1. /\ UNCHANGED <<accept_pc, accept_fd, accept_slot, thread_pc, thread_msg, cd_is_connected,
                       cd_fd, cd_client_frame, server_end, client_end, server_up, listening, main_pc>>
        /\ server_frame' = server_frame + 1 /\ sim_pc = "simulate" /\ sim_pc' = "test"
        BY <1>3 DEF SimStep, SimSimulating, acceptVars, slotVars, threadVars
  <2>2. Lockstep'
        BY <2>1, GlobalsAssumption
  <2>3. QED
        BY <2>1, <2>2
<1>4. CASE SimKills
      BY <1>4 DEF SimKills, SimSimulating, ServerDies, acceptVars, slotVars, threadVars
<1>5. QED
      BY <1>1, <1>2, <1>2a, <1>2b, <1>3, <1>4 DEF SimulationThread

(***************************************************************************)
(* ... by the main thread, which shuts sockets in slots it does not lock   *)
(* but changes neither a slot nor a frame ...                              *)
(***************************************************************************)
SlotsKept ==
    /\ UNCHANGED <<accept_pc, accept_fd, accept_slot, cd_is_connected, cd_fd, cd_client_frame>>
    /\ UNCHANGED <<thread_msg, client_end, server_frame, server_up>>

ThreadsKept ==
    /\ \A s \in Slots : thread_pc'[s] # thread_pc[s] => thread_pc[s] = "listen" /\ thread_pc'[s] = "close"
    /\ sim_pc' = "simulate" => sim_pc = "simulate"

EndsKept ==
    \A c \in Clients : server_end'[c] # server_end[c] =>
        server_end[c] # "none" /\ server_end'[c] = "closed"

LEMMA StopKeepsInv ==
    ASSUME Inv, SlotsKept, ThreadsKept, EndsKept, ~listening', main_pc' # "pause"
    PROVE  ServerInv'
<1> USE DEF Inv, Types, NetworkTypeOK, ServerTypeOK, ServerInv, SlotBeingFilled, SlotInUse,
            ConnectedFirst, SimReady, Lockstep, Joined, Filling, Filled, Undoing, to_shutdown,
            SlotsKept, ThreadsKept, EndsKept
<1>1. SlotBeingFilled'
      OBVIOUS
<1>2. SlotInUse'
      BY SMTT(30)
<1>3. ConnectedFirst' /\ Lockstep'
      OBVIOUS
<1>4. SimReady'
  <2> SUFFICES ASSUME sim_pc' = "simulate", NEW s \in Slots, thread_pc'[s] \notin {"none", "init"}
               PROVE  cd_client_frame'[s] >= server_frame'
      OBVIOUS
  <2>1. thread_pc[s] \notin {"none", "init"}
        OBVIOUS
  <2>2. cd_client_frame[s] >= server_frame
        BY <2>1
  <2>3. QED
        BY <2>2
<1>5. QED
      BY <1>1, <1>2, <1>3, <1>4 DEF StopsOnce

LEMMA MainStepKeeps ==
    ASSUME NEW from, NEW to, MainStep(from, to)
    PROVE  SlotsKept /\ main_pc' = to
BY DEF MainStep, SlotsKept, acceptVars, slotVars, ringVars

LEMMA NextSlotKeeps ==
    ASSUME NEW loop, NEW after, NextSlot(loop, after)
    PROVE  SlotsKept /\ main_pc' \in {loop, after}
BY MainStepKeeps DEF NextSlot

\* The server's sockets are shut only by a thread that is past pause().
LEMMA MainPast ==
    ASSUME Inv, ServerShutdown
    PROVE  ~listening
BY DEF Inv, ServerInv, StopsOnce, ServerShutdown, MainCount, MainSkipClient, MainShutClient,
       MainCloseClient, MainSignal, MainJoinSimulation, MainJoinAccept, MainJoinClient, MainReturns,
       MainStep

LEMMA MainInv ==
    ASSUME Inv, BeginShutdown \/ ServerShutdown
    PROVE  ServerInv'
<1>1. CASE BeginShutdown
  <2>1. PICK testing \in SUBSET {s \in Slots : thread_pc[s] = "listen"} :
           thread_pc' = [s \in Slots |-> IF s \in testing THEN "close" ELSE thread_pc[s]]
        BY <1>1 DEF BeginShutdown
  <2>2. SlotsKept /\ main_pc' # "pause" /\ ~listening'
        BY <1>1, MainStepKeeps DEF BeginShutdown
  <2>3. ThreadsKept /\ EndsKept
        BY <1>1, <2>1 DEF BeginShutdown, ThreadsKept, EndsKept
  <2>4. QED
        BY <2>2, <2>3, StopKeepsInv
<1>2. CASE MainReturns
  <2> USE DEF Inv, Types, NetworkTypeOK, ServerTypeOK, ServerInv, SlotBeingFilled, SlotInUse,
              ConnectedFirst, SimReady, Lockstep, Joined, Filling, Filled, Undoing, to_shutdown
  <2>1. \A c \in Clients : server_end'[c] = IF client_end[c] = "none" THEN "none" ELSE "closed"
        BY <1>2 DEF MainReturns, ServerDies
  <2>2. main_pc' # "pause" /\ ~listening' /\ ~server_up'
        BY <1>2, MainPast DEF MainReturns, ServerDies, ServerShutdown
  <2>3. UNCHANGED <<accept_pc, accept_fd, accept_slot, thread_pc, thread_msg, cd_is_connected, cd_fd,
                    cd_client_frame, client_end, server_frame, sim_pc>>
        BY <1>2 DEF MainReturns, acceptVars, slotVars, threadVars, ringVars
  <2>4. SlotBeingFilled'
        BY <2>1, <2>2, <2>3
  <2>5. SlotInUse'
        BY <2>1, <2>2, <2>3
  <2>6. ConnectedFirst' /\ SimReady' /\ Lockstep'
        BY <2>1, <2>2, <2>3
  <2>7. QED
        BY <2>2, <2>4, <2>5, <2>6 DEF StopsOnce
<1>3. ASSUME ServerShutdown, SlotsKept, main_pc' # "pause", EndsKept,
             UNCHANGED <<thread_pc, listening>>, sim_pc' = sim_pc \/ sim_pc' = "test"
      PROVE  ServerInv'
  <2>1. ~listening'
        BY <1>3, MainPast
  <2>2. ThreadsKept
        BY <1>3 DEF ThreadsKept
  <2>3. QED
        BY <1>3, <2>1, <2>2, StopKeepsInv
<1>4. CASE MainCount("count", "walk", "signal") \/ MainCount("recount", "join_clients", "destroy")
  <2>1. SlotsKept /\ main_pc' # "pause"
        BY <1>4, MainStepKeeps DEF MainCount
  <2>2. UNCHANGED <<server_end, thread_pc, listening, sim_pc>>
        BY <1>4 DEF MainCount
  <2>3. QED
        BY <1>3, <1>4, <2>1, <2>2 DEF EndsKept, ServerShutdown
<1>5. CASE MainSkipClient \/ MainCloseClient \/ MainJoinClient
  <2>1. SlotsKept /\ main_pc' # "pause"
        BY <1>5, NextSlotKeeps DEF MainSkipClient, MainCloseClient, MainJoinClient
  <2>2. UNCHANGED <<server_end, thread_pc, listening, sim_pc>>
        BY <1>5 DEF MainSkipClient, MainCloseClient, MainJoinClient
  <2>3. QED
        BY <1>3, <1>5, <2>1, <2>2 DEF EndsKept, ServerShutdown
<1>6. CASE MainShutClient
  <2>1. SlotsKept /\ main_pc' # "pause"
        BY <1>6, MainStepKeeps DEF MainShutClient
  <2>2. UNCHANGED <<thread_pc, listening, sim_pc>>
        BY <1>6 DEF MainShutClient
  <2>3. EndsKept
    <3>1. \A c \in Clients : cd_fd[main_slot] = c => server_end[c] # "none"
          BY DEF Inv, Types, ServerTypeOK, ServerInv, SlotInUse
    <3>2. server_end' = [c \in Clients |-> IF cd_fd[main_slot] = c THEN "closed" ELSE server_end[c]]
          BY <1>6 DEF MainShutClient
    <3>3. QED
          BY <3>1, <3>2 DEF EndsKept
  <2>4. QED
        BY <1>3, <1>6, <2>1, <2>2, <2>3 DEF ServerShutdown
<1>7. CASE MainSignal \/ MainJoinSimulation \/ MainJoinAccept
  <2>1. SlotsKept /\ main_pc' # "pause"
        BY <1>7, MainStepKeeps DEF MainSignal, MainJoinSimulation, MainJoinAccept
  <2>2. UNCHANGED <<server_end, thread_pc, listening>> /\ (sim_pc' = sim_pc \/ sim_pc' = "test")
        BY <1>7 DEF MainSignal, MainJoinSimulation, MainJoinAccept, SignalSimulation
  <2>3. QED
        BY <1>3, <1>7, <2>1, <2>2 DEF EndsKept, ServerShutdown
<1>8. QED
      BY <1>1, <1>2, <1>4, <1>5, <1>6, <1>7 DEF ServerShutdown

LEMMA ServerKeepsInv ==
    ASSUME Inv, ServerNext
    PROVE  Inv'
<1>1. Types'
      BY AcceptType, ThreadType, SimType, MainType DEF ServerNext, ServerThreads
<1>2. ServerInv'
      BY AcceptInv, ThreadInv, SimInv, MainInv DEF ServerNext, ServerThreads
<1>3. QED
      BY <1>1, <1>2 DEF Inv

(***************************************************************************)
(* ... and by whatever is done at the other ends of the connections.       *)
(***************************************************************************)
PeersOnly ==
    /\ UNCHANGED <<serverVars, server_end, server_up, listening>>
    /\ \A c \in Clients : client_end[c] # "none" => client_end'[c] # "none"

LEMMA PeersKeepInv ==
    ASSUME Inv, PeersOnly
    PROVE  ServerInv'
BY DEF Inv, Types, NetworkTypeOK, ServerTypeOK, ServerInv, StopsOnce, SlotBeingFilled, SlotInUse,
       ConnectedFirst, SimReady, Lockstep, Joined, Filling, Filled, Undoing, to_shutdown, PeersOnly,
       serverVars, acceptVars, slotVars, threadVars, ringVars, mainVars

-------------------------------------------------------------------------------
(***************************************************************************)
(* What the invariant says of slots and frames.                            *)
(***************************************************************************)
LEMMA InvSlotHandover == Inv => SlotHandover
BY DEF Inv, ServerInv, SlotBeingFilled, SlotInUse, SlotHandover

\* Only the simulation thread goes to the next frame, when it has tested that it may.
LEMMA OnlySimulationAdvances ==
    ASSUME ServerNext, server_frame' # server_frame
    PROVE  sim_pc = "simulate"
<1> USE DEF serverVars, ringVars
<1>1. CASE AcceptThread
      BY <1>1
      DEF AcceptThread, AcceptConnection, AcceptStops, AcceptLimitReached, AcceptNoSlot, AcceptFindSlot,
          AcceptMark, AcceptSetFd, AcceptSetFrame, AcceptCountRead, AcceptCountWrite, AcceptSpawn,
          AcceptSpawnFails,
          AcceptUndoFd, AcceptUndoRead, AcceptUndoWrite, AcceptUndoUnlock, AcceptUndo, AcceptUnlock, AcceptStep
<1>2. ASSUME NEW s \in Slots, ClientThread(s) PROVE FALSE
      BY <1>2
      DEF ClientThread, ThreadInit, ThreadSendInit, ThreadSendInitFails, ThreadSendInitKills,
          ThreadStoreInput, ThreadIgnoreInput, ThreadReceiving, ThreadRecvPart, ThreadRecvEnd,
          ThreadClose, ThreadForgetFd, ThreadLeave, ThreadRemove, ThreadRemoved
<1>3. CASE SimulationThread
      BY <1>3 DEF SimulationThread, SimTest, SimTestLate, SimStops, SimStep, SimKills, SimSimulating
<1>4. CASE SimSpuriousWakeup
      BY <1>4 DEF SimSpuriousWakeup
<1>5. CASE BeginShutdown
      BY <1>5 DEF BeginShutdown, MainStep
<1>6. CASE ServerShutdown
      BY <1>6
      DEF ServerShutdown, MainCount, MainSkipClient, MainShutClient, MainCloseClient, MainSignal,
          MainJoinSimulation, MainJoinAccept, MainJoinClient, MainReturns, NextSlot, MainStep
<1>7. QED
      BY <1>1, <1>2, <1>3, <1>4, <1>5, <1>6 DEF ServerNext, ServerThreads

LEMMA AdvancesComplete ==
    ASSUME Inv, ServerNext, server_frame' # server_frame, NEW s \in Slots, Joined(s)
    PROVE  cd_client_frame[s] >= server_frame
BY OnlySimulationAdvances DEF Inv, ServerInv, SimReady, Joined

-------------------------------------------------------------------------------
(***************************************************************************)
(* The players in the game are those whose threads have announced them and *)
(* have not announced that they left: a step of the server keeps this, and *)
(* nobody else can disturb it.                                             *)
(***************************************************************************)
\* The thread of slot s is between its announcement and that of its departure.
Announced(s) == thread_pc[s] \in {"send_init", "listen", "close", "forget", "leave"}

SameGame ==
    /\ server_frame' = server_frame
    /\ game_states'[Ring(server_frame)] = game_states[Ring(server_frame)]
    /\ game_events'[Ring(server_frame)].player_events = game_events[Ring(server_frame)].player_events

SameThreads == \A s \in Slots : Announced(s)' <=> Announced(s)

LEMMA RosterKept ==
    ASSUME RosterMatchesThreads, SameGame, SameThreads
    PROVE  RosterMatchesThreads'
BY DEF RosterMatchesThreads, SameGame, SameThreads, Announced, InGame, CurrentEvents

\* A client's announcement or departure changes the roster in its own slot only.
LEMMA Announces ==
    ASSUME Inv, RosterMatchesThreads, NEW s \in Slots,
           NEW event \in {"JOIN", "LEAVE"},
           game_events' = [game_events EXCEPT ![Ring(server_frame)].player_events[s] = event],
           UNCHANGED <<server_frame, game_states>>,
           \A t \in Slots : t # s => thread_pc'[t] = thread_pc[t],
           Announced(s)' <=> event = "JOIN"
    PROVE  RosterMatchesThreads'
<1> DEFINE r == Ring(server_frame)
<1>1. r \in RingIndex /\ game_events[r] \in GameEvents /\ game_states[r] \in GameState
      BY RingType DEF Inv, Types, ServerTypeOK
<1>2. game_events' = [game_events EXCEPT ![r] = [@ EXCEPT !.player_events[s] = event]]
      OBVIOUS
<1>3. game_events'[r] = [game_events[r] EXCEPT !.player_events[s] = event]
      BY <1>1, <1>2 DEF Inv, Types, ServerTypeOK
<1>4. game_events'[r].player_events = [game_events[r].player_events EXCEPT ![s] = event]
      BY <1>1, <1>3 DEF GameEvents
<1>5. ASSUME NEW t \in Slots
      PROVE  game_events'[r].player_events[t] = IF t = s THEN event ELSE game_events[r].player_events[t]
      BY <1>1, <1>4 DEF GameEvents
<1>6. game_states'[r] = game_states[r] /\ Ring(server_frame') = r
      OBVIOUS
<1> HIDE DEF r
<1>7. ASSUME NEW t \in Slots, t # s
      PROVE  InGame(t)' <=> Announced(t)'
  <2>1. InGame(t)' <=> InGame(t)
        BY <1>5, <1>6, <1>7 DEF InGame, CurrentEvents, r
  <2>2. Announced(t)' <=> Announced(t)
        BY <1>7 DEF Announced
  <2>3. QED
        BY <2>1, <2>2 DEF RosterMatchesThreads, Announced
<1>8. InGame(s)' <=> event = "JOIN"
  <2>1. InGame(s)' = HandleEvent(game_states[r][s], event).active
        BY <1>5, <1>6 DEF InGame, CurrentEvents, r
  <2>2. game_states[r][s] \in PlayerData
        BY <1>1 DEF GameState
  <2>3. QED
        BY <2>1, <2>2 DEF HandleEvent, Spawned, PlayerData
<1>9. QED
      BY <1>7, <1>8 DEF RosterMatchesThreads, Announced

-------------------------------------------------------------------------------
(***************************************************************************)
(* The accept thread starts a thread in a slot that has none.              *)
(***************************************************************************)
LEMMA AcceptRoster ==
    ASSUME Inv, RosterMatchesThreads, AcceptThread
    PROVE  RosterMatchesThreads'
<1>1. UNCHANGED <<server_frame, game_states, game_events>>
      BY DEF AcceptThread, AcceptConnection, AcceptStops, AcceptLimitReached, AcceptNoSlot, AcceptFindSlot,
             AcceptMark, AcceptSetFd, AcceptSetFrame, AcceptCountRead, AcceptCountWrite, AcceptSpawn,
             AcceptSpawnFails,
             AcceptUndoFd, AcceptUndoRead, AcceptUndoWrite, AcceptUndoUnlock, AcceptUndo, AcceptUnlock, AcceptStep, ringVars
<1>2. CASE AcceptSpawn
  <2>1. thread_pc[accept_slot] = "none"
        BY <1>2 DEF AcceptSpawn, Inv, ServerInv, SlotBeingFilled, Filling
  <2>2. thread_pc' = [thread_pc EXCEPT ![accept_slot] = "init"]
        BY <1>2 DEF AcceptSpawn
  <2>3. SameThreads
        BY <2>1, <2>2 DEF SameThreads, Announced, Inv, Types, ServerTypeOK
  <2>4. QED
        BY <1>1, <2>3, RosterKept DEF SameGame
<1>3. CASE UNCHANGED thread_pc
      BY <1>1, <1>3, RosterKept DEF SameGame, SameThreads, Announced
<1>4. QED
      BY <1>2, <1>3
      DEF AcceptThread, AcceptConnection, AcceptStops, AcceptLimitReached, AcceptNoSlot, AcceptFindSlot,
          AcceptMark, AcceptSetFd, AcceptSetFrame, AcceptCountRead, AcceptCountWrite,
          AcceptSpawnFails,
          AcceptUndoFd, AcceptUndoRead, AcceptUndoWrite, AcceptUndoUnlock, AcceptUndo, AcceptUnlock, AcceptStep, threadVars

(***************************************************************************)
(* A client's thread announces its client, stores inputs beside the        *)
(* announcements, and announces the departure.                             *)
(***************************************************************************)
LEMMA ThreadRoster ==
    ASSUME Inv, RosterMatchesThreads, NEW s \in Slots, ClientThread(s)
    PROVE  RosterMatchesThreads'
<1>0. thread_pc \in [Slots -> ThreadPC]
      BY DEF Inv, Types, ServerTypeOK
<1>1. CASE ThreadInit(s)
  <2>1. /\ thread_pc' = [thread_pc EXCEPT ![s] = "send_init"]
        /\ game_events' = [game_events EXCEPT ![Ring(server_frame)].player_events[s] = "JOIN"]
        /\ UNCHANGED <<server_frame, game_states>>
        BY <1>1 DEF ThreadInit, ThreadStep
  <2>2. Announced(s)' /\ \A t \in Slots : t # s => thread_pc'[t] = thread_pc[t]
        BY <1>0, <2>1 DEF Announced
  <2>3. QED
        BY <2>1, <2>2, Announces
<1>2. CASE ThreadLeave(s)
  <2>1. /\ thread_pc' = [thread_pc EXCEPT ![s] = "remove"]
        /\ game_events' = [game_events EXCEPT ![Ring(server_frame)].player_events[s] = "LEAVE"]
        /\ UNCHANGED <<server_frame, game_states>>
        BY <1>2 DEF ThreadLeave, ThreadStep
  <2>2. ~Announced(s)' /\ \A t \in Slots : t # s => thread_pc'[t] = thread_pc[t]
        BY <1>0, <2>1 DEF Announced
  <2>3. QED
        BY <2>1, <2>2, Announces
<1>3. CASE ThreadStoreInput(s)
  <2> DEFINE m == Head(up[cd_fd[s]])
  <2>1. m.frame \in Nat
        BY <1>3, ReceivingType DEF ThreadStoreInput, InputsMessage
  <2>2. /\ game_events' = [game_events EXCEPT ![Ring(m.frame)].player_inputs[s] = m.input]
        /\ UNCHANGED <<server_frame, game_states>>
        BY <1>3 DEF ThreadStoreInput, ThreadReceiving
  <2>3. /\ thread_pc[s] = "listen" /\ thread_pc' = [thread_pc EXCEPT ![s] = NextRecv]
        /\ NextRecv \in {"listen", "close"}
        BY <1>3 DEF ThreadStoreInput, ThreadReceiving, ThreadStep, NextRecv
  <2> HIDE DEF m
  <2>4. game_events \in [RingIndex -> GameEvents] /\ Ring(m.frame) \in RingIndex
        /\ Ring(server_frame) \in RingIndex
        BY <2>1, RingType DEF Inv, Types, ServerTypeOK
  <2>5. game_events'[Ring(server_frame)].player_events = game_events[Ring(server_frame)].player_events
    <3> DEFINE e == [game_events[Ring(m.frame)] EXCEPT !.player_inputs[s] = m.input]
    <3>1. e.player_events = game_events[Ring(m.frame)].player_events
          BY <2>4 DEF GameEvents
    <3>2. game_events' = [game_events EXCEPT ![Ring(m.frame)] = e]
          BY <2>2
    <3> HIDE DEF e
    <3>3. QED
          BY <2>4, <3>1, <3>2
  <2>6. SameGame
        BY <2>2, <2>5 DEF SameGame
  <2>7. SameThreads
        BY <1>0, <2>3 DEF SameThreads, Announced
  <2>8. QED
        BY <2>6, <2>7, RosterKept
<1>4. ASSUME \A t \in Slots : t # s => thread_pc'[t] = thread_pc[t],
             Announced(s)' <=> Announced(s),
             UNCHANGED <<server_frame, game_states, game_events>>
      PROVE  RosterMatchesThreads'
      BY <1>4, RosterKept DEF SameGame, SameThreads, Announced
<1>5. CASE ThreadSendInit(s) \/ ThreadSendInitFails(s)
  <2>1. /\ thread_pc[s] = "send_init" /\ thread_pc'[s] \in {"listen", "close"}
        /\ \A t \in Slots : t # s => thread_pc'[t] = thread_pc[t]
        BY <1>0, <1>5 DEF ThreadSendInit, ThreadSendInitFails, ThreadStep, NextRecv
  <2>2. UNCHANGED <<server_frame, game_states, game_events>>
        BY <1>5 DEF ThreadSendInit, ThreadSendInitFails, ringVars
  <2>3. QED
        BY <1>4, <2>1, <2>2 DEF Announced
<1>6. CASE ThreadIgnoreInput(s)
  <2>1. /\ thread_pc[s] = "listen" /\ thread_pc'[s] \in {"listen", "close"}
        /\ \A t \in Slots : t # s => thread_pc'[t] = thread_pc[t]
        BY <1>0, <1>6 DEF ThreadIgnoreInput, ThreadReceiving, ThreadStep, NextRecv
  <2>2. UNCHANGED <<server_frame, game_states, game_events>>
        BY <1>6 DEF ThreadIgnoreInput, ThreadReceiving
  <2>3. QED
        BY <1>4, <2>1, <2>2 DEF Announced
<1>7. CASE ThreadRecvEnd(s) \/ ThreadClose(s) \/ ThreadForgetFd(s)
  <2>1. /\ thread_pc[s] \in {"listen", "close", "forget"} /\ thread_pc'[s] \in {"close", "forget", "leave"}
        /\ \A t \in Slots : t # s => thread_pc'[t] = thread_pc[t]
        BY <1>0, <1>7 DEF ThreadRecvEnd, ThreadClose, ThreadForgetFd, ThreadStep
  <2>2. UNCHANGED <<server_frame, game_states, game_events>>
        BY <1>7 DEF ThreadRecvEnd, ThreadClose, ThreadForgetFd, ringVars
  <2>3. QED
        BY <1>4, <2>1, <2>2 DEF Announced
<1>8. CASE ThreadRemove(s)
  <2>1. /\ thread_pc[s] = "remove" /\ thread_pc'[s] = "none"
        /\ \A t \in Slots : t # s => thread_pc'[t] = thread_pc[t]
        BY <1>0, <1>8 DEF ThreadRemove, ThreadStep
  <2>2. UNCHANGED <<server_frame, game_states, game_events>>
        BY <1>8 DEF ThreadRemove, ringVars
  <2>3. QED
        BY <1>4, <2>1, <2>2 DEF Announced
<1>9. CASE ThreadSendInitKills(s) \/ ThreadRecvPart(s) \/ ThreadRemoved(s)
  <2>1. UNCHANGED <<thread_pc, server_frame, game_states, game_events>>
        BY <1>9 DEF ThreadSendInitKills, ThreadRecvPart, ThreadRemoved, serverVars, threadVars, ringVars
  <2>2. QED
        BY <2>1, RosterKept DEF SameGame, SameThreads, Announced
<1>10. QED
       BY <1>1, <1>2, <1>3, <1>5, <1>6, <1>7, <1>8, <1>9 DEF ClientThread

(***************************************************************************)
(* The simulation thread applies the announcements and clears the next     *)
(* frame's.                                                                *)
(***************************************************************************)
LEMMA SimRoster ==
    ASSUME Inv, RosterMatchesThreads, SimulationThread \/ SimSpuriousWakeup
    PROVE  RosterMatchesThreads'
<1>1. UNCHANGED thread_pc
      BY DEF SimulationThread, SimTest, SimTestLate, SimStops, SimStep, SimKills, SimSpuriousWakeup,
             threadVars
<1>2. /\ server_frame \in Nat /\ Ring(server_frame) \in RingIndex /\ Ring(server_frame + 1) \in RingIndex
      /\ game_states \in [RingIndex -> GameState] /\ game_events \in [RingIndex -> GameEvents]
      BY RingType DEF Inv, Types, ServerTypeOK
<1>3. CASE SimStep
  <2>1. /\ server_frame' = server_frame + 1
        /\ game_states' = [game_states EXCEPT ![Ring(server_frame + 1)] = NextState]
        /\ game_events' = [game_events EXCEPT ![Ring(server_frame + 1)] = NoEvents]
        BY <1>3 DEF SimStep, SimSimulating
  <2>2. /\ game_states'[Ring(server_frame')] = NextState
        /\ game_events'[Ring(server_frame')] = NoEvents
        BY <1>2, <2>1
  <2>3. ASSUME NEW s \in Slots
        PROVE  InGame(s)' <=> InGame(s)
    <3> DEFINE p == HandleEvent(game_states[Ring(server_frame)][s], CurrentEvents.player_events[s])
    <3>1. game_states[Ring(server_frame)][s] \in PlayerData /\ CurrentEvents.player_events[s] \in PlayerEvent
          BY <1>2 DEF CurrentEvents, GameState, GameEvents
    <3>2. p \in PlayerData
          BY <3>1, HandleEventType
    <3> HIDE DEF p
    <3>3. NextState[s] = HandleMovement(p, CurrentEvents.player_inputs[s])
          BY DEF NextState, GameSimulate, p
    <3>4. NextState[s].active = p.active
          BY <3>2, <3>3, HandleMovementActive
    <3>5. InGame(s)' = HandleEvent(NextState[s], "NONE").active
          BY <2>2 DEF InGame, CurrentEvents, NoEvents
    <3>6. QED
          BY <3>4, <3>5 DEF HandleEvent, InGame, p
  <2>4. QED
        BY <1>1, <2>3 DEF RosterMatchesThreads
<1>4. CASE SimKills
  <2>1. /\ server_frame' = server_frame /\ game_events' = game_events
        /\ game_states' = [game_states EXCEPT ![Ring(server_frame + 1)] = NextState]
        BY <1>4 DEF SimKills, SimSimulating
  <2>2. Ring(server_frame + 1) # Ring(server_frame)
    <3>1. 1 \in 1 .. FRAME_BUFFER_SIZE - 1
          BY GlobalsAssumption
    <3>2. QED
          BY <1>2, <3>1, RingDistinct
  <2>3. SameGame
        BY <1>2, <2>1, <2>2 DEF SameGame
  <2>4. QED
        BY <1>1, <2>3, RosterKept DEF SameThreads, Announced
<1>5. CASE SimTest \/ SimTestLate \/ SimStops \/ SimSpuriousWakeup
  <2>1. SameGame
        BY <1>5 DEF SameGame, SimTest, SimTestLate, SimStops, SimSpuriousWakeup, ringVars
  <2>2. QED
        BY <1>1, <2>1, RosterKept DEF SameThreads, Announced
<1>6. QED
      BY <1>3, <1>4, <1>5 DEF SimulationThread

(***************************************************************************)
(* The main thread sends threads to their cleanup, which announces the     *)
(* departure; the clients reach neither ring nor threads.                  *)
(***************************************************************************)
LEMMA MainRoster ==
    ASSUME Inv, RosterMatchesThreads, BeginShutdown \/ ServerShutdown
    PROVE  RosterMatchesThreads'
<1>1. CASE BeginShutdown
  <2>1. PICK testing \in SUBSET {s \in Slots : thread_pc[s] = "listen"} :
           thread_pc' = [s \in Slots |-> IF s \in testing THEN "close" ELSE thread_pc[s]]
        BY <1>1 DEF BeginShutdown
  <2>2. SameThreads
        BY <2>1 DEF SameThreads, Announced
  <2>3. SameGame
        BY <1>1 DEF SameGame, BeginShutdown, MainStep, ringVars
  <2>4. QED
        BY <2>2, <2>3, RosterKept
<1>2. CASE ServerShutdown
  <2>1. UNCHANGED <<thread_pc, server_frame, game_states, game_events>>
        BY <1>2
        DEF ServerShutdown, MainCount, MainSkipClient, MainShutClient, MainCloseClient, MainSignal,
            MainJoinSimulation, MainJoinAccept, MainJoinClient, MainReturns, NextSlot, MainStep,
            threadVars, ringVars
  <2>2. QED
        BY <2>1, RosterKept DEF SameGame, SameThreads, Announced
<1>3. QED
      BY <1>1, <1>2

LEMMA ServerRoster ==
    ASSUME Inv, RosterMatchesThreads, ServerNext
    PROVE  RosterMatchesThreads'
BY AcceptRoster, ThreadRoster, SimRoster, MainRoster DEF ServerNext, ServerThreads

LEMMA PeersRoster ==
    ASSUME RosterMatchesThreads, UNCHANGED serverVars
    PROVE  RosterMatchesThreads'
BY RosterKept DEF serverVars, threadVars, ringVars, SameGame, SameThreads, Announced

LEMMA InitRoster == ServerInit => RosterMatchesThreads
<1> SUFFICES ASSUME ServerInit, NEW s \in Slots
             PROVE  ~InGame(s) /\ thread_pc[s] = "none"
    BY DEF RosterMatchesThreads
<1>1. Ring(server_frame) \in RingIndex
      BY RingType DEF ServerInit
<1>2. /\ game_states[Ring(server_frame)] = InitialState
      /\ CurrentEvents = NoEvents /\ thread_pc[s] = "none"
      BY <1>1 DEF ServerInit, CurrentEvents
<1>3. QED
      BY <1>2 DEF InGame, HandleEvent, InitialState, NoEvents

-------------------------------------------------------------------------------
(***************************************************************************)
(* Who waits for a lock, for a slot or for the signal finds somebody who   *)
(* will release, leave or send it.                                         *)
(***************************************************************************)
\* The second part of WaitsEnd.
SlotsHaveThreads ==
    \A s \in Slots : cd_is_connected[s] => thread_pc[s] # "none" \/ (Filled /\ accept_slot = s)

LEMMA AcceptKeepsWaits ==
    ASSUME Inv, WaitsEnd, AcceptThread
    PROVE  /\ clients_lock' = "cleanup" => \E t \in Slots : removing'[t] # <<>>
           /\ SlotsHaveThreads'
           /\ UNCHANGED <<sim_pc, main_pc, server_up>>
<1> USE DEF networkVars, slotVars, threadVars, mainVars
<1>0. /\ cd_is_connected \in [Slots -> BOOLEAN] /\ thread_pc \in [Slots -> ThreadPC] /\ accept_slot \in Slots
      /\ SlotsHaveThreads
      BY DEF Inv, Types, ServerTypeOK, WaitsEnd, SlotsHaveThreads
<1>1. UNCHANGED <<removing, sim_pc, main_pc, server_up>>
      BY DEF AcceptThread, AcceptConnection, AcceptStops, AcceptLimitReached, AcceptNoSlot, AcceptFindSlot,
             AcceptMark, AcceptSetFd, AcceptSetFrame, AcceptCountRead, AcceptCountWrite, AcceptSpawn,
             AcceptSpawnFails,
             AcceptUndoFd, AcceptUndoRead, AcceptUndoWrite, AcceptUndoUnlock, AcceptUndo, AcceptUnlock, AcceptStep
<1>2. clients_lock' \in {clients_lock, "accept", "free"}
      BY DEF AcceptThread, AcceptConnection, AcceptStops, AcceptLimitReached, AcceptNoSlot, AcceptFindSlot,
             AcceptMark, AcceptSetFd, AcceptSetFrame, AcceptCountRead, AcceptCountWrite, AcceptSpawn,
             AcceptSpawnFails,
             AcceptUndoFd, AcceptUndoRead, AcceptUndoWrite, AcceptUndoUnlock, AcceptUndo, AcceptUnlock, AcceptStep
<1>3. CASE AcceptMark
  <2>1. /\ ~Filled /\ Filled' /\ UNCHANGED <<thread_pc, accept_slot>>
        /\ cd_is_connected' = [cd_is_connected EXCEPT ![accept_slot] = TRUE]
        BY <1>3 DEF AcceptMark, AcceptStep, Filled
  <2>2. SlotsHaveThreads'
        BY <1>0, <2>1 DEF SlotsHaveThreads
  <2>3. QED
        BY <1>1, <1>2, <2>2 DEF WaitsEnd
<1>4. CASE AcceptSpawn
  <2>1. /\ thread_pc' = [thread_pc EXCEPT ![accept_slot] = "init"]
        /\ UNCHANGED <<cd_is_connected, accept_slot>>
        BY <1>4 DEF AcceptSpawn
  <2>2. SlotsHaveThreads'
        BY <1>0, <2>1 DEF SlotsHaveThreads
  <2>3. QED
        BY <1>1, <1>2, <2>2 DEF WaitsEnd
<1>5. CASE AcceptSpawnFails
  <2>1. /\ cd_is_connected' = [cd_is_connected EXCEPT ![accept_slot] = FALSE]
        /\ UNCHANGED <<thread_pc, accept_slot>>
        BY <1>5 DEF AcceptSpawnFails, AcceptStep
  <2>2. SlotsHaveThreads'
        BY <1>0, <2>1 DEF SlotsHaveThreads
  <2>3. QED
        BY <1>1, <1>2, <2>2 DEF WaitsEnd
<1>6. CASE ~AcceptMark /\ ~AcceptSpawn /\ ~AcceptSpawnFails
  <2>1. /\ UNCHANGED <<cd_is_connected, thread_pc>>
        /\ ~Filled \/ (Filled' /\ UNCHANGED accept_slot)
        BY <1>6
        DEF AcceptThread, AcceptConnection, AcceptStops, AcceptLimitReached, AcceptNoSlot, AcceptFindSlot,
            AcceptSetFd, AcceptSetFrame, AcceptCountRead, AcceptCountWrite, AcceptUndoFd, AcceptUndoRead,
            AcceptUndoWrite, AcceptUndoUnlock, AcceptUndo, AcceptUnlock, AcceptStep, Admitting, Filled
  <2>2. SlotsHaveThreads'
        BY <1>0, <2>1 DEF SlotsHaveThreads
  <2>3. QED
        BY <1>1, <1>2, <2>2 DEF WaitsEnd
<1>7. QED
      BY <1>3, <1>4, <1>5, <1>6

LEMMA ThreadKeepsWaits ==
    ASSUME Inv, WaitsEnd, NEW s \in Slots, ClientThread(s)
    PROVE  /\ clients_lock' = "cleanup" => \E t \in Slots : removing'[t] # <<>>
           /\ SlotsHaveThreads'
           /\ sim_pc' = "waiting" => sim_pc = "waiting"
           /\ server_up /\ UNCHANGED main_pc
<1> USE DEF acceptVars, slotVars, threadVars, mainVars, serverVars
<1>0. /\ cd_is_connected \in [Slots -> BOOLEAN] /\ thread_pc \in [Slots -> ThreadPC]
      /\ SlotsHaveThreads
      BY DEF Inv, Types, ServerTypeOK, WaitsEnd, SlotsHaveThreads
<1>1. server_up /\ UNCHANGED <<accept_pc, accept_slot, main_pc>>
      BY DEF ClientThread, ThreadInit, ThreadSendInit, ThreadSendInitFails, ThreadSendInitKills,
             ThreadReceiving, ThreadStoreInput, ThreadIgnoreInput, ThreadRecvPart, ThreadRecvEnd, ThreadClose,
             ThreadForgetFd, ThreadLeave, ThreadRemove, ThreadRemoved, ThreadStep
<1>2. sim_pc' = "waiting" => sim_pc = "waiting"
      BY DEF ClientThread, ThreadInit, ThreadSendInit, ThreadSendInitFails, ThreadSendInitKills,
             ThreadStoreInput, ThreadIgnoreInput, ThreadRecvPart, ThreadRecvEnd, ThreadClose,
             ThreadForgetFd, ThreadLeave, ThreadRemove, ThreadRemoved, SignalSimulation
<1>3. CASE ThreadRemove(s)
  <2>1. /\ thread_pc' = [thread_pc EXCEPT ![s] = "none"]
        /\ cd_is_connected' = [cd_is_connected EXCEPT ![s] = FALSE]
        /\ removing' = [removing EXCEPT ![s] = Append(removing[s], client_count)]
        BY <1>3 DEF ThreadRemove, ThreadStep
  <2>2. SlotsHaveThreads'
        BY <1>0, <1>1, <2>1 DEF SlotsHaveThreads, Filled
  <2>3. removing'[s] # <<>>
    <3>1. removing \in [Slots -> Seq(Int)] /\ removing[s] \in Seq(Int) /\ client_count \in Int
          BY DEF Inv, Types, ServerTypeOK
    <3>2. Append(removing[s], client_count) # <<>>
      <4>1. Len(removing[s]) \in Nat /\ Len(Append(removing[s], client_count)) = Len(removing[s]) + 1
            BY <3>1
      <4>2. QED
            BY <4>1
    <3>3. QED
          BY <2>1, <3>1, <3>2
  <2>4. QED
        BY <1>1, <1>2, <2>2, <2>3
<1>4. CASE ThreadRemoved(s)
  <2>1. clients_lock' = "free" /\ UNCHANGED <<thread_pc, cd_is_connected>>
        BY <1>4 DEF ThreadRemoved
  <2>2. SlotsHaveThreads'
        BY <1>0, <1>1, <2>1 DEF SlotsHaveThreads, Filled
  <2>3. QED
        BY <1>1, <1>2, <2>1, <2>2
<1>5. CASE ~ThreadRemove(s) /\ ~ThreadRemoved(s)
  <2>1. UNCHANGED <<clients_lock, removing, cd_is_connected>>
        BY <1>5
        DEF ClientThread, ThreadInit, ThreadSendInit, ThreadSendInitFails, ThreadSendInitKills,
            ThreadReceiving, ThreadStoreInput, ThreadIgnoreInput, ThreadRecvPart, ThreadRecvEnd, ThreadClose,
            ThreadForgetFd, ThreadLeave
  <2>2. \/ thread_pc' = thread_pc
        \/ \E to \in ThreadPC \ {"none"} : thread_pc' = [thread_pc EXCEPT ![s] = to]
        BY <1>5
        DEF ClientThread, ThreadInit, ThreadSendInit, ThreadSendInitFails, ThreadSendInitKills,
            ThreadReceiving, ThreadStoreInput, ThreadIgnoreInput, ThreadRecvPart, ThreadRecvEnd, ThreadClose,
            ThreadForgetFd, ThreadLeave, ThreadStep, NextRecv, ThreadPC
  <2>3. SlotsHaveThreads'
        BY <1>0, <1>1, <2>1, <2>2 DEF SlotsHaveThreads, Filled
  <2>4. QED
        BY <1>1, <1>2, <2>1, <2>3 DEF WaitsEnd
<1>6. QED
      BY <1>3, <1>4, <1>5

LEMMA SimKeepsWaits ==
    ASSUME Inv, SimulationThread \/ SimSpuriousWakeup
    PROVE  /\ UNCHANGED <<clients_lock, removing, cd_is_connected, thread_pc, accept_pc, accept_slot, main_pc>>
           /\ sim_pc' = "waiting" => sim_pc = "waiting" \/ ~to_shutdown
           /\ server_up
BY DEF SimulationThread, SimTest, SimTestLate, SimStops, SimStep, SimKills, SimSimulating, SimSpuriousWakeup,
       acceptVars, slotVars, threadVars, mainVars

LEMMA MainKeepsWaits ==
    ASSUME Inv, WaitsEnd, BeginShutdown \/ ServerShutdown
    PROVE  WaitsEnd'
<1>1. /\ server_up
      /\ UNCHANGED <<clients_lock, removing, cd_is_connected, accept_pc, accept_slot>>
      BY DEF BeginShutdown, ServerShutdown, MainCount, MainSkipClient, MainShutClient, MainCloseClient, MainSignal,
             MainJoinSimulation, MainJoinAccept, MainJoinClient, MainReturns, NextSlot, MainStep,
             acceptVars, slotVars, threadVars
<1>2. \A s \in Slots : thread_pc[s] # "none" => thread_pc'[s] # "none"
  <2>1. CASE BeginShutdown
        BY <2>1 DEF BeginShutdown
  <2>2. CASE ServerShutdown
        BY <2>2
        DEF ServerShutdown, MainCount, MainSkipClient, MainShutClient, MainCloseClient, MainSignal,
            MainJoinSimulation, MainJoinAccept, MainJoinClient, MainReturns, threadVars
  <2>3. QED
        BY <2>1, <2>2
<1>3. SlotsHaveThreads'
      BY <1>1, <1>2 DEF WaitsEnd, SlotsHaveThreads, Filled
<1>4. main_pc' \notin {"pause", "count", "walk", "close", "signal"} => sim_pc' # "waiting"
  <2>1. CASE MainSignal
        BY <2>1 DEF MainSignal, SignalSimulation
  <2>2. CASE ~MainSignal /\ ~BeginShutdown
    <3>1. /\ UNCHANGED sim_pc
          /\ main_pc \in {"pause", "count", "walk", "close", "signal"} =>
                main_pc' \in {"pause", "count", "walk", "close", "signal"}
          BY <2>2
          DEF ServerShutdown, MainCount, MainSkipClient, MainShutClient, MainCloseClient,
              MainJoinSimulation, MainJoinAccept, MainJoinClient, MainReturns, NextSlot, MainStep
    <3>2. QED
          BY <3>1 DEF WaitsEnd
  <2>3. CASE BeginShutdown
        BY <2>3 DEF BeginShutdown, MainStep
  <2>4. QED
        BY <2>1, <2>2, <2>3
<1>5. main_pc' = "done" => ~server_up'
  <2>1. CASE MainReturns
        BY <2>1 DEF MainReturns, ServerDies
  <2>2. CASE ~MainReturns
    <3>1. main_pc' # "done"
          BY <2>2
          DEF BeginShutdown, ServerShutdown, MainCount, MainSkipClient, MainShutClient, MainCloseClient, MainSignal,
              MainJoinSimulation, MainJoinAccept, MainJoinClient, NextSlot, MainStep
    <3>2. QED
          BY <3>1
  <2>3. QED
        BY <2>1, <2>2
<1>6. QED
      BY <1>1, <1>3, <1>4, <1>5 DEF WaitsEnd, SlotsHaveThreads

LEMMA ServerKeepsWaits ==
    ASSUME Inv, WaitsEnd, ServerNext
    PROVE  WaitsEnd'
<1>0. to_shutdown <=> main_pc # "pause"
      BY DEF Inv, ServerInv, StopsOnce, to_shutdown
<1>1. CASE AcceptThread
      BY <1>1, AcceptKeepsWaits DEF WaitsEnd, SlotsHaveThreads
<1>2. ASSUME NEW s \in Slots, ClientThread(s) PROVE WaitsEnd'
      BY <1>2, ThreadKeepsWaits DEF WaitsEnd, SlotsHaveThreads
<1>3. CASE SimulationThread \/ SimSpuriousWakeup
  <2>1. main_pc \notin {"pause", "count", "walk", "close", "signal"} => sim_pc' # "waiting"
        BY <1>0, <1>3, SimKeepsWaits DEF WaitsEnd
  <2>2. main_pc # "done"
        BY <1>3, SimKeepsWaits DEF WaitsEnd
  <2>3. QED
        BY <1>3, <2>1, <2>2, SimKeepsWaits DEF WaitsEnd, Filled
<1>4. CASE BeginShutdown \/ ServerShutdown
      BY <1>4, MainKeepsWaits
<1>5. QED
      BY <1>1, <1>2, <1>3, <1>4 DEF ServerNext, ServerThreads

LEMMA PeersKeepWaits ==
    ASSUME WaitsEnd, UNCHANGED <<server_up, serverVars>>
    PROVE  WaitsEnd'
BY DEF serverVars, acceptVars, slotVars, threadVars, mainVars, WaitsEnd, Filled

LEMMA InitWaits == ServerInit => WaitsEnd
BY DEF ServerInit, WaitsEnd

-------------------------------------------------------------------------------
(***************************************************************************)
(* Who waits for a frame to be complete is woken when it is: the condition *)
(* becomes true unseen only when a slot is given back or while a thread is *)
(* not counted.                                                            *)
(***************************************************************************)
Woken == FrameMissed' => FrameMissed \/ SlotGivenBack \/ NobodyCounted

\* What the condition is about stays, and nobody begins to wait.
LEMMA ConditionStays ==
    ASSUME sim_pc' = "waiting" => sim_pc = "waiting",
           UNCHANGED <<client_count, cd_is_connected, cd_client_frame, server_frame>>,
           \A s \in Slots : thread_pc'[s] # "none" => thread_pc[s] # "none"
    PROVE  FrameMissed' => FrameMissed
BY DEF FrameMissed, CanSimulate, HasThread

\* Only the count changes: it was 0 although somebody has a thread, or the frame was missed.
LEMMA CountChanges ==
    ASSUME UNCHANGED <<sim_pc, cd_is_connected, cd_client_frame, server_frame, thread_pc>>
    PROVE  FrameMissed' => FrameMissed \/ NobodyCounted
BY DEF FrameMissed, NobodyCounted, CanSimulate, HasThread

\* A slot that has been filled and whose client has sent nothing holds the frame up.
LEMMA NewcomerHolds ==
    ASSUME Inv, NEW s \in Slots, cd_is_connected[s], cd_client_frame[s] = -1
    PROVE  ~CanSimulate(client_count, cd_client_frame)
BY DEF CanSimulate, Inv, Types, ServerTypeOK

LEMMA AcceptWakes ==
    ASSUME Inv, Inv', AcceptThread
    PROVE  Woken
<1> USE DEF slotVars, threadVars, ringVars
<1>0. /\ cd_is_connected \in [Slots -> BOOLEAN] /\ cd_client_frame \in [Slots -> Int]
      /\ thread_pc \in [Slots -> ThreadPC] /\ accept_slot \in Slots /\ server_frame \in Nat
      /\ SlotBeingFilled /\ SlotBeingFilled'
      BY DEF Inv, Types, ServerTypeOK, ServerInv
<1>1. CASE AcceptMark
  <2>1. /\ UNCHANGED <<sim_pc, client_count, cd_client_frame, server_frame, thread_pc>>
        /\ cd_is_connected' = [cd_is_connected EXCEPT ![accept_slot] = TRUE]
        BY <1>1 DEF AcceptMark, AcceptStep
  <2>2. \A s \in Slots : cd_is_connected[s] => cd_is_connected'[s]
        BY <1>0, <2>1
  <2>3. QED
        BY <2>1, <2>2 DEF Woken, FrameMissed, CanSimulate, HasThread
<1>2. CASE AcceptSetFrame \/ AcceptCountWrite
  <2>1. accept_slot' = accept_slot /\ accept_pc' \in {"count_read", "spawn"}
        BY <1>2 DEF AcceptSetFrame, AcceptCountWrite, AcceptStep
  <2>2. cd_is_connected'[accept_slot] /\ cd_client_frame'[accept_slot] = -1
        BY <1>0, <2>1 DEF SlotBeingFilled, Filled
  <2>3. ~CanSimulate(client_count, cd_client_frame)'
        BY <1>0, <2>1, <2>2 DEF CanSimulate, Inv, Types, ServerTypeOK
  <2>4. QED
        BY <2>3 DEF Woken, FrameMissed
<1>3. CASE AcceptSpawn
  <2>1. UNCHANGED <<client_count, cd_is_connected, cd_client_frame, server_frame>> /\ accept_pc = "spawn"
        BY <1>3 DEF AcceptSpawn
  <2>2. ~CanSimulate(client_count, cd_client_frame)
        BY <1>0, <2>1, NewcomerHolds DEF SlotBeingFilled, Filled
  <2>3. QED
        BY <2>1, <2>2 DEF Woken, FrameMissed, CanSimulate
<1>4. CASE AcceptSpawnFails
  <2>1. /\ accept_pc = "spawn"
        /\ cd_is_connected' = [cd_is_connected EXCEPT ![accept_slot] = FALSE]
        BY <1>4 DEF AcceptSpawnFails, AcceptStep
  <2>2. SlotGivenBack
        BY <1>0, <2>1 DEF SlotGivenBack, SlotBeingFilled, Filled
  <2>3. QED
        BY <2>2 DEF Woken
<1>5. CASE AcceptUndoWrite
      BY <1>5, CountChanges DEF AcceptUndoWrite, AcceptStep, Woken
<1>6. CASE /\ ~AcceptMark /\ ~AcceptSetFrame /\ ~AcceptCountWrite
           /\ ~AcceptSpawn /\ ~AcceptSpawnFails /\ ~AcceptUndoWrite
  <2>1. UNCHANGED <<sim_pc, client_count, cd_is_connected, cd_client_frame, server_frame, thread_pc>>
        BY <1>6
        DEF AcceptThread, AcceptConnection, AcceptStops, AcceptLimitReached, AcceptNoSlot, AcceptFindSlot,
            AcceptSetFd, AcceptCountRead, AcceptUndoFd, AcceptUndoRead, AcceptUndoUnlock, AcceptUndo,
            AcceptUnlock, AcceptStep
  <2>2. QED
        BY <2>1, ConditionStays DEF Woken
<1>7. QED
      BY <1>1, <1>2, <1>3, <1>4, <1>5, <1>6

LEMMA ThreadWakes ==
    ASSUME Inv, NEW s \in Slots, ClientThread(s)
    PROVE  Woken
<1> USE DEF acceptVars, slotVars, threadVars, ringVars, serverVars
<1>0. cd_is_connected \in [Slots -> BOOLEAN] /\ thread_pc \in [Slots -> ThreadPC] /\ SlotInUse
      BY DEF Inv, Types, ServerTypeOK, ServerInv
<1>1. CASE ThreadStoreInput(s)
  <2>1. /\ UNCHANGED <<client_count, cd_is_connected, server_frame>>
        /\ IF CanSimulate(client_count, cd_client_frame') THEN SignalSimulation ELSE UNCHANGED sim_pc
        BY <1>1 DEF ThreadStoreInput, ThreadReceiving
  <2>2. QED
        BY <2>1 DEF Woken, FrameMissed, CanSimulate, SignalSimulation
<1>2. CASE ThreadRemove(s)
  <2>1. thread_pc[s] = "remove" /\ cd_is_connected' = [cd_is_connected EXCEPT ![s] = FALSE]
        BY <1>2 DEF ThreadRemove, ThreadStep
  <2>2. SlotGivenBack
        BY <1>0, <2>1 DEF SlotGivenBack, SlotInUse
  <2>3. QED
        BY <2>2 DEF Woken
<1>3. CASE ThreadRemoved(s)
      BY <1>3, CountChanges DEF ThreadRemoved, Woken
<1>4. CASE ~ThreadStoreInput(s) /\ ~ThreadRemove(s) /\ ~ThreadRemoved(s)
  <2>1. UNCHANGED <<sim_pc, client_count, cd_is_connected, cd_client_frame, server_frame>>
        BY <1>4
        DEF ClientThread, ThreadInit, ThreadSendInit, ThreadSendInitFails, ThreadSendInitKills,
            ThreadReceiving, ThreadIgnoreInput, ThreadRecvPart, ThreadRecvEnd, ThreadClose,
            ThreadForgetFd, ThreadLeave
  <2>2. thread_pc' = thread_pc \/ (thread_pc[s] # "none" /\ \E to : thread_pc' = [thread_pc EXCEPT ![s] = to])
        BY <1>4
        DEF ClientThread, ThreadInit, ThreadSendInit, ThreadSendInitFails, ThreadSendInitKills,
            ThreadReceiving, ThreadIgnoreInput, ThreadRecvPart, ThreadRecvEnd, ThreadClose,
            ThreadForgetFd, ThreadLeave, ThreadStep
  <2>3. \A t \in Slots : thread_pc'[t] # "none" => thread_pc[t] # "none"
        BY <1>0, <2>2
  <2>4. QED
        BY <2>1, <2>3, ConditionStays DEF Woken
<1>5. QED
      BY <1>1, <1>2, <1>3, <1>4

LEMMA SimWakes ==
    ASSUME SimulationThread \/ SimSpuriousWakeup
    PROVE  Woken
<1>1. CASE SimTest
      BY <1>1 DEF SimTest, slotVars, threadVars, ringVars, Woken, FrameMissed, CanSimulate
<1>2. CASE ~SimTest
  <2>1. sim_pc' # "waiting"
        BY <1>2 DEF SimulationThread, SimTestLate, SimStops, SimStep, SimKills, SimSimulating, SimSpuriousWakeup
  <2>2. QED
        BY <2>1 DEF Woken, FrameMissed
<1>3. QED
      BY <1>1, <1>2

LEMMA MainWakes ==
    ASSUME Inv, BeginShutdown \/ ServerShutdown
    PROVE  Woken
<1>1. UNCHANGED <<client_count, cd_is_connected, cd_client_frame, server_frame>>
      BY DEF BeginShutdown, ServerShutdown, MainCount, MainSkipClient, MainShutClient, MainCloseClient, MainSignal,
             MainJoinSimulation, MainJoinAccept, MainJoinClient, MainReturns, NextSlot, MainStep,
             slotVars, ringVars
<1>2. CASE BeginShutdown
      BY <1>1, <1>2, ConditionStays DEF BeginShutdown, Woken
<1>3. CASE ServerShutdown
  <2>1. UNCHANGED thread_pc /\ (sim_pc' = "waiting" => sim_pc = "waiting")
        BY <1>3
        DEF ServerShutdown, MainCount, MainSkipClient, MainShutClient, MainCloseClient, MainSignal,
            MainJoinSimulation, MainJoinAccept, MainJoinClient, MainReturns, SignalSimulation, threadVars
  <2>2. QED
        BY <1>1, <2>1, ConditionStays DEF Woken
<1>4. QED
      BY <1>2, <1>3

LEMMA ServerWakes ==
    ASSUME Inv, ServerNext
    PROVE  FrameMissed' => FrameMissed \/ SlotGivenBack \/ NobodyCounted
BY ServerKeepsInv, AcceptWakes, ThreadWakes, SimWakes, MainWakes DEF Woken, ServerNext, ServerThreads

===============================================================================
