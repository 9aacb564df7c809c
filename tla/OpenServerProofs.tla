---------------------------- MODULE OpenServerProofs ---------------------------
(***************************************************************************)
(* The server's types, the handover of its slots, its lockstep with the    *)
(* clients, that it never runs ahead of their inputs, that it is woken for *)
(* them, its roster and its shutdown, for any number of slots and clients, *)
(* any ring size, and whatever the clients send.                           *)
(***************************************************************************)
EXTENDS OpenServer, ServerProofs

-------------------------------------------------------------------------------
(***************************************************************************)
(* The clients of OpenServer.                                              *)
(***************************************************************************)
LEMMA EnvType ==
    ASSUME Inv, EnvNext
    PROVE  TypeOK'
<1> USE DEF Inv, Types, TypeOK, NetworkTypeOK, ServerTypeOK, SocketState,
            serverVars, acceptVars, slotVars, threadVars, ringVars, mainVars
<1>1. ASSUME NEW c \in Clients, EnvConnect(c) PROVE TypeOK'
      BY <1>1 DEF EnvConnect
<1>2. ASSUME NEW c \in Clients, EnvReceive(c) PROVE TypeOK'
      BY <1>2 DEF EnvReceive
<1>3. ASSUME NEW c \in Clients, EnvClose(c) PROVE TypeOK'
      BY <1>3 DEF EnvClose, CloseClientEnd
<1>4. ASSUME NEW c \in Clients, NEW frame \in Frames, NEW input \in Inputs, EnvSend(c, frame, input)
      PROVE  TypeOK'
  <2>1. PICK s \in Slots : \/ UNCHANGED up
                           \/ up' = [up EXCEPT ![c] = Append(@, FrameInputs(frame, s, input))]
        BY <1>4 DEF EnvSend, Delivered
  <2>2. FrameInputs(frame, s, input) \in InputsMessage
        BY OpenServerAssumption DEF FrameInputs, InputsMessage
  <2>3. Append(up[c], FrameInputs(frame, s, input)) \in Seq(InputsMessage)
        BY <2>2, AppendProperties
  <2>4. up' \in [Clients -> Seq(InputsMessage)]
        BY <2>1, <2>3
  <2>5. QED
        BY <1>4, <2>4 DEF EnvSend
<1>5. QED
      BY <1>1, <1>2, <1>3, <1>4 DEF EnvNext

LEMMA EnvPeersOnly == EnvNext => PeersOnly
<1> SUFFICES ASSUME NEW c \in Clients,
                    \/ EnvConnect(c) \/ EnvReceive(c) \/ EnvClose(c)
                    \/ \E frame \in Frames, input \in Inputs : EnvSend(c, frame, input)
             PROVE  PeersOnly
    BY DEF EnvNext
<1>1. CASE EnvConnect(c)
      BY <1>1 DEF EnvConnect, PeersOnly
<1>2. CASE EnvReceive(c)
      BY <1>2 DEF EnvReceive, PeersOnly
<1>3. CASE EnvClose(c)
      BY <1>3 DEF EnvClose, CloseClientEnd, PeersOnly
<1>4. ASSUME NEW frame \in Frames, NEW input \in Inputs, EnvSend(c, frame, input)
      PROVE  PeersOnly
      BY <1>4 DEF EnvSend, PeersOnly
<1>5. QED
      BY <1>1, <1>2, <1>3, <1>4

LEMMA NextInv ==
    ASSUME Inv, [Next]_vars
    PROVE  Inv'
<1>1. CASE ServerNext
      BY <1>1, ServerKeepsInv
<1>2. CASE EnvNext
      BY <1>2, EnvType, EnvPeersOnly, PeersKeepInv DEF Inv, Types, TypeOK
<1>3. CASE UNCHANGED vars
  <2>1. PeersOnly
        BY <1>3 DEF vars, networkVars, PeersOnly
  <2>2. Types'
        BY <1>3 DEF Inv, Types, NetworkTypeOK, ServerTypeOK, vars, networkVars, serverVars,
                    acceptVars, slotVars, threadVars, ringVars, mainVars
  <2>3. QED
        BY <2>1, <2>2, PeersKeepInv DEF Inv
<1>4. QED
      BY <1>1, <1>2, <1>3 DEF Next

LEMMA InvariantInv == Spec => []Inv
<1>1. Init => Inv
      BY InitInv DEF Init
<1>2. Inv /\ [Next]_vars => Inv'
      BY NextInv
<1>3. QED
      BY <1>1, <1>2, PTL DEF Spec

-------------------------------------------------------------------------------
(***************************************************************************)
(* The main thread waits for the others.                                   *)
(***************************************************************************)
\* A thread that has ended stays so, and without the accept thread no slot is taken.
StaysEnded ==
    /\ sim_pc = "ended" => sim_pc' = "ended"
    /\ accept_pc = "ended" => accept_pc' = "ended"
    /\ accept_pc = "ended" => \A s \in Slots : cd_is_connected'[s] => cd_is_connected[s]

LEMMA AcceptStaysEnded ==
    ASSUME AcceptThread
    PROVE  StaysEnded /\ UNCHANGED mainVars
<1>1. accept_pc # "ended" /\ UNCHANGED <<sim_pc, mainVars>>
      BY DEF AcceptThread, AcceptConnection, AcceptStops, AcceptLimitReached, AcceptNoSlot, AcceptFindSlot,
             AcceptMark, AcceptSetFd, AcceptSetFrame, AcceptCountRead, AcceptCountWrite, AcceptSpawn,
             AcceptSpawnFails,
             AcceptUndoFd, AcceptUndoRead, AcceptUndoWrite, AcceptUndoUnlock, AcceptUndo, AcceptUnlock, AcceptStep, Admitting
<1>2. QED
      BY <1>1 DEF StaysEnded

LEMMA ThreadStaysEnded ==
    ASSUME Inv, NEW s \in Slots, ClientThread(s)
    PROVE  StaysEnded /\ UNCHANGED mainVars
<1>1. UNCHANGED <<accept_pc, mainVars>>
      BY DEF ClientThread, ThreadInit, ThreadSendInit, ThreadSendInitFails, ThreadSendInitKills,
             ThreadReceiving, ThreadStoreInput, ThreadIgnoreInput, ThreadRecvPart, ThreadRecvEnd, ThreadClose,
             ThreadForgetFd, ThreadLeave, ThreadRemove, ThreadRemoved, acceptVars, serverVars
<1>2. sim_pc = "ended" => sim_pc' = "ended"
      BY DEF ClientThread, ThreadInit, ThreadSendInit, ThreadSendInitFails, ThreadSendInitKills,
             ThreadStoreInput, ThreadIgnoreInput, ThreadRecvPart, ThreadRecvEnd, ThreadClose,
             ThreadForgetFd, ThreadLeave, ThreadRemove, ThreadRemoved, serverVars, SignalSimulation
<1>3. \/ UNCHANGED cd_is_connected
      \/ cd_is_connected' = [cd_is_connected EXCEPT ![s] = FALSE]
      BY DEF ClientThread, ThreadInit, ThreadSendInit, ThreadSendInitFails, ThreadSendInitKills,
             ThreadReceiving, ThreadStoreInput, ThreadIgnoreInput, ThreadRecvPart, ThreadRecvEnd, ThreadClose,
             ThreadForgetFd, ThreadLeave, ThreadRemove, ThreadRemoved, slotVars, serverVars
<1>4. \A t \in Slots : cd_is_connected'[t] => cd_is_connected[t]
      BY <1>3 DEF Inv, Types, ServerTypeOK
<1>5. QED
      BY <1>1, <1>2, <1>4 DEF StaysEnded

LEMMA SimStaysEnded ==
    ASSUME SimulationThread \/ SimSpuriousWakeup
    PROVE  StaysEnded /\ UNCHANGED mainVars
BY DEF SimulationThread, SimTest, SimTestLate, SimStops, SimStep, SimKills, SimSimulating, SimSpuriousWakeup,
       acceptVars, slotVars, StaysEnded

LEMMA MainStaysEnded ==
    ASSUME BeginShutdown \/ ServerShutdown
    PROVE  StaysEnded
<1>1. UNCHANGED <<accept_pc, cd_is_connected>>
      BY DEF BeginShutdown, ServerShutdown, MainCount, MainSkipClient, MainShutClient, MainCloseClient, MainSignal,
             MainJoinSimulation, MainJoinAccept, MainJoinClient, MainReturns, NextSlot, MainStep,
             acceptVars, slotVars
<1>2. sim_pc = "ended" => sim_pc' = "ended"
      BY DEF BeginShutdown, ServerShutdown, MainCount, MainSkipClient, MainShutClient, MainCloseClient, MainSignal,
             MainJoinSimulation, MainJoinAccept, MainJoinClient, MainReturns, SignalSimulation
<1>3. QED
      BY <1>1, <1>2 DEF StaysEnded

LEMMA NextStaysEnded ==
    ASSUME Inv, [Next]_vars
    PROVE  /\ StaysEnded
           /\ BeginShutdown \/ ServerShutdown \/ UNCHANGED mainVars
<1>1. CASE ServerThreads
      BY <1>1, AcceptStaysEnded, ThreadStaysEnded, SimStaysEnded DEF ServerThreads
<1>2. CASE BeginShutdown \/ ServerShutdown
      BY <1>2, MainStaysEnded
<1>3. CASE EnvNext \/ UNCHANGED vars
  <2>1. UNCHANGED serverVars
        BY <1>3, EnvPeersOnly DEF PeersOnly, vars
  <2>2. QED
        BY <2>1 DEF serverVars, acceptVars, slotVars, StaysEnded
<1>4. QED
      BY <1>1, <1>2, <1>3 DEF Next, ServerNext

\* The steps of the main thread that decide what it may rely on.
LEMMA MainKeepsOrder ==
    ASSUME Inv, JoinsInOrder, StaysEnded, BeginShutdown \/ ServerShutdown
    PROVE  JoinsInOrder'
<1> USE DEF StaysEnded
<1>0. main_slot \in Nat /\ Slots = 0 .. MAX_CLIENTS - 1 /\ MAX_CLIENTS \in Nat \ {0}
      BY GlobalsAssumption DEF Inv, Types, ServerTypeOK, Slots
<1>1. CASE BeginShutdown
  <2>1. main_pc = "pause" /\ main_pc' = "count" /\ main_slot' = main_slot
        BY <1>1 DEF BeginShutdown, MainStep
  <2>2. QED
        BY <2>1 DEF JoinsInOrder
<1>2. CASE MainCount("count", "walk", "signal")
  <2>1. main_pc = "count" /\ main_pc' \in {"walk", "signal"} /\ main_slot' = main_slot
        BY <1>2 DEF MainCount, MainStep
  <2>2. QED
        BY <2>1 DEF JoinsInOrder
<1>3. CASE MainSkipClient \/ MainShutClient \/ MainCloseClient
  <2>1. \/ main_pc' \in {"walk", "close"}
        \/ main_pc' = "signal" /\ main_slot' = 0
        BY <1>3 DEF MainSkipClient, MainShutClient, MainCloseClient, NextSlot, MainStep
  <2>2. QED
        BY <2>1 DEF JoinsInOrder
<1>4. CASE MainSignal
  <2>1. main_pc = "signal" /\ main_pc' = "join_sim" /\ main_slot' = main_slot
        BY <1>4 DEF MainSignal, MainStep
  <2>2. QED
        BY <2>1 DEF JoinsInOrder
<1>5. CASE MainJoinSimulation
  <2>1. main_pc = "join_sim" /\ main_pc' = "join_accept" /\ main_slot' = main_slot /\ sim_pc = "ended"
        BY <1>5 DEF MainJoinSimulation, MainStep
  <2>2. QED
        BY <2>1 DEF JoinsInOrder
<1>6. CASE MainJoinAccept
  <2>1. main_pc = "join_accept" /\ main_pc' = "recount" /\ main_slot' = main_slot /\ accept_pc = "ended"
        BY <1>6 DEF MainJoinAccept, MainStep
  <2>2. QED
        BY <2>1 DEF JoinsInOrder
<1>7. CASE MainCount("recount", "join_clients", "destroy")
  <2>1. main_pc = "recount" /\ main_pc' \in {"join_clients", "destroy"} /\ main_slot' = main_slot
        BY <1>7 DEF MainCount, MainStep
  <2>2. main_slot' = 0
        BY <2>1 DEF JoinsInOrder
  <2>3. ~\E s \in Slots : s < main_slot'
        BY <1>0, <2>2
  <2>4. QED
        BY <2>1, <2>2, <2>3 DEF JoinsInOrder
<1>8. CASE MainJoinClient
  <2>1. main_pc = "join_clients" /\ ~cd_is_connected[main_slot] /\ UNCHANGED cd_is_connected
        BY <1>8 DEF MainJoinClient, NextSlot, MainStep, slotVars
  <2>2. \/ main_pc' = "join_clients" /\ main_slot' = main_slot + 1
        \/ main_pc' = "destroy" /\ main_slot' = 0
        BY <1>8, <2>1 DEF MainJoinClient, NextSlot, MainStep
  <2>3. ASSUME main_pc' = "join_clients", NEW s \in Slots, s < main_slot'
        PROVE  ~cd_is_connected'[s]
    <3>1. s < main_slot \/ s = main_slot
          BY <1>0, <2>2, <2>3
    <3>2. QED
          BY <2>1, <3>1 DEF JoinsInOrder
  <2>4. sim_pc = "ended" /\ accept_pc = "ended"
        BY <2>1 DEF JoinsInOrder
  <2>5. QED
        BY <2>2, <2>3, <2>4 DEF JoinsInOrder
<1>9. CASE MainReturns
  <2>1. main_pc = "destroy" /\ main_pc' = "done" /\ main_slot' = main_slot
        BY <1>9 DEF MainReturns
  <2>2. QED
        BY <2>1 DEF JoinsInOrder
<1>10. QED
       BY <1>1, <1>2, <1>3, <1>4, <1>5, <1>6, <1>7, <1>8, <1>9 DEF ServerShutdown

(***************************************************************************)
(* The sockets of threads that listen are shut one after the other, and    *)
(* stay shut: once the server is stopping, no thread starts to listen.     *)
(***************************************************************************)
ShutStays ==
    to_shutdown =>
        \A s \in Slots : thread_pc'[s] = "listen" =>
            /\ thread_pc[s] = "listen"
            /\ server_end[cd_fd[s]] = "closed" => server_end'[cd_fd'[s]] = "closed"

LEMMA DiesShut ==
    ASSUME Inv, ServerDies, UNCHANGED <<thread_pc, cd_fd>>
    PROVE  ShutStays
<1> SUFFICES ASSUME NEW s \in Slots, thread_pc[s] = "listen", server_end[cd_fd[s]] = "closed"
             PROVE  server_end'[cd_fd[s]] = "closed"
    BY DEF ShutStays
<1>1. cd_fd[s] \in Clients
      BY DEF Inv, ServerInv, SlotInUse
<1>2. client_end[cd_fd[s]] # "none"
      BY <1>1 DEF Inv, ServerInv, ConnectedFirst
<1>3. QED
      BY <1>1, <1>2 DEF ServerDies

LEMMA AcceptKeepsShut ==
    ASSUME Inv, AcceptThread
    PROVE  ShutStays
<1> SUFFICES ASSUME to_shutdown, NEW s \in Slots, thread_pc'[s] = "listen"
             PROVE  /\ thread_pc[s] = "listen"
                    /\ server_end[cd_fd[s]] = "closed" => server_end'[cd_fd'[s]] = "closed"
    BY DEF ShutStays
<1> USE DEF networkVars, slotVars, threadVars
<1>0. /\ server_end \in [Clients -> SocketState] /\ cd_fd \in [Slots -> Clients \cup {NoFd}]
      /\ thread_pc \in [Slots -> ThreadPC] /\ accept_slot \in Slots
      BY DEF Inv, Types, NetworkTypeOK, ServerTypeOK
<1>1. Filling => thread_pc[accept_slot] = "none"
      BY DEF Inv, ServerInv, SlotBeingFilled
<1>2. thread_pc[s] = "listen"
  <2>1. CASE AcceptSpawn
        BY <1>0, <2>1 DEF AcceptSpawn
  <2>2. CASE ~AcceptSpawn
        BY <2>2 DEF AcceptThread, AcceptConnection, AcceptStops, AcceptLimitReached, AcceptNoSlot, AcceptFindSlot,
                    AcceptMark, AcceptSetFd, AcceptSetFrame, AcceptCountRead, AcceptCountWrite,
                    AcceptSpawnFails,
                    AcceptUndoFd, AcceptUndoRead, AcceptUndoWrite, AcceptUndoUnlock, AcceptUndo, AcceptUnlock, AcceptStep
  <2>3. QED
        BY <2>1, <2>2
<1>3. cd_fd[s] \in Clients
      BY <1>2 DEF Inv, ServerInv, SlotInUse
<1>4. cd_fd'[s] = cd_fd[s]
  <2>1. CASE AcceptSetFd \/ AcceptUndoFd
    <3>1. Filling /\ \E fd \in Clients \cup {NoFd} : cd_fd' = [cd_fd EXCEPT ![accept_slot] = fd]
          BY <2>1 DEF AcceptSetFd, AcceptUndoFd, AcceptStep, Filling, Undoing, Inv, Types, ServerTypeOK
    <3>2. accept_slot # s
          BY <1>1, <1>2, <3>1
    <3>3. QED
          BY <1>0, <3>1, <3>2
  <2>2. CASE ~(AcceptSetFd \/ AcceptUndoFd)
        BY <2>2 DEF AcceptThread, AcceptConnection, AcceptStops, AcceptLimitReached, AcceptNoSlot, AcceptFindSlot,
                    AcceptMark, AcceptSetFrame, AcceptCountRead, AcceptCountWrite,
                    AcceptSpawn, AcceptSpawnFails,
                    AcceptUndoRead, AcceptUndoWrite, AcceptUndoUnlock, AcceptUndo, AcceptUnlock, AcceptStep
  <2>3. QED
        BY <2>1, <2>2
<1>5. server_end[cd_fd[s]] = "closed" => server_end'[cd_fd[s]] = "closed"
  <2>1. CASE AcceptStops
        BY <1>3, <2>1 DEF AcceptStops, Backlog
  <2>2. CASE AcceptLimitReached \/ AcceptNoSlot \/ AcceptUndo
        BY <1>0, <1>3, <2>2 DEF AcceptLimitReached, AcceptNoSlot, AcceptUndo, CloseServerEnd
  <2>3. CASE ~(AcceptStops \/ AcceptLimitReached \/ AcceptNoSlot \/ AcceptUndo)
        BY <2>3 DEF AcceptThread, AcceptConnection, AcceptFindSlot, AcceptMark, AcceptSetFd, AcceptSetFrame,
                    AcceptCountRead, AcceptCountWrite, AcceptSpawn, AcceptSpawnFails,
                    AcceptUndoFd, AcceptUndoRead, AcceptUndoWrite, AcceptUndoUnlock, AcceptUnlock, AcceptStep
  <2>4. QED
        BY <2>1, <2>2, <2>3
<1>6. QED
      BY <1>2, <1>4, <1>5

LEMMA ThreadKeepsShut ==
    ASSUME Inv, NEW t \in Slots, ClientThread(t)
    PROVE  ShutStays
<1> USE DEF networkVars, slotVars, threadVars, serverVars
<1>0. /\ server_end \in [Clients -> SocketState] /\ cd_fd \in [Slots -> Clients \cup {NoFd}]
      /\ thread_pc \in [Slots -> ThreadPC]
      BY DEF Inv, Types, NetworkTypeOK, ServerTypeOK
<1>1. CASE ThreadSendInitKills(t) \/ ThreadRecvPart(t)
      BY <1>1, DiesShut DEF ThreadSendInitKills, ThreadRecvPart
<1>2. CASE ~(ThreadSendInitKills(t) \/ ThreadRecvPart(t))
  <2> SUFFICES ASSUME to_shutdown, NEW s \in Slots, thread_pc'[s] = "listen"
               PROVE  /\ thread_pc[s] = "listen"
                      /\ server_end[cd_fd[s]] = "closed" => server_end'[cd_fd'[s]] = "closed"
      BY DEF ShutStays
  <2>1. \/ thread_pc' = thread_pc
        \/ \E to \in {"send_init", "close", "forget", "leave", "remove", "none"} :
              thread_pc' = [thread_pc EXCEPT ![t] = to]
        BY <1>2 DEF ClientThread, ThreadInit, ThreadSendInit, ThreadSendInitFails, ThreadReceiving,
               ThreadStoreInput, ThreadIgnoreInput, ThreadRecvEnd, ThreadClose,
               ThreadForgetFd, ThreadLeave, ThreadRemove, ThreadRemoved, ThreadStep, NextRecv
  <2>2. thread_pc[s] = "listen"
        BY <1>0, <2>1
  <2>3. cd_fd[s] \in Clients
        BY <2>2 DEF Inv, ServerInv, SlotInUse
  <2>4. cd_fd'[s] = cd_fd[s]
    <3>1. CASE ThreadForgetFd(t)
      <4>1. t # s /\ cd_fd' = [cd_fd EXCEPT ![t] = NoFd]
            BY <2>2, <3>1 DEF ThreadForgetFd, ThreadStep
      <4>2. QED
            BY <1>0, <4>1
    <3>2. CASE ~ThreadForgetFd(t)
          BY <1>2, <3>2
          DEF ClientThread, ThreadInit, ThreadSendInit, ThreadSendInitFails, ThreadReceiving,
              ThreadStoreInput, ThreadIgnoreInput, ThreadRecvEnd, ThreadClose, ThreadLeave, ThreadRemove,
              ThreadRemoved
    <3>3. QED
          BY <3>1, <3>2
  <2>5. server_end[cd_fd[s]] = "closed" => server_end'[cd_fd[s]] = "closed"
    <3>1. CASE ThreadClose(t)
          BY <1>0, <2>3, <3>1 DEF ThreadClose, CloseServerEnd
    <3>2. CASE ~ThreadClose(t)
          BY <1>2, <3>2
          DEF ClientThread, ThreadInit, ThreadSendInit, ThreadSendInitFails, ThreadReceiving,
              ThreadStoreInput, ThreadIgnoreInput, ThreadRecvEnd, ThreadForgetFd, ThreadLeave, ThreadRemove,
              ThreadRemoved
    <3>3. QED
          BY <3>1, <3>2
  <2>6. QED
        BY <2>2, <2>4, <2>5
<1>3. QED
      BY <1>1, <1>2

LEMMA SimKeepsShut ==
    ASSUME Inv, SimulationThread \/ SimSpuriousWakeup
    PROVE  ShutStays
<1> USE DEF networkVars, slotVars, threadVars
<1>1. CASE SimKills
      BY <1>1, DiesShut DEF SimKills
<1>2. CASE ~SimKills
      BY <1>2 DEF SimulationThread, SimTest, SimTestLate, SimStops, SimStep, SimSpuriousWakeup, ShutStays
<1>3. QED
      BY <1>1, <1>2

LEMMA MainKeepsShut ==
    ASSUME Inv, BeginShutdown \/ ServerShutdown
    PROVE  ShutStays
<1> USE DEF slotVars
<1>1. CASE BeginShutdown
      BY <1>1 DEF BeginShutdown, MainStep, ShutStays, Inv, ServerInv, StopsOnce, to_shutdown
<1>2. CASE MainShutClient
  <2>1. UNCHANGED <<thread_pc, cd_fd>>
        BY <1>2 DEF MainShutClient, MainStep
  <2>2. \A c \in Clients : server_end[c] = "closed" => server_end'[c] = "closed"
        BY <1>2 DEF MainShutClient
  <2>3. \A s \in Slots : thread_pc[s] = "listen" => cd_fd[s] \in Clients
        BY DEF Inv, ServerInv, SlotInUse
  <2>4. QED
        BY <2>1, <2>2, <2>3 DEF ShutStays
<1>3. CASE MainReturns
      BY <1>3, DiesShut DEF MainReturns, threadVars
<1>4. CASE ServerShutdown /\ ~MainShutClient /\ ~MainReturns
      BY <1>4 DEF ServerShutdown, MainCount, MainSkipClient, MainCloseClient, MainSignal,
                  MainJoinSimulation, MainJoinAccept, MainJoinClient, NextSlot, MainStep, ShutStays
<1>5. QED
      BY <1>1, <1>2, <1>3, <1>4 DEF ServerShutdown

LEMMA NextKeepsShut ==
    ASSUME Inv, [Next]_vars
    PROVE  ShutStays
<1>1. CASE EnvNext \/ UNCHANGED vars
  <2>1. UNCHANGED <<server_end, serverVars>>
        BY <1>1, EnvPeersOnly DEF PeersOnly, vars, networkVars
  <2>2. QED
        BY <2>1 DEF serverVars, slotVars, threadVars, ShutStays
<1>2. QED
      BY <1>1, AcceptKeepsShut, ThreadKeepsShut, SimKeepsShut, MainKeepsShut DEF Next, ServerNext, ServerThreads

LEMMA NextKeepsSockets ==
    ASSUME Inv, ShutdownInv, [Next]_vars
    PROVE  SocketsShutSoFar'
<1> USE DEF ShutBehind
<1>0. /\ ShutStays /\ SocketsShutSoFar /\ JoinsInOrder /\ main_slot \in Nat
      /\ BeginShutdown \/ ServerShutdown \/ UNCHANGED mainVars
      BY NextKeepsShut, NextStaysEnded DEF ShutdownInv, Inv, Types, ServerTypeOK, Slots
<1>1. main_pc \in {"count", "walk", "close"} => to_shutdown
      BY DEF Inv, ServerInv, StopsOnce, to_shutdown
<1>2. ASSUME NEW n \in Nat, to_shutdown, ShutBehind(n) PROVE ShutBehind(n)'
      BY <1>0, <1>2 DEF ShutStays
<1>3. CASE UNCHANGED mainVars
      BY <1>0, <1>1, <1>2, <1>3 DEF mainVars, SocketsShutSoFar
<1>4. CASE BeginShutdown
      BY <1>4 DEF BeginShutdown, MainStep, SocketsShutSoFar
<1>5. CASE MainCount("count", "walk", "signal")
  <2>1. main_pc = "count" /\ main_pc' \in {"walk", "signal"} /\ main_slot' = main_slot /\ main_slot = 0
        BY <1>0, <1>5 DEF MainCount, MainStep, JoinsInOrder
  <2>2. \A s \in Slots : ~(s < main_slot)
        BY <2>1 DEF Slots
  <2>3. QED
        BY <2>1, <2>2 DEF SocketsShutSoFar
<1>6. CASE MainSkipClient
  <2>1. /\ main_pc = "walk" /\ thread_pc[main_slot] = "none" /\ UNCHANGED <<thread_pc, cd_fd, server_end>>
        /\ main_pc' = "signal" \/ (main_pc' = "walk" /\ main_slot' = main_slot + 1)
        BY <1>6 DEF MainSkipClient, NextSlot, MainStep, slotVars, Inv, ServerInv, SlotInUse, Types, ServerTypeOK
  <2>2. ASSUME NEW s \in Slots, thread_pc[s] = "listen", s < main_slot + 1
        PROVE  server_end[cd_fd[s]] = "closed"
    <3>1. s < main_slot
          BY <1>0, <2>1, <2>2 DEF Slots
    <3>2. QED
          BY <1>0, <2>1, <2>2, <3>1 DEF SocketsShutSoFar
  <2>3. QED
        BY <2>1, <2>2 DEF SocketsShutSoFar
<1>7. CASE MainShutClient
  <2>1. /\ main_pc = "walk" /\ main_pc' = "close" /\ main_slot' = main_slot /\ UNCHANGED <<thread_pc, cd_fd>>
        /\ server_end' = [c \in Clients |-> IF cd_fd[main_slot] = c THEN "closed" ELSE server_end[c]]
        BY <1>7 DEF MainShutClient, MainStep, slotVars
  <2>2. ASSUME NEW s \in Slots, thread_pc[s] = "listen", s < main_slot + 1
        PROVE  server_end'[cd_fd[s]] = "closed"
    <3>1. cd_fd[s] \in Clients
          BY <2>2 DEF Inv, ServerInv, SlotInUse
    <3>2. s = main_slot \/ s < main_slot
          BY <1>0, <2>2 DEF Slots
    <3>3. QED
          BY <1>0, <2>1, <2>2, <3>1, <3>2 DEF SocketsShutSoFar
  <2>3. QED
        BY <2>1, <2>2 DEF SocketsShutSoFar
<1>8. CASE MainCloseClient
  <2>1. /\ main_pc = "close" /\ UNCHANGED <<thread_pc, cd_fd, server_end>>
        /\ main_pc' = "signal" \/ (main_pc' = "walk" /\ main_slot' = main_slot + 1)
        BY <1>8 DEF MainCloseClient, NextSlot, MainStep, slotVars
  <2>2. QED
        BY <1>0, <2>1 DEF SocketsShutSoFar
<1>9. CASE ServerShutdown /\ ~MainCount("count", "walk", "signal") /\ ~MainSkipClient /\ ~MainShutClient
              /\ ~MainCloseClient
  <2>1. main_pc' \notin {"walk", "close"}
        BY <1>9 DEF ServerShutdown, MainCount, MainSignal, MainJoinSimulation, MainJoinAccept,
                    MainJoinClient, MainReturns, NextSlot, MainStep
  <2>2. QED
        BY <2>1 DEF SocketsShutSoFar
<1>10. QED
       BY <1>0, <1>3, <1>4, <1>5, <1>6, <1>7, <1>8, <1>9

LEMMA NextKeepsOrder ==
    ASSUME Inv, JoinsInOrder, [Next]_vars
    PROVE  JoinsInOrder'
<1>1. CASE BeginShutdown \/ ServerShutdown
      BY <1>1, NextStaysEnded, MainKeepsOrder
<1>2. CASE UNCHANGED mainVars
      BY <1>2, NextStaysEnded DEF mainVars, StaysEnded, JoinsInOrder
<1>3. QED
      BY <1>1, <1>2, NextStaysEnded

(***************************************************************************)
(* Who waits for a lock, for a slot or for the signal finds somebody who   *)
(* will release, leave or send it.                                         *)
(***************************************************************************)
LEMMA NextKeepsWaits ==
    ASSUME Inv, WaitsEnd, [Next]_vars
    PROVE  WaitsEnd'
<1>1. CASE ServerNext
      BY <1>1, ServerKeepsWaits
<1>2. CASE EnvNext
      BY <1>2, PeersKeepWaits, EnvPeersOnly DEF PeersOnly
<1>3. CASE UNCHANGED vars
      BY <1>3, PeersKeepWaits DEF vars, networkVars
<1>4. QED
      BY <1>1, <1>2, <1>3 DEF Next

(***************************************************************************)
(* What the main thread has waited for stays as it is, the sockets behind  *)
(* it stay shut, and who waits for a lock, a slot or the signal finds      *)
(* somebody to end the wait (gameserver.c:88 to 142).                      *)
(***************************************************************************)
THEOREM ShutdownInvariant == Spec => []ShutdownInv
<1>1. Init => ShutdownInv
  <2> SUFFICES ASSUME Init PROVE ShutdownInv
      OBVIOUS
  <2>1. JoinsInOrder /\ SocketsShutSoFar
        BY DEF Init, ServerInit, JoinsInOrder, SocketsShutSoFar
  <2>2. WaitsEnd
        BY InitWaits DEF Init
  <2>3. QED
        BY <2>1, <2>2 DEF ShutdownInv
<1>2. Inv /\ ShutdownInv /\ [Next]_vars => ShutdownInv'
      BY NextKeepsOrder, NextKeepsSockets, NextKeepsWaits DEF ShutdownInv
<1>3. QED
      BY InvariantInv, <1>1, <1>2, PTL DEF Spec

\* A thread that has not given its slot back is counted among the connected slots.
LEMMA ThreadsAreConnected ==
    ASSUME Inv, client_count <= 0
    PROVE  (\A s \in Slots : thread_pc[s] = "none") \/ CountLost
<1> SUFFICES ASSUME NEW s \in Slots, thread_pc[s] # "none" PROVE CountLost
    OBVIOUS
<1>1. s \in Connected
      BY DEF Connected, Inv, ServerInv, SlotInUse
<1>2. IsFiniteSet(Connected)
  <2>1. IsFiniteSet(Slots)
        BY GlobalsAssumption, FS_Interval DEF Slots
  <2>2. Connected \subseteq Slots
        BY DEF Connected
  <2>3. QED
        BY <2>1, <2>2, FS_Subset
<1>3. Cardinality(Connected) \in Nat /\ Cardinality(Connected) # 0
      BY <1>1, <1>2, FS_CardinalityType, FS_EmptySet
<1>4. QED
      BY <1>3 DEF CountLost, Inv, Types, ServerTypeOK

-------------------------------------------------------------------------------
(***************************************************************************)
(* The server's and the network's variables keep their types.              *)
(***************************************************************************)
THEOREM TypeCorrect == Spec => []TypeOK
<1>1. Inv => TypeOK
      BY DEF Inv, Types, TypeOK
<1>2. QED
      BY InvariantInv, <1>1, PTL

(***************************************************************************)
(* The invariant the runs check is one, whatever the constants.            *)
(***************************************************************************)
THEOREM ServerInvariant == Spec => []ServerInv
<1>1. Inv => ServerInv
      BY DEF Inv
<1>2. QED
      BY InvariantInv, <1>1, PTL

(***************************************************************************)
(* Slots change hands safely although they are filled without the lock     *)
(* (gameserver.c:184 to 226, 337 to 361).                                  *)
(***************************************************************************)
THEOREM SlotsHandedOver == Spec => []SlotHandover
<1>1. Inv => SlotHandover
      BY InvSlotHandover
<1>2. QED
      BY InvariantInv, <1>1, PTL

(***************************************************************************)
(* Server and joined clients stay within one ring of each other            *)
(* (gameserver.c:295 to 324, 446 to 454).                                  *)
(***************************************************************************)
THEOREM InLockstep == Spec => []Lockstep
<1>1. Inv => Lockstep
      BY DEF Inv, ServerInv
<1>2. QED
      BY InvariantInv, <1>1, PTL

(***************************************************************************)
(* No frame is simulated before the inputs of every joined client for it   *)
(* have arrived (gameserver.c:374 to 406).                                 *)
(***************************************************************************)
THEOREM FramesComplete == Spec => NeverAheadOfInputs
<1> DEFINE Complete == \A s \in Slots : Joined(s) => cd_client_frame[s] >= server_frame
<1>1. Inv /\ [Next]_vars => [server_frame' # server_frame => Complete]_server_frame
  <2> SUFFICES ASSUME Inv, [Next]_vars, server_frame' # server_frame PROVE Complete
      OBVIOUS
  <2>1. CASE ServerNext
        BY <2>1, AdvancesComplete
  <2>2. CASE EnvNext
        BY <2>2, EnvPeersOnly DEF PeersOnly, serverVars, ringVars
  <2>3. CASE UNCHANGED vars
        BY <2>3 DEF vars, serverVars, ringVars
  <2>4. QED
        BY <2>1, <2>2, <2>3 DEF Next
<1>2. QED
      BY InvariantInv, <1>1, PTL DEF Spec, NeverAheadOfInputs

(***************************************************************************)
(* No join or departure is lost or doubled (gameserver.c:252, 352 and the  *)
(* memset at 404), although joins, inputs and departures of all slots are  *)
(* written to the frame being assembled while frames are simulated.        *)
(***************************************************************************)
THEOREM RosterIsRight == Spec => []RosterMatchesThreads
<1>1. Init => RosterMatchesThreads
      BY InitRoster DEF Init
<1>2. Inv /\ RosterMatchesThreads /\ [Next]_vars => RosterMatchesThreads'
  <2> SUFFICES ASSUME Inv, RosterMatchesThreads, [Next]_vars
               PROVE  RosterMatchesThreads'
      OBVIOUS
  <2>1. CASE ServerNext
        BY <2>1, ServerRoster
  <2>2. CASE EnvNext \/ UNCHANGED vars
    <3>1. UNCHANGED serverVars
          BY <2>2, EnvPeersOnly DEF PeersOnly, vars
    <3>2. QED
          BY <3>1, PeersRoster
  <2>3. QED
        BY <2>1, <2>2 DEF Next
<1>3. QED
      BY InvariantInv, <1>1, <1>2, PTL DEF Spec

(***************************************************************************)
(* Whatever the threads and the clients are doing when the signal comes,   *)
(* the threads never all wait for one another before the program ends, but *)
(* for the three causes the property names (gameserver.c:89 to 142).       *)
(***************************************************************************)
THEOREM NeverStuck == Spec => []ShutdownNotStuck
<1>1. Inv /\ ShutdownInv => ShutdownNotStuck
  <2> SUFFICES ASSUME Inv, ShutdownInv, server_up, to_shutdown, ~SignalMissed, ~LockLeft, ~PassedOver
               PROVE  SomeoneGoesOn
      BY DEF ShutdownNotStuck
  <2> SUFFICES ASSUME ~SomeoneGoesOn PROVE FALSE
      OBVIOUS
  <2>0. /\ ~AcceptGoesOn /\ ~SimulationGoesOn /\ ~MainGoesOn
        /\ \A s \in Slots : ~ThreadGoesOn(s)
        BY DEF SomeoneGoesOn
  <2>1. ClientsLockFree
    <3>1. \A s \in Slots : removing[s] # <<>> => ThreadGoesOn(s)
          BY DEF ThreadGoesOn
    <3>2. QED
          BY <2>0, <3>1 DEF ClientsLockFree, LockLeft, ShutdownInv, WaitsEnd, Inv, Types, ServerTypeOK
  <2>2. accept_pc = "ended"
        BY <2>0, <2>1 DEF AcceptGoesOn
  <2>3. main_pc \in {"join_sim", "join_clients"}
        BY <2>0, <2>2 DEF MainGoesOn, Inv, Types, ServerTypeOK, MainPC, ServerInv, StopsOnce, to_shutdown,
                          ShutdownInv, WaitsEnd
  <2>4. CASE main_pc = "join_sim"
        BY <2>0, <2>1, <2>4 DEF MainGoesOn, SimulationGoesOn, SignalMissed, Inv, Types, ServerTypeOK, SimPC,
                                ShutdownInv, WaitsEnd
  <2>5. CASE main_pc = "join_clients"
    <3>1. main_slot \in Slots /\ thread_pc[main_slot] \in ThreadPC \ {"none"}
          BY <2>0, <2>2, <2>5 DEF MainGoesOn, Filled, Inv, Types, ServerTypeOK, ShutdownInv, WaitsEnd
    <3>2. StateLockFree
          BY <2>5 DEF StateLockFree, ShutdownInv, JoinsInOrder
    <3>3. thread_pc[main_slot] = "listen" => Hears(main_slot)
      <4>1. \/ cd_fd[main_slot] \in Clients /\ server_end[cd_fd[main_slot]] # "none"
            \/ thread_pc[main_slot] # "listen"
            BY <3>1 DEF Inv, ServerInv, SlotInUse
      <4>2. QED
            BY <3>1, <4>1 DEF Hears, PassedOver, Inv, Types, NetworkTypeOK, SocketState
    <3>4. ThreadGoesOn(main_slot)
          BY <2>1, <3>1, <3>2, <3>3 DEF ThreadGoesOn, ThreadPC
    <3>5. QED
          BY <2>0, <3>1, <3>4
  <2>6. QED
        BY <2>3, <2>4, <2>5
<1>2. QED
      BY InvariantInv, ShutdownInvariant, <1>1, PTL

(***************************************************************************)
(* When the main thread is done with the sockets, those of all threads     *)
(* that listen are shut, although it walks the slots without a lock, but   *)
(* for a count that a lost update made too small (gameserver.c:98 to 107). *)
(***************************************************************************)
THEOREM AllSocketsShut == Spec => SocketsShut
<1> DEFINE Signalling == main_pc # "signal" /\ main_pc' = "signal"
           Shut       == ~PassedOver \/ CountLost
<1>1. Inv /\ ShutdownInv /\ [Next]_vars => [Signalling => Shut]_main_pc
  <2> SUFFICES ASSUME Inv, ShutdownInv, [Next]_vars, Signalling PROVE Shut
      OBVIOUS
  <2>1. MainCount("count", "walk", "signal") \/ MainSkipClient \/ MainCloseClient
    <3>1. BeginShutdown \/ ServerShutdown
          BY NextStaysEnded DEF mainVars
    <3>2. QED
          BY <3>1 DEF BeginShutdown, ServerShutdown, MainCount, MainShutClient, MainSignal,
                      MainJoinSimulation, MainJoinAccept, MainJoinClient, MainReturns, NextSlot, MainStep
  <2>2. CASE MainCount("count", "walk", "signal")
    <3>1. client_count <= 0
          BY <2>2 DEF MainCount, MainStep, Inv, Types, ServerTypeOK
    <3>2. QED
          BY <3>1, ThreadsAreConnected DEF PassedOver
  <2>3. CASE MainSkipClient \/ MainCloseClient
    <3>1. /\ main_slot + 1 \notin Slots
          /\ \/ main_pc = "walk" /\ ~cd_is_connected[main_slot]
             \/ main_pc = "close"
          BY <2>3 DEF MainSkipClient, MainCloseClient, NextSlot, MainStep
    <3>2. ASSUME NEW s \in Slots, thread_pc[s] = "listen" PROVE server_end[cd_fd[s]] = "closed"
      <4>1. s < main_slot \/ s = main_slot
            BY <3>1, GlobalsAssumption DEF Slots, Inv, Types, ServerTypeOK
      <4>2. main_pc = "walk" => s # main_slot
            BY <3>1, <3>2 DEF Inv, ServerInv, SlotInUse
      <4>3. s < main_slot + 1 /\ (main_pc = "walk" => s < main_slot)
            BY <4>1, <4>2 DEF Slots, Inv, Types, ServerTypeOK
      <4>4. QED
            BY <3>1, <3>2, <4>3 DEF ShutdownInv, SocketsShutSoFar, ShutBehind
    <3>3. QED
          BY <3>2 DEF PassedOver
  <2>4. QED
        BY <2>1, <2>2, <2>3
<1>2. QED
      BY InvariantInv, ShutdownInvariant, <1>1, PTL DEF Spec, SocketsShut

(***************************************************************************)
(* The mutexes are destroyed only when the accept and the simulation       *)
(* thread have ended and every client thread has given its slot back, but  *)
(* for a count that a lost update made too small (gameserver.c:112 to 137).*)
(***************************************************************************)
THEOREM JoinedBeforeDestroy == Spec => ThreadsJoined
<1> DEFINE Destroying == main_pc # "destroy" /\ main_pc' = "destroy"
           Left       == /\ accept_pc = "ended" /\ sim_pc = "ended"
                         /\ (\A s \in Slots : thread_pc[s] = "none") \/ CountLost
<1>1. Inv /\ ShutdownInv /\ [Next]_vars => [Destroying => Left]_main_pc
  <2> SUFFICES ASSUME Inv, ShutdownInv, [Next]_vars, Destroying PROVE Left
      OBVIOUS
  <2>1. MainCount("recount", "join_clients", "destroy") \/ MainJoinClient
    <3>1. BeginShutdown \/ ServerShutdown
          BY NextStaysEnded DEF mainVars
    <3>2. QED
          BY <3>1 DEF BeginShutdown, ServerShutdown, MainCount, MainSkipClient, MainShutClient, MainCloseClient,
                      MainSignal, MainJoinSimulation, MainJoinAccept, MainReturns, NextSlot, MainStep
  <2>2. CASE MainCount("recount", "join_clients", "destroy")
    <3>1. main_pc = "recount" /\ client_count <= 0
          BY <2>2 DEF MainCount, MainStep, Inv, Types, ServerTypeOK
    <3>2. QED
          BY <3>1, ThreadsAreConnected DEF ShutdownInv, JoinsInOrder
  <2>3. CASE MainJoinClient
    <3>1. main_pc = "join_clients" /\ ~cd_is_connected[main_slot] /\ main_slot + 1 \notin Slots
          BY <2>3 DEF MainJoinClient, NextSlot, MainStep
    <3>2. ASSUME NEW s \in Slots PROVE ~cd_is_connected[s]
      <4>1. s < main_slot \/ s = main_slot
            BY <3>1, GlobalsAssumption DEF Slots, Inv, Types, ServerTypeOK
      <4>2. QED
            BY <3>1, <4>1 DEF ShutdownInv, JoinsInOrder
    <3>3. \A s \in Slots : thread_pc[s] = "none"
          BY <3>2 DEF Inv, ServerInv, SlotInUse
    <3>4. QED
          BY <3>1, <3>3 DEF ShutdownInv, JoinsInOrder
  <2>4. QED
        BY <2>1, <2>2, <2>3
<1>2. QED
      BY InvariantInv, ShutdownInvariant, <1>1, PTL DEF Spec, ThreadsJoined

(***************************************************************************)
(* The simulation thread, once it waits, never misses a frame that an      *)
(* input has completed (gameserver.c:328 to 332): the frame can only be    *)
(* complete unseen when a slot was given back (212, 359) or a thread was   *)
(* not counted (203, 360), whatever the clients send and however they come *)
(* and go.                                                                 *)
(***************************************************************************)
THEOREM WakeupsAreSent == Spec => WakeupsSent
<1>1. Inv /\ [Next]_vars => [FrameMissed' => FrameMissed \/ SlotGivenBack \/ NobodyCounted]_serverVars
  <2> SUFFICES ASSUME Inv, [Next]_vars, FrameMissed', ~UNCHANGED serverVars
               PROVE  FrameMissed \/ SlotGivenBack \/ NobodyCounted
      OBVIOUS
  <2>1. ServerNext
        BY EnvPeersOnly DEF Next, PeersOnly, vars
  <2>2. QED
        BY <2>1, ServerWakes
<1>2. QED
      BY InvariantInv, <1>1, PTL DEF Spec, WakeupsSent

===============================================================================
