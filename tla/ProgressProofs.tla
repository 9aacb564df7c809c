----------------------------- MODULE ProgressProofs -----------------------------
(***************************************************************************)
(* Why nobody waits for ever: as long as the server runs and nobody        *)
(* leaves, the threads of the server and of its clients never all wait for *)
(* one another, for any number of clients and slots and any ring of more   *)
(* than two entries.                                                       *)
(***************************************************************************)
EXTENDS InputProofs

PInv == IInv /\ ProgressInv

-------------------------------------------------------------------------------
(***************************************************************************)
(* Steps of the server.                                                    *)
(***************************************************************************)
\* The threads stop only when they have been told to.
LEMMA ServerStopping ==
    ASSUME Stopping, ServerNext
    PROVE  Stopping'
<1>0. to_shutdown => to_shutdown'
      BY ServerLog DEF LogQuiet, SimStep, SimKills, ServerDies, to_shutdown
<1>1. sim_pc' \in {"tested", "waiting_late"} => to_shutdown'
  <2>1. CASE SimTest \/ SimTestLate \/ SimStops \/ SimSpuriousWakeup \/ SimStep \/ SimKills
        BY <1>0, <2>1 DEF SimTest, SimTestLate, SimStops, SimSpuriousWakeup, SimStep, SimKills, Stopping
  <2>2. CASE BeginShutdown
        BY <2>2 DEF BeginShutdown, to_shutdown
  <2>3. CASE AcceptThread
        BY <1>0, <2>3 DEF AcceptThread, AcceptConnection, AcceptStops, AcceptLimitReached, AcceptNoSlot,
           AcceptFindSlot, AcceptStep, AcceptMark, AcceptSetFd, AcceptSetFrame, AcceptCountRead, AcceptCountWrite,
           AcceptSpawn, AcceptSpawnFails,
           AcceptUndoFd, AcceptUndoRead, AcceptUndoWrite, AcceptUndoUnlock, AcceptUndo, AcceptUnlock, Stopping
  <2>4. ASSUME NEW s \in Slots, ClientThread(s)
        PROVE  sim_pc' \in {"tested", "waiting_late"} => to_shutdown'
    <3>1. sim_pc' = sim_pc \/ sim_pc' = "test"
          BY <2>4 DEF ClientThread, ThreadInit, ThreadSendInit, ThreadSendInitFails, ThreadSendInitKills,
             ThreadStoreInput, ThreadIgnoreInput, ThreadRecvPart, ThreadRecvEnd, ThreadClose, ThreadForgetFd,
             ThreadLeave, ThreadRemove, ThreadRemoved, SignalSimulation, serverVars
    <3>2. QED
          BY <1>0, <3>1 DEF Stopping
  <2>5. CASE ServerShutdown
    <3>1. sim_pc' = sim_pc \/ sim_pc' = "test"
          BY <2>5 DEF ServerShutdown, MainCount, MainSkipClient, MainShutClient, MainCloseClient, MainSignal,
             MainJoinSimulation, MainJoinAccept, MainJoinClient, MainReturns, SignalSimulation
    <3>2. QED
          BY <1>0, <3>1 DEF Stopping
  <2>6. QED
        BY <2>1, <2>2, <2>3, <2>4, <2>5 DEF ServerNext, ServerThreads, SimulationThread
<1>2. accept_pc' = "ended" => accept_pc = "ended" \/ AcceptStops
  <2>1. CASE AcceptThread
        BY <2>1 DEF AcceptThread, AcceptConnection, AcceptLimitReached, AcceptNoSlot, AcceptForget,
           AcceptFindSlot, AcceptStep, AcceptMark, AcceptSetFd, AcceptSetFrame, AcceptCountRead, AcceptCountWrite,
           AcceptSpawn, AcceptSpawnFails,
           AcceptUndoFd, AcceptUndoRead, AcceptUndoWrite, AcceptUndoUnlock, AcceptUndo, AcceptUnlock
  <2>2. ~AcceptThread => accept_pc' = accept_pc
    <3>1. ASSUME NEW s \in Slots, ClientThread(s) PROVE accept_pc' = accept_pc
          BY <3>1 DEF ClientThread, ThreadInit, ThreadSendInit, ThreadSendInitFails, ThreadSendInitKills,
             ThreadReceiving, ThreadStoreInput, ThreadIgnoreInput, ThreadRecvPart, ThreadRecvEnd, ThreadClose,
             ThreadForgetFd, ThreadLeave, ThreadRemove, ThreadRemoved, serverVars, acceptVars
    <3>2. CASE SimulationThread \/ SimSpuriousWakeup
          BY <3>2 DEF SimulationThread, SimTest, SimTestLate, SimStops, SimSpuriousWakeup, SimStep, SimKills,
             acceptVars
    <3>3. CASE BeginShutdown \/ ServerShutdown
          BY <3>3 DEF BeginShutdown, ServerShutdown, MainCount, MainSkipClient, MainShutClient, MainCloseClient,
             MainSignal, MainJoinSimulation, MainJoinAccept, MainJoinClient, MainReturns, NextSlot, MainStep,
             acceptVars
    <3>4. QED
          BY <3>1, <3>2, <3>3 DEF ServerNext, ServerThreads
  <2>3. QED
        BY <2>1, <2>2
<1>3. AcceptStops => to_shutdown
      BY DEF AcceptStops
<1>4. QED
      BY <1>0, <1>1, <1>2, <1>3 DEF Stopping

\* What a server that goes on can have done.
LEMMA Serving ==
    ASSUME NInv, Stopping, ServerNext, server_up', ~to_shutdown'
    PROVE  /\ server_up /\ ~to_shutdown
           /\ \/ AcceptThread /\ ~AcceptStops
              \/ \E s \in Slots : ClientThread(s) /\ ~ThreadSendInitKills(s) /\ ~ThreadRecvPart(s)
              \/ SimTest \/ SimStep \/ SimSpuriousWakeup
<1>1. server_up /\ ~to_shutdown
      BY ServerLog DEF LogQuiet, SimStep, SimKills, ServerDies, to_shutdown
<1>2. ~AcceptStops /\ ~SimTestLate /\ ~SimStops
      BY <1>1 DEF AcceptStops, SimTestLate, SimStops, Stopping
<1>3. ~SimKills /\ \A s \in Slots : ~ThreadSendInitKills(s) /\ ~ThreadRecvPart(s)
      BY DEF SimKills, ThreadSendInitKills, ThreadRecvPart, ServerDies
<1>4. ~BeginShutdown /\ ~ServerShutdown
      BY <1>1, NInvInv, MainPast DEF BeginShutdown, to_shutdown
<1>5. QED
      BY <1>1, <1>2, <1>3, <1>4 DEF ServerNext, ServerThreads, SimulationThread

\* A connection that is closed stays closed.
LEMMA EndsStayClosed ==
    ASSUME NInv, NInv', NEW c \in Clients, ServerNext, UNCHANGED clientVars, server_end[c] = "closed"
    PROVE  server_end'[c] = "closed"
<1>0. server_end' \in [Clients -> SocketState] /\ client_end[c] # "none"
      BY DEF NInv, NetcodeInv, ServerInv, ConnectedFirst, TypeOK, NetworkTypeOK
<1>1. CASE ~Sends
      BY <1>0, <1>1, ServerQuiet DEF Quiet, EndKept, SocketState
<1>2. CASE Sends
      BY <1>0, <1>2 DEF Sends, SimStep, SimKills, ServerDies, ThreadSendInit
<1>3. QED
      BY <1>1, <1>2

\* What has been sent to a client stays sent.
LEMMA ToldStays ==
    ASSUME NInv, NEW c \in Clients, ServerNext, UNCHANGED clientVars, Told(c)
    PROVE  Told(c)'
<1>0. TypeOK /\ c_is_initialised' = c_is_initialised
      BY DEF NInv, clientVars
<1>1. CASE ~Sends
  <2>1. down'[c] = down[c]
        BY <1>1, ServerQuiet DEF Quiet, ClientKept
  <2>2. QED
        BY <1>0, <2>1 DEF Told
<1>2. ASSUME NEW slots \in SUBSET Slots, NEW m, down' = Broadcast(slots, m) PROVE Told(c)'
  <2>1. /\ Copies(slots, c) \in Nat /\ Len(down[c]) \in Nat /\ DOMAIN down[c] = 1 .. Len(down[c])
        /\ DOMAIN down'[c] = 1 .. Len(down[c]) + Copies(slots, c)
        /\ \A k \in 1 .. Len(down[c]) : down'[c][k] = down[c][k]
        BY <1>0, <1>2, BroadcastShape
  <2>2. \A k \in DOMAIN down[c] : k \in DOMAIN down'[c] /\ down'[c][k] = down[c][k]
        BY <2>1
  <2>3. QED
        BY <1>0, <2>2 DEF Told
<1>3. CASE SimStep \/ SimKills
  <2>1. \E slots \in SUBSET Slots, m \in {FrameGameEvents(server_frame, CurrentEvents)} :
            down' = Broadcast(slots, m)
    <3>1. CASE SimStep
          BY <3>1 DEF SimStep, BroadcastTo
    <3>2. CASE SimKills
          BY <3>2 DEF SimKills, BroadcastTo
    <3>3. QED
          BY <1>3, <3>1, <3>2
  <2>2. QED
        BY <1>2, <2>1
<1>4. ASSUME NEW s \in Slots, ThreadSendInit(s) PROVE Told(c)'
  <2>1. down'[c] = down[c] \/ down'[c] = Append(down[c], thread_msg[s])
        BY <1>0, <1>4 DEF ThreadSendInit, Delivered, TypeOK, NetworkTypeOK
  <2>2. down[c] \in Seq(InitMessage \cup EventsMessage)
        BY <1>0 DEF TypeOK, NetworkTypeOK
  <2>3. \A k \in DOMAIN down[c] : k \in DOMAIN down'[c] /\ down'[c][k] = down[c][k]
        BY <2>1, <2>2
  <2>4. QED
        BY <1>0, <2>3 DEF Told
<1>5. QED
      BY <1>1, <1>3, <1>4 DEF Sends

\* Whoever holds a connection that is open goes on to hold it, or hands it to a thread.
LEMMA ServerHolds ==
    ASSUME NInv, Stopping, NEW c \in Clients, HeldByServer(c), ServerNext, server_up', ~to_shutdown',
           server_end'[c] = "open"
    PROVE  HeldByServer(c)'
<1> DEFINE Holding == {"init", "send_init", "listen", "close"}
<1> USE DEF slotVars, threadVars, networkVars
<1>0. /\ SlotInUse /\ SlotBeingFilled /\ ~to_shutdown
      /\ thread_pc \in [Slots -> ThreadPC] /\ cd_fd \in [Slots -> Clients \cup {NoFd}]
      /\ server_end \in [Clients -> SocketState] /\ accept_slot \in Slots /\ accept_pc \in AcceptPC
      BY ServerFacts, Serving
<1>1. ASSUME server_end[c] = "open", UNCHANGED <<accept_pc, accept_fd>>,
             \A s \in Slots : thread_pc[s] \in Holding /\ cd_fd[s] = c =>
                thread_pc'[s] \in Holding /\ cd_fd'[s] = c
      PROVE  HeldByServer(c)'
      BY <1>1 DEF HeldByServer
<1>2. CASE AcceptThread /\ ~AcceptStops
  <2>1. ASSUME NEW d \in Clients, AcceptConnection(d) PROVE HeldByServer(c)'
    <3>1. /\ accept_pc = "accept" /\ server_end' = [server_end EXCEPT ![d] = "open"]
          /\ accept_pc' = "lock" /\ accept_fd' = d /\ UNCHANGED thread_pc
          /\ \/ UNCHANGED cd_fd
             \/ \E fd \in Released : cd_fd' = [s \in Slots |-> IF cd_fd[s] = fd THEN d ELSE cd_fd[s]]
          BY <2>1 DEF AcceptConnection
    <3>2. CASE c = d
          BY <3>1, <3>2 DEF HeldByServer
    <3>3. CASE c # d
      <4>1. server_end[c] = "open" /\ c \notin Released
            BY <1>0, <3>1, <3>3 DEF Released
      <4>2. PICK s \in Slots : thread_pc[s] \in Holding /\ cd_fd[s] = c
            BY <3>1, <4>1 DEF HeldByServer
      <4>3. cd_fd'[s] = c
            BY <1>0, <3>1, <4>1, <4>2
      <4>4. QED
            BY <3>1, <4>2, <4>3 DEF HeldByServer
    <3>4. QED
          BY <3>2, <3>3
  <2>2. CASE AcceptLimitReached \/ AcceptNoSlot \/ AcceptUndo
    <3>1. CloseServerEnd(accept_fd) /\ UNCHANGED <<thread_pc, cd_fd>>
          BY <2>2 DEF AcceptLimitReached, AcceptNoSlot, AcceptUndo
    <3>2. server_end[c] = "open" /\ accept_fd # c
          BY <1>0, <3>1 DEF CloseServerEnd
    <3>3. QED
          BY <3>1, <3>2 DEF HeldByServer
  <2>3. CASE AcceptSetFd \/ AcceptUndoFd \/ AcceptSpawn
    <3>1. /\ Filling /\ UNCHANGED <<server_end, accept_fd>>
          /\ accept_pc' \in {"set_frame", "undo_read"} \/ AcceptSpawn
          /\ accept_pc = "spawn" => cd_fd[accept_slot] = accept_fd
          BY <1>0, <2>3 DEF AcceptSetFd, AcceptUndoFd, AcceptSpawn, AcceptStep, Filling, Undoing, SlotBeingFilled
    <3>2. thread_pc[accept_slot] = "none"
          BY <1>0, <3>1 DEF SlotBeingFilled
    <3>3. \A s \in Slots : s # accept_slot => thread_pc'[s] = thread_pc[s] /\ cd_fd'[s] = cd_fd[s]
          BY <1>0, <2>3 DEF AcceptSetFd, AcceptUndoFd, AcceptSpawn, AcceptStep
    <3>4. CASE accept_fd # c
          BY <3>1, <3>2, <3>3, <3>4 DEF HeldByServer
    <3>5. CASE accept_fd = c /\ ~AcceptSpawn
          BY <3>1, <3>5 DEF HeldByServer
    <3>6. CASE accept_fd = c /\ AcceptSpawn
      <4>1. thread_pc'[accept_slot] = "init" /\ cd_fd'[accept_slot] = c
            BY <1>0, <3>1, <3>6 DEF AcceptSpawn
      <4>2. QED
            BY <1>0, <4>1 DEF HeldByServer
    <3>7. QED
          BY <3>4, <3>5, <3>6
  <2>4. CASE \/ (\E s \in Slots : AcceptFindSlot(s)) \/ AcceptMark \/ AcceptSetFrame \/ AcceptCountRead
             \/ AcceptCountWrite \/ AcceptSpawnFails \/ AcceptUndoRead \/ AcceptUndoWrite \/ AcceptUndoUnlock
        BY <2>4 DEF AcceptFindSlot, AcceptMark, AcceptSetFrame, AcceptCountRead, AcceptCountWrite,
           AcceptSpawnFails, AcceptUndoRead, AcceptUndoWrite, AcceptUndoUnlock, AcceptStep, HeldByServer
  <2>5. CASE AcceptUnlock
        BY <2>5 DEF AcceptUnlock, HeldByServer
  <2>6. QED
        BY <1>2, <2>1, <2>2, <2>3, <2>4, <2>5 DEF AcceptThread
<1>3. ASSUME NEW t \in Slots, ClientThread(t), ~ThreadSendInitKills(t), ~ThreadRecvPart(t)
      PROVE  HeldByServer(c)'
  <2>0. UNCHANGED <<accept_pc, accept_fd>>
        BY <1>3 DEF ClientThread, ThreadInit, ThreadSendInit, ThreadSendInitFails, ThreadReceiving,
           ThreadStoreInput, ThreadIgnoreInput, ThreadRecvEnd, ThreadClose, ThreadForgetFd, ThreadLeave,
           ThreadRemove, ThreadRemoved, acceptVars
  <2>1. ASSUME NEW from, NEW to, ThreadStep(t, from, to), to \in Holding, UNCHANGED <<cd_fd, server_end>>
        PROVE  HeldByServer(c)'
        BY <1>0, <1>1, <2>0, <2>1 DEF ThreadStep
  <2>2. NextRecv \in Holding
        BY DEF NextRecv
  <2>3. CASE ThreadInit(t) \/ ThreadSendInit(t) \/ ThreadSendInitFails(t) \/ ThreadRecvEnd(t)
        BY <2>1, <2>2, <2>3 DEF ThreadInit, ThreadSendInit, ThreadSendInitFails, ThreadRecvEnd
  <2>4. CASE ThreadStoreInput(t) \/ ThreadIgnoreInput(t)
        BY <2>1, <2>2, <2>4 DEF ThreadStoreInput, ThreadIgnoreInput, ThreadReceiving
  <2>5. CASE ThreadClose(t)
    <3>1. cd_fd[t] # c /\ server_end[c] = "open" /\ UNCHANGED cd_fd
          BY <1>0, <2>5 DEF ThreadClose, CloseServerEnd
    <3>2. QED
          BY <1>0, <1>1, <2>0, <2>5, <3>1 DEF ThreadClose, ThreadStep
  <2>6. CASE ThreadForgetFd(t) \/ ThreadLeave(t) \/ ThreadRemove(t)
    <3>1. thread_pc[t] \notin Holding /\ UNCHANGED server_end
          BY <2>6 DEF ThreadForgetFd, ThreadLeave, ThreadRemove, ThreadStep
    <3>2. \A s \in Slots : s # t => thread_pc'[s] = thread_pc[s] /\ cd_fd'[s] = cd_fd[s]
          BY <1>0, <2>6 DEF ThreadForgetFd, ThreadLeave, ThreadRemove, ThreadStep
    <3>3. QED
          BY <1>1, <2>0, <3>1, <3>2
  <2>7. CASE ThreadRemoved(t)
        BY <1>1, <2>0, <2>7 DEF ThreadRemoved
  <2>8. QED
        BY <1>3, <2>3, <2>4, <2>5, <2>6, <2>7 DEF ClientThread
<1>4. CASE SimTest \/ SimStep \/ SimSpuriousWakeup
      BY <1>1, <1>4 DEF SimTest, SimStep, SimSpuriousWakeup, acceptVars
<1>5. QED
      BY <1>2, <1>3, <1>4, Serving

\* A thread begins to listen when it has told its client where it starts.
LEMMA BeginsToListen ==
    ASSUME NInv, ServerNext, NEW s \in Slots, thread_pc'[s] = "listen"
    PROVE  thread_pc[s] = "listen" \/ ThreadSendInit(s)
<1> USE DEF threadVars
<1>0. thread_pc \in [Slots -> ThreadPC] /\ accept_slot \in Slots
      BY ServerFacts
<1>1. CASE AcceptThread
      BY <1>0, <1>1 DEF AcceptThread, AcceptConnection, AcceptStops, AcceptLimitReached, AcceptNoSlot, AcceptFindSlot,
         AcceptStep, AcceptMark, AcceptSetFd, AcceptSetFrame, AcceptCountRead, AcceptCountWrite,
         AcceptSpawn, AcceptSpawnFails,
         AcceptUndoFd, AcceptUndoRead, AcceptUndoWrite, AcceptUndoUnlock, AcceptUndo, AcceptUnlock
<1>2. ASSUME NEW t \in Slots, ClientThread(t) PROVE thread_pc[s] = "listen" \/ ThreadSendInit(s)
  <2>1. CASE t # s
        BY <1>0, <1>2, <2>1 DEF ClientThread, ThreadInit, ThreadSendInit, ThreadSendInitFails, ThreadSendInitKills,
           ThreadReceiving, ThreadStoreInput, ThreadIgnoreInput, ThreadRecvPart, ThreadRecvEnd, ThreadClose,
           ThreadForgetFd, ThreadLeave, ThreadRemove, ThreadRemoved, ThreadStep, serverVars
  <2>2. CASE t = s
        BY <1>0, <1>2, <2>2 DEF ClientThread, ThreadInit, ThreadSendInitFails, ThreadSendInitKills,
           ThreadReceiving, ThreadStoreInput, ThreadIgnoreInput, ThreadRecvPart, ThreadRecvEnd, ThreadClose,
           ThreadForgetFd, ThreadLeave, ThreadRemove, ThreadRemoved, ThreadStep, serverVars
  <2>3. QED
        BY <2>1, <2>2
<1>3. CASE SimulationThread \/ SimSpuriousWakeup
      BY <1>3 DEF SimulationThread, SimTest, SimTestLate, SimStops, SimSpuriousWakeup, SimStep, SimKills
<1>4. CASE BeginShutdown
      BY <1>4 DEF BeginShutdown
<1>5. CASE ServerShutdown
      BY <1>5 DEF ServerShutdown, MainCount, MainSkipClient, MainShutClient, MainCloseClient, MainSignal,
         MainJoinSimulation, MainJoinAccept, MainJoinClient, MainReturns
<1>6. QED
      BY <1>1, <1>2, <1>3, <1>4, <1>5 DEF ServerNext, ServerThreads

\* So it listens to none that has not been told.
LEMMA ServerTells ==
    ASSUME NInv, NEW c \in Clients, ToldWhenHeard(c), ServerNext, UNCHANGED clientVars, server_up'
    PROVE  ToldWhenHeard(c)'
<1>0. /\ client_end' = client_end /\ SlotInUse /\ TypeOK /\ (Told(c) => Told(c)')
      BY ServerKeepsEnds, ToldStays, ServerFacts DEF NInv
<1>1. SUFFICES ASSUME NEW s \in Slots, thread_pc'[s] = "listen", cd_fd'[s] = c, client_end[c] = "open"
               PROVE  Told(c)'
      BY <1>0 DEF ToldWhenHeard
<1>2. CASE ThreadSendInit(s)
  <2>1. /\ thread_pc[s] = "send_init" /\ cd_fd[s] = c /\ thread_msg[s] \in InitMessage
        /\ down' = Delivered(down, client_end, cd_fd[s], thread_msg[s])
        BY <1>0, <1>1, <1>2 DEF ThreadSendInit, ThreadStep, SlotInUse, slotVars
  <2>2. down[c] \in Seq(InitMessage \cup EventsMessage) /\ down'[c] = Append(down[c], thread_msg[s])
        BY <1>0, <1>1, <2>1 DEF Delivered, TypeOK, NetworkTypeOK
  <2>3. Len(down[c]) + 1 \in DOMAIN down'[c] /\ down'[c][Len(down[c]) + 1] = thread_msg[s]
        BY <2>2
  <2>4. thread_msg[s].type = "INIT"
        BY <2>1 DEF InitMessage
  <2>5. QED
        BY <2>3, <2>4 DEF Told
<1>3. CASE thread_pc[s] = "listen"
  <2>1. cd_fd[s] = c
    <3>1. CASE ~Sends
          BY <1>1, <1>3, <3>1, ServerQuiet DEF Quiet, ServiceKept, Serves
    <3>2. CASE Sends
          BY <1>1, <3>2 DEF Sends, SimStep, SimKills, ThreadSendInit, slotVars
    <3>3. QED
          BY <3>1, <3>2
  <2>2. QED
        BY <1>0, <1>1, <1>3, <2>1 DEF ToldWhenHeard
<1>4. QED
      BY <1>1, <1>2, <1>3, BeginsToListen

LEMMA ServerKeepsThreads ==
    ASSUME NInv, NInv', NEW c \in Clients, ThreadsOfClient(c), ServerNext, UNCHANGED clientVars
    PROVE  ThreadsOfClient(c)'
<1>1. client_end' = client_end /\ (server_end[c] = "closed" => server_end'[c] = "closed")
      BY ServerKeepsEnds, EndsStayClosed
<1>2. UNCHANGED <<c_main_pc, c_recv_pc, c_is_connected>>
      BY DEF clientVars
<1>3. QED
      BY <1>1, <1>2 DEF ThreadsOfClient

-------------------------------------------------------------------------------
(***************************************************************************)
(* As long as nobody leaves, threads only come, and the count with them.   *)
(***************************************************************************)
LEMMA NobodyHadLeft ==
    ASSUME NInv, NInv', ServerNext, UNCHANGED clientVars, NobodyLeft'
    PROVE  NobodyLeft
<1> SUFFICES ASSUME NEW c \in Clients
             PROVE  client_end[c] # "closed" /\ server_end[c] # "closed"
    BY DEF NobodyLeft
<1>1. QED
      BY ServerKeepsEnds, EndsStayClosed DEF NobodyLeft

\* What Orderly says of the locks and the count.
Counted ==
    /\ \A s \in Slots : thread_pc[s] \in {"none", "init", "send_init", "listen"}
    /\ (\A s \in Slots : removing[s] = <<>>) /\ clients_lock = "free" /\ client_count >= 0
    /\ accept_pc = "count_write" => accept_count = client_count
    /\ accept_pc = "spawn" \/ (\E s \in Slots : HasThread(s)) => client_count > 0

LEMMA AcceptCounts ==
    ASSUME NInv, Counted, AcceptThread, ~AcceptStops, NobodyLeft', accept_pc' \notin Undoing
    PROVE  Counted' /\ \A s \in Slots : cd_is_connected[s] => cd_is_connected'[s]
<1> USE DEF Counted, slotVars, threadVars, HasThread
<1>0. /\ thread_pc \in [Slots -> ThreadPC] /\ cd_is_connected \in [Slots -> BOOLEAN] /\ accept_slot \in Slots
      /\ client_count \in Int /\ accept_count \in Int /\ server_end \in [Clients -> SocketState] /\ SlotBeingFilled
      BY ServerFacts DEF NInv, TypeOK, ServerTypeOK
<1>1. ASSUME accept_pc \in {"lock", "undo_close"}, CloseServerEnd(accept_fd) PROVE FALSE
  <2>1. accept_fd \in Clients
        BY <1>0, <1>1 DEF SlotBeingFilled
  <2>2. server_end'[accept_fd] = "closed"
        BY <1>0, <1>1, <2>1 DEF CloseServerEnd
  <2>3. QED
        BY <2>1, <2>2 DEF NobodyLeft
<1>2. CASE AcceptLimitReached \/ AcceptNoSlot \/ AcceptUndo
      BY <1>1, <1>2 DEF AcceptLimitReached, AcceptNoSlot, AcceptUndo, Admitting
<1>3. CASE AcceptSpawnFails \/ AcceptUndoFd \/ AcceptUndoRead \/ AcceptUndoWrite \/ AcceptUndoUnlock
      BY <1>3 DEF AcceptSpawnFails, AcceptUndoFd, AcceptUndoRead, AcceptUndoWrite, AcceptUndoUnlock, AcceptStep,
                  Undoing
<1>4. CASE AcceptCountWrite
  <2>1. /\ client_count' = client_count + 1 /\ accept_pc' = "spawn"
        /\ UNCHANGED <<thread_pc, removing, clients_lock, cd_is_connected>>
        BY <1>4 DEF AcceptCountWrite, AcceptStep
  <2>2. QED
        BY <1>0, <2>1
<1>5. CASE AcceptSpawn
  <2>1. /\ accept_pc = "spawn" /\ accept_pc' = "unlock"
        /\ thread_pc' = [thread_pc EXCEPT ![accept_slot] = "init"]
        /\ UNCHANGED <<client_count, removing, clients_lock, cd_is_connected>>
        BY <1>5 DEF AcceptSpawn
  <2>2. QED
        BY <1>0, <2>1
<1>6. CASE AcceptCountRead
  <2>1. /\ accept_count' = client_count /\ accept_pc' = "count_write"
        /\ UNCHANGED <<thread_pc, removing, clients_lock, client_count, cd_is_connected>>
        BY <1>6 DEF AcceptCountRead, AcceptStep
  <2>2. QED
        BY <1>0, <2>1
<1>7. CASE AcceptUnlock
  <2>1. /\ clients_lock' = "free" /\ accept_pc' = "accept"
        /\ UNCHANGED <<thread_pc, removing, client_count, cd_is_connected>>
        BY <1>7 DEF AcceptUnlock, AcceptForget
  <2>2. QED
        BY <1>0, <2>1
<1>8. CASE \/ \E c \in Clients : AcceptConnection(c)
           \/ \E s \in Slots : AcceptFindSlot(s)
           \/ AcceptMark \/ AcceptSetFd \/ AcceptSetFrame
  <2>1. /\ UNCHANGED <<thread_pc, removing, clients_lock, client_count>>
        /\ accept_pc' \in {"lock", "mark", "set_fd", "set_frame", "count_read"}
        /\ cd_is_connected' \in {cd_is_connected, [cd_is_connected EXCEPT ![accept_slot] = TRUE]}
        BY <1>8 DEF AcceptConnection, AcceptFindSlot, AcceptMark, AcceptSetFd, AcceptSetFrame, AcceptStep
  <2>2. QED
        BY <1>0, <2>1
<1>9. QED
      BY <1>2, <1>3, <1>4, <1>5, <1>6, <1>7, <1>8 DEF AcceptThread

LEMMA ThreadCounts ==
    ASSUME NInv, Counted, NEW s \in Slots, ClientThread(s), ~ThreadSendInitKills(s), ~ThreadRecvPart(s),
           NobodyLeft, ~to_shutdown
    PROVE  Counted' /\ UNCHANGED <<accept_pc, cd_is_connected>>
<1> USE DEF Counted, acceptVars, slotVars, HasThread
<1>0. /\ thread_pc \in [Slots -> ThreadPC] /\ cd_fd \in [Slots -> Clients \cup {NoFd}] /\ SlotInUse
      /\ client_count \in Int
      BY ServerFacts DEF NInv, TypeOK, ServerTypeOK
<1>1. ASSUME thread_pc[s] \in {"send_init", "listen"}
      PROVE  ~(client_end[cd_fd[s]] = "closed" \/ server_end[cd_fd[s]] = "closed")
      BY <1>0, <1>1 DEF SlotInUse, NobodyLeft
<1>2. CASE ThreadSendInitFails(s) \/ ThreadRecvEnd(s)
      BY <1>1, <1>2 DEF ThreadSendInitFails, ThreadRecvEnd, ThreadStep
<1>3. CASE ThreadClose(s) \/ ThreadForgetFd(s) \/ ThreadLeave(s) \/ ThreadRemove(s) \/ ThreadRemoved(s)
      BY <1>3 DEF ThreadClose, ThreadForgetFd, ThreadLeave, ThreadRemove, ThreadRemoved, ThreadStep
<1>4. ASSUME NEW from \in ThreadPC \ {"none"}, NEW to \in {"send_init", "listen"}, ThreadStep(s, from, to),
             UNCHANGED <<acceptVars, cd_is_connected, client_count, clients_lock, removing>>
      PROVE  Counted' /\ UNCHANGED <<accept_pc, cd_is_connected>>
      BY <1>0, <1>4 DEF ThreadStep
<1>5. CASE ThreadInit(s) \/ ThreadSendInit(s)
  <2>1. NextRecv = "listen" /\ {"init", "send_init", "listen"} \subseteq ThreadPC \ {"none"}
        BY DEF NextRecv, ThreadPC
  <2>2. QED
        BY <1>4, <1>5, <2>1 DEF ThreadInit, ThreadSendInit
<1>6. CASE ThreadStoreInput(s) \/ ThreadIgnoreInput(s)
  <2>1. NextRecv = "listen" /\ {"init", "send_init", "listen"} \subseteq ThreadPC \ {"none"}
        BY DEF NextRecv, ThreadPC
  <2>2. QED
        BY <1>4, <1>6, <2>1 DEF ThreadStoreInput, ThreadIgnoreInput, ThreadReceiving
<1>7. QED
      BY <1>2, <1>3, <1>5, <1>6 DEF ClientThread

LEMMA ServerOrderly ==
    ASSUME NInv, NInv', Stopping, ServerNext, UNCHANGED clientVars,
           server_up /\ ~to_shutdown /\ NobodyLeft /\ accept_pc \notin Undoing => Orderly,
           server_up', ~to_shutdown', NobodyLeft', accept_pc' \notin Undoing
    PROVE  Orderly'
<1>0. server_up /\ ~to_shutdown /\ NobodyLeft
      BY Serving, NobodyHadLeft
<1>1. accept_pc \notin Undoing
  <2>1. CASE AcceptUndo
    <3>1. accept_fd \in Clients /\ server_end \in [Clients -> SocketState]
          BY <2>1, ServerFacts DEF AcceptUndo, SlotBeingFilled
    <3>2. server_end'[accept_fd] = "closed"
          BY <2>1, <3>1 DEF AcceptUndo, CloseServerEnd
    <3>3. QED
          BY <3>1, <3>2 DEF NobodyLeft
  <2>2. CASE AcceptThread /\ ~AcceptUndo
        BY <2>2 DEF AcceptThread, AcceptConnection, AcceptStops, AcceptLimitReached, AcceptNoSlot, Admitting,
           AcceptFindSlot, AcceptStep, AcceptMark, AcceptSetFd, AcceptSetFrame, AcceptCountRead, AcceptCountWrite,
           AcceptSpawn, AcceptSpawnFails, AcceptUndoFd, AcceptUndoRead, AcceptUndoWrite, AcceptUndoUnlock,
           AcceptUnlock, Undoing
  <2>3. ASSUME NEW s \in Slots, ClientThread(s), ~ThreadSendInitKills(s), ~ThreadRecvPart(s)
        PROVE  accept_pc' = accept_pc
        BY <2>3 DEF ClientThread, ThreadInit, ThreadSendInit, ThreadSendInitFails, ThreadReceiving,
           ThreadStoreInput, ThreadIgnoreInput, ThreadRecvEnd, ThreadClose, ThreadForgetFd, ThreadLeave,
           ThreadRemove, ThreadRemoved, acceptVars
  <2>4. CASE SimTest \/ SimStep \/ SimSpuriousWakeup
        BY <2>4 DEF SimTest, SimStep, SimSpuriousWakeup, acceptVars
  <2>5. QED
        BY <2>1, <2>2, <2>3, <2>4, Serving
<1>2. Counted /\ ~FrameMissed
      BY <1>0, <1>1 DEF Orderly, Counted
<1>3. Counted' /\ \A s \in Slots : cd_is_connected[s] => cd_is_connected'[s]
  <2>1. ASSUME NEW s \in Slots, ClientThread(s), ~ThreadSendInitKills(s), ~ThreadRecvPart(s)
        PROVE  Counted' /\ UNCHANGED cd_is_connected
        BY <1>0, <1>2, <2>1, ThreadCounts
  <2>2. CASE SimTest \/ SimStep \/ SimSpuriousWakeup
        BY <1>2, <2>2 DEF SimTest, SimStep, SimSpuriousWakeup, acceptVars, slotVars, threadVars, Counted, HasThread
  <2>3. CASE AcceptThread /\ ~AcceptStops
        BY <1>2, <2>3, AcceptCounts
  <2>4. QED
        BY <2>1, <2>2, <2>3, Serving
<1>4. ~FrameMissed'
  <2>1. ~SlotGivenBack
        BY <1>3 DEF SlotGivenBack
  <2>2. ~NobodyCounted
        BY <1>2 DEF Counted, NobodyCounted
  <2>3. QED
        BY <1>2, <2>1, <2>2, NInvInv, ServerWakes
<1>5. QED
      BY <1>3, <1>4 DEF Orderly, Counted

LEMMA ServerKeepsProgress ==
    ASSUME PInv, NInv', ServerNext, UNCHANGED clientVars
    PROVE  ProgressInv'
<1>0. NInv /\ Inv /\ ProgressInv /\ server_up
      BY NInvInv, ServerLog DEF PInv, IInv, RInv
<1>1. WaitsEnd' /\ Stopping'
      BY <1>0, ServerKeepsWaits, ServerStopping DEF ProgressInv
<1>2. ASSUME server_up', ~to_shutdown', NEW c \in Clients PROVE HeldByServer(c)'
  <2>1. ~to_shutdown /\ HeldByServer(c)
        BY <1>0, <1>2, Serving DEF ProgressInv
  <2>2. CASE server_end'[c] = "open"
        BY <1>0, <1>2, <2>1, <2>2, ServerHolds DEF ProgressInv
  <2>3. CASE server_end'[c] # "open"
        BY <2>3 DEF HeldByServer
  <2>4. QED
        BY <2>2, <2>3
<1>3. ASSUME NEW c \in Clients PROVE (server_up' => ToldWhenHeard(c)') /\ ThreadsOfClient(c)'
      BY <1>0, ServerTells, ServerKeepsThreads DEF ProgressInv
<1>4. server_up' /\ ~to_shutdown' /\ NobodyLeft' /\ accept_pc' \notin Undoing => Orderly'
      BY <1>0, ServerOrderly DEF ProgressInv
<1>5. QED
      BY <1>1, <1>2, <1>3, <1>4 DEF ProgressInv

-------------------------------------------------------------------------------
(***************************************************************************)
(* Steps of the clients.                                                   *)
(***************************************************************************)
\* An end that is closed stays closed, and one that the server has is not new.
LEMMA ClientEndKept ==
    ASSUME NInv, NEW c \in Clients, ClientStep(c), NEW d \in Clients
    PROVE  /\ client_end[d] = "closed" => client_end'[d] = "closed"
           /\ server_end[d] # "none" /\ client_end'[d] = "open" => client_end[d] = "open"
           /\ server_end[d] # "none" => ~ClientConnect(d)
<1>0. /\ UsesOpenEnd(d) /\ (server_end[d] # "none" => client_end[d] # "none")
      /\ client_end \in [Clients -> SocketState] /\ TypeOK
      BY DEF NInv, NetcodeInv, ServerInv, ConnectedFirst, ClientInv, TypeOK, NetworkTypeOK
<1>1. ClientConnect(d) => client_end[d] = "none"
      BY <1>0 DEF ClientConnect, UsesOpenEnd
<1>2. d # c => client_end'[d] = client_end[d]
      BY <1>0, OthersKept DEF OtherKept
<1>3. client_end'[c] = client_end[c] \/ client_end'[c] = "closed" \/ ClientConnect(c)
      BY <1>0 DEF ClientStep, MainThread, RecvThread, ClientConnected, ClientSleeps, ClientWakes, ClientPredict,
         ClientSend, ClientSendFails, ClientSendKills, ClientShutdown, ClientEnds, CloseClientEnd, Receiving,
         RecvInitPlayer, RecvGameEvents, RecvUnexpected, ResimStep, RecvMisread, RecvEnd, networkVars
<1>4. QED
      BY <1>0, <1>1, <1>2, <1>3

LEMMA ClientStaysTold ==
    ASSUME NInv, NEW c \in Clients, ClientStep(c), NEW d \in Clients, ToldWhenHeard(d)
    PROVE  ToldWhenHeard(d)'
<1>0. /\ UNCHANGED <<thread_pc, cd_fd, server_end>> /\ TypeOK /\ SlotInUse
      BY OtherSideKept, ServerFacts DEF NInv
<1>1. SUFFICES ASSUME NEW s \in Slots, thread_pc[s] = "listen", cd_fd[s] = d, client_end'[d] = "open"
               PROVE  Told(d)'
      BY <1>0 DEF ToldWhenHeard
<1>2. client_end[d] = "open" /\ ~ClientConnect(d) /\ Told(d)
      BY <1>0, <1>1, ClientEndKept DEF SlotInUse, ToldWhenHeard
<1>3. CASE d # c
      BY <1>0, <1>2, <1>3, OthersKept DEF OtherKept, Told
<1>4. ASSUME down'[c] = down[c], c_is_initialised'[c] = c_is_initialised[c], d = c PROVE Told(d)'
      BY <1>2, <1>4 DEF Told
<1>5. CASE d = c /\ (RecvGameEvents(c) \/ RecvUnexpected(c))
  <2>1. Receiving(c) /\ down[c][1].type = "EVENTS" /\ c_is_initialised' = c_is_initialised
        BY <1>0, <1>5, HeadTailDown DEF RecvGameEvents, RecvUnexpected
  <2>2. CASE c_is_initialised[c]
        BY <1>5, <2>1, <2>2 DEF Told
  <2>3. CASE ~c_is_initialised[c]
    <3>1. PICK k \in DOMAIN down[c] : down[c][k].type = "INIT"
          BY <1>2, <1>5, <2>3 DEF Told
    <3>2. k \in 1 .. Len(down[c]) /\ k # 1 /\ Len(down[c]) \in Nat
          BY <1>0, <2>1, <3>1, HeadTailDown
    <3>3. k - 1 \in 1 .. Len(down[c]) - 1
          BY <3>2
    <3>4. k - 1 \in DOMAIN down'[c] /\ down'[c][k - 1] = down[c][(k - 1) + 1]
          BY <1>0, <2>1, <3>3, HeadTailDown
    <3>5. (k - 1) + 1 = k
          BY <3>2
    <3>6. QED
          BY <1>5, <3>1, <3>4, <3>5 DEF Told
  <2>4. QED
        BY <2>2, <2>3
<1>6. CASE d = c /\ RecvInitPlayer(c)
  <2>1. c_is_initialised'[c]
        BY <1>0, <1>6 DEF RecvInitPlayer, TypeOK, ClientTypeOK
  <2>2. QED
        BY <1>6, <2>1 DEF Told
<1>7. CASE d = c /\ ClientEnds(c)
  <2>1. client_end'[c] = "closed"
        BY <1>0, <1>7 DEF ClientEnds, CloseClientEnd, TypeOK, NetworkTypeOK
  <2>2. QED
        BY <1>1, <1>7, <2>1
<1>8. CASE d = c /\ (ClientConnected(c) \/ ClientSleeps(c) \/ ClientWakes(c) \/ (\E input \in Inputs : ClientPredict(c, input))
                       \/ ClientSend(c) \/ ClientSendFails(c) \/ ResimStep(c) \/ RecvEnd(c))
      BY <1>4, <1>8 DEF ClientConnected, ClientSleeps, ClientWakes, ClientPredict, ClientSend, ClientSendFails,
         ResimStep, RecvEnd, networkVars
<1>9. QED
      BY <1>2, <1>3, <1>5, <1>6, <1>7, <1>8
      DEF ClientStep, MainThread, RecvThread, ClientSendKills, ClientShutdown, RecvMisread

LEMMA OtherStaysConnected ==
    ASSUME TypeOK, NEW c \in Clients, NEW d \in Clients, d # c, ClientStep(c)
    PROVE  c_is_connected'[d] = c_is_connected[d]
<1>1. c_is_connected \in [Clients -> BOOLEAN]
      BY DEF TypeOK, ClientTypeOK
<1>2. c_is_connected' \in {c_is_connected, [c_is_connected EXCEPT ![c] = TRUE], [c_is_connected EXCEPT ![c] = FALSE]}
      BY DEF ClientStep, MainThread, RecvThread, ClientConnect, ClientConnected, ClientSleeps, ClientWakes,
         ClientPredict, ClientSend, ClientSendFails, ClientSendKills, ClientShutdown, ClientEnds, Receiving,
         RecvInitPlayer, RecvGameEvents, RecvUnexpected, ResimStep, RecvMisread, RecvEnd
<1>3. QED
      BY <1>1, <1>2

\* A client's receive thread ends, and its main thread finds it disconnected, only when
\* the connection is closed (gameclient.c:98, 115, 235).
LEMMA ClientKeepsThreads ==
    ASSUME NInv, NEW c \in Clients, ClientStep(c), NEW d \in Clients, ThreadsOfClient(d)
    PROVE  ThreadsOfClient(d)'
<1>0. /\ TypeOK /\ ClientTypeOK /\ client_end \in [Clients -> SocketState] /\ server_end' = server_end
      BY OtherSideKept DEF NInv, TypeOK, NetworkTypeOK
<1>1. CASE d # c
  <2>1. OtherKept(d) /\ c_is_connected'[d] = c_is_connected[d]
        BY <1>0, <1>1, OthersKept, OtherStaysConnected
  <2>2. QED
        BY <1>0, <2>1 DEF OtherKept, ThreadsOfClient
<1>2. CASE d = c
  <2> USE <1>0, <1>2 DEF ThreadsOfClient, networkVars, ClientTypeOK
  <2>1. CASE ClientConnect(c)
        BY <2>1 DEF ClientConnect
  <2>2. CASE ClientConnected(c)
        BY <2>2 DEF ClientConnected
  <2>3. CASE ClientSleeps(c) \/ ClientWakes(c)
        BY <2>3 DEF ClientSleeps, ClientWakes, MainHasStateLock
  <2>4. ASSUME NEW input \in Inputs, ClientPredict(c, input) PROVE ThreadsOfClient(d)'
        BY <2>4 DEF ClientPredict
  <2>5. CASE ClientSend(c)
        BY <2>5 DEF ClientSend
  <2>6. CASE ClientSendFails(c) \/ RecvEnd(c)
        BY <2>6 DEF ClientSendFails, RecvEnd
  <2>7. CASE ClientEnds(c)
        BY <2>7 DEF ClientEnds, CloseClientEnd
  <2>8. CASE RecvInitPlayer(c) \/ RecvUnexpected(c)
        BY <2>8 DEF RecvInitPlayer, RecvUnexpected, Receiving
  <2>9. CASE RecvGameEvents(c) \/ ResimStep(c)
    <3>1. /\ c_recv_pc'[c] \in {"recv", "resim"} /\ c_recv_pc[c] \in {"recv", "resim"}
          /\ UNCHANGED <<c_main_pc, c_is_connected, client_end>>
          BY <2>9 DEF RecvGameEvents, ResimStep, Receiving
    <3>2. QED
          BY <3>1
  <2>10. QED
         BY <2>1, <2>2, <2>3, <2>4, <2>5, <2>6, <2>7, <2>8, <2>9
         DEF ClientStep, MainThread, RecvThread, ClientSendKills, ClientShutdown, RecvMisread
<1>3. QED
      BY <1>1, <1>2

LEMMA ClientKeepsProgress ==
    ASSUME PInv, NEW c \in Clients, ClientStep(c)
    PROVE  ProgressInv'
<1>0. NInv /\ ProgressInv /\ TypeOK
      BY DEF PInv, IInv, RInv, NInv
<1>1. UNCHANGED serverVars /\ UNCHANGED <<server_end, server_up, listening>>
      BY <1>0, ClientPeersOnly DEF ClientStep, PeersOnly
<1>2. WaitsEnd' /\ Stopping'
      BY <1>0, <1>1, PeersKeepWaits DEF ProgressInv, Stopping, to_shutdown, serverVars, acceptVars
<1>3. \A d \in Clients : HeldByServer(d)' <=> HeldByServer(d)
      BY <1>1 DEF HeldByServer, serverVars, acceptVars, slotVars, threadVars
<1>4. \A d \in Clients : (server_up => ToldWhenHeard(d)') /\ ThreadsOfClient(d)'
      BY <1>0, ClientStaysTold, ClientKeepsThreads DEF ProgressInv
<1>5. NobodyLeft' => NobodyLeft
      BY <1>0, <1>1, ClientEndKept DEF NobodyLeft
<1>6. Orderly' <=> Orderly
      BY <1>1 DEF Orderly, FrameMissed, HasThread, CanSimulate, serverVars, acceptVars, slotVars, threadVars, ringVars
<1>7. QED
      BY <1>0, <1>1, <1>2, <1>3, <1>4, <1>5, <1>6 DEF ProgressInv, to_shutdown, serverVars, acceptVars

-------------------------------------------------------------------------------
(***************************************************************************)
(* Every step keeps the invariant.                                         *)
(***************************************************************************)
LEMMA ProgressInit == Init => PInv
<1> SUFFICES ASSUME Init PROVE PInv
    OBVIOUS
<1>1. /\ \A s \in Slots : thread_pc[s] = "none" /\ cd_is_connected[s] = FALSE
      /\ (\A s \in Slots : removing[s] = <<>>) /\ clients_lock = "free" /\ client_count = 0 /\ accept_pc = "accept"
      /\ sim_pc \in {"test", "ended"}
      /\ \A c \in Clients : /\ client_end[c] = "none" /\ server_end[c] = "none"
                            /\ c_main_pc[c] = "new" /\ c_recv_pc[c] = "none"
      BY DEF Init, NetworkInit, ServerInit, ClientInit
<1>2. WaitsEnd /\ Stopping
      BY <1>1, InitWaits DEF Init, Stopping
<1>3. \A c \in Clients : HeldByServer(c) /\ ToldWhenHeard(c) /\ ThreadsOfClient(c)
      BY <1>1 DEF HeldByServer, ToldWhenHeard, ThreadsOfClient
<1>4. Orderly
      BY <1>1 DEF Orderly, HasThread, FrameMissed
<1>5. QED
      BY <1>2, <1>3, <1>4, InputInit DEF PInv, ProgressInv

LEMMA ProgressStutter ==
    ASSUME ProgressInv, UNCHANGED vars
    PROVE  ProgressInv'
<1>1. /\ UNCHANGED serverVars /\ UNCHANGED <<up, down, client_end, server_end, server_up, listening>>
      /\ UNCHANGED <<c_main_pc, c_recv_pc, c_is_connected, c_is_initialised>>
      BY DEF vars, networkVars, clientVars
<1>2. /\ WaitsEnd' /\ Stopping'
      BY <1>1, PeersKeepWaits DEF ProgressInv, Stopping, to_shutdown, serverVars, acceptVars
<1>3. \A c \in Clients : /\ HeldByServer(c)' <=> HeldByServer(c)
                         /\ ToldWhenHeard(c)' <=> ToldWhenHeard(c)
                         /\ ThreadsOfClient(c)' <=> ThreadsOfClient(c)
      BY <1>1 DEF HeldByServer, ToldWhenHeard, Told, ThreadsOfClient, serverVars, acceptVars, slotVars, threadVars
<1>4. (NobodyLeft' <=> NobodyLeft) /\ (Orderly' <=> Orderly)
      BY <1>1 DEF NobodyLeft, Orderly, FrameMissed, HasThread, CanSimulate, serverVars, acceptVars, slotVars,
         threadVars, ringVars
<1>5. QED
      BY <1>1, <1>2, <1>3, <1>4 DEF ProgressInv, to_shutdown, serverVars, acceptVars

LEMMA ProgressNext == PInv /\ [Next]_vars => PInv'
<1> SUFFICES ASSUME PInv, [Next]_vars PROVE PInv'
    OBVIOUS
<1>1. IInv' /\ NInv'
      BY InputNext DEF PInv, IInv, RInv
<1>2. ASSUME ServerNext, UNCHANGED clientVars PROVE ProgressInv'
      BY <1>1, <1>2, ServerKeepsProgress
<1>3. ASSUME ClientNext, UNCHANGED serverVars PROVE ProgressInv'
  <2>1. PICK c \in Clients : ClientStep(c)
        BY <1>3 DEF ClientNext, ClientStep
  <2>2. QED
        BY <2>1, ClientKeepsProgress
<1>4. ASSUME UNCHANGED vars PROVE ProgressInv'
      BY <1>4, ProgressStutter DEF PInv
<1>5. ProgressInv'
      BY <1>2, <1>3, <1>4 DEF Next
<1>6. QED
      BY <1>1, <1>5 DEF PInv

LEMMA ProgressInvariant == Spec => []PInv
BY ProgressInit, ProgressNext, PTL DEF Spec

(***************************************************************************)
(* Until the server stops, every open connection has a thread of the       *)
(* server, every client that is listened to has been told where it starts, *)
(* and no thread stops early; while nobody leaves, no wakeup is missed.    *)
(***************************************************************************)
THEOREM ProgressInvariantHolds == Spec => []ProgressInv
<1>1. PInv => ProgressInv
      BY DEF PInv
<1>2. QED
      BY <1>1, ProgressInvariant, PTL

-------------------------------------------------------------------------------
(***************************************************************************)
(* Somebody can always go on.                                              *)
(***************************************************************************)
\* All threads wait, the server's and the clients', and none for a lock left behind.
AllWait == PInv /\ server_up /\ ~to_shutdown /\ ~SomeEndGoesOn /\ ~LockLeft

\* Then the server waits for a client to connect, for inputs, and for the slowest client.
LEMMA ServerWaits ==
    ASSUME AllWait
    PROVE  /\ accept_pc = "accept" /\ Backlog = {}
           /\ sim_pc = "waiting" \/ MaxFrame <= server_frame
           /\ \A s \in Slots : thread_pc[s] \in {"none", "listen"}
           /\ \A s \in Slots : thread_pc[s] = "listen" =>
                 /\ cd_fd[s] \in Clients /\ up[cd_fd[s]] = <<>>
                 /\ server_end[cd_fd[s]] = "open" /\ client_end[cd_fd[s]] = "open"
<1>0. /\ NInv /\ ProgressInv /\ ~SomeoneGoesOn /\ SlotInUse /\ ConnectedFirst /\ StopsOnce
      /\ clients_lock \in {"free", "accept", "cleanup"}
      /\ accept_pc \in AcceptPC /\ sim_pc \in SimPC /\ thread_pc \in [Slots -> ThreadPC]
      /\ MaxFrame \in Nat /\ server_frame \in Nat
      /\ server_end \in [Clients -> SocketState] /\ client_end \in [Clients -> SocketState]
      BY NetworkAssumption, ServerFacts
      DEF AllWait, SomeEndGoesOn, PInv, IInv, RInv, NInv, NetcodeInv, ServerInv, TypeOK, ServerTypeOK, NetworkTypeOK
<1>1. ~AcceptGoesOn /\ ~SimulationGoesOn /\ ~MainGoesOn /\ \A s \in Slots : ~ThreadGoesOn(s)
      BY <1>0 DEF SomeoneGoesOn
<1>2. (\A s \in Slots : removing[s] = <<>>)
      BY <1>0, <1>1 DEF ThreadGoesOn
<1>3. ClientsLockFree
      BY <1>0, <1>2 DEF AllWait, LockLeft, ProgressInv, WaitsEnd, ClientsLockFree
<1>4. accept_pc = "accept" /\ Backlog = {}
      BY <1>0, <1>1, <1>3 DEF AcceptGoesOn, ProgressInv, Stopping, AllWait
<1>5. StateLockFree /\ (sim_pc = "waiting" \/ MaxFrame <= server_frame)
  <2>1. sim_pc \in {"test", "waiting"}
    <3>1. sim_pc # "ended"
          BY <1>0, <1>1 DEF MainGoesOn, AllWait, StopsOnce, to_shutdown
    <3>2. QED
          BY <1>0, <1>1, <1>3, <3>1 DEF SimulationGoesOn, ProgressInv, Stopping, AllWait, SimPC
  <2>2. sim_pc = "test" => ~(server_frame < MaxFrame)
        BY <1>1, <1>3 DEF SimulationGoesOn
  <2>3. QED
        BY <1>0, <2>1, <2>2 DEF StateLockFree
<1>6. \A s \in Slots : thread_pc[s] \in {"none", "listen"}
      BY <1>0, <1>1, <1>3, <1>5 DEF ThreadGoesOn, ThreadPC
<1>7. ASSUME NEW s \in Slots, thread_pc[s] = "listen"
      PROVE  /\ cd_fd[s] \in Clients /\ up[cd_fd[s]] = <<>>
             /\ server_end[cd_fd[s]] = "open" /\ client_end[cd_fd[s]] = "open"
  <2>1. cd_fd[s] \in Clients /\ ~Hears(s) /\ server_end[cd_fd[s]] # "none"
        BY <1>0, <1>1, <1>7 DEF SlotInUse, ThreadGoesOn
  <2>2. client_end[cd_fd[s]] # "none"
        BY <1>0, <2>1 DEF ConnectedFirst
  <2>3. QED
        BY <1>0, <1>3, <1>5, <2>1, <2>2 DEF Hears, SocketState
<1>8. QED
      BY <1>4, <1>5, <1>6, <1>7

\* A client with an open end has its thread in the server, has reconciled the last frame
\* simulated, and is at its throttle or has predicted the whole run.
LEMMA ClientWaits ==
    ASSUME AllWait, NEW c \in Clients, client_end[c] = "open", ~EndUnseen(c)
    PROVE  /\ c_is_initialised[c] /\ c_main_pc[c] # "send"
           /\ \E s \in Slots : thread_pc[s] = "listen" /\ cd_fd[s] = c
           /\ server_frame <= c_sync_frame[c] + 1
           /\ TooFarAhead(c) \/ MaxFrame <= c_client_frame[c]
<1>0. /\ NInv /\ RInv /\ ProgressInv /\ ~ClientGoesOn(c) /\ ThreadsOfClient(c) /\ server_up /\ ~to_shutdown
      /\ server_end \in [Clients -> SocketState] /\ MaxFrame \in Nat
      BY NetworkAssumption DEF AllWait, SomeEndGoesOn, PInv, IInv, RInv, NInv, ProgressInv, TypeOK, NetworkTypeOK
<1>1. c_main_pc[c] \in {"loop", "sleep"} /\ c_is_connected[c]
      BY <1>0 DEF ThreadsOfClient, ClientGoesOn
<1>2. c_recv_pc[c] = "recv" /\ down[c] = <<>> /\ server_end[c] # "closed"
      BY <1>0, <1>1 DEF ThreadsOfClient, ClientGoesOn, EndUnseen
<1>3. server_end[c] = "open"
      BY <1>0, <1>2, ServerWaits DEF Backlog, SocketState
<1>4. PICK s \in Slots : thread_pc[s] = "listen" /\ cd_fd[s] = c
  <2>1. HeldByServer(c) /\ accept_pc = "accept"
        BY <1>0, ServerWaits DEF ProgressInv
  <2>2. QED
        BY <1>3, <2>1, ServerWaits DEF HeldByServer
<1>5. c_is_initialised[c]
      BY <1>0, <1>2, <1>4 DEF ProgressInv, ToldWhenHeard, Told
<1>6. TooFarAhead(c) \/ MaxFrame <= c_client_frame[c]
  <2>1. TooFarAhead(c) \/ ~(c_client_frame[c] < MaxFrame)
        BY <1>0, <1>1, <1>5 DEF ClientGoesOn
  <2>2. QED
        BY <1>0, <1>5, <2>1, FrameFacts
<1>7. server_frame <= c_sync_frame[c] + 1
  <2>1. InSequence(c)
        BY <1>0, <1>5 DEF RInv, RollbackInv, ReplicaInv
  <2>2. server_frame <= Reached(c) + 1
        BY <1>0, <1>2, <2>1 DEF InSequence
  <2>3. QED
        BY <1>0, <1>2, <1>5, <2>2, FrameFacts, ReachedFacts
<1>8. QED
      BY <1>1, <1>4, <1>5, <1>6, <1>7

\* So its input for the frame to be simulated has come, unless one was skipped.
LEMMA InputHasCome ==
    ASSUME AllWait, FRAME_BUFFER_SIZE > 2, server_frame < MaxFrame,
           \A c \in Clients : ~InputSkipped(c),
           NEW s \in Slots, thread_pc[s] = "listen"
    PROVE  cd_client_frame[s] >= server_frame
<1> DEFINE c == cd_fd[s]
<1>1. /\ c \in Clients /\ up[c] = <<>> /\ server_end[c] = "open" /\ client_end[c] = "open"
      BY ServerWaits
<1>2. NInv /\ IInv /\ ~EndUnseen(c) /\ server_up /\ MaxFrame \in Nat
      BY <1>1, NetworkAssumption DEF AllWait, PInv, IInv, RInv, ProgressInv, ThreadsOfClient, EndUnseen
<1> HIDE DEF c
<1>3. /\ c_is_initialised[c] /\ c_main_pc[c] # "send" /\ server_frame <= c_sync_frame[c] + 1
      /\ TooFarAhead(c) \/ MaxFrame <= c_client_frame[c]
      BY <1>1, <1>2, ClientWaits
<1>4. /\ c_joined[c] \in Nat /\ c_sync_frame[c] \in Nat /\ c_client_frame[c] \in Nat /\ server_frame \in Nat
      /\ FRAME_BUFFER_SIZE \in Nat /\ c_joined[c] <= c_sync_frame[c] /\ cd_client_frame[s] \in Int
      BY <1>1, <1>2, <1>3, FrameFacts, ServerFacts
<1>5. Serves(s, c) /\ Listening(s) /\ NextSent(c) = c_client_frame[c]
      BY <1>2, <1>3 DEF Serves, Listening, NextSent, c
<1>6. InTurn(s, c) /\ SentInTurn(s, c)
      BY <1>1, <1>2, <1>5 DEF IInv, InputInv, InputsOf, Lane
<1>7. server_frame < c_client_frame[c]
      BY <1>2, <1>3, <1>4 DEF TooFarAhead
<1>8. cd_client_frame[s] # -1
  <2>1. cd_client_frame[s] = -1 => c_joined[c] = server_frame /\ c_client_frame[c] = c_joined[c]
        BY <1>1, <1>3, <1>5, <1>6 DEF SentInTurn
  <2>2. QED
        BY <1>4, <1>7, <2>1
<1>9. server_frame <= cd_client_frame[s] + 1
      BY <1>6, <1>8 DEF InTurn
<1>10. ~(-1 < cd_client_frame[s] /\ cd_client_frame[s] < NextSent(c) - 1)
       BY <1>1, <1>5 DEF InputSkipped, c
<1>11. QED
       BY <1>4, <1>5, <1>7, <1>8, <1>9, <1>10

LEMMA NoneWaitsForAll ==
    ASSUME PInv
    PROVE  NeverAllWait
<1> SUFFICES ASSUME AllWait, FRAME_BUFFER_SIZE > 2, ~FrameMissed, ~NobodyCounted,
                    \A d \in Clients : ~InputSkipped(d),
                    NEW c \in Clients, client_end[c] = "open", ~EndUnseen(c)
             PROVE  c_sync_frame[c] >= MaxFrame - 1
    BY DEF NeverAllWait, AllWait, UpToDate
<1>0. NInv /\ WaitsEnd /\ server_frame \in Nat /\ MaxFrame \in Nat
      BY NetworkAssumption, ServerFacts DEF AllWait, PInv, IInv, RInv, ProgressInv
<1>1. /\ c_is_initialised[c] /\ server_frame <= c_sync_frame[c] + 1
      /\ \E s \in Slots : HasThread(s)
      BY ClientWaits DEF HasThread
<1>2. c_sync_frame[c] \in Nat
      BY <1>0, <1>1, FrameFacts
<1>3. CASE MaxFrame <= server_frame
      BY <1>0, <1>1, <1>2, <1>3
<1>4. CASE server_frame < MaxFrame
  <2>1. sim_pc = "waiting" /\ client_count # 0
        BY <1>0, <1>1, <1>4, ServerWaits DEF NobodyCounted
  <2>2. ASSUME NEW s \in Slots, cd_is_connected[s] PROVE cd_client_frame[s] >= server_frame
    <3>1. thread_pc[s] = "listen"
          BY <1>0, <2>2, ServerWaits DEF WaitsEnd, Filled
    <3>2. QED
          BY <1>4, <3>1, InputHasCome
  <2>3. FrameMissed
        BY <1>1, <2>1, <2>2 DEF FrameMissed, CanSimulate
  <2>4. QED
        BY <2>3
<1>5. QED
      BY <1>0, <1>3, <1>4

(***************************************************************************)
(* The threads of the server and of the clients never all wait for one     *)
(* another before every client has the frames of the run, but for a wakeup *)
(* that was not sent, a client not counted, a lock or an input left out.   *)
(***************************************************************************)
THEOREM NeverAllWaiting == Spec => []NeverAllWait
BY NoneWaitsForAll, ProgressInvariant, PTL

\* While nobody leaves, inputs come in turn and no connection ends.
LEMMA NoneLeftOut ==
    ASSUME PInv, server_up, ~to_shutdown, NobodyLeft, ~ByteStream, NEW c \in Clients
    PROVE  ~InputSkipped(c) /\ ~EndUnseen(c)
<1>0. /\ NInv /\ IInv /\ ThreadsOfClient(c) /\ SlotInUse /\ ConnectedFirst /\ OnlyPredicted(c)
      /\ client_end[c] # "closed" /\ server_end[c] # "closed"
      /\ cd_client_frame \in [Slots -> Int]
      BY ServerFacts DEF PInv, IInv, RInv, NInv, NetcodeInv, ServerInv, ClientInv, ProgressInv, NobodyLeft
<1>1. ~EndUnseen(c)
      BY <1>0 DEF EndUnseen, ThreadsOfClient
<1>2. ASSUME InputSkipped(c) PROVE FALSE
  <2>1. PICK s \in Slots : /\ Listening(s) /\ cd_fd[s] = c /\ up[c] = <<>>
                           /\ -1 < cd_client_frame[s] /\ cd_client_frame[s] < NextSent(c) - 1
        BY <1>2 DEF InputSkipped
  <2>2. Serves(s, c) /\ thread_pc[s] = "listen" /\ server_end[c] = "open"
        BY <1>0, <2>1 DEF Serves, Listening, SlotInUse
  <2>3. cd_client_frame[s] # -1 /\ cd_client_frame[s] \in Int
        BY <1>0, <2>1
  <2>4. c_is_initialised[c]
        BY <1>0, <2>2, <2>3 DEF OnlyPredicted
  <2>5. SentInTurn(s, c)
        BY <1>0, <2>2 DEF IInv, InputInv, InputsOf, Lane
  <2>6. cd_client_frame[s] = NextSent(c) - 1
        BY <2>1, <2>2, <2>3, <2>4, <2>5 DEF SentInTurn
  <2>7. QED
        BY <2>1, <2>3, <2>6
<1>3. QED
      BY <1>1, <1>2

LEMMA SomebodyGoesOn ==
    ASSUME PInv
    PROVE  PlaysOn
<1> SUFFICES ASSUME server_up, ~to_shutdown, NobodyLeft, ~ByteStream, FRAME_BUFFER_SIZE > 2, ~SomeEndGoesOn
             PROVE  \A c \in Clients : UpToDate(c)
    BY DEF PlaysOn
<1>1. accept_pc \notin Undoing
      BY DEF SomeEndGoesOn, SomeoneGoesOn, AcceptGoesOn, Undoing
<1>2. Orderly /\ client_count \in Int
      BY <1>1 DEF PInv, IInv, RInv, NInv, TypeOK, ServerTypeOK, ProgressInv
<1>3. ~FrameMissed /\ ~NobodyCounted /\ ~LockLeft
      BY <1>2 DEF Orderly, NobodyCounted, LockLeft
<1>4. \A c \in Clients : ~InputSkipped(c) /\ ~EndUnseen(c)
      BY NoneLeftOut
<1>5. QED
      BY <1>3, <1>4, NoneWaitsForAll DEF NeverAllWait

(***************************************************************************)
(* None of these happens as long as nobody leaves and recv() returns one   *)
(* message at a time: then somebody can go on until every client has had   *)
(* every frame confirmed.                                                  *)
(***************************************************************************)
THEOREM PlayGoesOn == Spec => []PlaysOn
BY SomebodyGoesOn, ProgressInvariant, PTL
===============================================================================
