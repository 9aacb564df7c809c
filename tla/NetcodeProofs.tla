----------------------------- MODULE NetcodeProofs -----------------------------
(***************************************************************************)
(* The whole system, for any number of clients and slots, any ring size    *)
(* and any inputs: the types, everything the server promises, and that the *)
(* frames of each client stay in order.                                    *)
(***************************************************************************)
EXTENDS Netcode, ServerProofs

NInv == TypeOK /\ NetcodeInv

LEMMA NInvInv == NInv => Inv
BY DEF NInv, NetcodeInv, TypeOK, Inv, Types

-------------------------------------------------------------------------------
(***************************************************************************)
(* What a step of the server that neither simulates a frame nor sends      *)
(* MSG_S2P_INIT_PLAYER means for client c.                                 *)
(***************************************************************************)
\* The clients' threads and memory, and what they have been sent.
ClientKept(c) == UNCHANGED <<clientVars, client_end>> /\ down'[c] = down[c]

\* The connection.
EndKept(c) ==
    /\ server_end[c] # "none" => server_end'[c] # "none"
    /\ server_end'[c] = "open" => server_end[c] # "closed"

\* The inputs that are in flight were in flight.
QueueKept(c) ==
    /\ \A k \in DOMAIN up'[c] : \E j \in DOMAIN up[c] : up'[c][k].frame = up[c][j].frame
    /\ up[c] = <<>> => up'[c] = <<>>

\* The slot and its thread.
ServiceKept(c) ==
    /\ NotYetTold(c)' => NotYetTold(c)
    /\ \A s \in Slots : Serves(s, c) => Serves(s, c)' \/ server_end'[c] = "closed"
    /\ \A s \in Slots : Serves(s, c)' =>
          /\ Serves(s, c) \/ (thread_pc[s] = "send_init" /\ cd_fd[s] = c)
          /\ \/ cd_client_frame'[s] = cd_client_frame[s]
             \/ \E j \in DOMAIN up[c] : cd_client_frame'[s] = up[c][j].frame
    /\ \A s \in Slots : thread_pc'[s] = "send_init" /\ cd_fd'[s] = c =>
          thread_msg'[s].frame <= server_frame

Quiet(c) ==
    /\ server_frame' = server_frame
    /\ ClientKept(c) /\ EndKept(c) /\ QueueKept(c) /\ ServiceKept(c)

LEMMA QuietKeeps ==
    ASSUME NInv, NEW c \in Clients, Quiet(c)
    PROVE  ClientInv(c)'
<1> USE DEF Quiet
<1>0. ClientInv(c) /\ SlotInUse
      BY DEF NInv, NetcodeInv, ServerInv
<1>1. /\ UNCHANGED <<c_main_pc, c_recv_pc, c_is_initialised, c_client_index, c_sync_frame,
                     c_server_frame, c_client_frame, c_resim, c_joined, client_end>>
      /\ down'[c] = down[c] /\ server_frame' = server_frame
      BY DEF ClientKept, clientVars, frameVars
<1>2. Told(c)' <=> Told(c)
      BY <1>1 DEF Told
<1>3. UsesOpenEnd(c)'
      BY <1>0, <1>1 DEF ClientInv, UsesOpenEnd
<1>4. ToldOnce(c)'
      BY <1>0, <1>2 DEF ClientInv, ToldOnce, ServiceKept
<1>5. ServedWhenTold(c)'
      BY <1>0, <1>2 DEF ClientInv, ServedWhenTold, ToldOnce, NotYetTold, EndKept, ServiceKept,
                        NInv, TypeOK, NetworkTypeOK, SocketState
<1>6. OnlyPredicted(c)'
  <2>1. ASSUME c_is_initialised[c], NEW k \in DOMAIN up'[c]
        PROVE  up'[c][k].frame < c_client_frame[c]
        BY <1>0, <2>1 DEF ClientInv, OnlyPredicted, QueueKept
  <2>2. ASSUME c_is_initialised[c], NEW s \in Slots, Serves(s, c)'
        PROVE  cd_client_frame'[s] < c_client_frame[c]
    <3>1. Serves(s, c)
      <4>1. CASE thread_pc[s] = "send_init" /\ cd_fd[s] = c
            BY <1>0, <2>2, <4>1 DEF ClientInv, ToldOnce, NotYetTold, Told
      <4>2. QED
            BY <2>2, <4>1 DEF ServiceKept
    <3>2. QED
          BY <1>0, <2>2, <3>1 DEF ClientInv, OnlyPredicted, ServiceKept
  <2>3. ASSUME ~c_is_initialised[c], client_end[c] # "closed"
        PROVE  up'[c] = <<>>
        BY <1>0, <2>3 DEF ClientInv, OnlyPredicted, QueueKept
  <2>4. ASSUME ~c_is_initialised[c], client_end[c] # "closed", NEW s \in Slots, Serves(s, c)'
        PROVE  cd_client_frame'[s] = -1
    <3>1. up[c] = <<>>
          BY <1>0, <2>4 DEF ClientInv, OnlyPredicted
    <3>2. cd_client_frame'[s] = cd_client_frame[s]
          BY <2>4, <3>1 DEF ServiceKept
    <3>3. cd_client_frame[s] = -1
          BY <1>0, <2>4 DEF ClientInv, OnlyPredicted, ServiceKept, SlotInUse
    <3>4. QED
          BY <3>2, <3>3
  <2>5. QED
        BY <1>1, <2>1, <2>2, <2>3, <2>4 DEF OnlyPredicted
<1>7. InFlight(c)'
      BY <1>0, <1>1 DEF ClientInv, InFlight, ServiceKept
<1>8. Reconciling(c)' /\ (c_is_initialised[c]' => InOrder(c)')
      BY <1>0, <1>1 DEF ClientInv, Reconciling, InOrder
<1>9. QED
      BY <1>3, <1>4, <1>5, <1>6, <1>7, <1>8 DEF ClientInv

-------------------------------------------------------------------------------
(***************************************************************************)
(* The accept thread takes a connection whose client has been told         *)
(* nothing, and gives it a slot that no thread serves.                     *)
(***************************************************************************)
LEMMA AcceptQuiet ==
    ASSUME NInv, NEW c \in Clients, AcceptThread, UNCHANGED clientVars
    PROVE  Quiet(c)
<1> USE DEF networkVars, acceptVars, slotVars, threadVars, ringVars
<1>0. /\ SlotInUse /\ SlotBeingFilled
      /\ thread_pc \in [Slots -> ThreadPC] /\ cd_fd \in [Slots -> Clients \cup {NoFd}]
      /\ cd_client_frame \in [Slots -> Int] /\ server_end \in [Clients -> SocketState]
      /\ accept_slot \in Slots /\ up \in [Clients -> Seq(InputsMessage)]
      /\ accept_pc \in AcceptPC
      /\ \A s \in Slots : thread_pc[s] = "send_init" /\ cd_fd[s] = c => thread_msg[s].frame <= server_frame
      BY DEF NInv, NetcodeInv, ServerInv, TypeOK, ServerTypeOK, NetworkTypeOK, ClientInv, InFlight
<1>1. /\ server_frame' = server_frame /\ ClientKept(c)
      /\ UNCHANGED thread_msg
      BY DEF AcceptThread, AcceptConnection, AcceptStops, AcceptLimitReached, AcceptNoSlot, AcceptFindSlot,
             AcceptMark, AcceptSetFd, AcceptSetFrame, AcceptCountRead, AcceptCountWrite, AcceptSpawn,
             AcceptSpawnFails,
             AcceptUndoFd, AcceptUndoRead, AcceptUndoWrite, AcceptUndoUnlock, AcceptUndo, AcceptUnlock, AcceptStep, CloseServerEnd, ClientKept
<1>2. ASSUME NEW d \in Clients, AcceptConnection(d) PROVE Quiet(c)
  <2>1. /\ server_end[d] = "none" /\ server_end' = [server_end EXCEPT ![d] = "open"]
        /\ accept_pc = "accept" /\ accept_pc' = "lock" /\ accept_fd' = d
        /\ UNCHANGED <<up, cd_client_frame, thread_pc>>
        BY <1>2 DEF AcceptConnection
  <2>2. \A s \in Slots : cd_fd'[s] # cd_fd[s] => thread_pc[s] = "forget"
    <3>1. CASE UNCHANGED cd_fd
          BY <3>1
    <3>2. ASSUME NEW fd \in Released,
                 cd_fd' = [s \in Slots |-> IF cd_fd[s] = fd THEN d ELSE cd_fd[s]],
                 NEW s \in Slots, cd_fd'[s] # cd_fd[s]
          PROVE  thread_pc[s] = "forget"
      <4>1. cd_fd[s] = fd /\ fd \in Clients /\ server_end[fd] = "closed"
            BY <3>2 DEF Released
      <4>2. server_up /\ ~to_shutdown
            BY <1>2 DEF AcceptConnection
      <4>3. QED
            BY <1>0, <4>1, <4>2 DEF SlotInUse
    <3>3. QED
          BY <1>2, <3>1, <3>2 DEF AcceptConnection
  <2>3. EndKept(c) /\ QueueKept(c)
        BY <1>0, <2>1 DEF EndKept, QueueKept
  <2>4. \A s \in Slots : Serves(s, c)' <=> Serves(s, c)
        BY <2>1, <2>2 DEF Serves
  <2>5. NotYetTold(c)' => NotYetTold(c)
        BY <1>0, <2>1, <2>2 DEF NotYetTold
  <2>6. ServiceKept(c)
    <3>1. \A s \in Slots : thread_pc'[s] = "send_init" /\ cd_fd'[s] = c =>
             thread_pc[s] = "send_init" /\ cd_fd[s] = c
          BY <2>1, <2>2
    <3>2. QED
          BY <1>0, <1>1, <2>1, <2>4, <2>5, <3>1 DEF ServiceKept
  <2>7. QED
        BY <1>1, <2>3, <2>6 DEF Quiet
<1>3. CASE AcceptStops
  <2>1. \A d \in Clients : server_end[d] # "none" => server_end'[d] = server_end[d]
        BY <1>0, <1>3 DEF AcceptStops, Backlog
  <2>2. \A d \in Clients : server_end'[d] = "none" => server_end[d] = "none"
        BY <1>0, <2>1
  <2>3. UNCHANGED <<up, slotVars, threadVars>> /\ accept_pc' = "ended" /\ accept_fd' = accept_fd
        BY <1>3 DEF AcceptStops
  <2>4. EndKept(c) /\ QueueKept(c)
        BY <1>0, <2>1, <2>2, <2>3 DEF EndKept, QueueKept
  <2>5. ServiceKept(c)
        BY <1>0, <1>1, <2>2, <2>3 DEF ServiceKept, NotYetTold, Serves
  <2>6. QED
        BY <1>1, <2>4, <2>5 DEF Quiet
<1>4. CASE AcceptLimitReached \/ AcceptNoSlot \/ AcceptUndo
  <2>1. /\ CloseServerEnd(accept_fd) /\ accept_pc \in {"lock", "undo_close"} /\ accept_pc' = "accept"
        /\ UNCHANGED <<slotVars, threadVars>>
        BY <1>4 DEF AcceptLimitReached, AcceptNoSlot, AcceptUndo, Admitting, AcceptForget
  <2>2. accept_fd \in Clients /\ server_end[accept_fd] # "none"
        BY <1>0, <2>1 DEF SlotBeingFilled
  <2>3. EndKept(c) /\ QueueKept(c)
        BY <1>0, <2>1, <2>2 DEF EndKept, QueueKept, CloseServerEnd
  <2>4. ServiceKept(c)
        BY <1>0, <1>1, <2>1, <2>2 DEF ServiceKept, NotYetTold, Serves, CloseServerEnd
  <2>5. QED
        BY <1>1, <2>3, <2>4 DEF Quiet
<1>5. ASSUME UNCHANGED networkVars, accept_fd' = accept_fd \/ accept_pc' = "accept",
             accept_pc \notin {"accept", "ended"}, accept_pc = "unlock" => accept_pc' = "accept",
             UNCHANGED thread_pc,
             \A s \in Slots : cd_fd'[s] # cd_fd[s] \/ cd_client_frame'[s] # cd_client_frame[s] =>
                 thread_pc[s] = "none"
      PROVE  Quiet(c)
  <2>1. EndKept(c) /\ QueueKept(c)
        BY <1>0, <1>5 DEF EndKept, QueueKept
  <2>2. NotYetTold(c)' => NotYetTold(c)
        BY <1>0, <1>5 DEF NotYetTold
  <2>3. ServiceKept(c)
        BY <1>0, <1>1, <1>5, <2>2 DEF ServiceKept, Serves
  <2>4. QED
        BY <1>1, <2>1, <2>3 DEF Quiet
<1>6. ASSUME NEW s \in Slots, AcceptFindSlot(s) PROVE Quiet(c)
      BY <1>5, <1>6 DEF AcceptFindSlot, Admitting
<1>7. CASE AcceptMark \/ AcceptCountRead \/ AcceptCountWrite \/ AcceptSpawnFails
      BY <1>5, <1>7 DEF AcceptMark, AcceptCountRead, AcceptCountWrite, AcceptSpawnFails, AcceptStep
<1>7a. CASE AcceptUndoRead \/ AcceptUndoWrite \/ AcceptUndoUnlock
       BY <1>5, <1>7a DEF AcceptUndoRead, AcceptUndoWrite, AcceptUndoUnlock, AcceptStep
<1>8. CASE AcceptSetFd \/ AcceptSetFrame \/ AcceptUndoFd
  <2>1. thread_pc[accept_slot] = "none"
        BY <1>0, <1>8 DEF AcceptSetFd, AcceptSetFrame, AcceptUndoFd, AcceptStep, SlotBeingFilled, Filling, Undoing
  <2>2. \A s \in Slots : cd_fd'[s] # cd_fd[s] \/ cd_client_frame'[s] # cd_client_frame[s] =>
            s = accept_slot
        BY <1>0, <1>8 DEF AcceptSetFd, AcceptSetFrame, AcceptUndoFd
  <2>3. QED
        BY <1>5, <1>8, <2>1, <2>2 DEF AcceptSetFd, AcceptSetFrame, AcceptUndoFd, AcceptStep
<1>9. CASE AcceptUnlock
      BY <1>5, <1>9 DEF AcceptUnlock, AcceptForget
<1>10. CASE AcceptSpawn
  <2>1. /\ accept_pc = "spawn" /\ accept_pc' = "unlock" /\ UNCHANGED <<networkVars, slotVars>>
        /\ thread_pc' = [thread_pc EXCEPT ![accept_slot] = "init"]
        BY <1>10 DEF AcceptSpawn
  <2>2. cd_fd[accept_slot] = accept_fd /\ thread_pc[accept_slot] = "none"
        BY <1>0, <2>1 DEF SlotBeingFilled, Filling
  <2>3. EndKept(c) /\ QueueKept(c)
        BY <1>0, <2>1 DEF EndKept, QueueKept
  <2>4. NotYetTold(c)' => NotYetTold(c)
        BY <1>0, <2>1, <2>2 DEF NotYetTold
  <2>5. \A s \in Slots : Serves(s, c)' <=> Serves(s, c)
        BY <1>0, <2>1, <2>2 DEF Serves
  <2>6. ServiceKept(c)
    <3>1. \A s \in Slots : thread_pc'[s] = "send_init" /\ cd_fd'[s] = c =>
             thread_pc[s] = "send_init" /\ cd_fd[s] = c
          BY <1>0, <2>1
    <3>2. QED
          BY <1>0, <1>1, <2>1, <2>4, <2>5, <3>1 DEF ServiceKept
  <2>7. QED
        BY <1>1, <2>3, <2>6 DEF Quiet
<1>11. QED
       BY <1>2, <1>3, <1>4, <1>6, <1>7, <1>7a, <1>8, <1>9, <1>10 DEF AcceptThread

(***************************************************************************)
(* The process dies, and with it every connection it had.                  *)
(***************************************************************************)
LEMMA DeathQuiet ==
    ASSUME NInv, NEW c \in Clients, ServerDies,
           UNCHANGED <<clientVars, client_end, server_frame, accept_pc, accept_fd, slotVars,
                       threadVars>>,
           down'[c] = down[c]
    PROVE  Quiet(c)
<1>0. /\ ConnectedFirst /\ server_end \in [Clients -> SocketState]
      /\ \A s \in Slots : thread_pc[s] = "send_init" /\ cd_fd[s] = c => thread_msg[s].frame <= server_frame
      BY DEF NInv, NetcodeInv, ServerInv, TypeOK, NetworkTypeOK, ClientInv, InFlight
<1>1. server_end'[c] = (IF client_end[c] = "none" THEN "none" ELSE "closed") /\ up'[c] = <<>>
      BY DEF ServerDies
<1>2. EndKept(c) /\ QueueKept(c)
      BY <1>0, <1>1 DEF EndKept, QueueKept, ConnectedFirst
<1>3. NotYetTold(c)' => NotYetTold(c)
  <2>1. CASE server_end'[c] = "none"
        BY <1>0, <1>1, <2>1 DEF ConnectedFirst, NotYetTold
  <2>2. QED
        BY <2>1 DEF NotYetTold, slotVars, threadVars
<1>4. ServiceKept(c)
      BY <1>0, <1>1, <1>3 DEF ServiceKept, Serves, slotVars, threadVars
<1>5. QED
      BY <1>2, <1>4 DEF Quiet, ClientKept

(***************************************************************************)
(* A client's thread: only it takes the client's inputs, and the           *)
(* connection is closed when it does not serve it any more.                *)
(***************************************************************************)
LEMMA ThreadQuiet ==
    ASSUME NInv, NEW c \in Clients, NEW s \in Slots, ClientThread(s), ~ThreadSendInit(s),
           UNCHANGED clientVars
    PROVE  Quiet(c)
<1> USE DEF networkVars, acceptVars, slotVars, threadVars, ringVars
<1>0. /\ SlotInUse /\ ClientInv(c)
      /\ thread_pc \in [Slots -> ThreadPC] /\ cd_fd \in [Slots -> Clients \cup {NoFd}]
      /\ cd_client_frame \in [Slots -> Int] /\ server_end \in [Clients -> SocketState]
      /\ up \in [Clients -> Seq(InputsMessage)]
      /\ thread_msg \in [Slots -> InitMessage \cup {NoMessage}]
      /\ \A t \in Slots : thread_pc[t] = "send_init" /\ cd_fd[t] = c => thread_msg[t].frame <= server_frame
      /\ server_frame \in Nat
      BY DEF NInv, NetcodeInv, ServerInv, TypeOK, ServerTypeOK, NetworkTypeOK, ClientInv, InFlight
<1>1. ASSUME UNCHANGED <<server_frame, down, client_end, server_end, accept_pc, accept_fd, cd_fd,
                         cd_client_frame>>,
             QueueKept(c),
             NEW from, NEW to, ThreadStep(s, from, to),
             from \in {"listen", "close"} => to \in {"listen", "close"} ,
             to \in {"listen", "close"} => from \in {"send_init", "listen", "close"},
             to = "init" => from \in {"init", "send_init"},
             to = "send_init" => from = "init" /\ thread_msg'[s].frame <= server_frame,
             \A t \in Slots : t # s => thread_msg'[t] = thread_msg[t]
      PROVE  Quiet(c)
  <2>1. /\ thread_pc[s] = from /\ thread_pc'[s] = to
        /\ \A t \in Slots : t # s => thread_pc'[t] = thread_pc[t]
        BY <1>0, <1>1 DEF ThreadStep
  <2>2. NotYetTold(c)' => NotYetTold(c)
        BY <1>1, <2>1 DEF NotYetTold
  <2>3. \A t \in Slots : Serves(t, c) => Serves(t, c)'
        BY <1>1, <2>1 DEF Serves
  <2>4. \A t \in Slots : Serves(t, c)' => Serves(t, c) \/ (thread_pc[t] = "send_init" /\ cd_fd[t] = c)
        BY <1>1, <2>1 DEF Serves
  <2>5. \A t \in Slots : thread_pc'[t] = "send_init" /\ cd_fd'[t] = c => thread_msg'[t].frame <= server_frame
        BY <1>0, <1>1, <2>1
  <2>6. ServiceKept(c)
        BY <1>1, <2>2, <2>3, <2>4, <2>5 DEF ServiceKept
  <2>7. QED
        BY <1>1, <2>6 DEF Quiet, ClientKept, EndKept
<1>2. ASSUME UNCHANGED up PROVE QueueKept(c)
      BY <1>0, <1>2 DEF QueueKept
<1>3. CASE ThreadInit(s)
  <2>1. thread_msg'[s].frame = server_frame
        BY <1>0, <1>3 DEF ThreadInit, InitPlayer
  <2>2. \A t \in Slots : t # s => thread_msg'[t] = thread_msg[t]
        BY <1>0, <1>3 DEF ThreadInit
  <2>3. /\ ThreadStep(s, "init", "send_init")
        /\ UNCHANGED <<server_frame, networkVars, accept_pc, accept_fd, cd_fd, cd_client_frame>>
        BY <1>3 DEF ThreadInit
  <2>4. thread_msg'[s].frame <= server_frame /\ QueueKept(c)
        BY <1>0, <1>2, <2>1, <2>3
  <2> HIDE <1>0
  <2>5. QED
        BY <1>1, <2>2, <2>3, <2>4
<1>4. CASE ThreadSendInitFails(s)
      BY <1>0, <1>1, <1>2, <1>4 DEF ThreadSendInitFails
<1>5. CASE ThreadSendInitKills(s) \/ ThreadRecvPart(s)
      BY <1>5, DeathQuiet DEF ThreadSendInitKills, ThreadRecvPart, serverVars
<1>6. ASSUME ThreadReceiving(s)
      PROVE  /\ QueueKept(c)
             /\ cd_fd[s] = c => Head(up[cd_fd[s]]) = up[c][1] /\ 1 \in DOMAIN up[c]
  <2>1. cd_fd[s] \in Clients
        BY <1>0, <1>6 DEF ThreadReceiving, ThreadStep, SlotInUse
  <2>2. PICK n \in RecvSizes(up[cd_fd[s]]) :
           up' = [up EXCEPT ![cd_fd[s]] = SubSeq(up[cd_fd[s]], n + 1, Len(up[cd_fd[s]]))]
        BY <1>6 DEF ThreadReceiving
  <2>3. CASE cd_fd[s] # c
        BY <1>0, <2>1, <2>2, <2>3 DEF QueueKept
  <2>4. CASE cd_fd[s] = c
    <3> DEFINE queue == up[c]
    <3>1. queue \in Seq(InputsMessage)
          BY <1>0
    <3>2. up'[c] = SubSeq(queue, n + 1, Len(queue)) /\ n \in 1 .. Len(queue)
          BY <1>0, <2>2, <2>4 DEF RecvSizes
    <3>3. Head(up[cd_fd[s]]) = queue[1]
          BY <2>4
    <3> HIDE DEF queue
    <3>4. Len(queue) \in Nat /\ DOMAIN queue = 1 .. Len(queue)
          BY <3>1, LenProperties
    <3>5. /\ DOMAIN SubSeq(queue, n + 1, Len(queue)) = 1 .. Len(queue) - n
          /\ \A k \in 1 .. Len(queue) - n : SubSeq(queue, n + 1, Len(queue))[k] = queue[n + k]
          BY <3>1, <3>2, <3>4
    <3>6. 1 \in DOMAIN queue /\ queue # <<>>
          BY <3>2, <3>4
    <3>7. ASSUME NEW k \in DOMAIN up'[c]
          PROVE  \E j \in DOMAIN queue : up'[c][k].frame = queue[j].frame
      <4>1. k \in 1 .. Len(queue) - n
            BY <3>2, <3>5
      <4>2. n + k \in DOMAIN queue /\ up'[c][k] = queue[n + k]
            BY <3>2, <3>4, <3>5, <4>1
      <4>3. QED
            BY <4>2
    <3>8. QueueKept(c)
          BY <3>6, <3>7 DEF QueueKept, queue
    <3>9. QED
          BY <2>4, <3>3, <3>6, <3>8 DEF queue
  <2>5. QED
        BY <2>3, <2>4
<1>7. CASE ThreadIgnoreInput(s)
      BY <1>1, <1>6, <1>7 DEF ThreadIgnoreInput, ThreadReceiving, NextRecv
<1>8. CASE ThreadStoreInput(s)
  <2> DEFINE m == Head(up[cd_fd[s]])
  <2>1. /\ ThreadReceiving(s) /\ QueueKept(c)
        /\ cd_client_frame' = [cd_client_frame EXCEPT ![s] = m.frame]
        BY <1>6, <1>8 DEF ThreadStoreInput
  <2>2. /\ thread_pc[s] = "listen" /\ thread_pc' = [thread_pc EXCEPT ![s] = NextRecv]
        /\ NextRecv \in {"listen", "close"}
        /\ UNCHANGED <<server_frame, down, client_end, server_end, accept_pc, accept_fd, cd_fd, thread_msg>>
        BY <2>1 DEF ThreadReceiving, ThreadStep, NextRecv
  <2>3. \A t \in Slots : Serves(t, c)' <=> Serves(t, c)
        BY <1>0, <2>2 DEF Serves
  <2>4. \A t \in Slots : Serves(t, c)' => \/ cd_client_frame'[t] = cd_client_frame[t]
                                         \/ \E j \in DOMAIN up[c] : cd_client_frame'[t] = up[c][j].frame
        BY <1>0, <1>6, <2>1, <2>2 DEF Serves
  <2> HIDE DEF m
  <2>5. NotYetTold(c)' => NotYetTold(c)
        BY <1>0, <2>2 DEF NotYetTold
  <2>6. \A t \in Slots : thread_pc'[t] = "send_init" => thread_pc[t] = "send_init"
        BY <1>0, <2>2
  <2>7. ServiceKept(c)
        BY <1>0, <2>2, <2>3, <2>4, <2>5, <2>6 DEF ServiceKept
  <2>8. QED
        BY <2>1, <2>2, <2>7 DEF Quiet, ClientKept, EndKept
<1>9. CASE ThreadRecvEnd(s)
      BY <1>1, <1>2, <1>9 DEF ThreadRecvEnd
<1>10. CASE ThreadClose(s)
  <2>1. /\ thread_pc[s] = "close" /\ thread_pc' = [thread_pc EXCEPT ![s] = "forget"]
        /\ CloseServerEnd(cd_fd[s]) /\ cd_fd[s] \in Clients /\ server_end[cd_fd[s]] # "none"
        /\ UNCHANGED <<server_frame, down, client_end, accept_pc, accept_fd, slotVars, thread_msg>>
        BY <1>0, <1>10 DEF ThreadClose, ThreadStep, SlotInUse
  <2>2. EndKept(c) /\ QueueKept(c)
        BY <1>0, <2>1 DEF EndKept, QueueKept, CloseServerEnd
  <2>3. NotYetTold(c)' => NotYetTold(c)
        BY <1>0, <2>1 DEF NotYetTold, CloseServerEnd
  <2>4. \A t \in Slots : Serves(t, c) => Serves(t, c)' \/ server_end'[c] = "closed"
        BY <1>0, <2>1 DEF Serves, CloseServerEnd
  <2>5. \A t \in Slots : Serves(t, c)' => Serves(t, c)
        BY <1>0, <2>1 DEF Serves
  <2>6. \A t \in Slots : thread_pc'[t] = "send_init" => thread_pc[t] = "send_init"
        BY <1>0, <2>1
  <2>7. ServiceKept(c)
        BY <1>0, <2>1, <2>3, <2>4, <2>5, <2>6 DEF ServiceKept
  <2>8. QED
        BY <2>1, <2>2, <2>7 DEF Quiet, ClientKept
<1>11. CASE ThreadForgetFd(s)
  <2>1. /\ thread_pc[s] = "forget" /\ thread_pc' = [thread_pc EXCEPT ![s] = "leave"]
        /\ \A t \in Slots : t # s => cd_fd'[t] = cd_fd[t]
        /\ UNCHANGED <<networkVars, server_frame, accept_pc, accept_fd, cd_client_frame, thread_msg>>
        BY <1>0, <1>11 DEF ThreadForgetFd, ThreadStep
  <2>2. NotYetTold(c)' => NotYetTold(c)
        BY <1>0, <2>1 DEF NotYetTold
  <2>3. \A t \in Slots : Serves(t, c)' <=> Serves(t, c)
        BY <1>0, <2>1 DEF Serves
  <2>4. \A t \in Slots : thread_pc'[t] = "send_init" => thread_pc[t] = "send_init" /\ cd_fd'[t] = cd_fd[t]
        BY <1>0, <2>1
  <2>5. ServiceKept(c)
        BY <1>0, <2>1, <2>2, <2>3, <2>4 DEF ServiceKept
  <2>6. QED
        BY <1>2, <2>1, <2>5 DEF Quiet, ClientKept, EndKept
<1>12. CASE ThreadLeave(s)
       BY <1>1, <1>2, <1>12 DEF ThreadLeave
<1>13. CASE ThreadRemove(s)
       BY <1>1, <1>2, <1>13 DEF ThreadRemove
<1>14. CASE ThreadRemoved(s)
       BY <1>0, <1>2, <1>14 DEF ThreadRemoved, Quiet, ClientKept, EndKept, ServiceKept, NotYetTold, Serves
<1>15. QED
       BY <1>3, <1>4, <1>5, <1>7, <1>8, <1>9, <1>10, <1>11, <1>12, <1>13, <1>14 DEF ClientThread

(***************************************************************************)
(* The simulation thread while it does not simulate, and the main thread,  *)
(* which sends threads to their cleanup and shuts sockets.                 *)
(***************************************************************************)
LEMMA SimQuiet ==
    ASSUME NInv, NEW c \in Clients, SimTest \/ SimTestLate \/ SimStops \/ SimSpuriousWakeup,
           UNCHANGED clientVars
    PROVE  Quiet(c)
<1>1. UNCHANGED <<networkVars, server_frame, accept_pc, accept_fd, slotVars, threadVars>>
      BY DEF SimTest, SimTestLate, SimStops, SimSpuriousWakeup, acceptVars, ringVars
<1>2. /\ up \in [Clients -> Seq(InputsMessage)]
      /\ \A s \in Slots : thread_pc[s] = "send_init" /\ cd_fd[s] = c => thread_msg[s].frame <= server_frame
      BY DEF NInv, NetcodeInv, TypeOK, NetworkTypeOK, ClientInv, InFlight
<1>3. QED
      BY <1>1, <1>2
      DEF Quiet, ClientKept, EndKept, QueueKept, ServiceKept, NotYetTold, Serves, networkVars, slotVars,
          threadVars

LEMMA MainQuiet ==
    ASSUME NInv, NEW c \in Clients, BeginShutdown \/ ServerShutdown, UNCHANGED clientVars
    PROVE  Quiet(c)
<1> USE DEF acceptVars, slotVars, threadVars, ringVars
<1>0. /\ thread_pc \in [Slots -> ThreadPC] /\ server_end \in [Clients -> SocketState]
      /\ cd_fd \in [Slots -> Clients \cup {NoFd}] /\ main_slot \in Slots
      /\ up \in [Clients -> Seq(InputsMessage)] /\ SlotInUse
      /\ \A s \in Slots : thread_pc[s] = "send_init" /\ cd_fd[s] = c => thread_msg[s].frame <= server_frame
      BY DEF NInv, NetcodeInv, ServerInv, TypeOK, ServerTypeOK, NetworkTypeOK, ClientInv, InFlight
<1>1. CASE MainReturns
      BY <1>1, DeathQuiet DEF MainReturns
<1>2. ASSUME UNCHANGED <<up, down, client_end, acceptVars, slotVars, thread_msg, server_frame>>,
             \A s \in Slots : thread_pc'[s] # thread_pc[s] => thread_pc[s] = "listen" /\ thread_pc'[s] = "close",
             \A d \in Clients : server_end'[d] # server_end[d] =>
                 server_end[d] # "none" /\ server_end'[d] = "closed"
      PROVE  Quiet(c)
  <2>1. EndKept(c) /\ QueueKept(c)
        BY <1>0, <1>2 DEF EndKept, QueueKept
  <2>2. \A s \in Slots : Serves(s, c)' <=> Serves(s, c)
        BY <1>0, <1>2 DEF Serves
  <2>3. \A s \in Slots : thread_pc'[s] \in {"init", "send_init"} => thread_pc[s] = thread_pc'[s]
        BY <1>0, <1>2
  <2>4. NotYetTold(c)' => NotYetTold(c)
        BY <1>0, <1>2, <2>3 DEF NotYetTold
  <2>5. ServiceKept(c)
        BY <1>0, <1>2, <2>2, <2>3, <2>4 DEF ServiceKept
  <2>6. QED
        BY <1>2, <2>1, <2>5 DEF Quiet, ClientKept
<1>3. CASE BeginShutdown
  <2>1. PICK testing \in SUBSET {s \in Slots : thread_pc[s] = "listen"} :
           thread_pc' = [s \in Slots |-> IF s \in testing THEN "close" ELSE thread_pc[s]]
        BY <1>3 DEF BeginShutdown
  <2>2. QED
        BY <1>2, <1>3, <2>1 DEF BeginShutdown, MainStep
<1>4. CASE MainShutClient
  <2>1. server_end' = [d \in Clients |-> IF cd_fd[main_slot] = d THEN "closed" ELSE server_end[d]]
        BY <1>4 DEF MainShutClient
  <2>2. \A d \in Clients : server_end'[d] # server_end[d] =>
            server_end[d] # "none" /\ server_end'[d] = "closed"
        BY <1>0, <2>1 DEF SlotInUse
  <2>3. QED
        BY <1>2, <1>4, <2>2 DEF MainShutClient, MainStep
<1>5. CASE ServerShutdown /\ ~MainShutClient /\ ~MainReturns
  <2>1. UNCHANGED <<up, down, client_end, server_end, acceptVars, slotVars, threadVars, server_frame>>
        BY <1>5
        DEF ServerShutdown, MainCount, MainSkipClient, MainCloseClient, MainSignal, MainJoinSimulation,
            MainJoinAccept, MainJoinClient, NextSlot, MainStep
  <2>2. QED
        BY <1>2, <2>1
<1>6. QED
      BY <1>1, <1>3, <1>4, <1>5

-------------------------------------------------------------------------------
(***************************************************************************)
(* The first message: the client had been told nothing, so it has sent     *)
(* nothing, and nothing else follows the message yet.                      *)
(***************************************************************************)
LEMMA SendInitKeeps ==
    ASSUME NInv, NEW c \in Clients, NEW s \in Slots, ThreadSendInit(s), UNCHANGED clientVars
    PROVE  ClientInv(c)'
<1>0. /\ SlotInUse /\ SlotBeingFilled /\ ClientInv(c)
      /\ thread_pc \in [Slots -> ThreadPC] /\ cd_fd \in [Slots -> Clients \cup {NoFd}]
      /\ cd_client_frame \in [Slots -> Int] /\ accept_slot \in Slots /\ accept_pc \in AcceptPC
      /\ down \in [Clients -> Seq(InitMessage \cup EventsMessage)]
      /\ thread_msg \in [Slots -> InitMessage \cup {NoMessage}]
      /\ server_frame \in Nat
      BY DEF NInv, NetcodeInv, ServerInv, TypeOK, ServerTypeOK, NetworkTypeOK
<1>1. /\ thread_pc[s] = "send_init" /\ thread_pc' = [thread_pc EXCEPT ![s] = NextRecv]
      /\ NextRecv \in {"listen", "close"}
      /\ cd_fd[s] \in Clients /\ thread_msg[s] \in InitMessage /\ cd_client_frame[s] = -1
      /\ down' = IF client_end[cd_fd[s]] = "open"
                 THEN [down EXCEPT ![cd_fd[s]] = Append(@, thread_msg[s])] ELSE down
      /\ \A t \in Slots : t # s => thread_msg'[t] = thread_msg[t]
      /\ UNCHANGED <<up, client_end, server_end, accept_pc, accept_fd, cd_fd, cd_client_frame,
                     server_frame>>
      BY <1>0 DEF ThreadSendInit, ThreadStep, NextRecv, Delivered, SlotInUse, acceptVars, slotVars, ringVars
<1>2. UNCHANGED <<c_main_pc, c_recv_pc, c_is_initialised, c_client_index, c_sync_frame,
                  c_server_frame, c_client_frame, c_resim, c_joined>>
      BY DEF clientVars, frameVars
<1>3. CASE cd_fd[s] # c
  <2>1. Quiet(c)
    <3>1. down'[c] = down[c]
          BY <1>0, <1>1, <1>3
    <3>2. \A t \in Slots : Serves(t, c)' <=> Serves(t, c)
          BY <1>0, <1>1, <1>3 DEF Serves
    <3>3. NotYetTold(c)' => NotYetTold(c)
          BY <1>0, <1>1 DEF NotYetTold
    <3>4. \A t \in Slots : thread_pc'[t] = "send_init" => thread_pc[t] = "send_init" /\ t # s
          BY <1>0, <1>1
    <3>5. ServiceKept(c)
          BY <1>0, <1>1, <3>2, <3>3, <3>4 DEF ServiceKept, ClientInv, InFlight
    <3>6. QED
          BY <1>0, <1>1, <3>1, <3>5 DEF Quiet, ClientKept, EndKept, QueueKept
  <2>2. QED
        BY <2>1, QuietKeeps
<1>4. CASE cd_fd[s] = c
  <2>1. ~Told(c)
        BY <1>0, <1>1, <1>4 DEF ClientInv, ToldOnce, NotYetTold
  <2>2. \A t \in Slots : t # s /\ cd_fd[t] = c => thread_pc[t] = "forget"
        BY <1>0, <1>1, <1>4, NetworkAssumption DEF SlotInUse
  <2>3. \A t \in Slots : ~(thread_pc'[t] \in {"init", "send_init"} /\ cd_fd[t] = c)
        BY <1>0, <1>1, <1>4, <2>2
  <2>4. server_end[c] # "none" /\ ~(accept_pc \notin {"accept", "unlock", "ended"} /\ accept_fd = c)
    <3>1. server_end[c] # "none"
          BY <1>0, <1>1, <1>4 DEF SlotInUse
    <3>2. ASSUME accept_pc \notin {"accept", "unlock", "ended"}, accept_fd = c PROVE FALSE
      <4>1. CASE accept_pc \in {"lock", "mark", "set_fd"} \cup (Undoing \ {"undo_fd"})
            BY <1>0, <1>1, <1>4, <3>2, <4>1 DEF SlotBeingFilled
      <4>2. CASE accept_pc \in {"set_frame", "count_read", "count_write", "spawn", "undo_fd"}
        <5>1. cd_fd[accept_slot] = c /\ thread_pc[accept_slot] = "none"
              BY <1>0, <3>2, <4>2 DEF SlotBeingFilled, Filling, Undoing
        <5>2. QED
              BY <1>0, <1>1, <2>2, <5>1
      <4>3. QED
            BY <1>0, <3>2, <4>1, <4>2 DEF AcceptPC, Undoing
    <3>3. QED
          BY <3>1, <3>2
  <2>5. ~NotYetTold(c)'
        BY <1>1, <2>3, <2>4 DEF NotYetTold
  <2>6. \A t \in Slots : Serves(t, c)' <=> t = s
        BY <1>0, <1>1, <1>4, <2>2 DEF Serves
  <2>7. UsesOpenEnd(c)'
    <3>1. client_end[c] # "open" => down'[c] = down[c]
          BY <1>1, <1>4
    <3>2. QED
          BY <1>0, <1>1, <1>2, <3>1 DEF ClientInv, UsesOpenEnd
  <2>8. ToldOnce(c)' /\ ServedWhenTold(c)'
        BY <2>5, <2>6 DEF ToldOnce, ServedWhenTold
  <2>9. OnlyPredicted(c)'
        BY <1>0, <1>1, <1>2, <2>1, <2>6 DEF ClientInv, OnlyPredicted, Told
  <2>10. InFlight(c)'
    <3>1. ~c_is_initialised[c] /\ \A k \in DOMAIN down[c] : down[c][k].type # "INIT"
          BY <2>1 DEF Told
    <3>2. CASE client_end[c] # "open"
          BY <1>0, <1>1, <1>2, <1>4, <2>3, <3>1, <3>2 DEF ClientInv, InFlight
    <3>3. CASE client_end[c] = "open"
      <4> DEFINE q == down[c]
                 m == thread_msg[s]
      <4>1. q \in Seq(InitMessage \cup EventsMessage) /\ m \in InitMessage \cup EventsMessage
            BY <1>0, <1>1
      <4>2. down'[c] = Append(q, m)
            BY <1>0, <1>1, <1>4, <3>3
      <4>3. m.type = "INIT" /\ m.frame \in Nat /\ m.frame <= server_frame
        <5>1. m.frame <= server_frame
              BY <1>0, <1>1, <1>4 DEF ClientInv, InFlight
        <5>2. QED
              BY <1>1, <5>1 DEF InitMessage
      <4> HIDE DEF m
      <4>4. /\ Len(q) \in Nat /\ DOMAIN q = 1 .. Len(q)
            /\ Len(Append(q, m)) = Len(q) + 1 /\ DOMAIN Append(q, m) = 1 .. Len(q) + 1
            /\ Append(q, m)[Len(q) + 1] = m
            /\ \A k \in 1 .. Len(q) : Append(q, m)[k] = q[k]
        <5> HIDE DEF q
        <5>1. QED
              BY <4>1, LenProperties, AppendProperties
      <4>5. /\ \A k \in DOMAIN q : /\ q[k].frame <= server_frame
                                   /\ q[k].type # "INIT"
                                   /\ \A j \in 1 .. k : q[k].type = "EVENTS" => q[j].frame <= q[k].frame
        <5>1. \A k \in DOMAIN q : q[k].type # "INIT"
              BY <3>1
        <5>2. QED
              BY <1>0, <5>1 DEF ClientInv, InFlight
      <4> HIDE DEF q
      <4>6. ASSUME NEW k \in DOMAIN down'[c]
            PROVE  /\ down'[c][k].frame <= server_frame
                   /\ down'[c][k].type = "INIT" => k = Len(down'[c])
                   /\ \A j \in 1 .. k : down'[c][k].type = "EVENTS" => down'[c][j].frame <= down'[c][k].frame
        <5>1. k \in 1 .. Len(q) + 1
              BY <4>2, <4>4, <4>6
        <5>2. CASE k = Len(q) + 1
              BY <4>2, <4>3, <4>4, <5>2
        <5>3. CASE k \in 1 .. Len(q)
          <6>1. down'[c][k] = q[k] /\ \A j \in 1 .. k : j \in 1 .. Len(q) /\ down'[c][j] = q[j]
                BY <4>2, <4>4, <5>3
          <6>2. QED
                BY <4>4, <4>5, <5>3, <6>1
        <5>4. QED
              BY <4>4, <5>1, <5>2, <5>3
      <4>7. QED
            BY <1>1, <1>2, <2>3, <3>1, <4>6 DEF InFlight
    <3>4. QED
          BY <3>2, <3>3
  <2>11. Reconciling(c)' /\ (c_is_initialised[c]' => InOrder(c)')
         BY <1>0, <1>2 DEF ClientInv, Reconciling, InOrder
  <2>12. QED
         BY <2>7, <2>8, <2>9, <2>10, <2>11 DEF ClientInv
<1>5. QED
      BY <1>3, <1>4

(***************************************************************************)
(* A frame is sent: whoever has been told where it starts and can still be *)
(* reached has a thread, whose newest input is not older than the frame    *)
(* (SimReady), and has predicted what it sent the input for.               *)
(***************************************************************************)
LEMMA FrameSent ==
    ASSUME NInv, NEW c \in Clients, sim_pc = "simulate", NEW s \in BroadcastTo, cd_fd[s] = c, Told(c),
           client_end[c] = "open"
    PROVE  /\ c_is_initialised[c] /\ server_frame < c_client_frame[c]
           /\ \A k \in DOMAIN down[c] : down[c][k].type # "INIT"
<1>0. /\ SimReady /\ ClientInv(c) /\ server_frame \in Nat
      /\ cd_client_frame \in [Slots -> Int] /\ c_client_frame[c] \in Int
      BY DEF NInv, NetcodeInv, ServerInv, TypeOK, ServerTypeOK, ClientTypeOK
<1>1. server_end[c] = "open"
      BY DEF BroadcastTo
<1>2. PICK t \in Slots : Serves(t, c)
      BY <1>0, <1>1 DEF ClientInv, ServedWhenTold
<1>3. cd_client_frame[t] >= server_frame
      BY <1>0, <1>2 DEF SimReady, Serves
<1>4. c_is_initialised[c]
      BY <1>0, <1>2, <1>3 DEF ClientInv, OnlyPredicted
<1>5. QED
      BY <1>0, <1>2, <1>3, <1>4 DEF ClientInv, OnlyPredicted, InFlight

\* A stream after a broadcast: what it was, and then the copies.
LEMMA BroadcastShape ==
    ASSUME TypeOK, NEW c \in Clients, NEW slots \in SUBSET Slots, NEW m, down' = Broadcast(slots, m)
    PROVE  /\ Copies(slots, c) \in Nat
           /\ Len(down[c]) \in Nat /\ DOMAIN down[c] = 1 .. Len(down[c])
           /\ Len(down'[c]) = Len(down[c]) + Copies(slots, c)
           /\ DOMAIN down'[c] = 1 .. Len(down[c]) + Copies(slots, c)
           /\ \A k \in 1 .. Len(down[c]) : down'[c][k] = down[c][k]
           /\ \A k \in 1 .. Len(down[c]) + Copies(slots, c) : k > Len(down[c]) => down'[c][k] = m
<1> DEFINE q == down[c]
           n == Copies(slots, c)
<1>1. n \in Nat /\ q \in Seq(InitMessage \cup EventsMessage)
      BY CopiesType DEF TypeOK, NetworkTypeOK
<1>2. down'[c] = q \o [i \in 1 .. n |-> m]
      BY DEF Broadcast
<1> HIDE DEF n
<1>3. [i \in 1 .. n |-> m] \in Seq({m})
  <2>1. [i \in 1 .. n |-> m] \in [1 .. n -> {m}]
        OBVIOUS
  <2>2. [1 .. n -> {m}] \in {[1 .. k -> {m}] : k \in Nat}
        BY <1>1
  <2>3. [i \in 1 .. n |-> m] \in UNION {[1 .. k -> {m}] : k \in Nat}
        BY <2>1, <2>2
  <2>4. QED
        BY <2>3, SeqDef
<1>4. /\ Len(q) \in Nat /\ DOMAIN q = 1 .. Len(q)
      /\ Len(down'[c]) = Len(q) + n /\ DOMAIN down'[c] = 1 .. Len(q) + n
      /\ \A k \in 1 .. Len(q) : down'[c][k] = q[k]
      /\ \A k \in 1 .. Len(q) + n : k > Len(q) => down'[c][k] = m
  <2> HIDE DEF q
  <2> DEFINE tail == [i \in 1 .. n |-> m]
  <2>1. /\ tail \in Seq({m}) /\ Len(tail) = n /\ \A i \in 1 .. n : tail[i] = m
    <3>1. DOMAIN tail = 1 .. n
          OBVIOUS
    <3>2. Len(tail) = n
          BY <1>1, <1>3, <3>1, LenProperties
    <3>3. QED
          BY <1>3, <3>2
  <2> HIDE DEF tail
  <2>2. /\ q \o tail \in Seq(InitMessage \cup EventsMessage \cup {m})
        /\ Len(q \o tail) = Len(q) + n
        /\ \A k \in 1 .. Len(q) + n : (q \o tail)[k] = IF k <= Len(q) THEN q[k] ELSE tail[k - Len(q)]
    <3>1. q \in Seq(InitMessage \cup EventsMessage \cup {m}) /\ tail \in Seq(InitMessage \cup EventsMessage \cup {m})
          BY <1>1, <2>1
    <3>2. QED
          BY <2>1, <3>1, ConcatProperties
  <2>3. Len(q) \in Nat /\ DOMAIN q = 1 .. Len(q)
        BY <1>1, LenProperties
  <2>4. DOMAIN (q \o tail) = 1 .. Len(q) + n
        BY <2>2, LenProperties
  <2>5. \A k \in 1 .. Len(q) + n : k > Len(q) => k - Len(q) \in 1 .. n
        BY <1>1, <2>3
  <2>6. down'[c] = q \o tail
        BY <1>2 DEF tail
  <2>7. QED
        BY <1>1, <2>1, <2>2, <2>3, <2>4, <2>5, <2>6
<1>5. QED
      BY <1>1, <1>4 DEF n

LEMMA BroadcastKeeps ==
    ASSUME NInv, NEW c \in Clients, sim_pc = "simulate", NEW slots \in SUBSET BroadcastTo,
           down' = Broadcast(slots, FrameGameEvents(server_frame, CurrentEvents)),
           UNCHANGED <<clientVars, client_end, accept_pc, accept_fd, slotVars, threadVars>>,
           server_frame' \in {server_frame, server_frame + 1},
           server_end'[c] \in {server_end[c], "closed"},
           QueueKept(c)
    PROVE  ClientInv(c)'
<1> DEFINE m == FrameGameEvents(server_frame, CurrentEvents)
           q == down[c]
           n == Copies(slots, c)
<1>0. /\ ClientInv(c) /\ server_frame \in Nat /\ server_frame <= server_frame'
      /\ down \in [Clients -> Seq(InitMessage \cup EventsMessage)]
      /\ c_server_frame[c] \in Int /\ c_client_frame[c] \in Int
      /\ cd_client_frame \in [Slots -> Int]
      /\ thread_msg \in [Slots -> InitMessage \cup {NoMessage}]
      BY SMTT(30) DEF NInv, NetcodeInv, TypeOK, ServerTypeOK, NetworkTypeOK, ClientTypeOK
<1>1. /\ UNCHANGED <<c_main_pc, c_recv_pc, c_is_initialised, c_client_index, c_sync_frame,
                     c_server_frame, c_client_frame, c_resim, c_joined>>
      BY DEF clientVars, frameVars
<1>2. m.type = "EVENTS" /\ m.frame = server_frame
      BY DEF FrameGameEvents
<1>3. n \in Nat /\ q \in Seq(InitMessage \cup EventsMessage)
      BY <1>0, CopiesType DEF BroadcastTo
<1>4. n > 0 => /\ client_end[c] = "open"
               /\ Told(c) => /\ c_is_initialised[c] /\ server_frame < c_client_frame[c]
                             /\ \A k \in DOMAIN q : q[k].type # "INIT"
  <2>1. SUFFICES ASSUME n > 0
                 PROVE  client_end[c] = "open" /\ \E s \in BroadcastTo : cd_fd[s] = c
        BY FrameSent
  <2>2. client_end[c] = "open" /\ Cardinality({s \in slots : cd_fd[s] = c}) > 0
        BY <2>1 DEF Copies
  <2>3. {s \in slots : cd_fd[s] = c} # {}
        BY <2>2, FS_EmptySet
  <2>4. QED
        BY <2>2, <2>3
<1>5. down'[c] = q \o [i \in 1 .. n |-> m]
      BY DEF Broadcast
<1> HIDE DEF m, n
<1>7. /\ Len(q) \in Nat /\ DOMAIN q = 1 .. Len(q)
      /\ Len(down'[c]) = Len(q) + n /\ DOMAIN down'[c] = 1 .. Len(q) + n
      /\ \A k \in 1 .. Len(q) : down'[c][k] = q[k]
      /\ \A k \in 1 .. Len(q) + n : k > Len(q) => down'[c][k] = m
  <2>1. TypeOK /\ slots \in SUBSET Slots
        BY DEF NInv, BroadcastTo
  <2>2. QED
        BY <2>1, BroadcastShape DEF m, n
<1>8. \A k \in 1 .. Len(q) + n : k > Len(q) => n > 0
      BY <1>3, <1>7
<1>9. Told(c)' <=> Told(c)
  <2>1. (\E k \in DOMAIN down'[c] : down'[c][k].type = "INIT") <=> \E k \in DOMAIN q : q[k].type = "INIT"
    <3> HIDE DEF q
    <3>1. ASSUME NEW k \in 1 .. Len(q) + n, down'[c][k].type = "INIT" PROVE k \in 1 .. Len(q)
          BY <1>2, <1>3, <1>7, <3>1
    <3>2. \A k \in 1 .. Len(q) : k \in 1 .. Len(q) + n
          BY <1>3, <1>7
    <3>3. QED
          BY <1>7, <3>1, <3>2
  <2>2. QED
        BY <1>1, <2>1 DEF Told
<1>10. UsesOpenEnd(c)'
  <2>1. client_end[c] # "open" => down'[c] = <<>>
    <3>1. ASSUME client_end[c] # "open" PROVE down'[c] = <<>>
      <4>1. n = 0 /\ q = <<>>
            BY <1>0, <1>3, <1>4, <3>1 DEF ClientInv, UsesOpenEnd
      <4> HIDE DEF q
      <4>2. [i \in 1 .. n |-> m] = <<>>
            BY <4>1
      <4>3. QED
            BY <1>5, <4>1, <4>2
    <3>2. QED
          BY <3>1
  <2>2. QED
        BY <1>0, <1>1, <2>1 DEF ClientInv, UsesOpenEnd
<1>11. ToldOnce(c)'
       BY <1>0, <1>9 DEF ClientInv, ToldOnce, NotYetTold, slotVars, threadVars
<1>12. ServedWhenTold(c)'
       BY <1>0, <1>9 DEF ClientInv, ServedWhenTold, Serves, slotVars, threadVars
<1>13. OnlyPredicted(c)'
       BY <1>0, <1>1 DEF ClientInv, OnlyPredicted, QueueKept, Serves, slotVars, threadVars
<1>14. InFlight(c)'
  <2>1. \A s \in Slots : thread_pc'[s] = "send_init" /\ cd_fd'[s] = c => thread_msg'[s].frame <= server_frame'
    <3>1. SUFFICES ASSUME NEW s \in Slots, thread_pc[s] = "send_init", cd_fd[s] = c
                   PROVE  thread_msg[s].frame <= server_frame'
          BY DEF slotVars, threadVars
    <3>2. thread_msg[s].frame <= server_frame
          BY <1>0, <3>1 DEF ClientInv, InFlight
    <3>3. thread_msg[s].frame \in Nat
          BY <3>1 DEF NInv, NetcodeInv, ServerInv, SlotInUse, InitMessage
    <3>4. QED
          BY <1>0, <3>2, <3>3
  <2>2. \A k \in DOMAIN q : q[k].frame \in Nat
        BY <1>3 DEF InitMessage, EventsMessage
  <2>3. ASSUME NEW k \in DOMAIN down'[c]
        PROVE  /\ down'[c][k].frame <= server_frame'
               /\ down'[c][k].type = "INIT" => k = Len(down'[c]) /\ ~c_is_initialised[c]
               /\ \A j \in 1 .. k : down'[c][k].type = "EVENTS" => down'[c][j].frame <= down'[c][k].frame
               /\ c_is_initialised[c] => /\ c_server_frame[c] <= down'[c][k].frame
                                         /\ down'[c][k].frame < c_client_frame[c]
    <3> HIDE DEF q
    <3>1. CASE k \in 1 .. Len(q)
      <4>1. down'[c][k] = q[k] /\ \A j \in 1 .. k : j \in 1 .. Len(q) /\ down'[c][j] = q[j]
            BY <1>7, <3>1
      <4>2. q[k].type = "INIT" => n = 0
            BY <1>3, <1>4, <1>7, <3>1 DEF Told, q
      <4>3. /\ q[k].frame <= server_frame
            /\ q[k].type = "INIT" => k = Len(q) /\ ~c_is_initialised[c]
            /\ \A j \in 1 .. k : q[k].type = "EVENTS" => q[j].frame <= q[k].frame
            /\ c_is_initialised[c] => c_server_frame[c] <= q[k].frame /\ q[k].frame < c_client_frame[c]
            BY <1>0, <1>7, <3>1 DEF ClientInv, InFlight, q
      <4>4. q[k].frame <= server_frame'
            BY <1>0, <1>7, <2>2, <3>1, <4>3
      <4>5. QED
            BY <1>7, <4>1, <4>2, <4>3, <4>4
    <3>2. CASE k > Len(q)
      <4>1. down'[c][k] = m /\ n > 0
            BY <1>7, <1>8, <2>3, <3>2
      <4>2. c_is_initialised[c] => c_server_frame[c] <= m.frame /\ m.frame < c_client_frame[c]
            BY <1>0, <1>2, <1>4, <4>1 DEF ClientInv, InFlight, Told
      <4>3. ASSUME NEW j \in 1 .. k PROVE down'[c][j].frame <= server_frame
        <5>1. CASE j \in 1 .. Len(q)
          <6>1. q[j].frame <= server_frame
                BY <1>0, <1>7, <5>1 DEF ClientInv, InFlight, q
          <6>2. QED
                BY <1>7, <5>1, <6>1
        <5>2. CASE j > Len(q)
          <6>1. down'[c][j] = m
                BY <1>7, <2>3, <4>3, <5>2
          <6>2. QED
                BY <1>0, <1>2, <6>1
        <5>3. QED
              BY <1>7, <5>1, <5>2
      <4>4. QED
            BY <1>0, <1>2, <4>1, <4>2, <4>3
    <3>3. QED
          BY <1>7, <2>3, <3>1, <3>2
  <2>4. c_is_initialised[c] => c_server_frame[c] <= server_frame'
        BY <1>0 DEF ClientInv, InFlight
  <2>5. QED
        BY <1>1, <2>1, <2>3, <2>4 DEF InFlight
<1>15. Reconciling(c)' /\ (c_is_initialised[c]' => InOrder(c)')
       BY <1>0, <1>1 DEF ClientInv, Reconciling, InOrder
<1>16. QED
       BY <1>10, <1>11, <1>12, <1>13, <1>14, <1>15 DEF ClientInv

LEMMA ServerKeepsClientInv ==
    ASSUME NInv, NEW c \in Clients, ServerNext, UNCHANGED clientVars
    PROVE  ClientInv(c)'
<1>0. /\ server_end \in [Clients -> SocketState] /\ up \in [Clients -> Seq(InputsMessage)]
      /\ ConnectedFirst /\ server_frame \in Nat
      BY DEF NInv, NetcodeInv, ServerInv, TypeOK, NetworkTypeOK, ServerTypeOK
<1>1. CASE AcceptThread
      BY <1>1, AcceptQuiet, QuietKeeps
<1>2. ASSUME NEW s \in Slots, ClientThread(s) PROVE ClientInv(c)'
      BY <1>2, ThreadQuiet, SendInitKeeps, QuietKeeps
<1>3. CASE SimTest \/ SimTestLate \/ SimStops \/ SimSpuriousWakeup
      BY <1>3, SimQuiet, QuietKeeps
<1>4. CASE SimStep
  <2>1. /\ sim_pc = "simulate" /\ server_frame' = server_frame + 1
        /\ down' = Broadcast(BroadcastTo, FrameGameEvents(server_frame, CurrentEvents))
        /\ UNCHANGED <<up, client_end, server_end, accept_pc, accept_fd, slotVars, threadVars>>
        BY <1>4 DEF SimStep, SimSimulating, acceptVars
  <2>2. QueueKept(c)
        BY <1>0, <2>1 DEF QueueKept
  <2>3. QED
        BY <2>1, <2>2, BroadcastKeeps
<1>5. CASE SimKills
  <2>1. /\ sim_pc = "simulate" /\ server_frame' = server_frame /\ ServerDies
        /\ UNCHANGED <<client_end, accept_pc, accept_fd, slotVars, threadVars>>
        BY <1>5 DEF SimKills, SimSimulating, acceptVars
  <2>2. PICK s \in Slots : down' = Broadcast({t \in BroadcastTo : t < s},
                                             FrameGameEvents(server_frame, CurrentEvents))
        BY <1>5 DEF SimKills
  <2>3. /\ server_end'[c] = (IF client_end[c] = "none" THEN "none" ELSE "closed") /\ up'[c] = <<>>
        BY <2>1 DEF ServerDies
  <2>4. server_end'[c] \in {server_end[c], "closed"}
        BY <1>0, <2>3 DEF ConnectedFirst
  <2>5. QueueKept(c)
        BY <2>3 DEF QueueKept
  <2> DEFINE slots == {t \in BroadcastTo : t < s}
  <2>6. slots \in SUBSET BroadcastTo /\ down' = Broadcast(slots, FrameGameEvents(server_frame, CurrentEvents))
        BY <2>2
  <2> HIDE DEF slots
  <2>7. QED
        BY <2>1, <2>4, <2>5, <2>6, BroadcastKeeps
<1>6. CASE BeginShutdown \/ ServerShutdown
      BY <1>6, MainQuiet, QuietKeeps
<1>7. QED
      BY <1>1, <1>2, <1>3, <1>4, <1>5, <1>6 DEF ServerNext, ServerThreads, SimulationThread

-------------------------------------------------------------------------------
(***************************************************************************)
(* A step of client c touches neither another client nor the server.       *)
(***************************************************************************)
ClientStep(c) == (MainThread(c) \/ RecvThread(c) \/ ClientShutdown(c)) /\ UNCHANGED serverVars

LEMMA ClientPeersOnly ==
    ASSUME NEW c \in Clients, TypeOK, ClientStep(c)
    PROVE  PeersOnly
<1>0. client_end \in [Clients -> SocketState]
      BY DEF TypeOK, NetworkTypeOK
<1>1. UNCHANGED <<server_end, server_up, listening>>
      BY DEF ClientStep, MainThread, RecvThread, ClientConnect, ClientConnected, ClientSleeps, ClientWakes,
             ClientPredict, ClientSend,
             ClientSendFails, ClientSendKills, ClientShutdown, ClientEnds, Receiving, RecvInitPlayer,
             RecvGameEvents, RecvUnexpected, ResimStep, RecvMisread, RecvEnd, networkVars
<1>2. client_end' \in {client_end, [client_end EXCEPT ![c] = "open"], [client_end EXCEPT ![c] = "closed"]}
      BY DEF ClientStep, MainThread, RecvThread, ClientConnect, ClientConnected, ClientSleeps, ClientWakes,
             ClientPredict, ClientSend,
             ClientSendFails, ClientSendKills, ClientShutdown, ClientEnds, CloseClientEnd, Receiving, RecvInitPlayer,
             RecvGameEvents, RecvUnexpected, ResimStep, RecvMisread, RecvEnd, networkVars
<1>3. QED
      BY <1>0, <1>1, <1>2 DEF PeersOnly, ClientStep

OtherKept(d) ==
    /\ c_main_pc'[d] = c_main_pc[d] /\ c_recv_pc'[d] = c_recv_pc[d]
    /\ c_is_initialised'[d] = c_is_initialised[d] /\ c_client_index'[d] = c_client_index[d]
    /\ c_sync_frame'[d] = c_sync_frame[d] /\ c_server_frame'[d] = c_server_frame[d]
    /\ c_client_frame'[d] = c_client_frame[d] /\ c_states'[d] = c_states[d] /\ c_events'[d] = c_events[d]
    /\ c_resim'[d] = c_resim[d] /\ c_joined'[d] = c_joined[d] /\ c_issued'[d] = c_issued[d]
    /\ up'[d] = up[d] /\ down'[d] = down[d] /\ client_end'[d] = client_end[d]

LEMMA OthersKept ==
    ASSUME TypeOK, NEW c \in Clients, NEW d \in Clients, d # c, ClientStep(c)
    PROVE  OtherKept(d)
<1> USE DEF TypeOK, NetworkTypeOK, ClientTypeOK, OtherKept, networkVars, frameVars, ringsVars
<1>1. CASE ClientConnect(c)
      BY <1>1 DEF ClientConnect
<1>2. CASE ClientConnected(c) \/ ClientSleeps(c) \/ ClientWakes(c)
      BY <1>2 DEF ClientConnected, ClientSleeps, ClientWakes
<1>3. ASSUME NEW input \in Inputs, ClientPredict(c, input) PROVE OtherKept(d)
      BY <1>3 DEF ClientPredict
<1>4. CASE ClientSend(c)
      BY <1>4 DEF ClientSend, Delivered
<1>5. CASE ClientSendFails(c)
      BY <1>5 DEF ClientSendFails
<1>6. CASE ClientEnds(c)
      BY <1>6 DEF ClientEnds, CloseClientEnd
<1>7. CASE RecvInitPlayer(c)
      BY <1>7 DEF RecvInitPlayer, Receiving
<1>8. CASE RecvGameEvents(c)
      BY <1>8 DEF RecvGameEvents, Receiving
<1>9. CASE RecvUnexpected(c)
      BY <1>9 DEF RecvUnexpected, Receiving
<1>10. CASE ResimStep(c)
       BY <1>10 DEF ResimStep
<1>11. CASE RecvEnd(c)
       BY <1>11 DEF RecvEnd
<1>12. QED
       BY <1>1, <1>2, <1>3, <1>4, <1>5, <1>6, <1>7, <1>8, <1>9, <1>10, <1>11
       DEF ClientStep, MainThread, RecvThread, ClientSendKills, ClientShutdown, RecvMisread

LEMMA OtherKeepsInv ==
    ASSUME NInv, NEW c \in Clients, NEW d \in Clients, d # c, ClientStep(c)
    PROVE  ClientInv(d)'
<1>1. OtherKept(d) /\ UNCHANGED serverVars /\ server_end' = server_end
      BY OthersKept, ClientPeersOnly DEF NInv, ClientStep, PeersOnly
<1>2. ClientInv(d)
      BY DEF NInv, NetcodeInv
<1>3. Told(d)' <=> Told(d)
      BY <1>1 DEF Told, OtherKept
<1> USE DEF OtherKept, serverVars, acceptVars, slotVars, threadVars, ringVars, ClientInv
<1>4. UsesOpenEnd(d)'
      BY <1>1, <1>2 DEF UsesOpenEnd
<1>5. ToldOnce(d)' /\ ServedWhenTold(d)'
      BY <1>1, <1>2, <1>3 DEF ToldOnce, NotYetTold, ServedWhenTold, Serves
<1>6. OnlyPredicted(d)'
      BY <1>1, <1>2 DEF OnlyPredicted, Serves
<1>7. InFlight(d)'
      BY <1>1, <1>2 DEF InFlight
<1>8. Reconciling(d)' /\ (c_is_initialised'[d] => InOrder(d)')
      BY <1>1, <1>2 DEF Reconciling, InOrder
<1>9. QED
      BY <1>4, <1>5, <1>6, <1>7, <1>8

(***************************************************************************)
(* The types of the client.                                                *)
(***************************************************************************)
LEMMA HeadTailDown ==
    ASSUME TypeOK, NEW c \in Clients, Receiving(c)
    PROVE  /\ Head(down[c]) = down[c][1] /\ 1 \in DOMAIN down[c]
           /\ down[c][1] \in InitMessage \cup EventsMessage
           /\ down'[c] = Tail(down[c])
           /\ Tail(down[c]) \in Seq(InitMessage \cup EventsMessage)
           /\ Len(Tail(down[c])) = Len(down[c]) - 1 /\ DOMAIN Tail(down[c]) = 1 .. Len(down[c]) - 1
           /\ Len(down[c]) \in Nat /\ DOMAIN down[c] = 1 .. Len(down[c])
           /\ \A k \in 1 .. Len(down[c]) - 1 : down'[c][k] = down[c][k + 1]
           /\ down' \in [Clients -> Seq(InitMessage \cup EventsMessage)]
<1> DEFINE q == down[c]
<1>1. q \in Seq(InitMessage \cup EventsMessage) /\ q # <<>>
      BY DEF TypeOK, NetworkTypeOK, Receiving
<1>2. down' = [down EXCEPT ![c] = Tail(q)]
      BY DEF Receiving
<1>3. down \in [Clients -> Seq(InitMessage \cup EventsMessage)]
      BY DEF TypeOK, NetworkTypeOK
<1> HIDE DEF q
<1>4. Len(q) \in Nat /\ Len(q) > 0 /\ DOMAIN q = 1 .. Len(q)
      BY <1>1, LenProperties, EmptySeq
<1>5. /\ Tail(q) \in Seq(InitMessage \cup EventsMessage)
      /\ Len(Tail(q)) = Len(q) - 1
      /\ \A k \in 1 .. Len(q) - 1 : Tail(q)[k] = q[k + 1]
      /\ Head(q) = q[1]
      BY <1>1, <1>4, HeadTailProperties
<1>6. DOMAIN Tail(q) = 1 .. Len(q) - 1
      BY <1>5, LenProperties
<1>7. q[1] \in InitMessage \cup EventsMessage
      BY <1>1, <1>4
<1>8. down'[c] = Tail(q) /\ down' \in [Clients -> Seq(InitMessage \cup EventsMessage)]
      BY <1>2, <1>3, <1>5
<1>9. QED
      BY <1>4, <1>5, <1>6, <1>7, <1>8 DEF q

\* What the client has predicted and what it was told are proper frames and a slot.
LEMMA InitialisedTypes ==
    ASSUME NInv, NEW c \in Clients, c_is_initialised[c]
    PROVE  /\ c_joined[c] \in Nat /\ c_sync_frame[c] \in Nat /\ c_server_frame[c] \in Nat
           /\ c_client_frame[c] \in Nat /\ c_client_index[c] \in Slots
           /\ client_end[c] = "open"
<1>1. ClientInv(c) /\ ClientTypeOK
      BY DEF NInv, NetcodeInv, TypeOK
<1>2. UsesOpenEnd(c) /\ InOrder(c) /\ Reconciling(c)
      BY <1>1 DEF ClientInv
<1>3. /\ c_joined[c] \in Nat \cup {-1} /\ c_sync_frame[c] \in Nat \cup {-1}
      /\ c_server_frame[c] \in Nat \cup {-1} /\ c_client_frame[c] \in Nat \cup {-1}
      BY <1>1 DEF ClientTypeOK
<1>4. QED
      BY <1>2, <1>3 DEF UsesOpenEnd, InOrder

LEMMA ClientSendType ==
    ASSUME NInv, NEW c \in Clients, ClientSend(c)
    PROVE  NetworkTypeOK' /\ ClientTypeOK'
<1>1. NetworkTypeOK /\ ClientTypeOK /\ UsesOpenEnd(c)
      BY DEF NInv, TypeOK, NetcodeInv, ClientInv
<1>2. c_main_pc[c] = "send"
      BY DEF ClientSend
<1>3. c_client_frame[c] - 1 \in Nat /\ c_client_index[c] \in Slots
      BY <1>1, <1>2, InitialisedTypes DEF UsesOpenEnd
<1>4. c_out[c] \in PlayerInput
      BY <1>1 DEF ClientTypeOK
<1> DEFINE m == FrameInputs(c_client_frame[c] - 1, c_client_index[c], c_out[c])
<1>5. m \in InputsMessage
      BY <1>3, <1>4 DEF FrameInputs, InputsMessage
<1>6. up' = Delivered(up, server_end, c, m)
      BY DEF ClientSend
<1> HIDE DEF m
<1>7. up[c] \in Seq(InputsMessage)
      BY <1>1 DEF NetworkTypeOK
<1>8. Append(up[c], m) \in Seq(InputsMessage)
      BY <1>5, <1>7, AppendProperties
<1>9. up' \in [Clients -> Seq(InputsMessage)]
      BY <1>1, <1>6, <1>8 DEF Delivered, NetworkTypeOK
<1>10. NetworkTypeOK'
       BY <1>1, <1>9 DEF NetworkTypeOK, ClientSend
<1>11. NoInput \in PlayerInput
       BY DEF NoInput, PlayerInput
<1>12. ClientTypeOK'
       BY <1>1, <1>11 DEF ClientTypeOK, ClientSend, frameVars, ringsVars
<1>13. QED
       BY <1>10, <1>12

LEMMA ClientPredictType ==
    ASSUME NInv, NEW c \in Clients, NEW input \in Inputs, ClientPredict(c, input)
    PROVE  NetworkTypeOK' /\ ClientTypeOK'
<1>1. NetworkTypeOK /\ ClientTypeOK
      BY DEF NInv, TypeOK
<1> DEFINE f == c_client_frame[c]
           events == [c_events[c][Ring(f)] EXCEPT !.player_inputs[c_client_index[c]] = input]
           next == GameSimulate(c_states[c][Ring(f)], events)
<1>2. f \in Nat /\ c_client_index[c] \in Slots
      BY InitialisedTypes DEF ClientPredict, ClientReady
<1>3. Ring(f) \in RingIndex /\ Ring(f + 1) \in RingIndex
      BY <1>2, RingType
<1>4. input \in PlayerInput
      BY ClientAssumption
<1>5. c_events[c][Ring(f)] \in GameEvents /\ c_states[c][Ring(f)] \in GameState
      BY <1>1, <1>3 DEF ClientTypeOK
<1>6. events \in GameEvents
      BY <1>4, <1>5 DEF GameEvents
<1>7. next \in GameState
      BY <1>5, <1>6, GameSimulateType
<1>8. /\ c_states' = [c_states EXCEPT ![c][Ring(f + 1)] = next]
      /\ c_events' = [c_events EXCEPT ![c] = [@ EXCEPT ![Ring(f)] = events, ![Ring(f + 1)] = NoEvents]]
      /\ c_client_frame' = [c_client_frame EXCEPT ![c] = f + 1]
      /\ c_out' = [c_out EXCEPT ![c] = input]
      /\ c_issued' = [c_issued EXCEPT ![c] = Append(@, input)]
      /\ c_main_pc' = [c_main_pc EXCEPT ![c] = "send"]
      /\ UNCHANGED <<networkVars, c_recv_pc, c_is_connected, c_is_initialised, c_client_index,
                     c_sync_frame, c_server_frame, c_resim, c_joined>>
      BY DEF ClientPredict, EventsPredicted
<1> HIDE DEF f, events, next
<1>9. NetworkTypeOK'
      BY <1>1, <1>8 DEF NetworkTypeOK, networkVars
<1>10. c_states' \in [Clients -> [RingIndex -> GameState]]
       BY <1>1, <1>3, <1>7, <1>8 DEF ClientTypeOK
<1>11. c_events' \in [Clients -> [RingIndex -> GameEvents]]
       BY <1>1, <1>3, <1>6, <1>8, NoEventsType DEF ClientTypeOK
<1>12. c_issued' \in [Clients -> Seq(PlayerInput)]
  <2>1. c_issued[c] \in Seq(PlayerInput)
        BY <1>1 DEF ClientTypeOK
  <2>2. Append(c_issued[c], input) \in Seq(PlayerInput)
        BY <1>4, <2>1, AppendProperties
  <2>3. QED
        BY <1>1, <1>8, <2>2 DEF ClientTypeOK
<1>13. c_client_frame' \in [Clients -> Nat \cup {-1}] /\ c_out' \in [Clients -> PlayerInput]
       BY <1>1, <1>2, <1>4, <1>8 DEF ClientTypeOK
<1>14. c_main_pc' \in [Clients -> {"new", "init", "loop", "sleep", "send", "done"}]
       BY <1>1, <1>8 DEF ClientTypeOK
<1>15. QED
       BY <1>1, <1>8, <1>9, <1>10, <1>11, <1>12, <1>13, <1>14 DEF ClientTypeOK

LEMMA ClientEndsType ==
    ASSUME TypeOK, NEW c \in Clients, ClientEnds(c)
    PROVE  NetworkTypeOK' /\ ClientTypeOK'
<1>1. NetworkTypeOK /\ ClientTypeOK
      BY DEF TypeOK
<1>2. /\ NoInput \in PlayerInput
      /\ [r \in RingIndex |-> InitialState] \in [RingIndex -> GameState]
      /\ [r \in RingIndex |-> NoEvents] \in [RingIndex -> GameEvents]
      /\ <<>> \in Seq(PlayerInput) /\ <<>> \in Seq(InitMessage \cup EventsMessage)
      BY InitialStateType, NoEventsType DEF NoInput, PlayerInput
<1>3. NetworkTypeOK'
      BY <1>1, <1>2 DEF NetworkTypeOK, ClientEnds, CloseClientEnd, SocketState
<1>4. ClientTypeOK'
      BY <1>1, <1>2 DEF ClientTypeOK, ClientEnds
<1>5. QED
      BY <1>3, <1>4

LEMMA ReceivingNetworkType ==
    ASSUME TypeOK, NEW c \in Clients, Receiving(c)
    PROVE  NetworkTypeOK'
BY HeadTailDown DEF TypeOK, NetworkTypeOK, Receiving

LEMMA RecvInitPlayerType ==
    ASSUME TypeOK, NEW c \in Clients, RecvInitPlayer(c)
    PROVE  ClientTypeOK'
<1>1. ClientTypeOK
      BY DEF TypeOK
<1> DEFINE m == Head(down[c])
<1>2. m \in InitMessage
      BY HeadTailDown DEF RecvInitPlayer, InitMessage, EventsMessage
<1>3. /\ m.frame \in Nat /\ m.state \in GameState /\ m.events \in GameEvents /\ m.client_index \in Slots
      BY <1>2 DEF InitMessage
<1>4. Ring(m.frame) \in RingIndex
      BY <1>3, RingType
<1>5. /\ c_client_index' = [c_client_index EXCEPT ![c] = m.client_index]
      /\ c_sync_frame' = [c_sync_frame EXCEPT ![c] = m.frame]
      /\ c_server_frame' = [c_server_frame EXCEPT ![c] = m.frame]
      /\ c_client_frame' = [c_client_frame EXCEPT ![c] = m.frame]
      /\ c_states' = [c_states EXCEPT ![c][Ring(m.frame)] = m.state]
      /\ c_events' = [c_events EXCEPT ![c][Ring(m.frame)] = m.events]
      /\ c_is_initialised' = [c_is_initialised EXCEPT ![c] = TRUE]
      /\ c_joined' = [c_joined EXCEPT ![c] = m.frame]
      /\ UNCHANGED <<c_recv_pc, c_resim, c_main_pc, c_is_connected, c_out, c_issued>>
      BY DEF RecvInitPlayer, Receiving
<1> HIDE DEF m
<1>6. c_states' \in [Clients -> [RingIndex -> GameState]] /\ c_events' \in [Clients -> [RingIndex -> GameEvents]]
      BY <1>1, <1>3, <1>4, <1>5 DEF ClientTypeOK
<1>7. QED
      BY <1>1, <1>3, <1>5, <1>6 DEF ClientTypeOK

LEMMA RecvGameEventsType ==
    ASSUME TypeOK, NEW c \in Clients, RecvGameEvents(c)
    PROVE  ClientTypeOK'
<1>1. ClientTypeOK
      BY DEF TypeOK
<1> DEFINE m == Head(down[c])
           from == IF m.frame > c_sync_frame[c] THEN c_sync_frame[c] ELSE m.frame
           to == Later(m.frame, c_client_frame[c])
<1>2. m.frame \in Nat /\ m.events \in GameEvents
      BY HeadTailDown DEF RecvGameEvents, InitMessage, EventsMessage
<1>3. Ring(m.frame) \in RingIndex
      BY <1>2, RingType
<1>4. from \in Nat \cup {-1}
      BY <1>1, <1>2 DEF ClientTypeOK
<1>5. /\ c_server_frame' = [c_server_frame EXCEPT ![c] = m.frame]
      /\ c_events' = [c_events EXCEPT ![c][Ring(m.frame)] = m.events]
      /\ c_recv_pc' = [c_recv_pc EXCEPT ![c] = IF from < to THEN "resim" ELSE "recv"]
      /\ c_resim' = [c_resim EXCEPT ![c] = IF from < to THEN from ELSE -1]
      /\ UNCHANGED <<c_states, c_sync_frame, c_client_frame, c_client_index, c_is_initialised, c_joined,
                     c_main_pc, c_is_connected, c_out, c_issued>>
      BY DEF RecvGameEvents, Receiving
<1> HIDE DEF m, from, to
<1>6. c_events' \in [Clients -> [RingIndex -> GameEvents]]
      BY <1>1, <1>2, <1>3, <1>5 DEF ClientTypeOK
<1>7. c_resim' \in [Clients -> Nat \cup {-1}] /\ c_recv_pc' \in [Clients -> {"none", "recv", "resim", "ended"}]
      BY <1>1, <1>4, <1>5 DEF ClientTypeOK
<1>8. QED
      BY <1>1, <1>2, <1>5, <1>6, <1>7 DEF ClientTypeOK

LEMMA ResimStepType ==
    ASSUME TypeOK, NEW c \in Clients, ResimStep(c)
    PROVE  NetworkTypeOK' /\ ClientTypeOK'
<1>1. NetworkTypeOK /\ ClientTypeOK
      BY DEF TypeOK
<1> DEFINE i == c_resim[c]
           done == i + 1 = Later(c_server_frame[c], c_client_frame[c])
<1>2. i \in Nat \cup {-1}
      BY <1>1 DEF ClientTypeOK
<1>3. Ring(i) \in RingIndex /\ Ring(i + 1) \in RingIndex
      BY <1>2, RingType
<1>4. PICK next \in IF i < 0 THEN JunkStates ELSE {GameSimulate(c_states[c][Ring(i)], c_events[c][Ring(i)])} :
           c_states' = [c_states EXCEPT ![c][Ring(i + 1)] = next]
      BY DEF ResimStep
<1>5. next \in GameState
  <2>1. c_events[c][Ring(i)] \in GameEvents /\ c_states[c][Ring(i)] \in GameState
        BY <1>1, <1>3 DEF ClientTypeOK
  <2>2. GameSimulate(c_states[c][Ring(i)], c_events[c][Ring(i)]) \in GameState
        BY <2>1, GameSimulateType
  <2>3. QED
        BY <1>4, <2>2, ClientAssumption
<1>6. /\ c_sync_frame' = [c_sync_frame EXCEPT ![c] = IF i + 1 = c_server_frame[c] THEN i + 1 ELSE @]
      /\ c_resim' = [c_resim EXCEPT ![c] = IF done THEN -1 ELSE i + 1]
      /\ c_recv_pc' = [c_recv_pc EXCEPT ![c] = IF done THEN "recv" ELSE "resim"]
      /\ UNCHANGED <<networkVars, c_main_pc, c_is_connected, c_is_initialised, c_client_index,
                     c_server_frame, c_client_frame, c_events, c_out, c_joined, c_issued>>
      BY DEF ResimStep
<1> HIDE DEF i, done
<1>7. c_states' \in [Clients -> [RingIndex -> GameState]]
      BY <1>1, <1>3, <1>4, <1>5 DEF ClientTypeOK
<1>8. /\ c_sync_frame' \in [Clients -> Nat \cup {-1}] /\ c_resim' \in [Clients -> Nat \cup {-1}]
      /\ c_recv_pc' \in [Clients -> {"none", "recv", "resim", "ended"}]
      BY <1>1, <1>2, <1>6 DEF ClientTypeOK
<1>9. NetworkTypeOK'
      BY <1>1, <1>6 DEF NetworkTypeOK, networkVars
<1>10. QED
       BY <1>1, <1>6, <1>7, <1>8, <1>9 DEF ClientTypeOK

LEMMA ClientType ==
    ASSUME NInv, NEW c \in Clients, ClientStep(c)
    PROVE  TypeOK'
<1>0. TypeOK /\ NetworkTypeOK /\ ClientTypeOK /\ ServerTypeOK
      BY DEF NInv, TypeOK
<1>1. ServerTypeOK'
      BY <1>0 DEF ClientStep, ServerTypeOK, serverVars, acceptVars, slotVars, threadVars, ringVars, mainVars
<1> SUFFICES NetworkTypeOK' /\ ClientTypeOK'
    BY <1>1 DEF TypeOK
<1> USE DEF networkVars, frameVars, ringsVars
<1>2. CASE ClientConnect(c)
  <2>1. NetworkTypeOK'
        BY <1>0, <1>2 DEF ClientConnect, NetworkTypeOK, SocketState
  <2>2. ClientTypeOK'
        BY <1>0, <1>2 DEF ClientConnect, ClientTypeOK
  <2>3. QED
        BY <2>1, <2>2
<1>3. CASE ClientConnected(c) \/ ClientSleeps(c) \/ ClientWakes(c)
      BY <1>0, <1>3 DEF ClientConnected, ClientSleeps, ClientWakes, NetworkTypeOK, ClientTypeOK
<1>4. CASE ClientSendFails(c)
  <2>1. NoInput \in PlayerInput
        BY DEF NoInput, PlayerInput
  <2>2. ClientTypeOK'
        BY <1>0, <1>4, <2>1 DEF ClientSendFails, ClientTypeOK
  <2>3. QED
        BY <1>0, <1>4, <2>2 DEF ClientSendFails, NetworkTypeOK
<1>5. CASE RecvUnexpected(c)
  <2>1. Receiving(c) /\ NetworkTypeOK'
        BY <1>0, <1>5, ReceivingNetworkType DEF RecvUnexpected
  <2>2. QED
        BY <1>0, <1>5, <2>1 DEF RecvUnexpected, Receiving, ClientTypeOK
<1>6. CASE RecvEnd(c)
      BY <1>0, <1>6 DEF RecvEnd, NetworkTypeOK, ClientTypeOK
<1>7. CASE RecvInitPlayer(c) \/ RecvGameEvents(c)
      BY <1>0, <1>7, RecvInitPlayerType, RecvGameEventsType, ReceivingNetworkType DEF RecvInitPlayer, RecvGameEvents
<1>8. QED
      BY <1>0, <1>2, <1>3, <1>4, <1>5, <1>6, <1>7, ClientPredictType, ClientSendType, ClientEndsType, ResimStepType
      DEF ClientStep, MainThread, RecvThread, ClientSendKills, ClientShutdown, RecvMisread

-------------------------------------------------------------------------------
(***************************************************************************)
(* A step of client c keeps its own part of the invariant.                 *)
(***************************************************************************)
ServerKept ==
    UNCHANGED <<server_end, accept_pc, accept_fd, thread_pc, thread_msg, cd_fd, cd_client_frame,
                server_frame>>

LEMMA ClientServerKept ==
    ASSUME NInv, NEW c \in Clients, ClientStep(c)
    PROVE  ServerKept
BY ClientPeersOnly DEF NInv, PeersOnly, ClientStep, serverVars, acceptVars, slotVars, threadVars, ringVars,
                       ServerKept

\* As long as it does not make up a message that was not there.
LEMMA ToldKept ==
    ASSUME NInv, NEW c \in Clients, ServerKept, Told(c)' => Told(c)
    PROVE  ToldOnce(c)' /\ ServedWhenTold(c)'
<1>1. ToldOnce(c) /\ ServedWhenTold(c)
      BY DEF NInv, NetcodeInv, ClientInv
<1>2. NotYetTold(c)' <=> NotYetTold(c)
      BY DEF NotYetTold, ServerKept
<1>3. \A s \in Slots : Serves(s, c)' <=> Serves(s, c)
      BY DEF Serves, ServerKept
<1>4. QED
      BY <1>1, <1>2, <1>3 DEF ToldOnce, ServedWhenTold, ServerKept

\* connect(), is_connected, the throttle, a send that fails, the end of the receive thread.
LEMMA ProgramCountersKeep ==
    ASSUME NInv, NEW c \in Clients, ServerKept,
           ClientConnect(c) \/ ClientConnected(c) \/ ClientSleeps(c) \/ ClientWakes(c)
              \/ ClientSendFails(c) \/ RecvEnd(c)
    PROVE  ClientInv(c)'
<1>0. ClientInv(c) /\ ClientTypeOK /\ client_end \in [Clients -> SocketState]
      BY DEF NInv, NetcodeInv, TypeOK, NetworkTypeOK
<1> USE DEF ClientInv, networkVars, frameVars, ServerKept
<1>1. /\ UNCHANGED <<up, down, c_is_initialised, c_client_index, c_sync_frame, c_server_frame,
                     c_client_frame, c_resim, c_joined>>
      /\ c_main_pc'[c] \in {"init", "loop", "sleep", c_main_pc[c]}
      /\ c_main_pc'[c] = "new" => ~ClientConnect(c)
      /\ ~ClientConnect(c) => (c_recv_pc'[c] = "resim" <=> c_recv_pc[c] = "resim")
      /\ ClientConnect(c) \/ client_end' = client_end
      /\ ClientConnect(c) => c_main_pc[c] = "new" /\ client_end'[c] = "open"
      BY <1>0 DEF ClientConnect, ClientConnected, ClientSleeps, ClientWakes, ClientSendFails, RecvEnd, ClientTypeOK
<1>2. ClientConnect(c) => client_end[c] = "none" /\ ~c_is_initialised[c] /\ down[c] = <<>>
      BY <1>0, <1>1 DEF UsesOpenEnd
<1>3. UsesOpenEnd(c)'
      BY <1>0, <1>1, <1>2 DEF UsesOpenEnd
<1>4. ToldOnce(c)' /\ ServedWhenTold(c)'
      BY <1>1, ToldKept DEF Told
<1>5. OnlyPredicted(c)'
      BY <1>0, <1>1, <1>2 DEF OnlyPredicted, Serves
<1>6. InFlight(c)'
      BY <1>0, <1>1 DEF InFlight
<1>7. Reconciling(c)' /\ (c_is_initialised'[c] => InOrder(c)')
      BY <1>0, <1>1, <1>2 DEF Reconciling, InOrder
<1>8. QED
      BY <1>3, <1>4, <1>5, <1>6, <1>7

LEMMA ClientPredictKeeps ==
    ASSUME NInv, NEW c \in Clients, ServerKept, NEW input \in Inputs, ClientPredict(c, input)
    PROVE  ClientInv(c)'
<1>0. ClientInv(c) /\ ClientTypeOK /\ UsesOpenEnd(c) /\ OnlyPredicted(c) /\ InFlight(c) /\ Reconciling(c)
      BY DEF NInv, NetcodeInv, TypeOK, ClientInv
<1>1. /\ c_is_initialised[c] /\ c_recv_pc[c] # "resim"
      /\ ~TooFarAhead(c)
      /\ c_client_frame' = [c_client_frame EXCEPT ![c] = c_client_frame[c] + 1]
      /\ c_main_pc' = [c_main_pc EXCEPT ![c] = "send"]
      /\ UNCHANGED <<up, down, client_end, c_recv_pc, c_is_initialised, c_client_index,
                     c_sync_frame, c_server_frame, c_resim, c_joined>>
      BY DEF ClientPredict, ClientReady, ClientStateLockFree, networkVars
<1>2. /\ c_joined[c] \in Nat /\ c_sync_frame[c] \in Nat /\ c_server_frame[c] \in Nat
      /\ c_client_frame[c] \in Nat /\ client_end[c] = "open"
      BY <1>1, InitialisedTypes
<1>3. c_client_frame'[c] = c_client_frame[c] + 1 /\ c_main_pc'[c] = "send"
      BY <1>0, <1>1 DEF ClientTypeOK
<1>4. UsesOpenEnd(c)'
      BY <1>0, <1>1, <1>2, <1>3 DEF UsesOpenEnd
<1>5. ToldOnce(c)' /\ ServedWhenTold(c)'
      BY <1>1, ToldKept DEF Told
<1>6. OnlyPredicted(c)'
  <2>1. ASSUME NEW k \in DOMAIN up[c] PROVE up[c][k].frame < c_client_frame[c] + 1
    <3>1. up[c][k] \in InputsMessage
          BY DEF NInv, TypeOK, NetworkTypeOK
    <3>2. QED
          BY <1>0, <1>1, <1>2, <3>1 DEF OnlyPredicted, InputsMessage
  <2>2. ASSUME NEW s \in Slots, Serves(s, c) PROVE cd_client_frame[s] < c_client_frame[c] + 1
    <3>1. cd_client_frame[s] \in Int
          BY DEF NInv, TypeOK, ServerTypeOK
    <3>2. QED
          BY <1>0, <1>1, <1>2, <2>2, <3>1 DEF OnlyPredicted
  <2>3. QED
        BY <1>1, <1>3, <2>1, <2>2 DEF OnlyPredicted, Serves, ServerKept
<1>7. InFlight(c)'
  <2>1. ASSUME NEW k \in DOMAIN down[c] PROVE down[c][k].frame < c_client_frame[c] + 1
    <3>1. down[c][k] \in InitMessage \cup EventsMessage
          BY DEF NInv, TypeOK, NetworkTypeOK
    <3>2. down[c][k].frame \in Nat
          BY <3>1 DEF InitMessage, EventsMessage
    <3>3. QED
          BY <1>0, <1>1, <1>2, <3>2 DEF InFlight
  <2>2. QED
        BY <1>0, <1>1, <1>3, <2>1 DEF InFlight, ServerKept
<1>8. Reconciling(c)'
      BY <1>0, <1>1 DEF Reconciling
<1>9. InOrder(c)'
  <2>1. InOrder(c)
        BY <1>0, <1>1 DEF ClientInv
  <2>2. QED
        BY <1>1, <1>2, <1>3, <2>1, GlobalsAssumption DEF InOrder, TooFarAhead
<1>10. QED
       BY <1>4, <1>5, <1>6, <1>7, <1>8, <1>9 DEF ClientInv

LEMMA ClientSendKeeps ==
    ASSUME NInv, NEW c \in Clients, ServerKept, ClientSend(c)
    PROVE  ClientInv(c)'
<1>0. ClientInv(c) /\ ClientTypeOK /\ NetworkTypeOK
      BY DEF NInv, NetcodeInv, TypeOK
<1> DEFINE m == FrameInputs(c_client_frame[c] - 1, c_client_index[c], c_out[c])
<1>1. /\ c_main_pc[c] = "send" /\ c_main_pc' = [c_main_pc EXCEPT ![c] = "loop"]
      /\ up' = Delivered(up, server_end, c, m)
      /\ UNCHANGED <<down, client_end, c_recv_pc, c_is_initialised, c_client_index,
                     c_sync_frame, c_server_frame, c_client_frame, c_resim, c_joined>>
      BY DEF ClientSend, frameVars
<1>2. c_is_initialised[c] /\ UsesOpenEnd(c) /\ OnlyPredicted(c)
      BY <1>0, <1>1 DEF ClientInv, UsesOpenEnd
<1>3. c_client_frame[c] \in Nat /\ m.frame = c_client_frame[c] - 1
      BY <1>2, InitialisedTypes DEF FrameInputs
<1> HIDE DEF m
<1>4. UsesOpenEnd(c)'
      BY <1>0, <1>1, <1>2 DEF UsesOpenEnd, ClientTypeOK
<1>5. ToldOnce(c)' /\ ServedWhenTold(c)'
      BY <1>1, ToldKept DEF Told
<1>6. OnlyPredicted(c)'
  <2>1. ASSUME NEW k \in DOMAIN up'[c] PROVE up'[c][k].frame < c_client_frame[c]
    <3>1. CASE up' = up
          BY <1>2, <2>1, <3>1 DEF OnlyPredicted
    <3>2. CASE up' = [up EXCEPT ![c] = Append(@, m)]
      <4>1. up'[c] = Append(up[c], m) /\ up[c] \in Seq(InputsMessage)
            BY <1>0, <3>2 DEF NetworkTypeOK
      <4>2. /\ Len(up[c]) \in Nat /\ DOMAIN up[c] = 1 .. Len(up[c])
            /\ DOMAIN Append(up[c], m) = 1 .. Len(up[c]) + 1
            /\ Append(up[c], m)[Len(up[c]) + 1] = m
            /\ \A i \in 1 .. Len(up[c]) : Append(up[c], m)[i] = up[c][i]
            BY <4>1
      <4>3. CASE k = Len(up[c]) + 1
            BY <1>3, <4>1, <4>2, <4>3
      <4>4. CASE k \in 1 .. Len(up[c])
            BY <1>2, <4>1, <4>2, <4>4 DEF OnlyPredicted
      <4>5. QED
            BY <2>1, <4>1, <4>2, <4>3, <4>4
    <3>3. QED
          BY <1>1, <3>1, <3>2 DEF Delivered
  <2>2. QED
        BY <1>1, <1>2, <2>1 DEF OnlyPredicted, Serves, ServerKept
<1>7. InFlight(c)'
      BY <1>0, <1>1 DEF ClientInv, InFlight, ServerKept
<1>8. Reconciling(c)' /\ (c_is_initialised'[c] => InOrder(c)')
      BY <1>0, <1>1 DEF ClientInv, Reconciling, InOrder
<1>9. QED
      BY <1>4, <1>5, <1>6, <1>7, <1>8 DEF ClientInv

LEMMA ClientEndsKeeps ==
    ASSUME NInv, NEW c \in Clients, ServerKept, ClientEnds(c)
    PROVE  ClientInv(c)'
<1>0. ClientInv(c) /\ ClientTypeOK /\ NetworkTypeOK
      BY DEF NInv, NetcodeInv, TypeOK
<1>1. /\ client_end'[c] = "closed" /\ down'[c] = <<>> /\ ~c_is_initialised'[c]
      /\ c_main_pc'[c] = "done"
      BY <1>0 DEF ClientEnds, CloseClientEnd, NetworkTypeOK, ClientTypeOK
<1>2. ~Told(c)'
      BY <1>1 DEF Told
<1>3. ToldOnce(c)' /\ ServedWhenTold(c)'
      BY <1>2, ToldKept
<1>4. UsesOpenEnd(c)' /\ OnlyPredicted(c)' /\ Reconciling(c)'
      BY <1>1 DEF UsesOpenEnd, OnlyPredicted, Reconciling
<1>5. InFlight(c)'
      BY <1>0, <1>1 DEF ClientInv, InFlight, ServerKept
<1>6. QED
      BY <1>1, <1>3, <1>4, <1>5 DEF ClientInv

LEMMA RecvInitPlayerKeeps ==
    ASSUME NInv, NEW c \in Clients, ServerKept, RecvInitPlayer(c)
    PROVE  ClientInv(c)'
<1>0. /\ ClientInv(c) /\ ClientTypeOK /\ NetworkTypeOK /\ server_frame \in Nat
      /\ UsesOpenEnd(c) /\ OnlyPredicted(c) /\ InFlight(c)
      BY DEF NInv, NetcodeInv, TypeOK, ServerTypeOK, ClientInv
<1> DEFINE m == Head(down[c])
<1>1. Receiving(c) /\ m.type = "INIT" /\ m = down[c][1] /\ 1 \in DOMAIN down[c] /\ m \in InitMessage
      BY HeadTailDown DEF NInv, RecvInitPlayer, InitMessage, EventsMessage
<1>2. m.frame \in Nat /\ m.client_index \in Slots /\ m.frame <= server_frame
      BY <1>0, <1>1 DEF InFlight, InitMessage
<1>3. Len(down[c]) = 1 /\ ~c_is_initialised[c]
      BY <1>0, <1>1 DEF InFlight
<1>4. down'[c] = <<>>
  <2>1. down'[c] \in Seq(InitMessage \cup EventsMessage) /\ Len(down'[c]) = 0
    <3>1. /\ down'[c] = Tail(down[c]) /\ Len(Tail(down[c])) = Len(down[c]) - 1
          /\ Tail(down[c]) \in Seq(InitMessage \cup EventsMessage)
          BY <1>1, HeadTailDown DEF NInv
    <3>2. Len(down[c]) - 1 = 0
          BY <1>3
    <3>3. QED
          BY <3>1, <3>2
  <2>2. QED
        BY <2>1, EmptySeq
<1>5. /\ c_client_index'[c] = m.client_index /\ c_sync_frame'[c] = m.frame
      /\ c_server_frame'[c] = m.frame /\ c_client_frame'[c] = m.frame
      /\ c_is_initialised'[c] /\ c_joined'[c] = m.frame
      /\ c_recv_pc[c] = "recv" /\ UNCHANGED <<up, client_end, c_recv_pc, c_resim, c_main_pc>>
      BY <1>0 DEF RecvInitPlayer, Receiving, ClientTypeOK
<1> HIDE DEF m
<1>6. client_end[c] = "open" /\ c_main_pc[c] \notin {"new", "send"}
      BY <1>0, <1>1, <1>3 DEF UsesOpenEnd, Receiving
<1>7. UsesOpenEnd(c)'
      BY <1>2, <1>4, <1>5, <1>6 DEF UsesOpenEnd
<1>8. ToldOnce(c)' /\ ServedWhenTold(c)'
      BY <1>1, ToldKept DEF Told
<1>9. OnlyPredicted(c)'
  <2>1. up[c] = <<>> /\ \A s \in Slots : Serves(s, c) => cd_client_frame[s] = -1
        BY <1>0, <1>3, <1>6 DEF OnlyPredicted
  <2>2. QED
        BY <1>2, <1>5, <2>1 DEF OnlyPredicted, Serves, ServerKept
<1>10. InFlight(c)'
       BY <1>0, <1>2, <1>4, <1>5 DEF InFlight, ServerKept
<1>11. Reconciling(c)'
       BY <1>5 DEF Reconciling
<1>12. InOrder(c)'
       BY <1>2, <1>5, GlobalsAssumption DEF InOrder
<1>13. QED
       BY <1>7, <1>8, <1>9, <1>10, <1>11, <1>12 DEF ClientInv

\* What is left in flight when a message has been taken from the front.
LEMMA FrontTaken ==
    ASSUME NInv, NEW c \in Clients, ServerKept, Receiving(c), c_is_initialised' = c_is_initialised,
           c_client_frame' = c_client_frame,
           c_is_initialised[c] => c_server_frame'[c] \in {c_server_frame[c], down[c][1].frame},
           c_server_frame'[c] # c_server_frame[c] => down[c][1].type = "EVENTS"
    PROVE  InFlight(c)' /\ (Told(c)' => Told(c))
<1>0. InFlight(c)
      BY DEF NInv, NetcodeInv, ClientInv
<1>1. /\ 1 \in DOMAIN down[c] /\ DOMAIN down'[c] = 1 .. Len(down[c]) - 1
      /\ DOMAIN down[c] = 1 .. Len(down[c]) /\ Len(down[c]) \in Nat
      /\ Len(down'[c]) = Len(down[c]) - 1
      /\ \A k \in 1 .. Len(down[c]) - 1 : down'[c][k] = down[c][k + 1]
      BY HeadTailDown DEF NInv
<1>2. ASSUME NEW k \in DOMAIN down'[c]
      PROVE  k + 1 \in DOMAIN down[c] /\ down'[c][k] = down[c][k + 1] /\ k \in Nat
      BY <1>1, <1>2
<1>3. Told(c)' => Told(c)
      BY <1>2 DEF Told
<1>4. ASSUME NEW k \in DOMAIN down'[c]
      PROVE  /\ down'[c][k].frame <= server_frame
             /\ down'[c][k].type = "INIT" => k = Len(down'[c]) /\ ~c_is_initialised[c]
             /\ \A j \in 1 .. k : down'[c][k].type = "EVENTS" => down'[c][j].frame <= down'[c][k].frame
             /\ c_is_initialised[c] => /\ c_server_frame'[c] <= down'[c][k].frame
                                      /\ down'[c][k].frame < c_client_frame[c]
  <2>1. k + 1 \in DOMAIN down[c] /\ down'[c][k] = down[c][k + 1] /\ k \in Nat
        BY <1>2, <1>4
  <2>2. down'[c][k].frame <= server_frame
        BY <1>0, <2>1 DEF InFlight
  <2>3. down'[c][k].type = "INIT" => k = Len(down'[c]) /\ ~c_is_initialised[c]
        BY <1>0, <1>1, <2>1 DEF InFlight
  <2>4. ASSUME NEW j \in 1 .. k, down'[c][k].type = "EVENTS" PROVE down'[c][j].frame <= down'[c][k].frame
    <3>1. j \in DOMAIN down'[c] /\ j + 1 \in 1 .. k + 1
          BY <1>1, <1>4, <2>1, <2>4
    <3>2. down'[c][j] = down[c][j + 1]
          BY <1>2, <3>1
    <3>3. QED
          BY <1>0, <2>1, <2>4, <3>1, <3>2 DEF InFlight
  <2>5. ASSUME c_is_initialised[c] PROVE c_server_frame'[c] <= down'[c][k].frame
    <3>1. down[c][k + 1] \in InitMessage \cup EventsMessage
          BY <2>1 DEF NInv, TypeOK, NetworkTypeOK
    <3>2. down[c][k + 1].type = "EVENTS"
          BY <1>0, <2>1, <2>5, <3>1 DEF InFlight, InitMessage, EventsMessage
    <3>3. 1 \in 1 .. k + 1
          BY <2>1
    <3>4. down[c][1].frame <= down[c][k + 1].frame /\ c_server_frame[c] <= down[c][k + 1].frame
          BY <1>0, <2>1, <2>5, <3>2, <3>3 DEF InFlight
    <3>5. QED
          BY <2>1, <2>5, <3>4
  <2>6. c_is_initialised[c] => down'[c][k].frame < c_client_frame[c]
        BY <1>0, <2>1 DEF InFlight
  <2>7. QED
        BY <2>2, <2>3, <2>4, <2>5, <2>6
<1>5. c_is_initialised[c] => c_server_frame'[c] <= server_frame
      BY <1>0, <1>1 DEF InFlight
<1>6. \A s \in Slots : thread_pc'[s] = "send_init" /\ cd_fd'[s] = c => thread_msg'[s].frame <= server_frame'
      BY <1>0 DEF InFlight, ServerKept
<1>7. QED
      BY <1>3, <1>4, <1>5, <1>6 DEF InFlight, ServerKept

LEMMA RecvUnexpectedKeeps ==
    ASSUME NInv, NEW c \in Clients, ServerKept, RecvUnexpected(c)
    PROVE  ClientInv(c)'
<1>0. ClientInv(c)
      BY DEF NInv, NetcodeInv
<1>1. /\ Receiving(c) /\ down[c] # <<>>
      /\ UNCHANGED <<up, client_end, c_main_pc, c_recv_pc, c_client_index, c_sync_frame, c_server_frame,
                     c_client_frame, c_resim, c_is_initialised, c_joined>>
      BY DEF RecvUnexpected, Receiving, frameVars
<1>2. InFlight(c)' /\ (Told(c)' => Told(c))
      BY <1>1, FrontTaken
<1>3. ToldOnce(c)' /\ ServedWhenTold(c)'
      BY <1>2, ToldKept
<1>4. UsesOpenEnd(c)'
      BY <1>0, <1>1 DEF ClientInv, UsesOpenEnd
<1>5. OnlyPredicted(c)'
      BY <1>0, <1>1 DEF ClientInv, OnlyPredicted, Serves, ServerKept
<1>6. Reconciling(c)' /\ (c_is_initialised'[c] => InOrder(c)')
      BY <1>0, <1>1 DEF ClientInv, Reconciling, InOrder
<1>7. QED
      BY <1>2, <1>3, <1>4, <1>5, <1>6 DEF ClientInv

LEMMA RecvGameEventsKeeps ==
    ASSUME NInv, NEW c \in Clients, ServerKept, RecvGameEvents(c)
    PROVE  ClientInv(c)'
<1>0. ClientInv(c) /\ ClientTypeOK /\ InFlight(c) /\ Reconciling(c) /\ UsesOpenEnd(c)
      BY DEF NInv, NetcodeInv, TypeOK, ClientInv
<1> DEFINE m == Head(down[c])
           from == IF m.frame > c_sync_frame[c] THEN c_sync_frame[c] ELSE m.frame
           to == Later(m.frame, c_client_frame[c])
<1>1. /\ Receiving(c) /\ m = down[c][1] /\ 1 \in DOMAIN down[c] /\ down[c] # <<>>
      /\ m.type = "EVENTS" /\ m.frame \in Nat /\ FrameExpected(c, m.frame)
      BY HeadTailDown DEF NInv, RecvGameEvents, Receiving, InitMessage, EventsMessage
<1>2. /\ c_recv_pc[c] = "recv"
      /\ c_server_frame'[c] = m.frame
      /\ c_recv_pc'[c] = (IF from < to THEN "resim" ELSE "recv")
      /\ c_resim'[c] = (IF from < to THEN from ELSE -1)
      /\ UNCHANGED <<up, client_end, c_main_pc, c_sync_frame, c_client_frame, c_client_index,
                     c_is_initialised, c_joined>>
      BY <1>0 DEF RecvGameEvents, Receiving, ClientTypeOK
<1> HIDE DEF m, from, to
<1>3. InFlight(c)' /\ (Told(c)' => Told(c))
      BY <1>1, <1>2, FrontTaken
<1>4. ToldOnce(c)' /\ ServedWhenTold(c)'
      BY <1>3, ToldKept
<1>5. UsesOpenEnd(c)'
      BY <1>0, <1>1, <1>2 DEF UsesOpenEnd
<1>6. OnlyPredicted(c)'
      BY <1>0, <1>2 DEF ClientInv, OnlyPredicted, Serves, ServerKept
<1>7. ASSUME c_is_initialised[c] PROVE Reconciling(c)' /\ InOrder(c)'
  <2>1. /\ c_joined[c] \in Nat /\ c_sync_frame[c] \in Nat /\ c_server_frame[c] \in Nat
        /\ c_client_frame[c] \in Nat
        BY <1>7, InitialisedTypes
  <2>2. InOrder(c) /\ c_sync_frame[c] = c_server_frame[c]
        BY <1>0, <1>2, <1>7 DEF ClientInv, Reconciling
  <2>3. c_server_frame[c] <= m.frame /\ m.frame < c_client_frame[c]
        BY <1>0, <1>1, <1>7 DEF InFlight
  <2>4. /\ from = c_sync_frame[c] /\ to = c_client_frame[c] /\ from < to
        /\ m.frame \in {c_sync_frame[c], c_sync_frame[c] + 1}
        BY <1>1, <2>1, <2>2, <2>3 DEF from, to, Later, FrameExpected
  <2>5. Reconciling(c)'
        BY <1>2, <2>1, <2>3, <2>4 DEF Reconciling
  <2>6. InOrder(c)'
        BY <1>2, <2>1, <2>2, <2>3, <2>4 DEF InOrder
  <2>7. QED
        BY <2>5, <2>6
<1>8. ~c_is_initialised[c] => Reconciling(c)'
      BY <1>2 DEF Reconciling
<1>9. QED
      BY <1>2, <1>3, <1>4, <1>5, <1>6, <1>7, <1>8 DEF ClientInv

LEMMA ResimStepKeeps ==
    ASSUME NInv, NEW c \in Clients, ServerKept, ResimStep(c)
    PROVE  ClientInv(c)'
<1>0. ClientInv(c) /\ ClientTypeOK
      BY DEF NInv, NetcodeInv, TypeOK
<1> DEFINE i == c_resim[c]
           done == i + 1 = Later(c_server_frame[c], c_client_frame[c])
<1>1. /\ c_recv_pc[c] = "resim"
      /\ c_sync_frame'[c] = (IF i + 1 = c_server_frame[c] THEN i + 1 ELSE c_sync_frame[c])
      /\ c_resim'[c] = (IF done THEN -1 ELSE i + 1)
      /\ c_recv_pc'[c] = (IF done THEN "recv" ELSE "resim")
      /\ UNCHANGED <<up, down, client_end, c_main_pc, c_is_initialised, c_client_index,
                     c_server_frame, c_client_frame, c_joined>>
      BY <1>0 DEF ResimStep, ClientTypeOK, networkVars
<1> HIDE DEF i, done
<1>2. ToldOnce(c)' /\ ServedWhenTold(c)'
      BY <1>1, ToldKept DEF Told
<1>3. UsesOpenEnd(c)' /\ OnlyPredicted(c)' /\ InFlight(c)'
      BY <1>0, <1>1 DEF ClientInv, UsesOpenEnd, OnlyPredicted, InFlight, Serves, ServerKept
<1>4. ASSUME c_is_initialised[c] PROVE Reconciling(c)' /\ InOrder(c)'
  <2>1. /\ c_joined[c] \in Nat /\ c_sync_frame[c] \in Nat /\ c_server_frame[c] \in Nat
        /\ c_client_frame[c] \in Nat
        BY <1>4, InitialisedTypes
  <2>2. /\ InOrder(c)
        /\ 0 <= i /\ i < c_client_frame[c] /\ c_server_frame[c] < c_client_frame[c]
        /\ \/ c_sync_frame[c] = c_server_frame[c] /\ c_sync_frame[c] <= i
           \/ c_sync_frame[c] + 1 = c_server_frame[c] /\ c_sync_frame[c] = i
        BY <1>0, <1>1, <1>4 DEF ClientInv, Reconciling, i
  <2>3. i \in Int
        BY <1>0 DEF ClientTypeOK, i
  <2>4. done <=> i + 1 = c_client_frame[c]
        BY <2>1, <2>2, <2>3 DEF done, Later
  <2>5. c_sync_frame'[c] = c_server_frame[c] /\ c_sync_frame'[c] >= c_sync_frame[c]
        /\ c_sync_frame'[c] <= i + 1
        BY <1>1, <2>1, <2>2, <2>3
  <2>6. Reconciling(c)'
        BY <1>1, <2>1, <2>2, <2>3, <2>4, <2>5 DEF Reconciling
  <2>7. InOrder(c)'
        BY <1>1, <2>1, <2>2, <2>5, GlobalsAssumption DEF InOrder
  <2>8. QED
        BY <2>6, <2>7
<1>5. ~c_is_initialised[c] => Reconciling(c)'
      BY <1>1 DEF Reconciling
<1>6. QED
      BY <1>1, <1>2, <1>3, <1>4, <1>5 DEF ClientInv

LEMMA ClientKeepsInv ==
    ASSUME NInv, NEW c \in Clients, ClientStep(c)
    PROVE  \A d \in Clients : ClientInv(d)'
<1>1. ServerKept
      BY ClientServerKept
<1>2. ClientInv(c)'
      BY <1>1, ProgramCountersKeep, ClientPredictKeeps, ClientSendKeeps, ClientEndsKeeps, RecvInitPlayerKeeps,
         RecvUnexpectedKeeps, RecvGameEventsKeeps, ResimStepKeeps
      DEF ClientStep, MainThread, RecvThread, ClientSendKills, ClientShutdown, RecvMisread
<1>3. QED
      BY <1>2, OtherKeepsInv

-------------------------------------------------------------------------------
(***************************************************************************)
(* Every step keeps the invariant.                                         *)
(***************************************************************************)
LEMMA NetcodeInit == Init => NInv
<1> SUFFICES ASSUME Init PROVE NInv
    OBVIOUS
<1>1. Inv
      BY InitInv DEF Init
<1>2. /\ NoInput \in PlayerInput /\ <<>> \in Seq(PlayerInput)
      /\ [r \in RingIndex |-> InitialState] \in [RingIndex -> GameState]
      /\ [r \in RingIndex |-> NoEvents] \in [RingIndex -> GameEvents]
      BY InitialStateType, NoEventsType DEF NoInput, PlayerInput
<1>3. ClientTypeOK
      BY <1>2 DEF Init, ClientInit, ClientTypeOK
<1>4. ASSUME NEW c \in Clients PROVE ClientInv(c)
  <2>1. /\ up[c] = <<>> /\ down[c] = <<>> /\ client_end[c] = "none" /\ server_end[c] = "none"
        /\ c_main_pc[c] = "new" /\ c_is_initialised[c] = FALSE /\ c_recv_pc[c] = "none"
        /\ \A s \in Slots : thread_pc[s] = "none"
        BY DEF Init, NetworkInit, ServerInit, ClientInit
  <2>2. UsesOpenEnd(c) /\ ~Told(c)
        BY <2>1 DEF UsesOpenEnd, Told
  <2>3. ToldOnce(c) /\ ServedWhenTold(c)
        BY <2>2 DEF ToldOnce, ServedWhenTold
  <2>4. OnlyPredicted(c) /\ InFlight(c) /\ Reconciling(c)
        BY <2>1 DEF OnlyPredicted, InFlight, Reconciling, Serves
  <2>5. QED
        BY <2>1, <2>2, <2>3, <2>4 DEF ClientInv
<1>5. QED
      BY <1>1, <1>3, <1>4 DEF NInv, NetcodeInv, TypeOK, Inv, Types

LEMMA NetcodeNext == NInv /\ [Next]_vars => NInv'
<1> SUFFICES ASSUME NInv, [Next]_vars PROVE NInv'
    OBVIOUS
<1>1. ASSUME ServerNext, UNCHANGED clientVars PROVE NInv'
  <2>1. Inv'
        BY <1>1, NInvInv, ServerKeepsInv
  <2>2. ClientTypeOK'
        BY <1>1 DEF NInv, TypeOK, ClientTypeOK, clientVars, frameVars, ringsVars
  <2>3. \A c \in Clients : ClientInv(c)'
        BY <1>1, ServerKeepsClientInv
  <2>4. QED
        BY <2>1, <2>2, <2>3 DEF NInv, NetcodeInv, TypeOK, Inv, Types
<1>2. ASSUME ClientNext, UNCHANGED serverVars PROVE NInv'
  <2>1. PICK c \in Clients : ClientStep(c)
        BY <1>2 DEF ClientNext, ClientStep
  <2>2. TypeOK' /\ \A d \in Clients : ClientInv(d)'
        BY <2>1, ClientType, ClientKeepsInv
  <2>3. PeersOnly
        BY <2>1, ClientPeersOnly DEF NInv
  <2>4. Inv'
        BY <2>2, <2>3, NInvInv, PeersKeepInv DEF TypeOK, Types, Inv
  <2>5. QED
        BY <2>2, <2>4 DEF NInv, NetcodeInv, Inv
<1>3. ASSUME UNCHANGED vars PROVE NInv'
  <2>1. UNCHANGED <<networkVars, serverVars, clientVars>>
        BY <1>3 DEF vars
  <2>2. PeersOnly /\ ServerKept
        BY <2>1 DEF PeersOnly, networkVars, ServerKept, serverVars, acceptVars, slotVars, threadVars, ringVars
  <2>3. TypeOK'
        BY <2>1 DEF NInv, TypeOK, NetworkTypeOK, ServerTypeOK, ClientTypeOK, networkVars, serverVars, acceptVars,
                    slotVars, threadVars, ringVars, mainVars, clientVars, frameVars, ringsVars
  <2>4. Inv'
        BY <2>2, <2>3, NInvInv, PeersKeepInv DEF TypeOK, Types, Inv
  <2>5. ASSUME NEW c \in Clients PROVE ClientInv(c)'
    <3>1. ClientInv(c)
          BY DEF NInv, NetcodeInv
    <3>2. ToldOnce(c)' /\ ServedWhenTold(c)'
          BY <2>1, <2>2, ToldKept DEF Told, networkVars, clientVars
    <3>3. UsesOpenEnd(c)' /\ OnlyPredicted(c)' /\ InFlight(c)'
          BY <2>1, <2>2, <3>1 DEF ClientInv, UsesOpenEnd, OnlyPredicted, InFlight, Serves, ServerKept,
                                  networkVars, clientVars, frameVars
    <3>4. Reconciling(c)' /\ (c_is_initialised'[c] => InOrder(c)')
          BY <2>1, <3>1 DEF ClientInv, Reconciling, InOrder, clientVars, frameVars
    <3>5. QED
          BY <3>2, <3>3, <3>4 DEF ClientInv
  <2>6. QED
        BY <2>3, <2>4, <2>5 DEF NInv, NetcodeInv, Inv
<1>4. QED
      BY <1>1, <1>2, <1>3 DEF Next

LEMMA NetcodeInvariant == Spec => []NInv
BY NetcodeInit, NetcodeNext, PTL DEF Spec

-------------------------------------------------------------------------------
(***************************************************************************)
(* The variables of the server, the clients and the connections keep their *)
(* types; in particular every ring index and every slot that is used is    *)
(* one (protocol.c:11 to 60, gameclient.c:130 to 218).                     *)
(***************************************************************************)
THEOREM NetcodeTypeCorrect == Spec => []TypeOK
<1>1. NInv => TypeOK
      BY DEF NInv
<1>2. QED
      BY NetcodeInvariant, <1>1, PTL

(***************************************************************************)
(* The invariant that the runs check is one, whatever the constants.       *)
(***************************************************************************)
THEOREM NetcodeInvariantHolds == Spec => []NetcodeInv
<1>1. NInv => NetcodeInv
      BY DEF NInv
<1>2. QED
      BY NetcodeInvariant, <1>1, PTL

(***************************************************************************)
(* "sync %d <= server %d <= client %d" (gameclient.c:192), and no more     *)
(* than a ring between the first and the last (client/main.c:76), however  *)
(* the two programs and their threads interleave.                          *)
(***************************************************************************)
THEOREM FramesInOrder == Spec => []FrameOrder
<1>1. NInv => FrameOrder
      BY DEF NInv, NetcodeInv, ClientInv, FrameOrder
<1>2. QED
      BY NetcodeInvariant, <1>1, PTL

(***************************************************************************)
(* No join or departure is lost or doubled (gameserver.c:252, 352, 404),   *)
(* with the clients' real programs at the other ends.                      *)
(***************************************************************************)
THEOREM PlayersMatchThreads == Spec => []RosterMatchesThreads
<1>1. Init => RosterMatchesThreads
      BY InitRoster DEF Init
<1>2. NInv /\ RosterMatchesThreads /\ [Next]_vars => RosterMatchesThreads'
  <2> SUFFICES ASSUME NInv, RosterMatchesThreads, [Next]_vars PROVE RosterMatchesThreads'
      OBVIOUS
  <2>1. CASE ServerNext
        BY <2>1, NInvInv, ServerRoster
  <2>2. CASE UNCHANGED serverVars
        BY <2>2, PeersRoster
  <2>3. QED
        BY <2>1, <2>2 DEF Next, vars
<1>3. QED
      BY NetcodeInvariant, <1>1, <1>2, PTL DEF Spec

===============================================================================
