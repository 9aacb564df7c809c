------------------------------ MODULE GameServer ------------------------------
(***************************************************************************)
(* The authoritative server (server/gameserver.[ch]): the accept thread,   *)
(* one thread per connected client and the simulation thread.  An action   *)
(* is what a thread does between two points where another thread can see   *)
(* or change what it uses: a section under state_lock, a section under     *)
(* clients_lock, or a single unprotected access.                           *)
(***************************************************************************)
EXTENDS Network, FiniteSets

CONSTANT ThreadCreateMayFail   \* the threads for which pthread_create may fail

ASSUME ServerAssumption == ThreadCreateMayFail \subseteq {"client", "simulation"}

VARIABLES
    main_pc, main_slot,                        \* the main thread and its loop index
    client_count, server_frame,
    cd_is_connected, cd_fd, cd_client_frame,   \* ClientData, by slot
    game_states, game_events,                  \* rings
    clients_lock,                              \* "free", or who left it locked
    accept_pc, accept_fd, accept_slot, accept_count,
    thread_pc, thread_msg,                     \* client threads, by slot
    removing,                                  \* the counts loaded by threads that have given the slot
                                               \* back and are about to store one less
    sim_pc,
    confirmed, truth   \* history: the events of each simulated frame, and the
                       \* state at the start of each frame (one more of these)

acceptVars == <<accept_pc, accept_fd, accept_slot, accept_count>>
slotVars   == <<cd_is_connected, cd_fd, cd_client_frame>>
threadVars == <<thread_pc, thread_msg, removing>>
ringVars   == <<server_frame, game_states, game_events, confirmed, truth>>
mainVars   == <<main_pc, main_slot>>
serverVars == <<client_count, clients_lock, acceptVars, slotVars, threadVars, ringVars, sim_pc,
                mainVars>>

\* pthread_create failed, and what was done for the client is undone
Undoing == {"undo_fd", "undo_read", "undo_write", "undo_unlock", "undo_close"}

AcceptPC == {"accept", "lock", "mark", "set_fd", "set_frame", "count_read", "count_write",
             "spawn", "unlock", "ended"} \cup Undoing
ThreadPC == {"none", "init", "send_init", "listen", "close", "forget", "leave", "remove"}
SimPC    == {"test", "tested", "waiting", "waiting_late", "simulate", "ended"}
MainPC   == {"pause", "count", "walk", "close", "signal", "join_sim", "join_accept",
             "recount", "join_clients", "destroy", "done"}

NoMessage == [type |-> "NONE"]

ServerTypeOK ==
    /\ main_pc \in MainPC
    /\ main_slot \in Slots
    /\ client_count \in Int
    /\ server_frame \in Nat
    /\ cd_is_connected \in [Slots -> BOOLEAN]
    /\ cd_fd \in [Slots -> Clients \cup {NoFd}]
    /\ cd_client_frame \in [Slots -> Int]
    /\ game_states \in [RingIndex -> GameState]
    /\ game_events \in [RingIndex -> GameEvents]
    /\ clients_lock \in {"free", "accept", "cleanup"}
    /\ accept_pc \in AcceptPC
    /\ accept_fd \in Clients \cup {NoFd}
    /\ accept_slot \in Slots
    /\ accept_count \in Int
    /\ thread_pc \in [Slots -> ThreadPC]
    /\ thread_msg \in [Slots -> InitMessage \cup {NoMessage}]
    /\ removing \in [Slots -> Seq(Int)]
    /\ sim_pc \in SimPC
    /\ confirmed \in Seq(GameEvents)
    /\ truth \in Seq(GameState)

\* game_server_init: everything zeroed, the accept and simulation threads started; or the
\* simulation thread could not be, and main() is about to stop what there is already
\* (gameserver.c:74 to 80).
ServerInit ==
    /\ main_pc = "pause"
    /\ main_slot = 0
    /\ client_count = 0
    /\ server_frame = 0
    /\ cd_is_connected = [s \in Slots |-> FALSE]
    /\ cd_fd = [s \in Slots |-> NoFd]
    /\ cd_client_frame = [s \in Slots |-> 0]
    /\ game_states = [r \in RingIndex |-> InitialState]
    /\ game_events = [r \in RingIndex |-> NoEvents]
    /\ clients_lock = "free"
    /\ accept_pc = "accept"
    /\ accept_fd = NoFd
    /\ accept_slot = 0
    /\ accept_count = 0
    /\ thread_pc = [s \in Slots |-> "none"]
    /\ thread_msg = [s \in Slots |-> NoMessage]
    /\ removing = [s \in Slots |-> <<>>]
    /\ sim_pc = "test" \/ ("simulation" \in ThreadCreateMayFail /\ sim_pc = "ended")
    /\ confirmed = <<>>
    /\ truth = <<InitialState>>

-------------------------------------------------------------------------------
StateLockIgnored == TRUE \* mutant: nobody waits for state_lock

(***************************************************************************)
(* Locks and the condition variable.  Only the simulation thread keeps     *)
(* state_lock from one action to the next.                                 *)
(***************************************************************************)
StateLockFree == sim_pc \notin {"tested", "simulate"}
ClientsLockFree == clients_lock = "free"

SignalNobody == UNCHANGED sim_pc \* mutant: the signal is forgotten

\* pthread_cond_signal(simulation_loop_cond)
SignalSimulation == sim_pc' = IF sim_pc \in {"waiting", "waiting_late"} THEN "test" ELSE sim_pc

CanSimulateAlone(count, frames) == count # 0 \* mutant: no client's input is waited for

CanSimulateEarly(count, frames) == \* mutant: one frame too early
    /\ count # 0
    /\ \A s \in Slots : cd_is_connected[s] => frames[s] >= server_frame - 1

\* game_server_can_simulate, on given counts and frames
CanSimulate(count, frames) ==
    /\ count # 0
    /\ \A s \in Slots : cd_is_connected[s] => frames[s] >= server_frame

\* The main thread sets the flag and then shuts the listening socket.
to_shutdown == ~listening

\* The process ends, here by SIGPIPE or a failed assertion: the kernel closes every connection it had.
ServerDies ==
    /\ server_up' = FALSE
    /\ UNCHANGED listening
    /\ server_end' = [c \in Clients |-> IF client_end[c] = "none" THEN "none" ELSE "closed"]
    /\ up' = [c \in Clients |-> <<>>]

-------------------------------------------------------------------------------
(***************************************************************************)
(* The accept thread.  It looks for a slot under clients_lock, gives the   *)
(* lock up as soon as it has one, and then fills the slot and increments   *)
(* the count without it: each of these accesses is an action.              *)
(***************************************************************************)
(***************************************************************************)
(* accept() returns the lowest free descriptor.  That may be one a client  *)
(* thread has closed and not yet forgotten (gameserver.c:344, 345): every  *)
(* slot that still holds it names the new connection from now on.          *)
(***************************************************************************)
Released == {fd \in Clients : server_end[fd] = "closed" /\ \E s \in Slots : cd_fd[s] = fd}

AcceptConnection(c) ==
    /\ server_up
    /\ accept_pc = "accept"
    /\ ~to_shutdown
    /\ client_end[c] # "none"
    /\ server_end[c] = "none"
    /\ server_end' = [server_end EXCEPT ![c] = "open"]
    /\ accept_pc' = "lock"
    /\ accept_fd' = c
    /\ \/ UNCHANGED cd_fd
       \/ \E fd \in Released : cd_fd' = [s \in Slots |-> IF cd_fd[s] = fd THEN c ELSE cd_fd[s]]
    /\ UNCHANGED <<up, down, client_end, server_up, listening, client_count, clients_lock, accept_slot,
                   accept_count, cd_is_connected, cd_client_frame, threadVars, ringVars, sim_pc,
                   mainVars>>

\* The listening socket is shut: the connections it had are reset, but for one that
\* accept() had returned when the flag was tested, which nobody closes.
Backlog == {c \in Clients : client_end[c] # "none" /\ server_end[c] = "none"}

AcceptStops ==
    /\ server_up
    /\ accept_pc = "accept"
    /\ to_shutdown
    /\ accept_pc' = "ended"
    /\ \E kept \in SUBSET Backlog :
          /\ Cardinality(kept) <= 1
          /\ server_end' = [c \in Clients |-> IF c \in kept THEN "open"
                                             ELSE IF c \in Backlog THEN "closed"
                                             ELSE server_end[c]]
    /\ UNCHANGED <<up, down, client_end, server_up, listening, client_count, clients_lock, accept_fd,
                   accept_slot, accept_count, slotVars, threadVars, ringVars, sim_pc, mainVars>>

Admitting ==
    /\ server_up
    /\ accept_pc = "lock"
    /\ ClientsLockFree

AcceptForget ==
    /\ accept_pc' = "accept"
    /\ accept_fd' = NoFd
    /\ accept_slot' = 0
    /\ accept_count' = 0

FreeSlotByFd(s) == \* mutant: the slot of a thread that is still leaving
    cd_fd[s] = NoFd /\ \A t \in Slots : t < s => cd_fd[t] # NoFd

\* The first slot nobody is connected to.
FreeSlot(s) == ~cd_is_connected[s] /\ \A t \in Slots : t < s => cd_is_connected[t]

AcceptLimitKeeps == \* mutant: the rejected client's connection is left open
    /\ Admitting
    /\ client_count >= MAX_CLIENTS
    /\ AcceptForget
    /\ UNCHANGED <<networkVars, client_count, clients_lock, slotVars, threadVars, ringVars, sim_pc,
                   mainVars>>

AcceptLimitReached ==
    /\ Admitting
    /\ client_count >= MAX_CLIENTS
    /\ CloseServerEnd(accept_fd)
    /\ AcceptForget
    /\ UNCHANGED <<down, client_end, server_up, listening, client_count, clients_lock, slotVars,
                   threadVars, ringVars, sim_pc, mainVars>>

AcceptFindSlot(s) ==
    /\ Admitting
    /\ client_count < MAX_CLIENTS
    /\ FreeSlot(s)
    /\ accept_pc' = "mark"
    /\ accept_slot' = s
    /\ UNCHANGED <<networkVars, client_count, clients_lock, accept_fd, accept_count, slotVars,
                   threadVars, ringVars, sim_pc, mainVars>>

\* The path for "no slot" rejects the client but returns to accept() with the
\* lock still held.
AcceptNoSlot ==
    /\ Admitting
    /\ client_count < MAX_CLIENTS
    /\ \A s \in Slots : cd_is_connected[s]
    /\ CloseServerEnd(accept_fd)
    /\ clients_lock' = "accept"
    /\ AcceptForget
    /\ UNCHANGED <<down, client_end, server_up, listening, client_count, slotVars, threadVars,
                   ringVars, sim_pc, mainVars>>

AcceptStep(from, to) ==
    /\ server_up
    /\ accept_pc = from
    /\ accept_pc' = to
    /\ UNCHANGED <<networkVars, accept_fd, accept_slot, threadVars, ringVars, sim_pc, mainVars>>

AcceptMark ==
    /\ AcceptStep("mark", "set_fd")
    /\ cd_is_connected' = [cd_is_connected EXCEPT ![accept_slot] = TRUE]
    /\ UNCHANGED <<cd_fd, cd_client_frame, client_count, clients_lock, accept_count>>

AcceptSetFd ==
    /\ AcceptStep("set_fd", "set_frame")
    /\ cd_fd' = [cd_fd EXCEPT ![accept_slot] = accept_fd]
    /\ UNCHANGED <<cd_is_connected, cd_client_frame, client_count, clients_lock, accept_count>>

AcceptKeepFrame == \* mutant: the last client's frame is kept
    /\ AcceptStep("set_frame", "count_read")
    /\ UNCHANGED <<slotVars, client_count, clients_lock, accept_count>>

\* Frame = -1 means we have received nothing for them
AcceptSetFrame ==
    /\ AcceptStep("set_frame", "count_read")
    /\ cd_client_frame' = [cd_client_frame EXCEPT ![accept_slot] = -1]
    /\ UNCHANGED <<cd_is_connected, cd_fd, client_count, clients_lock, accept_count>>

\* client_count++ is a load and a store.
AcceptCountRead ==
    /\ AcceptStep("count_read", "count_write")
    /\ accept_count' = client_count
    /\ UNCHANGED <<slotVars, client_count, clients_lock>>

AcceptCountWrite ==
    /\ AcceptStep("count_write", "spawn")
    /\ client_count' = accept_count + 1
    /\ accept_count' = 0
    /\ UNCHANGED <<slotVars, clients_lock>>

AcceptSpawn ==
    /\ server_up
    /\ accept_pc = "spawn"
    /\ accept_pc' = "unlock"
    /\ thread_pc' = [thread_pc EXCEPT ![accept_slot] = "init"]
    /\ UNCHANGED <<networkVars, accept_fd, accept_slot, accept_count, thread_msg,
                   removing, slotVars, ringVars, sim_pc, client_count, clients_lock,
                   mainVars>>

\* pthread_create failed: the slot is given back, again without the lock, field by field.
AcceptSpawnFails ==
    /\ "client" \in ThreadCreateMayFail
    /\ AcceptStep("spawn", "undo_fd")
    /\ cd_is_connected' = [cd_is_connected EXCEPT ![accept_slot] = FALSE]
    /\ UNCHANGED <<cd_fd, cd_client_frame, client_count, clients_lock, accept_count>>

AcceptUndoFd ==
    /\ AcceptStep("undo_fd", "undo_read")
    /\ cd_fd' = [cd_fd EXCEPT ![accept_slot] = NoFd]
    /\ UNCHANGED <<cd_is_connected, cd_client_frame, client_count, clients_lock, accept_count>>

AcceptUndoRead ==
    /\ AcceptStep("undo_read", "undo_write")
    /\ accept_count' = client_count
    /\ UNCHANGED <<slotVars, client_count, clients_lock>>

AcceptUndoWrite ==
    /\ AcceptStep("undo_write", "undo_unlock")
    /\ client_count' = accept_count - 1
    /\ accept_count' = 0
    /\ UNCHANGED <<slotVars, clients_lock>>

\* pthread_mutex_unlock by a thread that does not hold the (default) mutex
\* releases it, whoever holds it.
AcceptUndoUnlock ==
    /\ AcceptStep("undo_unlock", "undo_close")
    /\ clients_lock' = "free"
    /\ UNCHANGED <<slotVars, client_count, accept_count>>

AcceptUndo ==
    /\ server_up
    /\ accept_pc = "undo_close"
    /\ CloseServerEnd(accept_fd)
    /\ AcceptForget
    /\ UNCHANGED <<down, client_end, server_up, listening, client_count, clients_lock, slotVars,
                   threadVars, ringVars, sim_pc, mainVars>>

AcceptUnlock ==
    /\ server_up
    /\ accept_pc = "unlock"
    /\ clients_lock' = "free"
    /\ AcceptForget
    /\ UNCHANGED <<networkVars, client_count, slotVars, threadVars, ringVars, sim_pc, mainVars>>

-------------------------------------------------------------------------------
(***************************************************************************)
(* The thread of the client in slot s.                                     *)
(***************************************************************************)
ThreadStep(s, from, to) ==
    /\ server_up
    /\ thread_pc[s] = from
    /\ thread_pc' = [thread_pc EXCEPT ![s] = to]

\* Announce the player in the current frame and prepare its first message.
ThreadInit(s) ==
    /\ ThreadStep(s, "init", "send_init")
    /\ StateLockFree
    /\ game_events' = [game_events EXCEPT ![Ring(server_frame)].player_events[s] = "JOIN"]
    /\ thread_msg' = [thread_msg EXCEPT ![s] =
                         InitPlayer(server_frame, game_states[Ring(server_frame)],
                                    game_events'[Ring(server_frame)], s)]
    /\ UNCHANGED <<networkVars, client_count, clients_lock, acceptVars, slotVars, removing,
                   server_frame, game_states, confirmed, truth, sim_pc, mainVars>>

\* Where the thread goes when it is back at the test of to_shutdown.
NextRecv == IF to_shutdown THEN "close" ELSE "listen"

\* The main thread has shut the connection of slot s and not closed it yet.
HalfShut(s) ==
    /\ main_pc = "close"
    /\ cd_fd[s] = cd_fd[main_slot]
    /\ cd_fd[s] \in Clients /\ server_end[cd_fd[s]] = "closed"
    /\ thread_pc[main_slot] # "forget"

ThreadSendInit(s) ==
    /\ ThreadStep(s, "send_init", NextRecv)
    /\ server_end[cd_fd[s]] = "open"
    /\ down' = Delivered(down, client_end, cd_fd[s], thread_msg[s])
    /\ thread_msg' = [thread_msg EXCEPT ![s] = NoMessage]
    /\ UNCHANGED <<up, client_end, server_end, server_up, listening, client_count, clients_lock, acceptVars,
                   slotVars, removing, ringVars, sim_pc, mainVars>>

\* The client or the socket is gone: send fails, or SIGPIPE ends the server.
ThreadSendInitFails(s) ==
    /\ ThreadStep(s, "send_init", "close")
    /\ client_end[cd_fd[s]] = "closed" \/ server_end[cd_fd[s]] = "closed"
    /\ thread_msg' = [thread_msg EXCEPT ![s] = NoMessage]
    /\ UNCHANGED <<networkVars, client_count, clients_lock, acceptVars, slotVars,
                   removing, ringVars, sim_pc, mainVars>>

ThreadSendInitKills(s) ==
    /\ server_up
    /\ thread_pc[s] = "send_init"
    /\ client_end[cd_fd[s]] = "closed" \/ HalfShut(s)
    /\ ServerDies
    /\ UNCHANGED <<down, client_end, serverVars>>

InputRefusedLate(s, frame) == \* mutant: one frame too far ahead
    \/ frame < server_frame
    \/ frame > server_frame + FRAME_BUFFER_SIZE
    \/ frame # cd_client_frame[s] + 1 /\ cd_client_frame[s] # -1

\* The three reasons to ignore an input, in the order they are tested.
InputRefused(s, frame) ==
    \/ frame < server_frame
    \/ frame >= server_frame + FRAME_BUFFER_SIZE
    \/ frame # cd_client_frame[s] + 1 /\ cd_client_frame[s] # -1

\* recv() returns one message or, with ByteStream, several: the first is taken for
\* all of them.
ThreadReceiving(s) ==
    /\ ThreadStep(s, "listen", NextRecv)
    /\ StateLockFree
    /\ ClientsLockFree
    /\ \E n \in RecvSizes(up[cd_fd[s]]) :
          up' = [up EXCEPT ![cd_fd[s]] = SubSeq(@, n + 1, Len(@))]
    /\ UNCHANGED <<down, client_end, server_end, server_up, listening, client_count, clients_lock, acceptVars,
                   cd_is_connected, cd_fd, thread_msg, removing, server_frame,
                   game_states, confirmed, truth, mainVars>>

ThreadStoreInput(s) ==
    /\ ThreadReceiving(s)
    /\ LET m == Head(up[cd_fd[s]])
       IN  /\ ~InputRefused(s, m.frame)
           /\ game_events' = [game_events EXCEPT ![Ring(m.frame)].player_inputs[s] = m.input]
           /\ cd_client_frame' = [cd_client_frame EXCEPT ![s] = m.frame]
    /\ IF CanSimulate(client_count, cd_client_frame') THEN SignalSimulation ELSE UNCHANGED sim_pc

ThreadIgnoreInput(s) ==
    /\ ThreadReceiving(s)
    /\ InputRefused(s, Head(up[cd_fd[s]]).frame)
    /\ UNCHANGED <<game_events, cd_client_frame, sim_pc>>

\* recv() returned a part of a message: an assertion of
\* deserialize_p2s_frame_inputs fails, now or on the other part, and ends the server.
ThreadRecvPart(s) ==
    /\ ByteStream
    /\ server_up
    /\ thread_pc[s] = "listen"
    /\ up[cd_fd[s]] # <<>>
    /\ ServerDies
    /\ UNCHANGED <<down, client_end, serverVars>>

\* recv() returned 0 or an error; a reset may have discarded inputs in flight.
ThreadRecvEnd(s) ==
    /\ ThreadStep(s, "listen", "close")
    /\ client_end[cd_fd[s]] = "closed" \/ server_end[cd_fd[s]] = "closed"
    /\ UNCHANGED <<networkVars, client_count, clients_lock, acceptVars, slotVars, thread_msg,
                   removing, ringVars, sim_pc, mainVars>>

\* cleanup: close the socket, forget its descriptor, announce the departure, give
\* the slot back.
ThreadClose(s) ==
    /\ ThreadStep(s, "close", "forget")
    /\ CloseServerEnd(cd_fd[s])
    /\ UNCHANGED <<down, client_end, server_up, listening, client_count, clients_lock, acceptVars, slotVars,
                   thread_msg, removing, ringVars, sim_pc, mainVars>>

ThreadForgetFd(s) ==
    /\ ThreadStep(s, "forget", "leave")
    /\ cd_fd' = [cd_fd EXCEPT ![s] = NoFd]
    /\ UNCHANGED <<networkVars, client_count, clients_lock, acceptVars, cd_is_connected,
                   cd_client_frame, thread_msg, removing, ringVars, sim_pc, mainVars>>

ThreadLeave(s) ==
    /\ ThreadStep(s, "leave", "remove")
    /\ StateLockFree
    /\ game_events' = [game_events EXCEPT ![Ring(server_frame)].player_events[s] = "LEAVE"]
    /\ UNCHANGED <<networkVars, client_count, clients_lock, acceptVars, slotVars, thread_msg,
                   removing, server_frame, game_states, confirmed, truth, sim_pc, mainVars>>

\* client_count-- is a load and a store here too, under clients_lock; which the accept
\* thread may release in between, so that even the slot's next thread may get there.
ThreadRemove(s) ==
    /\ ThreadStep(s, "remove", "none")
    /\ ClientsLockFree
    /\ clients_lock' = "cleanup"
    /\ cd_is_connected' = [cd_is_connected EXCEPT ![s] = FALSE]
    /\ removing' = [removing EXCEPT ![s] = Append(@, client_count)]
    /\ UNCHANGED <<networkVars, client_count, acceptVars, cd_fd, cd_client_frame, thread_msg,
                   ringVars, sim_pc, mainVars>>

ThreadRemoved(s) ==
    /\ server_up
    /\ \E i \in DOMAIN removing[s] :
          /\ client_count' = removing[s][i] - 1
          /\ removing' = [removing EXCEPT ![s] = SubSeq(@, 1, i - 1) \o SubSeq(@, i + 1, Len(@))]
    /\ clients_lock' = "free"
    /\ UNCHANGED <<networkVars, acceptVars, slotVars, thread_pc, thread_msg, ringVars, sim_pc, mainVars>>

-------------------------------------------------------------------------------
(***************************************************************************)
(* The simulation thread.                                                  *)
(***************************************************************************)
\* MaxFrame bounds the run here, where no lock is held.
SimTest ==
    /\ server_up
    /\ sim_pc = "test"
    /\ ~to_shutdown
    /\ ClientsLockFree
    /\ server_frame < MaxFrame
    /\ sim_pc' = IF CanSimulate(client_count, cd_client_frame) THEN "simulate" ELSE "waiting"
    /\ UNCHANGED <<networkVars, client_count, clients_lock, acceptVars, slotVars, threadVars, ringVars,
                   mainVars>>

\* It had read to_shutdown as clear before the main thread set it (BeginShutdown), and
\* reads it again only if it need not wait; the signal may have been sent by now.
SimTestLate ==
    /\ server_up
    /\ sim_pc = "tested"
    /\ ClientsLockFree
    /\ sim_pc' = IF CanSimulate(client_count, cd_client_frame) THEN "ended" ELSE "waiting_late"
    /\ UNCHANGED <<networkVars, client_count, clients_lock, acceptVars, slotVars, threadVars, ringVars,
                   mainVars>>

SimStopsInside == \* mutant: to_shutdown is not tested before the wait
    /\ server_up
    /\ sim_pc = "simulate"
    /\ to_shutdown
    /\ sim_pc' = "ended"
    /\ UNCHANGED <<networkVars, client_count, clients_lock, acceptVars, slotVars, threadVars, ringVars,
                   mainVars>>

\* One of the three tests of to_shutdown, two of them before the frame is simulated.
SimStops ==
    /\ server_up
    /\ sim_pc \in {"test", "simulate"}
    /\ to_shutdown
    /\ sim_pc' = "ended"
    /\ UNCHANGED <<networkVars, client_count, clients_lock, acceptVars, slotVars, threadVars, ringVars,
                   mainVars>>

\* pthread_cond_wait may return without a signal.
SimSpuriousWakeup ==
    /\ server_up
    /\ sim_pc \in {"waiting", "waiting_late"}
    /\ sim_pc' = "test"
    /\ UNCHANGED <<networkVars, client_count, clients_lock, acceptVars, slotVars, threadVars, ringVars,
                   mainVars>>

CurrentEvents == game_events[Ring(server_frame)]
NextState == GameSimulate(game_states[Ring(server_frame)], CurrentEvents)

\* The slots game_server_broadcast reaches somebody through, and the streams after
\* it has sent m through some of them: a connection named by two slots gets it twice.
BroadcastTo == {s \in Slots : /\ cd_is_connected[s]
                              /\ cd_fd[s] # NoFd
                              /\ server_end[cd_fd[s]] = "open"}

Copies(slots, c) == IF client_end[c] = "open" THEN Cardinality({s \in slots : cd_fd[s] = c}) ELSE 0

Broadcast(slots, m) == [c \in Clients |-> down[c] \o [i \in 1 .. Copies(slots, c) |-> m]]

SimSimulating ==
    /\ server_up
    /\ sim_pc = "simulate"
    /\ ClientsLockFree
    /\ game_states' = [game_states EXCEPT ![Ring(server_frame + 1)] = NextState]
    /\ confirmed' = Append(confirmed, CurrentEvents)
    /\ truth' = Append(truth, NextState)

SimStep ==
    /\ SimSimulating
    /\ down' = Broadcast(BroadcastTo, FrameGameEvents(server_frame, CurrentEvents))
    /\ server_frame' = server_frame + 1
    /\ game_events' = [game_events EXCEPT ![Ring(server_frame + 1)] = NoEvents]
    /\ sim_pc' = "test"
    /\ UNCHANGED <<up, client_end, server_end, server_up, listening, client_count, clients_lock, acceptVars,
                   slotVars, threadVars, mainVars>>

\* A client of the broadcast has closed its end, or the main thread has shut the
\* socket, and send raises SIGPIPE; the slots before it have been sent the frame.
SimKills ==
    /\ SimSimulating
    /\ \E s \in Slots :
          /\ cd_is_connected[s]
          /\ (s \in BroadcastTo /\ client_end[cd_fd[s]] = "closed") \/ HalfShut(s)
          /\ down' = Broadcast({t \in BroadcastTo : t < s},
                               FrameGameEvents(server_frame, CurrentEvents))
    /\ ServerDies
    /\ UNCHANGED <<client_end, client_count, clients_lock, acceptVars, slotVars, threadVars,
                   server_frame, game_events, sim_pc, mainVars>>

-------------------------------------------------------------------------------
AcceptThread ==
    \/ \E c \in Clients : AcceptConnection(c)
    \/ AcceptStops
    \/ AcceptLimitReached \/ AcceptNoSlot
    \/ \E s \in Slots : AcceptFindSlot(s)
    \/ AcceptMark \/ AcceptSetFd \/ AcceptSetFrame \/ AcceptCountRead \/ AcceptCountWrite
    \/ AcceptSpawn \/ AcceptUnlock
    \/ AcceptSpawnFails \/ AcceptUndoFd \/ AcceptUndoRead \/ AcceptUndoWrite \/ AcceptUndoUnlock \/ AcceptUndo

ClientThread(s) ==
    \/ ThreadInit(s) \/ ThreadSendInit(s) \/ ThreadSendInitFails(s) \/ ThreadSendInitKills(s)
    \/ ThreadStoreInput(s) \/ ThreadIgnoreInput(s) \/ ThreadRecvPart(s) \/ ThreadRecvEnd(s)
    \/ ThreadClose(s) \/ ThreadForgetFd(s) \/ ThreadLeave(s) \/ ThreadRemove(s) \/ ThreadRemoved(s)

SimulationThread == SimTest \/ SimTestLate \/ SimStops \/ SimStep \/ SimKills

ServerThreads ==
    \/ AcceptThread
    \/ \E s \in Slots : ClientThread(s)
    \/ SimulationThread
    \/ SimSpuriousWakeup

-------------------------------------------------------------------------------
(***************************************************************************)
(* Properties of the server.                                               *)
(***************************************************************************)
\* The client of slot s has been (or is being) told the frame it starts at, and
\* the server has not noticed its departure.
Joined(s) == thread_pc[s] \in {"send_init", "listen"}

(***************************************************************************)
(* Lockstep: the newest input the server holds of a joined client is never *)
(* older than the frame before the one being assembled, and never so new   *)
(* that its ring entry is shared with the frame being assembled            *)
(* (gameserver.c:295 to 324, 446 to 454).                                  *)
(***************************************************************************)
Lockstep ==
    \A s \in Slots : Joined(s) =>
        \/ cd_client_frame[s] = -1
        \/ server_frame - 1 <= cd_client_frame[s] /\ cd_client_frame[s] < server_frame + FRAME_BUFFER_SIZE

(***************************************************************************)
(* "Wait to have all clients frames" (gameserver.c:376): a frame is not    *)
(* simulated before the input for it of every joined client has arrived,   *)
(* although clients join and leave between the test and the simulation.    *)
(***************************************************************************)
NeverAheadOfInputs ==
    [][server_frame' # server_frame =>
          \A s \in Slots : Joined(s) => cd_client_frame[s] >= server_frame]_server_frame

(***************************************************************************)
(* A slot changes hands safely although the accept thread fills it without *)
(* the lock (gameserver.c:184 to 226, 337 to 361): the slot it is filling  *)
(* has no thread left, it stays marked as connected from then until its    *)
(* thread gives it back, and no two slots use one connection: a slot can   *)
(* only name another's while its thread has closed its own descriptor and  *)
(* not forgotten it yet (gameserver.c:344, 345).                           *)
(***************************************************************************)
Filling == accept_pc \in {"mark", "set_fd", "set_frame", "count_read", "count_write",
                          "spawn"} \cup Undoing
Filled  == accept_pc \in {"set_fd", "set_frame", "count_read", "count_write", "spawn"}

SlotHandover ==
    /\ Filling => thread_pc[accept_slot] = "none"
    /\ Filled => cd_is_connected[accept_slot]
    /\ \A s \in Slots : thread_pc[s] # "none" => cd_is_connected[s]
    /\ \A s, t \in Slots : s # t /\ cd_fd[s] = cd_fd[t] =>
          cd_fd[s] = NoFd \/ thread_pc[s] = "forget" \/ thread_pc[t] = "forget"

(***************************************************************************)
(* No join or departure is lost or doubled (gameserver.c:252, 352 and the  *)
(* memset at 404): once the events of the frame being assembled are        *)
(* applied, the players in the game are those whose thread has announced   *)
(* them and has not announced that they left.                              *)
(***************************************************************************)
InGame(s) == HandleEvent(game_states[Ring(server_frame)][s], CurrentEvents.player_events[s]).active

RosterMatchesThreads ==
    \A s \in Slots : InGame(s) <=> thread_pc[s] \in {"send_init", "listen", "close", "forget", "leave"}

-------------------------------------------------------------------------------
(***************************************************************************)
(* What a comment of the server promises and its code does not keep.       *)
(***************************************************************************)
\* "If no slot was available then reject the client" (gameserver.c:189): the
\* accept thread waits for the next client without a lock.
RejectReleases == clients_lock # "accept"

===============================================================================
