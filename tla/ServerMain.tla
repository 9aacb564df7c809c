------------------------------ MODULE ServerMain ------------------------------
(***************************************************************************)
(* The server program (server/main.c): its main thread starts the server,  *)
(* waits for a signal and then runs game_server_shutdown, in steps between *)
(* which the other threads, which it has to stop, run on.                  *)
(***************************************************************************)
EXTENDS GameServer

CONSTANT MayStop   \* whether the server may be sent SIGINT or SIGTERM

ASSUME MainAssumption == MayStop \in BOOLEAN

MainStep(from, to) ==
    /\ server_up
    /\ main_pc = from
    /\ main_pc' = to
    /\ UNCHANGED <<up, down, client_end, server_up, client_count, clients_lock, acceptVars,
                   slotVars, thread_msg, removing, ringVars>>

(***************************************************************************)
(* pause() returns, or the simulation thread could not be started and the  *)
(* initialisation ends like that; to_shutdown is set and the listening     *)
(* socket shut.  A client thread that is about to test the flag will not   *)
(* listen again, and the simulation thread may have tested it just before. *)
(***************************************************************************)
BeginShutdown ==
    /\ MayStop \/ sim_pc = "ended"
    /\ MainStep("pause", "count")
    /\ listening' = FALSE
    /\ \E testing \in SUBSET {s \in Slots : thread_pc[s] = "listen"} :
          thread_pc' = [s \in Slots |-> IF s \in testing THEN "close" ELSE thread_pc[s]]
    /\ sim_pc' \in {sim_pc} \cup (IF sim_pc = "test" THEN {"tested"} ELSE {})
    /\ UNCHANGED <<server_end, main_slot>>

MainCountMany(from, some, none) == \* mutant: the last client is not counted
    /\ MainStep(from, IF client_count > 1 THEN some ELSE none)
    /\ UNCHANGED <<server_end, listening, thread_pc, sim_pc, main_slot>>

\* if (server->client_count > 0), before the sockets are shut and before the joins
MainCount(from, some, none) ==
    /\ MainStep(from, IF client_count > 0 THEN some ELSE none)
    /\ UNCHANGED <<server_end, listening, thread_pc, sim_pc, main_slot>>

\* The next slot of a loop over all of them, or what comes after it.
NextSlot(loop, after) ==
    IF main_slot + 1 \in Slots
    THEN MainStep(main_pc, loop) /\ main_slot' = main_slot + 1
    ELSE MainStep(main_pc, after) /\ main_slot' = 0

MainSkipClient ==
    /\ main_pc = "walk"
    /\ ~cd_is_connected[main_slot]
    /\ NextSlot("walk", "signal")
    /\ UNCHANGED <<server_end, listening, thread_pc, sim_pc>>

\* shutdown() and close() of the socket of a slot, without a lock.  What the thread has
\* received already, it may still handle.
MainShutClient ==
    /\ MainStep("walk", "close")
    /\ cd_is_connected[main_slot]
    /\ server_end' = [c \in Clients |-> IF cd_fd[main_slot] = c THEN "closed" ELSE server_end[c]]
    /\ UNCHANGED <<listening, thread_pc, sim_pc, main_slot>>

MainCloseClient ==
    /\ main_pc = "close"
    /\ NextSlot("walk", "signal")
    /\ UNCHANGED <<server_end, listening, thread_pc, sim_pc>>

MainSignalNobody == \* mutant: the simulation thread is not woken
    /\ MainStep("signal", "join_sim")
    /\ UNCHANGED <<server_end, listening, thread_pc, main_slot, sim_pc>>

MainSignal ==
    /\ MainStep("signal", "join_sim")
    /\ SignalSimulation
    /\ UNCHANGED <<server_end, listening, thread_pc, main_slot>>

MainJoinSimulation ==
    /\ MainStep("join_sim", "join_accept")
    /\ sim_pc = "ended"
    /\ UNCHANGED <<server_end, listening, thread_pc, sim_pc, main_slot>>

MainJoinAccept ==
    /\ MainStep("join_accept", "recount")
    /\ accept_pc = "ended"
    /\ UNCHANGED <<server_end, listening, thread_pc, sim_pc, main_slot>>

MainJoinNobody == \* mutant: no thread is waited for
    /\ main_pc = "join_clients"
    /\ NextSlot("join_clients", "destroy")
    /\ UNCHANGED <<server_end, listening, thread_pc, sim_pc>>

\* The thread of a connected slot is waited for, and has then cleared is_connected and
\* fd itself; a slot that is not connected is passed over, even if its thread has not
\* ended yet.
MainJoinClient ==
    /\ main_pc = "join_clients"
    /\ ~cd_is_connected[main_slot]
    /\ NextSlot("join_clients", "destroy")
    /\ UNCHANGED <<server_end, listening, thread_pc, sim_pc>>

\* The mutexes are destroyed, main() returns, and whatever still runs ends with it.
MainReturns ==
    /\ server_up
    /\ main_pc = "destroy"
    /\ main_pc' = "done"
    /\ ServerDies
    /\ UNCHANGED <<down, client_end, client_count, clients_lock, acceptVars, slotVars, threadVars,
                   ringVars, sim_pc, main_slot>>

ServerShutdown ==
    \/ MainCount("count", "walk", "signal")
    \/ MainSkipClient \/ MainShutClient \/ MainCloseClient
    \/ MainSignal \/ MainJoinSimulation \/ MainJoinAccept
    \/ MainCount("recount", "join_clients", "destroy")
    \/ MainJoinClient \/ MainReturns

ServerNext == ServerThreads \/ BeginShutdown \/ ServerShutdown

-------------------------------------------------------------------------------
(***************************************************************************)
(* Which threads can go on, by what each of them may have to wait for: a   *)
(* lock, a connection, a message, the condition or another thread's end.   *)
(***************************************************************************)
AcceptGoesOn ==
    \/ accept_pc = "accept" /\ (to_shutdown \/ Backlog # {})
    \/ accept_pc = "lock" /\ ClientsLockFree
    \/ accept_pc \notin {"accept", "lock", "ended"}

Hears(s) ==
    \/ client_end[cd_fd[s]] = "closed" \/ server_end[cd_fd[s]] = "closed"
    \/ up[cd_fd[s]] # <<>> /\ (ByteStream \/ (StateLockFree /\ ClientsLockFree))

ThreadGoesOn(s) ==
    \/ thread_pc[s] \in {"send_init", "close", "forget"}
    \/ thread_pc[s] \in {"init", "leave"} /\ StateLockFree
    \/ thread_pc[s] = "listen" /\ Hears(s)
    \/ thread_pc[s] = "remove" /\ ClientsLockFree
    \/ removing[s] # <<>>

SimulationGoesOn ==
    \/ sim_pc \in {"test", "simulate"} /\ to_shutdown
    \/ sim_pc = "test" /\ ClientsLockFree /\ server_frame < MaxFrame
    \/ sim_pc \in {"tested", "simulate"} /\ ClientsLockFree

MainGoesOn ==
    \/ main_pc = "pause" /\ sim_pc = "ended"
    \/ main_pc \in {"count", "walk", "close", "signal", "recount", "destroy"}
    \/ main_pc = "join_sim" /\ sim_pc = "ended"
    \/ main_pc = "join_accept" /\ accept_pc = "ended"
    \/ main_pc = "join_clients" /\ ~cd_is_connected[main_slot]

SomeoneGoesOn == AcceptGoesOn \/ (\E s \in Slots : ThreadGoesOn(s)) \/ SimulationGoesOn \/ MainGoesOn

\* That is all they wait for: then, and only then, one of them has a step to take.
WaitsForNoMore ==
    server_up =>
        (SomeoneGoesOn <=> ENABLED (AcceptThread \/ (\E s \in Slots : ClientThread(s))
                                      \/ SimulationThread \/ ServerShutdown
                                      \/ (sim_pc = "ended" /\ BeginShutdown)))

(***************************************************************************)
(* "This should cause each of the threads to exit out" (gameserver.c:89).  *)
(* Whatever the threads and the clients are doing when the signal comes,   *)
(* the threads never all wait for one another before the program ends, but *)
(* for three causes: the simulation thread missed the signal, which is     *)
(* sent without state_lock (gameserver.c:110, 377 to 379); the accept      *)
(* thread left clients_lock locked (194); or the main thread passed over a *)
(* thread that listens.                                                    *)
(***************************************************************************)
SignalMissed == main_pc = "join_sim" /\ sim_pc = "waiting_late"
LockLeft     == clients_lock = "accept"
PassedOver   == \E s \in Slots : thread_pc[s] = "listen" /\ server_end[cd_fd[s]] = "open"

ShutdownNotStuck ==
    server_up /\ to_shutdown => SomeoneGoesOn \/ SignalMissed \/ LockLeft \/ PassedOver

(***************************************************************************)
(* The main thread passes over a thread that listens only if a lost update *)
(* has made the count too small (gameserver.c:98, 203, 357): when it is    *)
(* done with the sockets, although it walked the slots without a lock,     *)
(* those of all threads that listen are shut.                              *)
(***************************************************************************)
Connected == {s \in Slots : cd_is_connected[s]}
CountLost == client_count < Cardinality(Connected)

SocketsShut ==
    [][main_pc # "signal" /\ main_pc' = "signal" => ~PassedOver \/ CountLost]_main_pc

(***************************************************************************)
(* "Now wait for all the threads to exit correctly" (gameserver.c:112):    *)
(* the mutexes are destroyed (137) only when the accept and the simulation *)
(* thread have ended and every client thread has at least given its slot   *)
(* back, although a thread may come or go while the slots are walked; but  *)
(* for a count that a lost update made too small.  The thread's last steps *)
(* under clients_lock may still be to come: it is not joined (126).        *)
(***************************************************************************)
ThreadsJoined ==
    [][main_pc # "destroy" /\ main_pc' = "destroy" =>
          /\ accept_pc = "ended" /\ sim_pc = "ended"
          /\ (\A s \in Slots : thread_pc[s] = "none") \/ CountLost]_main_pc

(***************************************************************************)
(* "We can simulate 1 more server frame if" (gameserver.c:434 to 454): the *)
(* condition becomes true behind the back of the thread that waits for it  *)
(* only when a slot is given back (gameserver.c:212, 359), or after a lost *)
(* update of client_count that left a client's thread uncounted (203,      *)
(* 360): an input that completes the frame always wakes it (328 to 332),   *)
(* and a client that joins never completes one.                            *)
(***************************************************************************)
HasThread(s)  == thread_pc[s] # "none"
FrameMissed   == /\ sim_pc = "waiting" /\ CanSimulate(client_count, cd_client_frame)
                 /\ \E s \in Slots : HasThread(s)
NobodyCounted == client_count = 0 /\ \E s \in Slots : HasThread(s)
SlotGivenBack == \E s \in Slots : cd_is_connected[s] /\ ~cd_is_connected'[s]

WakeupsSent ==
    [][FrameMissed' => FrameMissed \/ SlotGivenBack \/ NobodyCounted]_serverVars

-------------------------------------------------------------------------------
(***************************************************************************)
(* Why the server's properties hold: an invariant that every step keeps.   *)
(***************************************************************************)
\* The accept thread fills a slot that no thread has, from one connection; once
\* stored there (gameserver.c:199 to 203) nobody else changes what it stored.
SlotBeingFilled ==
    /\ accept_pc \notin {"accept", "ended"} => accept_fd \in Clients /\ server_end[accept_fd] # "none"
    /\ accept_pc \notin {"accept", "unlock", "ended"} /\ server_up /\ ~to_shutdown => server_end[accept_fd] = "open"
    /\ Filling => thread_pc[accept_slot] = "none"
    /\ Filled => cd_is_connected[accept_slot]
    /\ accept_pc \in {"lock", "mark", "set_fd"} \cup (Undoing \ {"undo_fd"}) =>
          \A s \in Slots : cd_fd[s] = accept_fd => thread_pc[s] = "forget"
    /\ accept_pc \in {"set_frame", "count_read", "count_write", "spawn", "undo_fd"} =>
          cd_fd[accept_slot] = accept_fd
    /\ accept_pc \in {"count_read", "count_write", "spawn"} => cd_client_frame[accept_slot] = -1

\* A slot with a thread is connected, has an open connection of its own until the
\* thread closes it, and no input until its client has been told where it starts.
SlotInUse ==
    \A s \in Slots :
        /\ thread_pc[s] # "none" => cd_is_connected[s]
        /\ thread_pc[s] \in {"init", "send_init", "listen", "close", "forget"} => cd_fd[s] \in Clients
        /\ thread_pc[s] \in {"init", "send_init"} => cd_client_frame[s] = -1
        /\ thread_pc[s] = "send_init" => thread_msg[s] \in InitMessage
        /\ cd_fd[s] \in Clients => server_end[cd_fd[s]] # "none"
        /\ cd_fd[s] \in Clients /\ thread_pc[s] # "forget" /\ server_up /\ ~to_shutdown =>
              server_end[cd_fd[s]] = "open"
        /\ \A t \in Slots : s # t /\ cd_fd[s] = cd_fd[t] =>
              cd_fd[s] = NoFd \/ thread_pc[s] = "forget" \/ thread_pc[t] = "forget"

\* Only what a client has connected has a server end.
ConnectedFirst == \A c \in Clients : server_end[c] # "none" => client_end[c] # "none"

\* Between the test and the simulation the simulation thread keeps state_lock, and
\* what it tested stays true of all clients that were announced (gameserver.c:374 to 406).
SimReady ==
    sim_pc = "simulate" =>
        \A s \in Slots : thread_pc[s] \notin {"none", "init"} => cd_client_frame[s] >= server_frame

\* The listening socket is shut once, by the main thread when it is done waiting.
StopsOnce == listening <=> main_pc = "pause"

ServerInv ==
    /\ StopsOnce
    /\ SlotBeingFilled
    /\ SlotInUse
    /\ ConnectedFirst
    /\ SimReady
    /\ Lockstep

-------------------------------------------------------------------------------
(***************************************************************************)
(* Why the shutdown comes to an end: an invariant that every step keeps.   *)
(***************************************************************************)
\* What the main thread has waited for stays as it is (gameserver.c:112 to 135): no
\* thread is started any more, and a slot that was given back is not filled again.
JoinsInOrder ==
    /\ main_pc \in {"join_accept", "recount", "join_clients", "destroy", "done"} => sim_pc = "ended"
    /\ main_pc \in {"recount", "join_clients", "destroy", "done"} => accept_pc = "ended"
    /\ main_pc \notin {"walk", "close", "join_clients"} => main_slot = 0
    /\ main_pc = "join_clients" => \A s \in Slots : s < main_slot => ~cd_is_connected[s]

\* The sockets of the slots behind the main thread are shut (gameserver.c:99 to 106).
ShutBehind(n) == \A s \in Slots : thread_pc[s] = "listen" /\ s < n => server_end[cd_fd[s]] = "closed"

SocketsShutSoFar ==
    /\ main_pc = "walk" => ShutBehind(main_slot)
    /\ main_pc = "close" => ShutBehind(main_slot + 1)

\* A lock that is taken has an owner that will release it, a slot that is connected and
\* not being filled has a thread, a signal that is sent wakes who waits for it.
WaitsEnd ==
    /\ clients_lock = "cleanup" => \E s \in Slots : removing[s] # <<>>
    /\ \A s \in Slots : cd_is_connected[s] => thread_pc[s] # "none" \/ (Filled /\ accept_slot = s)
    /\ main_pc \notin {"pause", "count", "walk", "close", "signal"} => sim_pc # "waiting"
    /\ main_pc = "done" => ~server_up

ShutdownInv == JoinsInOrder /\ SocketsShutSoFar /\ WaitsEnd

===============================================================================
