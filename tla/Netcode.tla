------------------------------- MODULE Netcode --------------------------------
(***************************************************************************)
(* The whole system: one server, its clients, and the connections between  *)
(* them.  A step is a step of one thread of one program.                   *)
(***************************************************************************)
EXTENDS ServerMain, GameClient

vars == <<networkVars, serverVars, clientVars>>

Init == NetworkInit /\ ServerInit /\ ClientInit

Next ==
    \/ ServerNext /\ UNCHANGED clientVars
    \/ ClientNext /\ UNCHANGED serverVars

Spec == Init /\ [][Next]_vars

\* The main thread of a client whose window nobody closes.
MainUnclosed(c) == MainThread(c) \/ (~c_is_connected[c] /\ ClientShutdown(c))

(***************************************************************************)
(* Every thread that can run without end does run, and main() leaves its   *)
(* loop once the connection is gone.  No more than that: nobody has to     *)
(* close a window, nothing ever has to wake a waiting thread without a     *)
(* signal, and a mutex need not be handed over to the thread that waits    *)
(* for it, when the one that gave it up may take it again at once.         *)
(***************************************************************************)
ThreadFairness ==
    /\ WF_vars(AcceptThread /\ UNCHANGED clientVars)
    /\ \A s \in Slots : WF_vars(ClientThread(s) /\ UNCHANGED clientVars)
    /\ WF_vars(SimulationThread /\ UNCHANGED clientVars)
    /\ \A c \in Clients :
          /\ WF_vars(MainUnclosed(c) /\ UNCHANGED serverVars)
          /\ WF_vars(RecvThread(c) /\ UNCHANGED serverVars)

FairSpec == Spec /\ ThreadFairness

TypeOK == NetworkTypeOK /\ ServerTypeOK /\ ClientTypeOK

-------------------------------------------------------------------------------
(***************************************************************************)
(* What the two ends rely on of each other.                                *)
(***************************************************************************)
Listening(s) == server_up /\ thread_pc[s] = "listen"

(***************************************************************************)
(* The client's throttle (client/main.c:76) and the server's window are    *)
(* made for each other: whatever the interleaving of predictions, frames   *)
(* confirmed, joins and leaves, an input in flight names its own slot (the *)
(* assert of gameserver.c:285), the inputs of a client are in flight       *)
(* without a gap, and none is for a frame the server ignores as too old or *)
(* too new (gameserver.c:295, 304), neither now nor later.  Nor is one out *)
(* of turn (gameserver.c:313), as long as one recv() is one message: two   *)
(* taken for one leave a gap, and from then on every input is refused.     *)
(***************************************************************************)
NoInputRefused ==
    \A s \in Slots : Listening(s) =>
        LET queue == up[cd_fd[s]] IN
        \A k \in DOMAIN queue :
            /\ queue[k].client_index = s
            /\ queue[k].frame = queue[1].frame + k - 1
            /\ server_frame <= queue[k].frame
            /\ queue[k].frame < server_frame + FRAME_BUFFER_SIZE
            /\ ~ByteStream => ~InputRefused(s, queue[1].frame)

(***************************************************************************)
(* "sync %d <= server %d <= client %d" (gameclient.c:192), for a client    *)
(* that has been told where it starts; and the frames from the last one    *)
(* reconciled to the one predicted fit in the rings (client/main.c:76).    *)
(***************************************************************************)
InOrder(c) ==
    /\ c_joined[c] <= c_sync_frame[c]
    /\ c_sync_frame[c] <= c_server_frame[c]
    /\ c_server_frame[c] <= c_client_frame[c]
    /\ c_client_frame[c] <= c_sync_frame[c] + FRAME_BUFFER_SIZE - 1

FrameOrder == \A c \in Clients : c_is_initialised[c] => InOrder(c)

(***************************************************************************)
(* The events the client holds of the frames confirmed to it, as far back  *)
(* as its ring goes, are those the server simulated: neither a prediction, *)
(* nor the clearing of a ring entry (client/main.c:98 to 100), nor a lost  *)
(* or doubled broadcast ever spoils one (gameclient.c:163 to 172).         *)
(***************************************************************************)
InRing(c, f) == f > c_client_frame[c] - FRAME_BUFFER_SIZE

ConfirmedKept ==
    \A c \in Clients : c_is_initialised[c] =>
        \A f \in c_joined[c] + 1 .. c_server_frame[c] :
            InRing(c, f) => c_events[c][Ring(f)] = confirmed[f + 1]

(***************************************************************************)
(* A local input stays in its ring entry until the server's events replace *)
(* it (gameclient.c:172, client/main.c:84 to 100): re-simulation from the  *)
(* confirmed frame uses what the player really did.                        *)
(***************************************************************************)
Issued(c, f) == c_issued[c][f - c_joined[c] + 1]

PredictionKept ==
    \A c \in Clients : c_is_initialised[c] =>
        \A f \in c_server_frame[c] + 1 .. c_client_frame[c] - 1 :
            c_events[c][Ring(f)].player_inputs[c_client_index[c]] = Issued(c, f)

(***************************************************************************)
(* Rollback works (gameclient.c:195 to 218): between two messages, a       *)
(* client that joined at frame 0 has for the last frame confirmed to it    *)
(* exactly the state the server computed for that frame.                   *)
(***************************************************************************)
Settled(c) == c_is_initialised[c] /\ c_recv_pc[c] = "recv"

Agrees(c) == c_states[c][Ring(c_sync_frame[c])] = truth[c_sync_frame[c] + 1]

FollowsServer ==
    \A c \in Clients : Settled(c) /\ c_joined[c] = 0 => Agrees(c)

(***************************************************************************)
(* The state the player sees is the confirmed one advanced by the local    *)
(* events, never a stale prediction (gameclient.c:208 to 218): each state  *)
(* of the ring after the confirmed one follows from the one before it.     *)
(***************************************************************************)
PredictionFresh ==
    \A c \in Clients : Settled(c) =>
        \A f \in c_sync_frame[c] .. c_client_frame[c] - 1 :
            c_states[c][Ring(f + 1)] = GameSimulate(c_states[c][Ring(f)], c_events[c][Ring(f)])

(***************************************************************************)
(* A confirmed frame never holds, for the slot of a client that has joined *)
(* before it, an input other than the one its player gave for that very    *)
(* frame; it may hold none (gameserver.c:322 to 324, 403, 404).            *)
(***************************************************************************)
OwnInput(c, f, input) ==
    \/ input = NoInput
    \/ f - c_joined[c] < Len(c_issued[c]) /\ input = Issued(c, f)

Attributed(c, f) == OwnInput(c, f, confirmed[f + 1].player_inputs[c_client_index[c]])

NoForeignInput ==
    \A c \in Clients : c_is_initialised[c] =>
        \A f \in c_joined[c] .. Len(confirmed) - 1 : Attributed(c, f)

(***************************************************************************)
(* What is in flight to or from a client that plays never exceeds its      *)
(* throttle (client/main.c:76), the frames once for each slot that may     *)
(* name its connection: send() is called with state_lock and clients_lock  *)
(* held (gameserver.c:398, 422), and would stop everyone if it had to wait. *)
(***************************************************************************)
InputsInFlight == \A c \in Clients : Len(up[c]) <= FRAME_BUFFER_SIZE - 1

FramesInFlight ==
    \A c \in Clients : c_is_initialised[c] => Len(down[c]) <= MAX_CLIENTS * (FRAME_BUFFER_SIZE - 1)

ChannelBound == InputsInFlight /\ FramesInFlight

(***************************************************************************)
(* Nor is it without bound before the client reads its first message,      *)
(* while frames reach it through slots whose last client's inputs still    *)
(* count (gameserver.c:199, 345, 451): as many through each of them, the   *)
(* one that was being simulated when its slot was filled, and the message. *)
(***************************************************************************)
EarlyBound ==
    \A c \in Clients : ~c_is_initialised[c] => Len(down[c]) <= MAX_CLIENTS * (FRAME_BUFFER_SIZE - 1) + 2

-------------------------------------------------------------------------------
(***************************************************************************)
(* Why frames stay in order: an invariant that every step keeps.           *)
(***************************************************************************)
\* A client that has been told where it starts has an open end; without one it has no
\* messages left to read.
UsesOpenEnd(c) ==
    /\ c_is_initialised[c] =>
          client_end[c] = "open" /\ c_client_index[c] \in Slots /\ c_joined[c] \in Nat
    /\ c_main_pc[c] = "new" => client_end[c] = "none"
    /\ c_main_pc[c] = "send" => c_is_initialised[c] /\ c_client_frame[c] > 0
    /\ client_end[c] # "open" => down[c] = <<>>

\* MSG_S2P_INIT_PLAYER is sent once over a connection (gameserver.c:246 to 257) ...
Told(c) == c_is_initialised[c] \/ \E k \in DOMAIN down[c] : down[c][k].type = "INIT"

NotYetTold(c) ==
    \/ server_end[c] = "none"
    \/ accept_pc \notin {"accept", "unlock", "ended"} /\ accept_fd = c
    \/ \E s \in Slots : thread_pc[s] \in {"init", "send_init"} /\ cd_fd[s] = c

ToldOnce(c) == NotYetTold(c) => ~Told(c)

\* ... and as long as the connection is open, a thread has it that told the client.
Serves(s, c) == thread_pc[s] \in {"listen", "close"} /\ cd_fd[s] = c

ServedWhenTold(c) == Told(c) /\ server_end[c] = "open" => \E s \in Slots : Serves(s, c)

\* The server has no input of a client that does not know where it starts, and none for
\* a frame the client has not predicted (client/main.c:74 to 105).
OnlyPredicted(c) ==
    /\ c_is_initialised[c] =>
          /\ \A k \in DOMAIN up[c] : up[c][k].frame < c_client_frame[c]
          /\ \A s \in Slots : Serves(s, c) => cd_client_frame[s] < c_client_frame[c]
    /\ ~c_is_initialised[c] /\ client_end[c] # "closed" =>
          /\ up[c] = <<>>
          /\ \A s \in Slots : Serves(s, c) => cd_client_frame[s] = -1

\* So no frame follows the first message before it is read, and the frames that follow
\* it later come in order, none before the last one confirmed or after the last one
\* predicted.
InFlight(c) ==
    /\ \A s \in Slots : thread_pc[s] = "send_init" /\ cd_fd[s] = c =>
          thread_msg[s].frame <= server_frame
    /\ \A k \in DOMAIN down[c] :
          /\ down[c][k].frame <= server_frame
          /\ down[c][k].type = "INIT" => k = Len(down[c]) /\ ~c_is_initialised[c]
          /\ \A j \in 1 .. k : down[c][k].type = "EVENTS" => down[c][j].frame <= down[c][k].frame
          /\ c_is_initialised[c] => /\ c_server_frame[c] <= down[c][k].frame
                                   /\ down[c][k].frame < c_client_frame[c]
    /\ c_is_initialised[c] => c_server_frame[c] <= server_frame

\* sync_frame is behind server_frame only until the first step of the reconciliation
\* (gameclient.c:195 to 206).
Reconciling(c) ==
    c_is_initialised[c] =>
        IF c_recv_pc[c] = "resim"
        THEN /\ 0 <= c_resim[c] /\ c_resim[c] < c_client_frame[c]
             /\ c_server_frame[c] < c_client_frame[c]
             /\ \/ c_sync_frame[c] = c_server_frame[c] /\ c_sync_frame[c] <= c_resim[c]
                \/ c_sync_frame[c] + 1 = c_server_frame[c] /\ c_sync_frame[c] = c_resim[c]
        ELSE c_sync_frame[c] = c_server_frame[c]

ClientInv(c) ==
    /\ UsesOpenEnd(c) /\ ToldOnce(c) /\ ServedWhenTold(c)
    /\ OnlyPredicted(c) /\ InFlight(c) /\ Reconciling(c)
    /\ c_is_initialised[c] => InOrder(c)

NetcodeInv == ServerInv /\ \A c \in Clients : ClientInv(c)

-------------------------------------------------------------------------------
(***************************************************************************)
(* The clients replicate the server's log of confirmed frames.  A client's *)
(* replica is the state of the last frame it has reconciled.               *)
(***************************************************************************)
Replicas ==
    [c \in Clients |->
        IF c_is_initialised[c]
        THEN [joined |-> c_joined[c], frame |-> c_sync_frame[c],
              state |-> c_states[c][Ring(c_sync_frame[c])]]
        ELSE [joined |-> -1, frame |-> -1, state |-> InitialState]]

PossibleEvents ==
    [player_events : [Slots -> PlayerEvent],
     player_inputs : [Slots -> Inputs \cup {NoInput}]]

Log == INSTANCE Replication WITH Events <- PossibleEvents,
                                 log <- confirmed, states <- truth, replica <- Replicas

(***************************************************************************)
(* The netcode implements the replicated log, at every step of every       *)
(* thread: the server only appends to it, a client starts from its end and *)
(* then takes its entries one by one (gameserver.c:246 to 257 and 387 to   *)
(* 404, gameclient.c:130 to 147 and 159 to 206).                           *)
(***************************************************************************)
Replicates == Log!Spec

-------------------------------------------------------------------------------
(***************************************************************************)
(* Why rollback works: an invariant that every step keeps.                 *)
(***************************************************************************)
\* The server's log: each state follows from the one before it, and the last one is the
\* one in the ring (gameserver.c:387 to 404).  A server that is killed while it sends a
\* frame has not counted it.
LogInv ==
    /\ Len(truth) = Len(confirmed) + 1
    /\ \A f \in 1 .. Len(confirmed) : truth[f + 1] = GameSimulate(truth[f], confirmed[f])
    /\ Len(confirmed) = server_frame \/ (~server_up /\ Len(confirmed) = server_frame + 1)
    /\ server_up => game_states[Ring(server_frame)] = truth[server_frame + 1]
    /\ sim_pc = "simulate" => server_frame < MaxFrame

\* All inputs are inputs that some player gave, or none.
PossibleInputs(c) ==
    /\ c_out[c] \in Inputs \cup {NoInput}
    /\ \A k \in DOMAIN up[c] : up[c][k].input \in Inputs \cup {NoInput}
    /\ \A k \in DOMAIN down[c] : down[c][k].events \in PossibleEvents
    /\ \A r \in RingIndex : c_events[c][r] \in PossibleEvents

PossibleOnly ==
    /\ \A r \in RingIndex : game_events[r] \in PossibleEvents
    /\ \A s \in Slots : thread_pc[s] = "send_init" => thread_msg[s].events \in PossibleEvents
    /\ \A c \in Clients : PossibleInputs(c)

\* What is sent is the log (gameserver.c:246 to 257, 398): a first message its end, which
\* stays where it is until the client has read it and answered.
TellsTheEnd ==
    \A s \in Slots : server_up /\ thread_pc[s] = "send_init" =>
        thread_msg[s].frame = server_frame /\ thread_msg[s].state = truth[server_frame + 1]

FromLog(c) ==
    \A k \in DOMAIN down[c] :
        LET m == down[c][k] IN
        /\ m.type = "INIT" => /\ m.frame = Len(confirmed) /\ m.state = truth[m.frame + 1]
                              /\ sim_pc # "simulate"
        /\ m.type = "EVENTS" => m.frame < Len(confirmed) /\ m.events = confirmed[m.frame + 1]

\* As long as the server is not stopping, a thread listens to every client that was told.
ListenedTo(c) ==
    Told(c) /\ server_up /\ ~to_shutdown =>
        /\ server_end[c] = "open"
        /\ \E s \in Slots : thread_pc[s] = "listen" /\ cd_fd[s] = c

\* The last frame the client has the confirmed events of.  That frame 0 was confirmed
\* does not show in server_frame, which is 0 from the start (gameclient.c:163).
FirstHeld(c) ==
    c_client_frame[c] > 0 /\ confirmed # <<>> /\ c_events[c][Ring(0)] = confirmed[1]

Reached(c) == IF c_server_frame[c] = 0 /\ ~FirstHeld(c) THEN -1 ELSE c_server_frame[c]

\* So no frame is left out on the way from the log to the client.
InSequence(c) ==
    LET before(k) == IF k = 1 THEN Reached(c) ELSE down[c][k - 1].frame IN
    /\ \A k \in DOMAIN down[c] : down[c][k].frame <= before(k) + 1
    /\ server_up /\ (~to_shutdown \/ sim_pc = "simulate") =>
          server_frame <= before(Len(down[c]) + 1) + 1

\* The frames the client was sent the confirmed events of and did not drop them.
Received(c) ==
    {f \in c_joined[c] .. c_server_frame[c] :
        f = c_joined[c] => f = 0 /\ c_server_frame[c] > 0}

EventsHeld(c) ==
    /\ c_joined[c] < c_server_frame[c] =>
          c_server_frame[c] < c_client_frame[c] /\ c_server_frame[c] < Len(confirmed)
    /\ \A f \in Received(c) : InRing(c, f) => c_events[c][Ring(f)] = confirmed[f + 1]

InputsKept(c) ==
    /\ Len(c_issued[c]) = c_client_frame[c] - c_joined[c]
    /\ \A f \in c_server_frame[c] + 1 .. c_client_frame[c] - 1 :
          c_events[c][Ring(f)].player_inputs[c_client_index[c]] = Issued(c, f)

\* The states that were computed since the last message.
StatesFresh(c) ==
    \A f \in c_sync_frame[c] .. (IF c_recv_pc[c] = "resim" THEN c_resim[c] ELSE c_client_frame[c]) - 1 :
        c_states[c][Ring(f + 1)] = GameSimulate(c_states[c][Ring(f)], c_events[c][Ring(f)])

ReplicaInv(c) ==
    /\ FromLog(c) /\ ListenedTo(c)
    /\ c_is_initialised[c] =>
          /\ InSequence(c) /\ EventsHeld(c) /\ InputsKept(c) /\ StatesFresh(c)
          /\ c_joined[c] = 0 => Agrees(c)
    /\ ~c_is_initialised[c] => c_issued[c] = <<>>

RollbackInv == LogInv /\ PossibleOnly /\ TellsTheEnd /\ \A c \in Clients : ReplicaInv(c)

-------------------------------------------------------------------------------
(***************************************************************************)
(* Why no input is refused, lost or mistaken for another: an invariant     *)
(* that every step keeps.                                                  *)
(***************************************************************************)
\* A client whose threads run has an open end, and it names frames of the bounded run; a
\* server that has ended has none.
EndInUse(c) ==
    /\ c_main_pc[c] \in {"init", "loop", "sleep", "send"} => client_end[c] = "open"
    /\ c_recv_pc[c] \in {"recv", "resim"} => client_end[c] = "open"
    /\ c_is_initialised[c] => c_client_frame[c] <= MaxFrame
    /\ ~server_up => server_end[c] # "open" /\ up[c] = <<>>

\* The input that is about to be sent is that of the last frame predicted
\* (client/main.c:105).
LastIssued(c) ==
    c_main_pc[c] = "send" =>
        c_out[c] \in Inputs /\ c_issued[c] # <<>> /\ c_out[c] = c_issued[c][Len(c_issued[c])]

\* A client is told the slot of the thread that listens to it (gameserver.c:253).
IndexToldTo(s, c) ==
    /\ \A k \in DOMAIN down[c] : down[c][k].type = "INIT" => down[c][k].client_index = s
    /\ c_is_initialised[c] => c_client_index[c] = s

\* What is in flight to the thread: an input for each frame of an interval that begins
\* after the last input stored, and at once after it if none is ever lost.  That one is
\* no older than the last frame simulated, even while the thread is about to stop.
InTurn(s, c) ==
    LET queue == up[c] IN
    /\ cd_client_frame[s] = -1 \/ server_frame <= cd_client_frame[s] + 1
    /\ \A k \in DOMAIN queue :
          /\ queue[k].client_index = s
          /\ queue[k].frame = queue[1].frame + k - 1
          /\ cd_client_frame[s] < queue[k].frame
          /\ server_frame <= queue[k].frame
          /\ queue[k].frame < server_frame + FRAME_BUFFER_SIZE - 1
    /\ queue # <<>> =>
          IF cd_client_frame[s] = -1 THEN queue[1].frame = server_frame
          ELSE ByteStream \/ queue[1].frame = cd_client_frame[s] + 1

\* The frame whose input the client sends next, and what has become of the one before it.
NextSent(c) == IF c_main_pc[c] = "send" THEN c_client_frame[c] - 1 ELSE c_client_frame[c]

SentInTurn(s, c) ==
    c_is_initialised[c] =>
        /\ cd_client_frame[s] = -1 => c_joined[c] = server_frame
        /\ server_end[c] = "open" =>
              IF up[c] # <<>> THEN up[c][Len(up[c])].frame = NextSent(c) - 1
              ELSE IF cd_client_frame[s] = -1 THEN NextSent(c) = c_joined[c]
              ELSE /\ cd_client_frame[s] < NextSent(c)
                   /\ ByteStream \/ cd_client_frame[s] = NextSent(c) - 1
        /\ \A k \in DOMAIN up[c] :
              c_joined[c] <= up[c][k].frame /\ up[c][k].input = Issued(c, up[c][k].frame)

Lane(s, c) == server_up /\ Serves(s, c) => IndexToldTo(s, c) /\ InTurn(s, c) /\ SentInTurn(s, c)

\* The current frame holds the client's own input or none, or waits for its first input
\* and may hold that of the slot's last client, or is never simulated.
EntryOwned(c) ==
    c_is_initialised[c] /\ server_up =>
        \/ to_shutdown /\ sim_pc # "simulate"
        \/ \E s \in Slots : Serves(s, c) /\ cd_client_frame[s] = -1
        \/ OwnInput(c, server_frame, CurrentEvents.player_inputs[c_client_index[c]])

InputsOf(c) ==
    /\ EndInUse(c) /\ LastIssued(c) /\ EntryOwned(c)
    /\ c_is_initialised[c] => \A f \in c_joined[c] .. Len(confirmed) - 1 : Attributed(c, f)
    /\ up[c] # <<>> => \E s \in Slots : Serves(s, c)
    /\ \A s \in Slots : Lane(s, c)

InputInv ==
    /\ server_frame <= MaxFrame
    /\ \A s \in Slots : thread_pc[s] = "send_init" => thread_msg[s].client_index = s
    /\ \A c \in Clients : InputsOf(c)

-------------------------------------------------------------------------------
(***************************************************************************)
(* What may still be sent to a client before it has read its first         *)
(* message: frames through each slot that names its connection, or will,   *)
(* as far as the inputs stored there last; one that was being simulated    *)
(* when its own slot was filled; and the message itself.  Whatever is sent *)
(* is taken from it, and nothing is ever added.                            *)
(***************************************************************************)
\* The slot's thread listens to nobody any more, so the slot's frame stays as it is.
Gone(s) == thread_pc[s] \in {"none", "forget", "leave", "remove"}

\* The accept thread has the client's connection and has not filled a slot with it.
Admitted(c) == accept_fd = c /\ accept_pc \in {"lock", "mark", "set_fd"}

\* A slot's frames are counted from the current one on.
Window == 0 .. FRAME_BUFFER_SIZE - 2

OwedThrough(c, s, i) ==
    \/ Admitted(c) /\ ~Gone(s)
    \/ (Admitted(c) \/ cd_fd[s] = c) /\ server_frame + i <= cd_client_frame[s]

\* The frame being simulated was found ready before the slot was marked as connected.
OwedUntimely(c) ==
    \/ Admitted(c)
    \/ accept_pc = "set_frame" /\ accept_fd = c /\ server_frame <= cd_client_frame[accept_slot]
    \/ /\ sim_pc = "simulate"
       /\ \E s \in Slots : cd_fd[s] = c /\ cd_is_connected[s] /\ cd_client_frame[s] < server_frame

Untimely == <<-1, 0>>
Greeting == <<-2, 0>>
Owable == (Slots \X Window) \cup {Untimely, Greeting}

Owed(c) ==
    {x \in Owable :
        /\ server_up
        /\ x \in Slots \X Window => OwedThrough(c, x[1], x[2])
        /\ x = Untimely => OwedUntimely(c)
        /\ x = Greeting => NotYetTold(c)}

Early(c) == Len(down[c]) + Cardinality(Owed(c)) <= MAX_CLIENTS * (FRAME_BUFFER_SIZE - 1) + 2

\* An input is stored less than a ring ahead; a descriptor is forgotten before the departure
\* is announced, and kept no longer than the slot is connected, or one step longer when its
\* thread could not be created.
SlotsLimited ==
    \A s \in Slots :
        /\ cd_client_frame[s] <= server_frame + FRAME_BUFFER_SIZE - 2
        /\ thread_pc[s] \in {"leave", "remove"} => cd_fd[s] = NoFd
        /\ cd_fd[s] \in Clients => cd_is_connected[s] \/ (accept_pc = "undo_fd" /\ accept_slot = s)

EarlyInv ==
    /\ SlotsLimited
    /\ \A c \in Clients : /\ server_end[c] = "none" => down[c] = <<>>
                          /\ ~c_is_initialised[c] => Early(c)

-------------------------------------------------------------------------------
(***************************************************************************)
(* To the server, the clients are some of the clients of OpenServer: what  *)
(* is shown of the server there holds of it here.  In particular a client  *)
(* speaks only to the thread that listens to it (gameclient.c:225 to 231,  *)
(* gameserver.c:260 to 285).                                               *)
(***************************************************************************)
Open == INSTANCE OpenServer WITH Frames <- 0 .. MaxFrame,
                                 MaxQueue <- FRAME_BUFFER_SIZE - 1

ServerIsOpen == Open!Spec

-------------------------------------------------------------------------------
(***************************************************************************)
(* Progress, as long as nobody leaves.                                     *)
(***************************************************************************)
(***************************************************************************)
(* A frame that can be simulated is, although nothing but an arriving      *)
(* input ever signals the condition variable (gameserver.c:328 to 332,     *)
(* 376 to 380); the last frames of the bounded run are left out.           *)
(***************************************************************************)
Runnable(f) ==
    server_up /\ server_frame = f /\ CanSimulate(client_count, cd_client_frame)

RunnableFrameIsSimulated ==
    \A f \in 0 .. MaxFrame - 1 : Runnable(f) ~> ~Runnable(f)

(***************************************************************************)
(* The ends never all wait for one another (client/main.c:76,              *)
(* gameserver.c:376): whoever connects is told where it starts and then    *)
(* has every frame of the run confirmed and reconciled, although a client  *)
(* stops at its throttle and the server at the slowest client.  Only one   *)
(* thing holds a run up for ever: at the throttle of some client, whose    *)
(* next confirmed frame has come, the main thread sleeps with state_lock   *)
(* and takes it again each time before the receive thread can (client/     *)
(* main.c:76 to 81; ReceivesAtThrottle is about this).                     *)
(***************************************************************************)
Starved(c) == TooFarAhead(c) /\ c_recv_pc[c] = "recv" /\ down[c] # <<>>

EveryFrameConfirmed ==
    \A c \in Clients :
        client_end[c] = "open" ~> \/ c_sync_frame[c] >= MaxFrame - 1
                                  \/ \E d \in Clients : []Starved(d)

-------------------------------------------------------------------------------
(***************************************************************************)
(* What the threads of a client wait for: its first message, a frame that  *)
(* ends its throttle, or the end of the connection.                        *)
(***************************************************************************)
ClientGoesOn(c) ==
    \/ c_main_pc[c] \in {"init", "send"}
    \/ c_main_pc[c] \in {"loop", "sleep"} /\ ~c_is_connected[c]
    \/ /\ c_main_pc[c] \in {"loop", "sleep"} /\ c_is_initialised[c]
       /\ ~TooFarAhead(c) /\ c_client_frame[c] < MaxFrame
    \/ c_recv_pc[c] = "resim"
    \/ c_recv_pc[c] = "recv" /\ (down[c] # <<>> \/ server_end[c] = "closed")

\* Somebody, on either side, has something to do.
SomeEndGoesOn == SomeoneGoesOn \/ \E c \in Clients : ClientGoesOn(c)

UpToDate(c) == client_end[c] = "open" => c_sync_frame[c] >= MaxFrame - 1

\* The connection was closed while connect() returned, and is_connected set after the
\* receive thread had cleared it (gameclient.c:62, 115): nothing tells main() any more.
EndUnseen(c) == c_recv_pc[c] = "ended" /\ c_is_connected[c]

\* An input the client has sent was dropped on the way, because recv() returned two and
\* the thread takes one of them (gameserver.c:276); all later ones are refused (313).
InputSkipped(c) ==
    \E s \in Slots :
        /\ Listening(s) /\ cd_fd[s] = c /\ up[c] = <<>>
        /\ -1 < cd_client_frame[s] /\ cd_client_frame[s] < NextSent(c) - 1

(***************************************************************************)
(* A client waits at its throttle for a confirmed frame, the server for an *)
(* input of every client, a client that connects for its first message,    *)
(* and all of them for locks (client/main.c:76, gameserver.c:260, 377).    *)
(* All threads wait at once, before every client has the frames of the     *)
(* run, only if a wakeup was not sent (377 to 380), a client's thread is   *)
(* not counted, the accept thread left clients_lock locked (194), an input *)
(* was skipped or the end of the connection not seen.  With two entries    *)
(* the ring holds only the frame predicted and the one confirmed, and a    *)
(* client that is never sent the frame it joined at stops for good.        *)
(***************************************************************************)
NeverAllWait ==
    server_up /\ ~to_shutdown /\ FRAME_BUFFER_SIZE > 2 =>
        \/ SomeEndGoesOn
        \/ FrameMissed \/ NobodyCounted \/ LockLeft \/ \E c \in Clients : InputSkipped(c)
        \/ \A c \in Clients : UpToDate(c) \/ EndUnseen(c)

\* Every connection that was made is open at both ends.
NobodyLeft == \A c \in Clients : client_end[c] # "closed" /\ server_end[c] # "closed"

(***************************************************************************)
(* None of these happens while nobody leaves and recv() returns one        *)
(* message at a time: whatever the order in which clients connect, are     *)
(* told where they start and play, somebody has something to do until      *)
(* every client has every frame of the run.  With fair threads, that is    *)
(* why EveryFrameConfirmed holds.                                          *)
(***************************************************************************)
PlaysOn ==
    /\ server_up /\ ~to_shutdown /\ NobodyLeft
    /\ ~ByteStream /\ FRAME_BUFFER_SIZE > 2
    => SomeEndGoesOn \/ \A c \in Clients : UpToDate(c)

-------------------------------------------------------------------------------
(***************************************************************************)
(* Why somebody can go on: an invariant that every step keeps.             *)
(***************************************************************************)
\* A connection the server has not closed is the accept thread's or a client thread's,
\* which reads it (gameserver.c:154 to 226, 233 to 346).
HeldByServer(c) ==
    server_end[c] = "open" =>
        \/ accept_fd = c /\ accept_pc \notin {"accept", "unlock", "ended"}
        \/ \E s \in Slots : thread_pc[s] \in {"init", "send_init", "listen", "close"} /\ cd_fd[s] = c

\* Who is listened to has been sent its first message (gameserver.c:260, 276).
ToldWhenHeard(c) ==
    \A s \in Slots : thread_pc[s] = "listen" /\ cd_fd[s] = c /\ client_end[c] = "open" => Told(c)

\* A client with an open end has both threads; the receive thread ends, and the main
\* thread finds itself disconnected, only when the connection is closed
\* (gameclient.c:98, 115, 235).
ThreadsOfClient(c) ==
    /\ client_end[c] = "open" => /\ c_main_pc[c] \in {"init", "loop", "sleep", "send"}
                                 /\ c_recv_pc[c] \in {"recv", "resim", "ended"}
    /\ c_recv_pc[c] = "ended" => server_end[c] = "closed" \/ client_end[c] = "closed"
    /\ c_main_pc[c] \in {"loop", "sleep", "send"} => c_is_connected[c] \/ server_end[c] = "closed"

\* No thread of the server stops before it is told to (gameserver.c:156, 377, 381).
Stopping == sim_pc \in {"tested", "waiting_late"} \/ accept_pc = "ended" => to_shutdown

\* While nobody leaves, threads only come, and are counted before they start: the lost
\* updates of client_count, which need one that leaves, cannot happen, and no wakeup is
\* missed (gameserver.c:203 to 209, 357 to 362, 377).
Orderly ==
    /\ \A s \in Slots : thread_pc[s] \in {"none", "init", "send_init", "listen"}
    /\ (\A s \in Slots : removing[s] = <<>>) /\ clients_lock = "free" /\ client_count >= 0
    /\ accept_pc = "count_write" => accept_count = client_count
    /\ accept_pc = "spawn" \/ (\E s \in Slots : HasThread(s)) => client_count > 0
    /\ ~FrameMissed

ProgressInv ==
    /\ WaitsEnd
    /\ Stopping
    /\ server_up /\ ~to_shutdown => \A c \in Clients : HeldByServer(c)
    /\ server_up => \A c \in Clients : ToldWhenHeard(c)
    /\ \A c \in Clients : ThreadsOfClient(c)
    /\ server_up /\ ~to_shutdown /\ NobodyLeft /\ accept_pc \notin Undoing => Orderly

-------------------------------------------------------------------------------
(***************************************************************************)
(* What the comments promise and the code does not keep: each is refuted   *)
(* by a run of its own.                                                    *)
(***************************************************************************)
\* "Simulate just the next server frame with all clients events"
\* (gameserver.c:387): a frame is confirmed with the inputs given for it.
InputsHonoured ==
    \A c \in Clients : c_is_initialised[c] =>
        \A f \in c_joined[c] .. Len(confirmed) - 1 :
            confirmed[f + 1].player_inputs[c_client_index[c]] = Issued(c, f)

\* "Reconcile from sync_frame -> server_frame with new real data"
\* (gameclient.c:195): every client agrees with the server on the confirmed frame.
Agreement == \A c \in Clients : Settled(c) => Agrees(c)

\* "sync %d <= server %d <= client %d" (gameclient.c:192) whenever a client reconciles.
ReconcileOrder ==
    \A c \in Clients : c_recv_pc[c] = "resim" =>
        c_sync_frame[c] <= c_server_frame[c] /\ c_server_frame[c] <= c_client_frame[c]

(***************************************************************************)
(* "Do the main simulation in a tight lock to allow receiving data"        *)
(* (client/main.c:70): a client at its throttle, whose next confirmed      *)
(* frame has come, reads it, so that it can go on.                         *)
(***************************************************************************)
ReceivesAtThrottle ==
    \A c \in Clients : TooFarAhead(c) /\ down[c] # <<>> ~> ~TooFarAhead(c) \/ down[c] = <<>>

===============================================================================
