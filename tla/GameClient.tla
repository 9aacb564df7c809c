------------------------------ MODULE GameClient ------------------------------
(***************************************************************************)
(* The client program (client/main.c and client/gameclient.[ch]): the main *)
(* thread, which predicts frames with the local input and sends that input *)
(* to the server, and the receive thread, which takes the server's         *)
(* confirmed events and re-simulates from them.  Both work under the       *)
(* client's state_lock.  Variables are indexed by client program.          *)
(***************************************************************************)
EXTENDS Network

CONSTANTS
    Inputs,      \* the inputs a player may give (a subset of PlayerInput)
    MayLeave,    \* the clients whose user may close the window
    JunkStates   \* what reading states[-1], outside the array, may yield

ASSUME ClientAssumption ==
    /\ Inputs \subseteq PlayerInput
    /\ MayLeave \subseteq Clients
    /\ JunkStates \subseteq GameState

VARIABLES
    c_main_pc, c_recv_pc,
    c_is_connected, c_is_initialised, c_client_index,
    c_sync_frame,     \* last frame whose state was computed from the server's events
    c_server_frame,   \* last frame the server has confirmed to this client
    c_client_frame,   \* frame the client has predicted up to
    c_states, c_events,   \* rings
    c_resim,          \* loop index of game_client_reconcile_frames
    c_out,            \* the input of the frame just predicted, about to be sent
    c_joined, c_issued   \* history: the frame of MSG_S2P_INIT_PLAYER (-1 before it)
                         \* and the inputs of the frames predicted since

frameVars  == <<c_sync_frame, c_server_frame, c_client_frame>>
ringsVars  == <<c_states, c_events>>
clientVars == <<c_main_pc, c_recv_pc, c_is_connected, c_is_initialised, c_client_index,
                frameVars, ringsVars, c_resim, c_out, c_joined, c_issued>>

ClientTypeOK ==
    /\ c_main_pc \in [Clients -> {"new", "init", "loop", "sleep", "send", "done"}]
    /\ c_recv_pc \in [Clients -> {"none", "recv", "resim", "ended"}]
    /\ c_is_connected \in [Clients -> BOOLEAN]
    /\ c_is_initialised \in [Clients -> BOOLEAN]
    /\ c_client_index \in [Clients -> Slots \cup {-1}]
    /\ c_sync_frame \in [Clients -> Nat \cup {-1}]
    /\ c_server_frame \in [Clients -> Nat \cup {-1}]
    /\ c_client_frame \in [Clients -> Nat \cup {-1}]
    /\ c_states \in [Clients -> [RingIndex -> GameState]]
    /\ c_events \in [Clients -> [RingIndex -> GameEvents]]
    /\ c_resim \in [Clients -> Nat \cup {-1}]
    /\ c_out \in [Clients -> PlayerInput]
    /\ c_joined \in [Clients -> Nat \cup {-1}]
    /\ c_issued \in [Clients -> Seq(PlayerInput)]

\* game_client_init up to connect()
ClientInit ==
    /\ c_main_pc = [c \in Clients |-> "new"]
    /\ c_recv_pc = [c \in Clients |-> "none"]
    /\ c_is_connected = [c \in Clients |-> FALSE]
    /\ c_is_initialised = [c \in Clients |-> FALSE]
    /\ c_client_index = [c \in Clients |-> -1]
    /\ c_sync_frame = [c \in Clients |-> -1]
    /\ c_server_frame = [c \in Clients |-> -1]
    /\ c_client_frame = [c \in Clients |-> -1]
    /\ c_states = [c \in Clients |-> [r \in RingIndex |-> InitialState]]
    /\ c_events = [c \in Clients |-> [r \in RingIndex |-> NoEvents]]
    /\ c_resim = [c \in Clients |-> -1]
    /\ c_out = [c \in Clients |-> NoInput]
    /\ c_joined = [c \in Clients |-> -1]
    /\ c_issued = [c \in Clients |-> <<>>]

-------------------------------------------------------------------------------
(***************************************************************************)
(* The main thread.                                                        *)
(***************************************************************************)
\* connect() and the start of the receive thread ...
ClientConnect(c) ==
    /\ server_up /\ listening
    /\ c_main_pc[c] = "new"
    /\ c_main_pc' = [c_main_pc EXCEPT ![c] = "init"]
    /\ c_recv_pc' = [c_recv_pc EXCEPT ![c] = "recv"]
    /\ client_end' = [client_end EXCEPT ![c] = "open"]
    /\ UNCHANGED <<up, down, server_end, server_up, listening, c_is_connected, c_is_initialised,
                   c_client_index, frameVars, ringsVars, c_resim, c_out, c_joined, c_issued>>

\* ... which may have ended by the time is_connected is set.
ClientConnected(c) ==
    /\ c_main_pc[c] = "init"
    /\ c_main_pc' = [c_main_pc EXCEPT ![c] = "loop"]
    /\ c_is_connected' = [c_is_connected EXCEPT ![c] = TRUE]
    /\ UNCHANGED <<networkVars, c_recv_pc, c_is_initialised, c_client_index, frameVars,
                   ringsVars, c_resim, c_out, c_joined, c_issued>>

\* state_lock is kept over several actions only while the receive thread reconciles ...
ClientStateLockFree(c) == c_recv_pc[c] # "resim"

\* ... and while the main thread sleeps because it is too far ahead of the server.
MainHasStateLock(c) == c_main_pc[c] = "sleep"

TooFarAheadByOne(c) == \* mutant: the frame being predicted forgotten
    c_client_frame[c] >= c_sync_frame[c] + FRAME_BUFFER_SIZE

TooFarAheadSooner(c) == \* mutant: one frame less than the ring has room for
    c_client_frame[c] >= c_sync_frame[c] + FRAME_BUFFER_SIZE - 2

TooFarAhead(c) == c_client_frame[c] >= c_sync_frame[c] + FRAME_BUFFER_SIZE - 1

ClientNotTold(c) == c_is_connected[c] \* mutant: it does not wait for its first message

ClientReady(c) == c_is_connected[c] /\ c_is_initialised[c]

ClientSleeps(c) ==
    /\ c_main_pc[c] = "loop"
    /\ ClientReady(c)
    /\ ClientStateLockFree(c)
    /\ TooFarAhead(c)
    /\ c_main_pc' = [c_main_pc EXCEPT ![c] = "sleep"]
    /\ UNCHANGED <<networkVars, c_recv_pc, c_is_connected, c_is_initialised, c_client_index, frameVars,
                   ringsVars, c_resim, c_out, c_joined, c_issued>>

\* state_lock is given up, and may be taken again at once.
ClientWakes(c) ==
    /\ MainHasStateLock(c)
    /\ c_main_pc' = [c_main_pc EXCEPT ![c] = "loop"]
    /\ UNCHANGED <<networkVars, c_recv_pc, c_is_connected, c_is_initialised, c_client_index, frameVars,
                   ringsVars, c_resim, c_out, c_joined, c_issued>>

\* The entry of the next frame is cleared, so that no input of a frame a ring ago is left in it.
ClearedTooEarly(c, f, events) == \* mutant: the entry is cleared before the frame is counted
    [c_events[c] EXCEPT ![Ring(f)] = NoEvents]

EventsPredicted(c, f, events) ==
    [c_events[c] EXCEPT ![Ring(f)] = events, ![Ring(f + 1)] = NoEvents]

ClientPredict(c, input) ==
    LET f       == c_client_frame[c]
        events  == [c_events[c][Ring(f)] EXCEPT !.player_inputs[c_client_index[c]] = input]
    IN  /\ c_main_pc[c] = "loop"
        /\ ClientReady(c)
        /\ ClientStateLockFree(c)
        /\ ~TooFarAhead(c)
        /\ f < MaxFrame
        /\ c_states' = [c_states EXCEPT ![c][Ring(f + 1)] =
                                            GameSimulate(c_states[c][Ring(f)], events)]
        /\ c_events' = [c_events EXCEPT ![c] = EventsPredicted(c, f, events)]
        /\ c_client_frame' = [c_client_frame EXCEPT ![c] = f + 1]
        /\ c_out' = [c_out EXCEPT ![c] = input]
        /\ c_issued' = [c_issued EXCEPT ![c] = Append(@, input)]
        /\ c_main_pc' = [c_main_pc EXCEPT ![c] = "send"]
        /\ UNCHANGED <<networkVars, c_recv_pc, c_is_connected, c_is_initialised, c_client_index,
                       c_sync_frame, c_server_frame, c_resim, c_joined>>

\* game_client_send_game_events
ClientSend(c) ==
    /\ c_main_pc[c] = "send"
    /\ c_main_pc' = [c_main_pc EXCEPT ![c] = "loop"]
    /\ c_out' = [c_out EXCEPT ![c] = NoInput]
    /\ up' = Delivered(up, server_end, c,
                       FrameInputs(c_client_frame[c] - 1, c_client_index[c], c_out[c]))
    /\ UNCHANGED <<down, client_end, server_end, server_up, listening, c_recv_pc, c_is_connected,
                   c_is_initialised, c_client_index, frameVars, ringsVars, c_resim, c_joined,
                   c_issued>>

ClientSendFails(c) ==
    /\ c_main_pc[c] = "send"
    /\ server_end[c] = "closed"
    /\ c_main_pc' = [c_main_pc EXCEPT ![c] = "loop"]
    /\ c_out' = [c_out EXCEPT ![c] = NoInput]
    /\ c_is_connected' = [c_is_connected EXCEPT ![c] = FALSE]
    /\ UNCHANGED <<networkVars, c_recv_pc, c_is_initialised, c_client_index, frameVars, ringsVars,
                   c_resim, c_joined, c_issued>>

\* The process is gone: its end is closed and its memory has no meaning any more.
ClientEnds(c) ==
    /\ CloseClientEnd(c)
    /\ c_main_pc' = [c_main_pc EXCEPT ![c] = "done"]
    /\ c_recv_pc' = [c_recv_pc EXCEPT ![c] = "ended"]
    /\ c_is_connected' = [c_is_connected EXCEPT ![c] = FALSE]
    /\ c_is_initialised' = [c_is_initialised EXCEPT ![c] = FALSE]
    /\ c_client_index' = [c_client_index EXCEPT ![c] = -1]
    /\ c_sync_frame' = [c_sync_frame EXCEPT ![c] = -1]
    /\ c_server_frame' = [c_server_frame EXCEPT ![c] = -1]
    /\ c_client_frame' = [c_client_frame EXCEPT ![c] = -1]
    /\ c_states' = [c_states EXCEPT ![c] = [r \in RingIndex |-> InitialState]]
    /\ c_events' = [c_events EXCEPT ![c] = [r \in RingIndex |-> NoEvents]]
    /\ c_resim' = [c_resim EXCEPT ![c] = -1]
    /\ c_out' = [c_out EXCEPT ![c] = NoInput]
    /\ c_joined' = [c_joined EXCEPT ![c] = -1]
    /\ c_issued' = [c_issued EXCEPT ![c] = <<>>]
    /\ UNCHANGED <<up, server_end, server_up, listening>>

\* SIGPIPE
ClientSendKills(c) ==
    /\ c_main_pc[c] = "send"
    /\ server_end[c] = "closed"
    /\ ClientEnds(c)

\* The loop condition of main() fails; game_client_shutdown joins the receive thread.
ClientShutdown(c) ==
    /\ c_main_pc[c] = "loop"
    /\ c \in MayLeave \/ ~c_is_connected[c]
    /\ c_recv_pc[c] # "resim"
    /\ ClientEnds(c)

-------------------------------------------------------------------------------
(***************************************************************************)
(* The receive thread.                                                     *)
(***************************************************************************)
Receiving(c) ==
    /\ c_recv_pc[c] = "recv"
    /\ ~MainHasStateLock(c)
    /\ down[c] # <<>>
    /\ down' = [down EXCEPT ![c] = Tail(@)]
    /\ UNCHANGED <<up, client_end, server_end, server_up, listening, c_main_pc, c_is_connected,
                   c_out, c_issued>>

RecvInitPlayer(c) ==
    LET m == Head(down[c])
    IN  /\ Receiving(c)
        /\ m.type = "INIT"
        /\ c_client_index' = [c_client_index EXCEPT ![c] = m.client_index]
        /\ c_sync_frame' = [c_sync_frame EXCEPT ![c] = m.frame]
        /\ c_server_frame' = [c_server_frame EXCEPT ![c] = m.frame]
        /\ c_client_frame' = [c_client_frame EXCEPT ![c] = m.frame]
        /\ c_states' = [c_states EXCEPT ![c][Ring(m.frame)] = m.state]
        /\ c_events' = [c_events EXCEPT ![c][Ring(m.frame)] = m.events]
        /\ c_is_initialised' = [c_is_initialised EXCEPT ![c] = TRUE]
        /\ c_joined' = [c_joined EXCEPT ![c] = m.frame]
        /\ UNCHANGED <<c_recv_pc, c_resim>>

FrameNext(c, frame) == frame = c_server_frame[c] + 1 \* mutant: no exception for frame 0

FrameExpected(c, frame) == frame = c_server_frame[c] + 1 \/ frame = 0

OnlyFirst(f, g) == f \* mutant: the local frames are not simulated again

Later(f, g) == IF f > g THEN f ELSE g

\* Overwrite the local events and start game_client_reconcile_frames, whose two
\* loops run on from one another: sync_frame to server_frame, then to client_frame.
RecvGameEvents(c) ==
    LET m    == Head(down[c])
        from == IF m.frame > c_sync_frame[c] THEN c_sync_frame[c] ELSE m.frame
        to   == Later(m.frame, c_client_frame[c])
    IN  /\ Receiving(c)
        /\ m.type = "EVENTS"
        /\ FrameExpected(c, m.frame)
        /\ c_server_frame' = [c_server_frame EXCEPT ![c] = m.frame]
        /\ c_events' = [c_events EXCEPT ![c][Ring(m.frame)] = m.events]
        /\ c_recv_pc' = [c_recv_pc EXCEPT ![c] = IF from < to THEN "resim" ELSE "recv"]
        /\ c_resim' = [c_resim EXCEPT ![c] = IF from < to THEN from ELSE -1]
        /\ UNCHANGED <<c_states, c_sync_frame, c_client_frame, c_client_index,
                       c_is_initialised, c_joined>>

RecvUnexpected(c) ==
    /\ Receiving(c)
    /\ Head(down[c]).type = "EVENTS"
    /\ ~FrameExpected(c, Head(down[c]).frame)
    /\ UNCHANGED <<c_recv_pc, c_client_index, frameVars, ringsVars, c_resim, c_is_initialised,
                   c_joined>>

\* One iteration; sync_frame moves up when the first loop ends.  A client that has
\* not been initialised starts at frame -1, which is outside the arrays.
ResimStep(c) ==
    LET i == c_resim[c]
        done == i + 1 = Later(c_server_frame[c], c_client_frame[c])
    IN  /\ c_recv_pc[c] = "resim"
        /\ \E next \in IF i < 0 THEN JunkStates
                       ELSE {GameSimulate(c_states[c][Ring(i)], c_events[c][Ring(i)])} :
              c_states' = [c_states EXCEPT ![c][Ring(i + 1)] = next]
        /\ c_sync_frame' = [c_sync_frame EXCEPT ![c] =
                               IF i + 1 = c_server_frame[c] THEN i + 1 ELSE @]
        /\ c_resim' = [c_resim EXCEPT ![c] = IF done THEN -1 ELSE i + 1]
        /\ c_recv_pc' = [c_recv_pc EXCEPT ![c] = IF done THEN "recv" ELSE "resim"]
        /\ UNCHANGED <<networkVars, c_main_pc, c_is_connected, c_is_initialised, c_client_index,
                       c_server_frame, c_client_frame, c_events, c_out, c_joined, c_issued>>

\* recv() returned a part of a message, or more than one: the assertion that it is
\* exactly one fails and ends the program.
RecvMisread(c) ==
    /\ ByteStream
    /\ c_recv_pc[c] = "recv"
    /\ down[c] # <<>>
    /\ ClientEnds(c)

\* recv() returned 0 or an error.
RecvEnd(c) ==
    /\ c_recv_pc[c] = "recv"
    /\ server_end[c] = "closed"
    /\ c_recv_pc' = [c_recv_pc EXCEPT ![c] = "ended"]
    /\ c_is_connected' = [c_is_connected EXCEPT ![c] = FALSE]
    /\ UNCHANGED <<networkVars, c_main_pc, c_is_initialised, c_client_index, frameVars, ringsVars,
                   c_resim, c_out, c_joined, c_issued>>

-------------------------------------------------------------------------------
MainThread(c) ==
    \/ ClientConnect(c) \/ ClientConnected(c)
    \/ ClientSleeps(c) \/ ClientWakes(c)
    \/ \E input \in Inputs : ClientPredict(c, input)
    \/ ClientSend(c) \/ ClientSendFails(c) \/ ClientSendKills(c)

RecvThread(c) ==
    \/ RecvInitPlayer(c) \/ RecvGameEvents(c) \/ RecvUnexpected(c) \/ ResimStep(c) \/ RecvMisread(c)
    \/ RecvEnd(c)

ClientNext == \E c \in Clients : MainThread(c) \/ RecvThread(c) \/ ClientShutdown(c)

===============================================================================
