------------------------------- MODULE Network --------------------------------
(***************************************************************************)
(* What the server and the clients share: one TCP connection per client    *)
(* program, and the messages of shared/protocol.[ch] that travel on it.    *)
(* A connection is two FIFO streams; its ends close independently.  The    *)
(* client's end is created by connect(), the server's by accept().         *)
(***************************************************************************)
EXTENDS Game, Sequences

CONSTANTS
    Clients,    \* client programs; each connects at most once
    NoFd,       \* a file descriptor that is nobody's connection (0 or -1)
    MaxFrame,   \* bound: neither the server nor a client goes beyond this frame
    ByteStream  \* whether recv() may return something else than one message

ASSUME NetworkAssumption ==
    /\ NoFd \notin Clients
    /\ MaxFrame \in Nat
    /\ ByteStream \in BOOLEAN

VARIABLES
    up,          \* up[c]: inputs sent by client c, not yet received
    down,        \* down[c]: messages sent to client c, not yet received
    client_end,  \* client_end[c]: c's socket
    server_end,  \* server_end[c]: the server's socket for c
    server_up,   \* the server process is running
    listening    \* its listening socket is open

networkVars == <<up, down, client_end, server_end, server_up, listening>>

SocketState == {"none", "open", "closed"}

(***************************************************************************)
(* The messages, as what their serialize function puts in the buffer and   *)
(* the matching deserialize function takes out.  Frames and indices are    *)
(* never negative and stay below 2^31, where htonl and ntohl are inverse.  *)
(***************************************************************************)
InputsMessage == [frame : Nat, client_index : Slots, input : PlayerInput]

InitMessage == [type : {"INIT"}, frame : Nat, state : GameState,
                events : GameEvents, client_index : Slots]

EventsMessage == [type : {"EVENTS"}, frame : Nat, events : GameEvents]

FrameInputsNext(frame, client_index, input) == \* mutant: labelled with the next frame
    [frame |-> frame + 1, client_index |-> client_index, input |-> input]

FrameInputs(frame, client_index, input) ==
    [frame |-> frame, client_index |-> client_index, input |-> input]

InitPlayerBehind(frame, state, events, client_index) == \* mutant: the frame before
    [type |-> "INIT", frame |-> frame - 1, state |-> state,
     events |-> events, client_index |-> client_index]

InitPlayer(frame, state, events, client_index) ==
    [type |-> "INIT", frame |-> frame, state |-> state,
     events |-> events, client_index |-> client_index]

FrameGameInputs(frame, events) == \* mutant: without the joins and leaves
    [type |-> "EVENTS", frame |-> frame,
     events |-> [events EXCEPT !.player_events = NoEvents.player_events]]

FrameGameEvents(frame, events) ==
    [type |-> "EVENTS", frame |-> frame, events |-> events]

NetworkTypeOK ==
    /\ up \in [Clients -> Seq(InputsMessage)]
    /\ down \in [Clients -> Seq(InitMessage \cup EventsMessage)]
    /\ client_end \in [Clients -> SocketState]
    /\ server_end \in [Clients -> SocketState]
    /\ server_up \in BOOLEAN
    /\ listening \in BOOLEAN

NetworkInit ==
    /\ up = [c \in Clients |-> <<>>]
    /\ down = [c \in Clients |-> <<>>]
    /\ client_end = [c \in Clients |-> "none"]
    /\ server_end = [c \in Clients |-> "none"]
    /\ server_up = TRUE
    /\ listening = TRUE

(***************************************************************************)
(* send() to a peer whose end is closed delivers nothing: it may return    *)
(* success (the reset has not come back yet), an error, or raise SIGPIPE,  *)
(* which neither program handles, ignores or masks with MSG_NOSIGNAL.      *)
(***************************************************************************)
Delivered(stream, peer, c, m) ==
    IF peer[c] = "open" THEN [stream EXCEPT ![c] = Append(@, m)] ELSE stream

\* How many messages of the stream one recv() may return: any number that is there when
\* the stream is one of bytes, else one.  The receiver's buffer ends at 1024 bytes, fewer
\* than 256 inputs take (globals.h, gameserver.c:272, 276): what it holds is among these.
RecvSizes(stream) == {n \in 1 .. Len(stream) : n = 1 \/ ByteStream}

\* Closing an end throws away what it has not read.
CloseClientEnd(c) ==
    /\ client_end' = [client_end EXCEPT ![c] = "closed"]
    /\ down' = [down EXCEPT ![c] = <<>>]

CloseServerEnd(c) ==
    /\ server_end' = [server_end EXCEPT ![c] = "closed"]
    /\ up' = [up EXCEPT ![c] = <<>>]

===============================================================================
