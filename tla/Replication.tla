------------------------------ MODULE Replication ------------------------------
(***************************************************************************)
(* What the netcode promises, without its threads, rings, messages and     *)
(* predictions: one log of confirmed frames, which only grows, and for     *)
(* each client a replica of the game that starts from the end of the log   *)
(* and applies its entries in order.                                       *)
(*                                                                         *)
(* One exception, which the code makes.  The events of the frame a client  *)
(* joined in are sent to it twice, as they are when it joins and when the  *)
(* frame is confirmed; the second copy is dropped unless the frame is 0    *)
(* (gameclient.c:161 to 168).  A late joiner therefore leaves that frame   *)
(* with events that need not be the confirmed ones.                        *)
(***************************************************************************)
EXTENDS Game, Sequences

CONSTANTS
    Clients,
    Events,    \* the events a frame may be confirmed with
    MaxFrame   \* bound: no frame from this one on is confirmed

VARIABLES
    log,       \* log[f + 1]: the events of frame f
    states,    \* states[f + 1]: the state at the start of frame f
    replica    \* replica[c]: the frame c joined in, the one it is at, and its state

vars == <<log, states, replica>>

Away == [joined |-> -1, frame |-> -1, state |-> InitialState]

Present(c) == replica[c].joined # -1

TypeOK ==
    /\ log \in Seq(GameEvents)
    /\ states \in Seq(GameState)
    /\ replica \in [Clients -> [joined : Nat \cup {-1}, frame : Nat \cup {-1}, state : GameState]]

Init ==
    /\ log = <<>>
    /\ states = <<InitialState>>
    /\ replica = [c \in Clients |-> Away]

Confirm(events) ==
    /\ Len(log) < MaxFrame
    /\ log' = Append(log, events)
    /\ states' = Append(states, GameSimulate(states[Len(states)], events))
    /\ UNCHANGED replica

Join(c) ==
    /\ ~Present(c)
    /\ replica' = [replica EXCEPT ![c] = [joined |-> Len(log), frame |-> Len(log),
                                          state |-> states[Len(states)]]]
    /\ UNCHANGED <<log, states>>

\* The events replica c leaves its frame with.
Applicable(c) ==
    LET r == replica[c] IN
    IF r.frame = r.joined /\ r.joined # 0 THEN Events ELSE {log[r.frame + 1]}

\* A client reaches a frame when it has the confirmed events of that frame.
Advance(c) ==
    /\ Present(c)
    /\ replica[c].frame + 1 < Len(log)
    /\ \E events \in Applicable(c) :
          replica' = [replica EXCEPT ![c] = [joined |-> @.joined, frame |-> @.frame + 1,
                                             state |-> GameSimulate(@.state, events)]]
    /\ UNCHANGED <<log, states>>

Leave(c) ==
    /\ Present(c)
    /\ replica' = [replica EXCEPT ![c] = Away]
    /\ UNCHANGED <<log, states>>

Next ==
    \/ \E events \in Events : Confirm(events)
    \/ \E c \in Clients : Join(c) \/ Advance(c) \/ Leave(c)

Spec == Init /\ [][Next]_vars

(***************************************************************************)
(* The states are those the log leads to, and a replica that has been      *)
(* there from frame 0 is the server's game: its frame is in the log, and   *)
(* its state is the server's state of that frame (what gameclient.c:186 to *)
(* 206 recomputes is what gameserver.c:393 computed).                      *)
(***************************************************************************)
Replays == \A f \in 1 .. Len(log) : states[f + 1] = GameSimulate(states[f], log[f])

Faithful ==
    /\ Replays
    /\ \A c \in Clients : Present(c) /\ replica[c].joined = 0 =>
          /\ replica[c].frame <= Len(log)
          /\ replica[c].state = states[replica[c].frame + 1]

===============================================================================
