------------------------------ MODULE OpenServer ------------------------------
(***************************************************************************)
(* The server facing any client that speaks the protocol: a client may     *)
(* send the inputs of whatever frames it likes, read what it is sent when  *)
(* it likes, and close at any moment.  What holds here holds whatever the  *)
(* clients compute.                                                        *)
(***************************************************************************)
EXTENDS ServerMain

CONSTANTS
    Frames,     \* the frames a client may name in an input message
    Inputs,     \* the inputs it may send
    MaxQueue    \* bound: inputs of a client in flight

ASSUME OpenServerAssumption ==
    /\ Frames \subseteq Nat
    /\ Inputs \subseteq PlayerInput
    /\ MaxQueue \in Nat

vars == <<networkVars, serverVars>>

EnvConnect(c) ==
    /\ server_up /\ listening
    /\ client_end[c] = "none"
    /\ client_end' = [client_end EXCEPT ![c] = "open"]
    /\ UNCHANGED <<up, down, server_end, server_up, listening, serverVars>>

\* A client knows its index once it has been sent MSG_S2P_INIT_PLAYER; that the thread
\* has stopped listening to it, it does not see.
EnvSend(c, frame, input) ==
    /\ client_end[c] = "open"
    /\ Len(up[c]) < MaxQueue
    /\ \E s \in Slots :
          /\ cd_fd[s] = c /\ thread_pc[s] \in {"listen", "close"}
          /\ up' = Delivered(up, server_end, c, FrameInputs(frame, s, input))
    /\ UNCHANGED <<down, client_end, server_end, server_up, listening, serverVars>>

EnvReceive(c) ==
    /\ down[c] # <<>>
    /\ down' = [down EXCEPT ![c] = Tail(@)]
    /\ UNCHANGED <<up, client_end, server_end, server_up, listening, serverVars>>

EnvClose(c) ==
    /\ client_end[c] = "open"
    /\ CloseClientEnd(c)
    /\ UNCHANGED <<up, server_end, server_up, listening, serverVars>>

EnvNext ==
    \E c \in Clients :
        \/ EnvConnect(c) \/ EnvReceive(c) \/ EnvClose(c)
        \/ \E frame \in Frames, input \in Inputs : EnvSend(c, frame, input)

Init == NetworkInit /\ ServerInit

Next == ServerNext \/ EnvNext

Spec == Init /\ [][Next]_vars

TypeOK == NetworkTypeOK /\ ServerTypeOK

===============================================================================
