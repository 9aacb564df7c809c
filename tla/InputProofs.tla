------------------------------ MODULE InputProofs ------------------------------
(***************************************************************************)
(* The inputs, for any number of clients and slots, any ring size and any  *)
(* interleaving: what a client sends is in the window of the server, names *)
(* its slot and frame, is stored once and confirmed as its own; and the    *)
(* clients of the whole system are clients of OpenServer.                  *)
(***************************************************************************)
EXTENDS RollbackProofs

IInv == RInv /\ InputInv

-------------------------------------------------------------------------------
(***************************************************************************)
(* What the proofs below keep needing of the invariants, in one place.     *)
(***************************************************************************)
LEMMA ServerFacts ==
    ASSUME NInv
    PROVE  /\ SlotInUse /\ SlotBeingFilled /\ SimReady
           /\ thread_pc \in [Slots -> ThreadPC] /\ cd_fd \in [Slots -> Clients \cup {NoFd}]
           /\ cd_client_frame \in [Slots -> Int] /\ server_end \in [Clients -> SocketState]
           /\ up \in [Clients -> Seq(InputsMessage)] /\ accept_slot \in Slots
           /\ accept_pc \in AcceptPC /\ server_frame \in Nat /\ NoFd \notin Clients
           /\ FRAME_BUFFER_SIZE \in Nat /\ FRAME_BUFFER_SIZE >= 2
BY NetworkAssumption, GlobalsAssumption
DEF NInv, NetcodeInv, ServerInv, TypeOK, NetworkTypeOK, ServerTypeOK

\* The inputs in flight, as messages.
LEMMA UpMessages ==
    ASSUME NInv, NEW c \in Clients
    PROVE  /\ up[c] \in Seq(InputsMessage) /\ Len(up[c]) \in Nat /\ DOMAIN up[c] = 1 .. Len(up[c])
           /\ \A k \in 1 .. Len(up[c]) : up[c][k] \in InputsMessage /\ up[c][k].frame \in Nat
           /\ up[c] # <<>> <=> Len(up[c]) > 0
<1> DEFINE q == up[c]
<1>1. q \in Seq(InputsMessage)
      BY ServerFacts
<1> HIDE DEF q
<1>2. Len(q) \in Nat /\ DOMAIN q = 1 .. Len(q) /\ \A k \in 1 .. Len(q) : q[k] \in InputsMessage
      BY <1>1
<1>3. q # <<>> <=> Len(q) > 0
      BY <1>1, EmptySeq
<1>4. QED
      BY <1>1, <1>2, <1>3 DEF q, InputsMessage

\* One slot serves a client at most.
LEMMA OneServes ==
    ASSUME NInv, NEW c \in Clients, NEW s \in Slots, NEW t \in Slots, Serves(s, c),
           cd_fd[t] = c, thread_pc[t] # "forget"
    PROVE  s = t
BY ServerFacts DEF Serves, SlotInUse

-------------------------------------------------------------------------------
(***************************************************************************)
(* Nobody but a client's own thread takes its inputs or counts its frames, *)
(* and the thread keeps its slot and the connection to the end.            *)
(***************************************************************************)
OwnStep(s) ==
    \/ ThreadSendInit(s) \/ ThreadSendInitFails(s)
    \/ ThreadStoreInput(s) \/ ThreadIgnoreInput(s)

LaneKept(s, c) ==
    /\ server_up' /\ Serves(s, c)' => Serves(s, c) /\ up'[c] = up[c] /\ cd_client_frame'[s] = cd_client_frame[s]
    /\ Serves(s, c) => Serves(s, c)' \/ up'[c] = <<>>

\* The process dies: every connection is gone.
LEMMA LaneDies ==
    ASSUME NEW c \in Clients, NEW s \in Slots, ServerDies
    PROVE  LaneKept(s, c)
BY DEF LaneKept, ServerDies

LEMMA LaneUntouched ==
    ASSUME NEW c \in Clients, NEW s \in Slots, UNCHANGED <<cd_client_frame, up, cd_fd>>,
           thread_pc'[s] \in {"listen", "close"} <=> thread_pc[s] \in {"listen", "close"}
    PROVE  LaneKept(s, c)
BY DEF LaneKept, Serves

LEMMA AcceptKeepsLane ==
    ASSUME NInv, NEW c \in Clients, NEW s \in Slots, AcceptThread
    PROVE  LaneKept(s, c)
<1> USE DEF networkVars, slotVars, threadVars
<1>0. /\ SlotInUse /\ SlotBeingFilled
      /\ thread_pc \in [Slots -> ThreadPC] /\ cd_fd \in [Slots -> Clients \cup {NoFd}]
      /\ cd_client_frame \in [Slots -> Int] /\ server_end \in [Clients -> SocketState]
      /\ up \in [Clients -> Seq(InputsMessage)] /\ accept_slot \in Slots
      BY ServerFacts
<1>1. ASSUME NEW d \in Clients, AcceptConnection(d) PROVE LaneKept(s, c)
  <2>1. /\ server_up /\ ~to_shutdown /\ server_end[d] = "none" /\ UNCHANGED <<up, thread_pc, cd_client_frame>>
        /\ \/ UNCHANGED cd_fd
           \/ \E fd \in Released : cd_fd' = [t \in Slots |-> IF cd_fd[t] = fd THEN d ELSE cd_fd[t]]
        BY <1>1 DEF AcceptConnection
  <2>2. ASSUME thread_pc[s] \in {"listen", "close"} PROVE cd_fd'[s] = cd_fd[s]
    <3>1. cd_fd[s] \notin Released
          BY <1>0, <2>1, <2>2 DEF Released, SlotInUse
    <3>2. QED
          BY <1>0, <2>1, <3>1
  <2>3. QED
        BY <2>1, <2>2 DEF LaneKept, Serves
<1>2. CASE AcceptLimitReached \/ AcceptNoSlot \/ AcceptUndo
  <2>1. /\ accept_pc \in {"lock", "undo_close"} /\ CloseServerEnd(accept_fd)
        /\ UNCHANGED <<thread_pc, cd_fd, cd_client_frame>>
        BY <1>2 DEF AcceptLimitReached, AcceptNoSlot, AcceptUndo, Admitting
  <2>2. accept_fd \in Clients /\ (accept_fd = c => ~Serves(s, c))
        BY <1>0, <2>1 DEF SlotBeingFilled, Undoing, Serves
  <2>3. Serves(s, c)' <=> Serves(s, c)
        BY <2>1 DEF Serves
  <2>4. Serves(s, c) => up'[c] = up[c]
        BY <1>0, <2>1, <2>2 DEF CloseServerEnd
  <2>5. QED
        BY <2>1, <2>3, <2>4 DEF LaneKept
<1>3. CASE AcceptSetFd \/ AcceptUndoFd \/ AcceptSpawn \/ AcceptSetFrame
  <2>1. /\ Filling /\ UNCHANGED up
        /\ \A t \in Slots : t # accept_slot =>
              thread_pc'[t] = thread_pc[t] /\ cd_fd'[t] = cd_fd[t] /\ cd_client_frame'[t] = cd_client_frame[t]
        /\ thread_pc'[accept_slot] \in {thread_pc[accept_slot], "init"}
        BY <1>0, <1>3 DEF AcceptSetFd, AcceptUndoFd, AcceptSpawn, AcceptSetFrame, AcceptStep, Filling, Undoing
  <2>2. thread_pc[accept_slot] = "none"
        BY <1>0, <2>1 DEF SlotBeingFilled
  <2>3. QED
        BY <2>1, <2>2 DEF LaneKept, Serves
<1>4. CASE AcceptStops \/ AcceptMark \/ AcceptCountRead \/ AcceptCountWrite \/ AcceptUnlock
              \/ AcceptSpawnFails \/ AcceptUndoRead \/ AcceptUndoWrite \/ AcceptUndoUnlock
              \/ \E t \in Slots : AcceptFindSlot(t)
      BY <1>4, LaneUntouched DEF AcceptStops, AcceptFindSlot, AcceptStep, AcceptMark, AcceptCountRead,
                                 AcceptCountWrite, AcceptUnlock, AcceptSpawnFails, AcceptUndoRead,
                                 AcceptUndoWrite, AcceptUndoUnlock
<1>5. QED
      BY <1>1, <1>2, <1>3, <1>4 DEF AcceptThread

LEMMA ThreadKeepsLane ==
    ASSUME NInv, NEW c \in Clients, NEW s \in Slots, NEW t \in Slots, ClientThread(t),
           t = s => ~OwnStep(s)
    PROVE  LaneKept(s, c)
<1> USE DEF networkVars, slotVars, threadVars
<1>0. /\ SlotInUse
      /\ thread_pc \in [Slots -> ThreadPC] /\ cd_fd \in [Slots -> Clients \cup {NoFd}]
      /\ cd_client_frame \in [Slots -> Int] /\ up \in [Clients -> Seq(InputsMessage)] /\ NoFd \notin Clients
      BY ServerFacts
<1>1. CASE ThreadSendInitKills(t) \/ ThreadRecvPart(t)
      BY <1>1, LaneDies DEF ThreadSendInitKills, ThreadRecvPart
<1>2. CASE ThreadInit(t) \/ ThreadLeave(t) \/ ThreadRecvEnd(t)
      BY <1>0, <1>2, LaneUntouched DEF ThreadInit, ThreadLeave, ThreadRecvEnd, ThreadStep
<1>3. CASE ThreadRemove(t) \/ ThreadRemoved(t)
      BY <1>0, <1>3, LaneUntouched DEF ThreadRemove, ThreadRemoved, ThreadStep
<1>4. CASE ThreadSendInitFails(t)
  <2>1. /\ t # s /\ thread_pc' = [thread_pc EXCEPT ![t] = "close"]
        /\ UNCHANGED <<up, cd_fd, cd_client_frame>>
        BY <1>4 DEF ThreadSendInitFails, ThreadStep, OwnStep
  <2>2. QED
        BY <1>0, <2>1 DEF LaneKept, Serves
<1>5. CASE ThreadClose(t)
  <2>1. /\ thread_pc[t] = "close" /\ thread_pc' = [thread_pc EXCEPT ![t] = "forget"]
        /\ CloseServerEnd(cd_fd[t]) /\ UNCHANGED <<cd_fd, cd_client_frame>>
        BY <1>5 DEF ThreadClose, ThreadStep
  <2>2. CASE t = s
        BY <1>0, <2>1, <2>2 DEF LaneKept, Serves, CloseServerEnd
  <2>3. CASE t # s
    <3>1. Serves(s, c) => cd_fd[t] # c
          BY <1>0, <2>1, <2>3 DEF SlotInUse, Serves
    <3>2. Serves(s, c)' <=> Serves(s, c)
          BY <1>0, <2>1, <2>3 DEF Serves
    <3>3. cd_fd[t] # c => up'[c] = up[c]
          BY <1>0, <2>1 DEF CloseServerEnd
    <3>4. QED
          BY <2>1, <3>1, <3>2, <3>3 DEF LaneKept
  <2>4. QED
        BY <2>2, <2>3
<1>6. CASE ThreadForgetFd(t)
  <2>1. /\ thread_pc[t] = "forget" /\ thread_pc' = [thread_pc EXCEPT ![t] = "leave"]
        /\ cd_fd' = [cd_fd EXCEPT ![t] = NoFd] /\ UNCHANGED <<up, cd_client_frame>>
        BY <1>6 DEF ThreadForgetFd, ThreadStep
  <2>2. QED
        BY <1>0, <2>1 DEF LaneKept, Serves
<1>7. CASE ThreadSendInit(t)
  <2>1. t # s /\ thread_pc' = [thread_pc EXCEPT ![t] = NextRecv] /\ UNCHANGED <<up, cd_fd, cd_client_frame>>
        BY <1>7 DEF ThreadSendInit, ThreadStep, OwnStep
  <2>2. QED
        BY <1>0, <2>1 DEF LaneKept, Serves
<1>8. CASE ThreadStoreInput(t) \/ ThreadIgnoreInput(t)
  <2>1. /\ t # s /\ thread_pc[t] = "listen" /\ thread_pc' = [thread_pc EXCEPT ![t] = NextRecv]
        /\ UNCHANGED cd_fd
        BY <1>8 DEF ThreadStoreInput, ThreadIgnoreInput, ThreadReceiving, ThreadStep, OwnStep
  <2>2. cd_client_frame'[s] = cd_client_frame[s]
        BY <1>0, <1>8, <2>1 DEF ThreadStoreInput, ThreadIgnoreInput
  <2>3. cd_fd[t] # c => up'[c] = up[c]
        BY <1>0, <1>8 DEF ThreadStoreInput, ThreadIgnoreInput, ThreadReceiving
  <2>4. Serves(s, c) => cd_fd[t] # c
        BY <1>0, <2>1 DEF SlotInUse, Serves
  <2>5. Serves(s, c)' <=> Serves(s, c)
        BY <1>0, <2>1 DEF Serves
  <2>6. QED
        BY <2>2, <2>3, <2>4, <2>5 DEF LaneKept
<1>9. QED
      BY <1>1, <1>2, <1>3, <1>4, <1>5, <1>6, <1>7, <1>8 DEF ClientThread

LEMMA ServerKeepsLane ==
    ASSUME NInv, NEW c \in Clients, NEW s \in Slots, ServerNext, ~OwnStep(s)
    PROVE  LaneKept(s, c)
<1> USE DEF networkVars, slotVars, threadVars
<1>0. thread_pc \in [Slots -> ThreadPC]
      BY ServerFacts
<1>1. CASE AcceptThread
      BY <1>1, AcceptKeepsLane
<1>2. CASE \E t \in Slots : ClientThread(t)
      BY <1>2, ThreadKeepsLane
<1>3. CASE SimTest \/ SimTestLate \/ SimStops \/ SimSpuriousWakeup \/ SimStep
      BY <1>3, LaneUntouched DEF SimTest, SimTestLate, SimStops, SimSpuriousWakeup, SimStep
<1>4. CASE SimKills \/ MainReturns
      BY <1>4, LaneDies DEF SimKills, MainReturns
<1>5. CASE BeginShutdown
  <2>1. /\ thread_pc'[s] \in {"listen", "close"} <=> thread_pc[s] \in {"listen", "close"}
        /\ UNCHANGED <<up, cd_fd, cd_client_frame>>
        BY <1>5 DEF BeginShutdown, MainStep
  <2>2. QED
        BY <2>1, LaneUntouched
<1>6. CASE ServerShutdown /\ ~MainReturns
  <2>1. UNCHANGED <<up, cd_fd, cd_client_frame, thread_pc>>
        BY <1>6 DEF ServerShutdown, MainCount, MainSkipClient, MainShutClient, MainCloseClient, MainSignal,
                    MainJoinSimulation, MainJoinAccept, MainJoinClient, NextSlot, MainStep
  <2>2. QED
        BY <2>1, LaneUntouched
<1>7. QED
      BY <1>1, <1>2, <1>3, <1>4, <1>5, <1>6 DEF ServerNext, ServerThreads, SimulationThread

-------------------------------------------------------------------------------
(***************************************************************************)
(* The lane of a client that its own thread leaves alone: a frame may be   *)
(* simulated meanwhile, but not before the client's input for it.          *)
(***************************************************************************)
LEMMA LaneAdvances ==
    ASSUME IInv, NEW c \in Clients, NEW s \in Slots, LaneKept(s, c), server_up, UNCHANGED clientVars,
           \/ server_frame' = server_frame
           \/ server_frame' = server_frame + 1 /\ (Serves(s, c) => cd_client_frame[s] >= server_frame),
           server_end'[c] = "open" => server_end[c] # "closed",
           Serves(s, c) => \A k \in DOMAIN down'[c] : down'[c][k].type = "INIT" =>
                              k \in DOMAIN down[c] /\ down'[c][k] = down[c][k]
    PROVE  Lane(s, c)'
<1> SUFFICES ASSUME server_up', Serves(s, c)'
             PROVE  IndexToldTo(s, c)' /\ InTurn(s, c)' /\ SentInTurn(s, c)'
    BY DEF Lane
<1>0. /\ NInv /\ SlotInUse /\ cd_client_frame[s] \in Int /\ server_frame \in Nat /\ NoFd \notin Clients
      /\ server_end[c] \in SocketState /\ FRAME_BUFFER_SIZE \in Nat
      BY ServerFacts DEF IInv, RInv
<1>1. /\ Serves(s, c) /\ up'[c] = up[c] /\ cd_client_frame'[s] = cd_client_frame[s]
      /\ UNCHANGED <<c_is_initialised, c_client_index, c_joined, c_issued, c_main_pc, c_client_frame>>
      BY DEF LaneKept, clientVars, frameVars
<1>2. IndexToldTo(s, c) /\ InTurn(s, c) /\ SentInTurn(s, c)
      BY <1>1 DEF IInv, InputInv, InputsOf, Lane
<1>3. IndexToldTo(s, c)'
      BY <1>1, <1>2 DEF IndexToldTo
<1>4. \A k \in DOMAIN up[c] : up[c][k].frame \in Nat
      BY <1>0, UpMessages
<1>5. InTurn(s, c)'
  <2>1. CASE server_frame' = server_frame
        BY <1>1, <1>2, <2>1 DEF InTurn
  <2>2. CASE server_frame' = server_frame + 1 /\ cd_client_frame[s] >= server_frame
        BY <1>0, <1>1, <1>2, <1>4, <2>2 DEF InTurn
  <2>3. QED
        BY <1>1, <2>1, <2>2
<1>6. SentInTurn(s, c)'
  <2>1. server_end'[c] = "open" => server_end[c] = "open"
        BY <1>0, <1>1 DEF Serves, SlotInUse, SocketState
  <2>2. cd_client_frame[s] = -1 => server_frame' = server_frame
        BY <1>0, <1>1
  <2>3. QED
        BY <1>1, <1>2, <2>1, <2>2 DEF SentInTurn, NextSent, Issued
<1>7. QED
      BY <1>3, <1>5, <1>6

\* A thread that is about to tell its client where it starts, or cannot: nothing has come
\* from a client that has been told nothing.
LEMMA SendInitLane ==
    ASSUME IInv, NEW c \in Clients, NEW s \in Slots, ThreadSendInit(s) \/ ThreadSendInitFails(s),
           UNCHANGED clientVars
    PROVE  Lane(s, c)'
<1> USE DEF networkVars, slotVars, threadVars, ringVars
<1> SUFFICES ASSUME Serves(s, c)'
             PROVE  IndexToldTo(s, c)' /\ InTurn(s, c)' /\ SentInTurn(s, c)'
    BY DEF Lane
<1>0. /\ NInv /\ SlotInUse /\ ToldOnce(c) /\ NoFd \notin Clients
      /\ cd_fd \in [Slots -> Clients \cup {NoFd}] /\ thread_pc \in [Slots -> ThreadPC]
      /\ down \in [Clients -> Seq(InitMessage \cup EventsMessage)]
      BY ServerFacts DEF IInv, RInv, NInv, NetcodeInv, ClientInv, TypeOK, NetworkTypeOK
<1>1. /\ thread_pc[s] = "send_init" /\ cd_fd[s] = c /\ cd_client_frame'[s] = -1
      /\ UNCHANGED <<up, c_is_initialised>>
  <2>1. thread_pc[s] = "send_init" /\ UNCHANGED <<up, cd_fd, cd_client_frame>>
        BY DEF ThreadSendInit, ThreadSendInitFails, ThreadStep
  <2>2. QED
        BY <1>0, <2>1 DEF SlotInUse, Serves, clientVars
<1>2. ~Told(c)
      BY <1>0, <1>1 DEF ToldOnce, NotYetTold
<1>3. up[c] = <<>>
  <2>1. SUFFICES ASSUME up[c] # <<>> PROVE FALSE
        OBVIOUS
  <2>2. PICK t \in Slots : Serves(t, c)
        BY <2>1 DEF IInv, InputInv, InputsOf
  <2>3. t = s
        BY <1>0, <1>1, <2>2, OneServes
  <2>4. QED
        BY <1>1, <2>2, <2>3 DEF Serves
<1>4. ASSUME NEW k \in DOMAIN down'[c], down'[c][k].type = "INIT"
      PROVE  down'[c][k].client_index = s
  <2>1. thread_msg[s].client_index = s
        BY <1>1 DEF IInv, InputInv
  <2>2. down'[c] = down[c] \/ down'[c] = Append(down[c], thread_msg[s])
        BY <1>0, <1>1 DEF ThreadSendInit, ThreadSendInitFails, Delivered
  <2>3. CASE down'[c] = Append(down[c], thread_msg[s])
    <3> DEFINE q == down[c]
    <3>1. q \in Seq(InitMessage \cup EventsMessage) /\ thread_msg[s] \in InitMessage \cup EventsMessage
          BY <1>0, <1>1 DEF SlotInUse
    <3> HIDE DEF q
    <3>2. (k \in DOMAIN q /\ down'[c][k] = q[k]) \/ down'[c][k] = thread_msg[s]
      <4>1. k \in DOMAIN Append(q, thread_msg[s]) /\ down'[c][k] = Append(q, thread_msg[s])[k]
            BY <1>4, <2>3 DEF q
      <4>2. QED
            BY <3>1, <4>1, AppendProperties
    <3>3. QED
          BY <1>2, <1>4, <2>1, <3>2 DEF Told, q
  <2>4. QED
        BY <1>2, <1>4, <2>2, <2>3 DEF Told
<1>5. IndexToldTo(s, c)' /\ SentInTurn(s, c)'
      BY <1>1, <1>2, <1>4 DEF IndexToldTo, SentInTurn, Told
<1>6. InTurn(s, c)'
      BY <1>1, <1>3 DEF InTurn
<1>7. QED
      BY <1>5, <1>6

-------------------------------------------------------------------------------
(***************************************************************************)
(* What the thread takes of its client's inputs, and what it leaves.       *)
(***************************************************************************)
LEMMA ReceivingFrom ==
    ASSUME NInv, NEW s \in Slots, ThreadReceiving(s)
    PROVE  /\ cd_fd[s] \in Clients /\ thread_pc[s] = "listen" /\ Serves(s, cd_fd[s]) /\ server_up
           /\ thread_pc' = [thread_pc EXCEPT ![s] = NextRecv] /\ NextRecv \in {"listen", "close"}
           /\ UNCHANGED <<cd_fd, server_frame, server_end, down, server_up, listening, confirmed>>
           /\ Serves(s, cd_fd[s])' /\ sim_pc # "simulate"
<1>1. SlotInUse /\ thread_pc \in [Slots -> ThreadPC]
      BY ServerFacts
<1>2. /\ thread_pc[s] = "listen" /\ thread_pc' = [thread_pc EXCEPT ![s] = NextRecv] /\ server_up
      /\ UNCHANGED <<cd_fd, server_frame, server_end, down, server_up, listening, confirmed>>
      /\ sim_pc # "simulate"
      BY DEF ThreadReceiving, ThreadStep, StateLockFree
<1>3. NextRecv \in {"listen", "close"}
      BY DEF NextRecv
<1>4. QED
      BY <1>1, <1>2, <1>3 DEF SlotInUse, Serves

LEMMA ReceivesSomething ==
    ASSUME NEW s \in Slots, ThreadReceiving(s)
    PROVE  up[cd_fd[s]] # <<>>
<1> DEFINE q == up[cd_fd[s]]
<1>1. PICK n \in RecvSizes(q) : TRUE
      BY DEF ThreadReceiving
<1>2. n \in 1 .. Len(q)
      BY <1>1 DEF RecvSizes
<1> HIDE DEF q
<1>3. q # <<>>
      BY <1>2
<1>4. QED
      BY <1>3 DEF q

LEMMA TakenFromQueue ==
    ASSUME NInv, NEW s \in Slots, NEW c \in Clients, cd_fd[s] = c, ThreadReceiving(s)
    PROVE  \E n \in 1 .. Len(up[c]) :
              /\ n = 1 \/ ByteStream
              /\ Head(up[c]) = up[c][1]
              /\ Len(up'[c]) = Len(up[c]) - n
              /\ \A k \in 1 .. Len(up[c]) - n : up'[c][k] = up[c][n + k]
<1> DEFINE q == up[c]
<1>1. q \in Seq(InputsMessage) /\ Len(q) \in Nat /\ DOMAIN q = 1 .. Len(q) /\ up \in [Clients -> Seq(InputsMessage)]
      BY UpMessages, ServerFacts
<1>2. PICK n \in RecvSizes(q) : up' = [up EXCEPT ![c] = SubSeq(q, n + 1, Len(q))]
      BY DEF ThreadReceiving
<1>3. n \in 1 .. Len(q) /\ (n = 1 \/ ByteStream)
      BY <1>2 DEF RecvSizes
<1>4. up'[c] = SubSeq(q, n + 1, Len(q))
      BY <1>1, <1>2
<1> HIDE DEF q
<1> DEFINE tail == SubSeq(q, n + 1, Len(q))
<1>5. n + 1 \in Int /\ Len(q) \in Int /\ \A i \in n + 1 .. Len(q) : q[i] \in InputsMessage
      BY <1>1, <1>3
<1>6. /\ Len(tail) = (IF n + 1 <= Len(q) THEN Len(q) - (n + 1) + 1 ELSE 0)
      /\ \A k \in 1 .. Len(q) - (n + 1) + 1 : tail[k] = q[n + 1 + k - 1]
      BY <1>5, SubSeqProperties
<1> HIDE DEF tail
<1>7. Len(q) - (n + 1) + 1 = Len(q) - n /\ Len(tail) = Len(q) - n
  <2>1. Len(q) \in Nat /\ n \in Nat /\ n <= Len(q)
        BY <1>1, <1>3
  <2>2. Len(tail) = IF n + 1 <= Len(q) THEN Len(q) - (n + 1) + 1 ELSE 0
        BY <1>6
  <2>3. QED
        BY <2>1, <2>2
<1>8. ASSUME NEW k \in 1 .. Len(q) - n PROVE tail[k] = q[n + k]
  <2>1. n + 1 + k - 1 = n + k
        BY <1>3, <1>8
  <2>2. QED
        BY <1>6, <1>7, <2>1
<1>9. Head(q) = q[1]
      BY <1>1, <1>3, HeadTailProperties
<1>10. QED
      BY <1>3, <1>4, <1>7, <1>8, <1>9 DEF q, tail

\* An input that is stored is the next one, and what is left follows on it, or on those
\* that were taken for a part of it.
LEMMA ReceiveLane ==
    ASSUME IInv, NEW c \in Clients, NEW s \in Slots, ThreadStoreInput(s) \/ ThreadIgnoreInput(s),
           UNCHANGED clientVars
    PROVE  Lane(s, c)'
<1> SUFFICES ASSUME Serves(s, c)'
             PROVE  IndexToldTo(s, c)' /\ InTurn(s, c)' /\ SentInTurn(s, c)'
    BY DEF Lane
<1>0. NInv /\ cd_client_frame[s] \in Int /\ server_frame \in Nat /\ FRAME_BUFFER_SIZE \in Nat /\ ThreadReceiving(s)
      BY ServerFacts DEF IInv, RInv, ThreadStoreInput, ThreadIgnoreInput
<1>1. /\ cd_fd[s] = c /\ Serves(s, c) /\ server_up
      /\ UNCHANGED <<server_frame, server_end, down, c_is_initialised, c_client_index, c_joined, c_issued,
                     c_main_pc, c_client_frame>>
  <2>1. UNCHANGED <<c_is_initialised, c_client_index, c_joined, c_issued, c_main_pc, c_client_frame>>
        BY DEF clientVars, frameVars
  <2>2. cd_fd[s] = c
        BY <1>0, ReceivingFrom DEF Serves
  <2>3. QED
        BY <1>0, <2>1, <2>2, ReceivingFrom
<1>2. IndexToldTo(s, c) /\ InTurn(s, c) /\ SentInTurn(s, c)
      BY <1>1 DEF IInv, InputInv, InputsOf, Lane
<1>3. IndexToldTo(s, c)'
      BY <1>1, <1>2 DEF IndexToldTo
<1> DEFINE q == up[c]
           cd == cd_client_frame[s]
<1>4. PICK n \in 1 .. Len(q) : /\ n = 1 \/ ByteStream
                               /\ Head(q) = q[1]
                               /\ Len(up'[c]) = Len(q) - n
                               /\ \A k \in 1 .. Len(q) - n : up'[c][k] = q[n + k]
      BY <1>0, <1>1, TakenFromQueue
<1>5. /\ Len(q) \in Nat /\ DOMAIN q = 1 .. Len(q) /\ \A k \in 1 .. Len(q) : q[k].frame \in Nat
      /\ q # <<>> <=> Len(q) > 0
      BY <1>0, UpMessages
<1>6. DOMAIN up'[c] = 1 .. Len(q) - n /\ (up'[c] # <<>> <=> Len(q) - n > 0)
  <2>1. up' \in [Clients -> Seq(InputsMessage)]
        BY <1>0, NetcodeNext, ServerFacts DEF NInv, TypeOK, NetworkTypeOK, Next, ServerNext, ServerThreads, ClientThread
  <2>2. QED
        BY <1>4, <2>1, EmptySeq
<1>7. /\ cd = -1 \/ server_frame <= cd + 1
      /\ \A k \in 1 .. Len(q) : /\ q[k].client_index = s
                                /\ q[k].frame = q[1].frame + k - 1
                                /\ cd < q[k].frame
                                /\ server_frame <= q[k].frame
                                /\ q[k].frame < server_frame + FRAME_BUFFER_SIZE - 1
      /\ IF cd = -1 THEN q[1].frame = server_frame ELSE ByteStream \/ q[1].frame = cd + 1
  <2>1. q # <<>>
        BY <1>4, <1>5
  <2>2. \A k \in DOMAIN q : /\ q[k].client_index = s
                            /\ q[k].frame = q[1].frame + k - 1
                            /\ cd < q[k].frame
                            /\ server_frame <= q[k].frame
                            /\ q[k].frame < server_frame + FRAME_BUFFER_SIZE - 1
        BY <1>2 DEF InTurn
  <2>3. cd = -1 \/ server_frame <= cd + 1
        BY <1>2 DEF InTurn
  <2>4. IF cd = -1 THEN q[1].frame = server_frame ELSE ByteStream \/ q[1].frame = cd + 1
        BY <1>2, <2>1 DEF InTurn
  <2>5. QED
        BY <1>5, <2>2, <2>3, <2>4
<1>8. \/ cd_client_frame'[s] = q[1].frame
      \/ cd_client_frame'[s] = cd /\ cd # -1 /\ ByteStream
  <2>1. CASE ThreadStoreInput(s)
    <3>1. cd_client_frame' = [cd_client_frame EXCEPT ![s] = q[1].frame]
          BY <1>1, <1>4, <2>1 DEF ThreadStoreInput
    <3>2. QED
          BY <1>0, <3>1, ServerFacts
  <2>2. CASE ThreadIgnoreInput(s)
    <3>1. cd_client_frame' = cd_client_frame /\ InputRefused(s, q[1].frame)
          BY <1>1, <1>4, <2>2 DEF ThreadIgnoreInput
    <3>2. 1 \in 1 .. Len(q)
          BY <1>4, <1>5
    <3>3. server_frame <= q[1].frame /\ q[1].frame < server_frame + FRAME_BUFFER_SIZE - 1 /\ q[1].frame \in Nat
          BY <1>5, <1>7, <3>2
    <3>4. q[1].frame # cd + 1 /\ cd # -1
          BY <1>0, <3>1, <3>3 DEF InputRefused
    <3>5. QED
          BY <1>7, <3>1, <3>4
  <2>3. QED
        BY <2>1, <2>2
<1>9. ~ByteStream => n = 1
      BY <1>4
<1> DEFINE next == cd_client_frame'[s]
           rest == up'[c]
<1>10. /\ next \in Int /\ (next = -1 \/ server_frame <= next + 1) /\ next # -1
       /\ \A k \in 1 .. Len(q) : next <= q[k].frame /\ (n < k => next < q[k].frame)
       /\ ByteStream \/ next = q[n].frame
  <2> HIDE DEF q, cd
  <2>1. 1 \in 1 .. Len(q) /\ n \in 1 .. Len(q)
        BY <1>4, <1>5
  <2>2. q[1].frame \in Nat /\ server_frame <= q[1].frame
        BY <1>5, <1>7, <2>1
  <2>3. ASSUME NEW k \in 1 .. Len(q) PROVE q[1].frame <= q[k].frame /\ (n < k => q[1].frame < q[k].frame) /\ cd < q[k].frame
    <3>1. q[k].frame = q[1].frame + k - 1 /\ cd < q[k].frame
          BY <1>7, <2>3
    <3>2. k \in Nat /\ 1 <= k
          BY <2>3
    <3>3. n \in Nat /\ 1 <= n
          BY <2>1
    <3>4. QED
          BY <2>2, <3>1, <3>2, <3>3
  <2>4. QED
        BY SMTT(30), <1>0, <1>5, <1>7, <1>8, <1>9, <2>1, <2>2, <2>3 DEF cd
<1> HIDE DEF q, cd, next, rest
<1>11. ASSUME NEW k \in 1 .. Len(q) - n
       PROVE  rest[k] = q[n + k] /\ n + k \in 1 .. Len(q) /\ n < n + k
       BY <1>4, <1>5, <1>11 DEF rest, q
<1>12. InTurn(s, c)'
  <2>1. ASSUME NEW k \in 1 .. Len(q) - n
        PROVE  /\ rest[k].client_index = s /\ rest[k].frame = rest[1].frame + k - 1
               /\ next < rest[k].frame /\ server_frame <= rest[k].frame
               /\ rest[k].frame < server_frame + FRAME_BUFFER_SIZE - 1
    <3>1. 1 \in 1 .. Len(q) - n /\ 1 \in 1 .. Len(q)
          BY <1>4, <1>5, <2>1
    <3>2. rest[1] = q[n + 1] /\ n + 1 \in 1 .. Len(q) /\ rest[k] = q[n + k] /\ n + k \in 1 .. Len(q) /\ n < n + k
          BY <1>11, <2>1, <3>1
    <3>3. q[n + k].frame = q[1].frame + (n + k) - 1 /\ q[n + 1].frame = q[1].frame + (n + 1) - 1 /\ q[1].frame \in Nat
          BY <1>5, <1>7, <3>1, <3>2
    <3>4. rest[k].frame = rest[1].frame + k - 1
          BY SMTT(30), <1>4, <1>5, <2>1, <3>2, <3>3
    <3>5. QED
          BY <1>7, <1>10, <3>2, <3>4
  <2>2. ASSUME Len(q) - n > 0, ~ByteStream PROVE rest[1].frame = next + 1
    <3>1. n = 1 /\ 1 \in 1 .. Len(q) - n
          BY <1>5, <1>9, <2>2
    <3>2. rest[1] = q[1 + 1] /\ 1 + 1 \in 1 .. Len(q) /\ 1 \in 1 .. Len(q)
          BY <1>11, <3>1
    <3>3. q[1 + 1].frame = q[1].frame + (1 + 1) - 1 /\ q[1].frame \in Nat
          BY <1>5, <1>7, <3>2
    <3>4. QED
          BY <1>10, <2>2, <3>1, <3>2, <3>3
  <2>3. QED
        BY <1>1, <1>6, <1>10, <2>1, <2>2 DEF InTurn, rest, next
<1>13. SentInTurn(s, c)'
  <2> SUFFICES ASSUME c_is_initialised[c]
               PROVE  /\ server_end[c] = "open" =>
                            IF rest # <<>> THEN rest[Len(rest)].frame = NextSent(c) - 1
                            ELSE next < NextSent(c) /\ (ByteStream \/ next = NextSent(c) - 1)
                      /\ \A k \in DOMAIN rest :
                            c_joined[c] <= rest[k].frame /\ rest[k].input = Issued(c, rest[k].frame)
      BY <1>1, <1>10 DEF SentInTurn, NextSent, Issued, next, rest
  <2>1. q # <<>> /\ Len(q) \in 1 .. Len(q)
        BY <1>4, <1>5 DEF q
  <2>2. /\ server_end[c] = "open" => q[Len(q)].frame = NextSent(c) - 1
        /\ \A k \in 1 .. Len(q) : c_joined[c] <= q[k].frame /\ q[k].input = Issued(c, q[k].frame)
        BY <1>2, <1>5, <2>1 DEF SentInTurn, q
  <2>3. \A k \in DOMAIN rest : c_joined[c] <= rest[k].frame /\ rest[k].input = Issued(c, rest[k].frame)
        BY <1>6, <1>11, <2>2 DEF rest, q
  <2>4. NextSent(c) \in Int
        BY <1>0, FrameFacts DEF NextSent
  <2>5. ASSUME server_end[c] = "open", rest # <<>> PROVE rest[Len(rest)].frame = NextSent(c) - 1
    <3>1. Len(rest) = Len(q) - n /\ Len(q) - n \in 1 .. Len(q) - n
          BY <1>4, <1>5, <1>6, <2>5 DEF rest, q
    <3>2. rest[Len(q) - n] = q[n + (Len(q) - n)]
          BY <1>11, <3>1
    <3>3. n + (Len(q) - n) = Len(q)
      <4>1. n \in 1 .. Len(q) /\ Len(q) \in Nat
            BY <1>4, <1>5 DEF q
      <4>2. n \in Nat
            BY <4>1
      <4>3. QED
            BY <4>1, <4>2
    <3>4. QED
          BY <2>2, <2>5, <3>1, <3>2, <3>3
  <2>6. ASSUME server_end[c] = "open", rest = <<>>
        PROVE  next < NextSent(c) /\ (ByteStream \/ next = NextSent(c) - 1)
    <3>1. n = Len(q)
          BY <1>4, <1>5, <1>6, <2>6 DEF rest, q
    <3>2. next <= q[Len(q)].frame /\ (ByteStream \/ next = q[Len(q)].frame) /\ q[Len(q)].frame = NextSent(c) - 1
          BY <1>10, <2>1, <2>2, <2>6, <3>1
    <3>3. QED
          BY <1>10, <2>4, <3>2
  <2>7. QED
        BY <2>3, <2>5, <2>6
<1>14. QED
      BY <1>3, <1>12, <1>13

-------------------------------------------------------------------------------
(***************************************************************************)
(* A step of the server keeps what is said of the inputs.                  *)
(***************************************************************************)
Sends == SimStep \/ SimKills \/ \E s \in Slots : ThreadSendInit(s)

LEMMA ServerQuiet ==
    ASSUME NInv, NEW c \in Clients, ServerNext, UNCHANGED clientVars, ~Sends
    PROVE  Quiet(c)
BY AcceptQuiet, ThreadQuiet, SimQuiet, MainQuiet DEF Sends, ServerNext, ServerThreads, SimulationThread

LEMMA ServerLane ==
    ASSUME IInv, NEW c \in Clients, NEW s \in Slots, ServerNext, UNCHANGED clientVars
    PROVE  Lane(s, c)'
<1>0. /\ NInv /\ server_up /\ SimReady /\ TypeOK /\ cd_fd \in [Slots -> Clients \cup {NoFd}]
      /\ down \in [Clients -> Seq(InitMessage \cup EventsMessage)]
      BY ServerLog, ServerFacts DEF IInv, RInv, NInv, TypeOK, NetworkTypeOK
<1>1. CASE OwnStep(s)
      BY <1>1, SendInitLane, ReceiveLane DEF OwnStep
<1>2. CASE ~OwnStep(s)
  <2>0. LaneKept(s, c)
        BY <1>0, <1>2, ServerKeepsLane
  <2>1. CASE SimKills
        BY <2>1 DEF SimKills, ServerDies, Lane
  <2>2. CASE SimStep
    <3>1. /\ server_frame' = server_frame + 1 /\ UNCHANGED server_end
          /\ down' = Broadcast(BroadcastTo, FrameGameEvents(server_frame, CurrentEvents))
          /\ Serves(s, c) => cd_client_frame[s] >= server_frame
          BY <1>0, <2>2 DEF SimStep, SimSimulating, SimReady, Serves
    <3>2. BroadcastTo \in SUBSET Slots /\ FrameGameEvents(server_frame, CurrentEvents).type = "EVENTS"
          BY DEF BroadcastTo, FrameGameEvents
    <3>3. ASSUME NEW k \in DOMAIN down'[c], down'[c][k].type = "INIT"
          PROVE  k \in DOMAIN down[c] /\ down'[c][k] = down[c][k]
      <4> DEFINE m == FrameGameEvents(server_frame, CurrentEvents)
      <4>1. m.type = "EVENTS" /\ down' = Broadcast(BroadcastTo, m)
            BY <3>1, <3>2
      <4> HIDE DEF m
      <4>2. /\ Copies(BroadcastTo, c) \in Nat /\ Len(down[c]) \in Nat /\ DOMAIN down[c] = 1 .. Len(down[c])
            /\ DOMAIN down'[c] = 1 .. Len(down[c]) + Copies(BroadcastTo, c)
            /\ \A j \in 1 .. Len(down[c]) : down'[c][j] = down[c][j]
            /\ \A j \in 1 .. Len(down[c]) + Copies(BroadcastTo, c) : j > Len(down[c]) => down'[c][j] = m
            BY <1>0, <3>2, <4>1, BroadcastShape
      <4>3. ~(k > Len(down[c]))
            BY <3>3, <4>1, <4>2
      <4>4. QED
            BY <3>3, <4>2, <4>3
    <3>4. server_end'[c] = "open" => server_end[c] # "closed"
          BY <3>1
    <3>5. QED
          BY <1>0, <2>0, <3>1, <3>3, <3>4, LaneAdvances
  <2>3. ASSUME NEW t \in Slots, ThreadSendInit(t) PROVE Lane(s, c)'
    <3>1. /\ thread_pc[t] = "send_init" /\ UNCHANGED <<server_frame, server_end>>
          /\ down' = Delivered(down, client_end, cd_fd[t], thread_msg[t])
          BY <2>3 DEF ThreadSendInit, ThreadStep, ringVars
    <3>2. t # s
          BY <1>2, <2>3 DEF OwnStep
    <3>3. Serves(s, c) => cd_fd[t] # c
          BY <1>0, <3>1, <3>2, OneServes
    <3>4. cd_fd[t] # c => down'[c] = down[c]
          BY <1>0, <3>1 DEF Delivered
    <3>5. server_end'[c] = "open" => server_end[c] # "closed"
          BY <3>1
    <3>6. QED
          BY <1>0, <2>0, <3>1, <3>3, <3>4, <3>5, LaneAdvances
  <2>4. CASE ~Sends
    <3>1. server_frame' = server_frame /\ down'[c] = down[c] /\ (server_end'[c] = "open" => server_end[c] # "closed")
          BY <1>0, <2>4, ServerQuiet DEF Quiet, ClientKept, EndKept
    <3>2. QED
          BY <1>0, <2>0, <3>1, LaneAdvances
  <2>5. QED
        BY <2>1, <2>2, <2>3, <2>4 DEF Sends
<1>3. QED
      BY <1>1, <1>2

\* Inputs are in flight to a thread that serves their client.
LEMMA ServerServed ==
    ASSUME IInv, NEW c \in Clients, ServerNext, up'[c] # <<>>
    PROVE  \E s \in Slots : Serves(s, c)'
<1>0. NInv
      BY DEF IInv, RInv
<1>1. up[c] # <<>>
  <2>1. up' \in [Clients -> Seq(InputsMessage)]
        BY <1>0, ServerKeepsInv, NInvInv DEF Inv, Types, NetworkTypeOK
  <2>2. up'[c] \in Seq(InputsMessage)
        BY <2>1
  <2>3. 1 \in DOMAIN up'[c]
        BY <2>2
  <2>4. QED
        BY <1>0, <2>3, InputsTaken
<1>2. PICK s \in Slots : Serves(s, c)
      BY <1>1 DEF IInv, InputInv, InputsOf
<1>3. CASE OwnStep(s)
  <2>1. CASE ThreadStoreInput(s) \/ ThreadIgnoreInput(s)
    <3>1. ThreadReceiving(s) /\ cd_fd[s] = c
          BY <1>2, <2>1 DEF ThreadStoreInput, ThreadIgnoreInput, Serves
    <3>2. QED
          BY <1>0, <3>1, ReceivingFrom
  <2>2. QED
        BY <1>2, <1>3, <2>1 DEF OwnStep, ThreadSendInit, ThreadSendInitFails, ThreadStep, Serves
<1>4. CASE ~OwnStep(s)
      BY <1>0, <1>2, <1>4, ServerKeepsLane DEF LaneKept
<1>5. QED
      BY <1>3, <1>4

LEMMA ServerEndInUse ==
    ASSUME IInv, NEW c \in Clients, ServerNext, UNCHANGED clientVars
    PROVE  EndInUse(c)' /\ LastIssued(c)'
<1>0. /\ EndInUse(c) /\ LastIssued(c) /\ server_up
      /\ UNCHANGED <<c_main_pc, c_recv_pc, c_is_initialised, c_client_frame, c_out, c_issued>>
      BY ServerLog DEF IInv, InputInv, InputsOf, clientVars, frameVars
<1>1. UNCHANGED client_end
  <2>1. CASE ~Sends
        BY <2>1, ServerQuiet DEF IInv, RInv, Quiet, ClientKept
  <2>2. CASE Sends
        BY <2>2 DEF Sends, SimStep, SimKills, ThreadSendInit
  <2>3. QED
        BY <2>1, <2>2
<1>2. ~server_up' => ServerDies
  <2>1. CASE AcceptThread
        BY <1>0, <2>1 DEF AcceptThread, AcceptConnection, AcceptStops, AcceptLimitReached, AcceptNoSlot,
                          AcceptFindSlot, Admitting, AcceptStep, AcceptMark, AcceptSetFd, AcceptSetFrame,
                          AcceptCountRead, AcceptCountWrite, AcceptSpawn, AcceptSpawnFails,
                          AcceptUndoFd, AcceptUndoRead, AcceptUndoWrite, AcceptUndoUnlock, AcceptUndo,
                          AcceptUnlock, networkVars
  <2>2. ASSUME NEW s \in Slots, ClientThread(s) PROVE ~server_up' => ServerDies
        BY <1>0, <2>2 DEF ClientThread, ThreadInit, ThreadSendInit, ThreadSendInitFails, ThreadSendInitKills,
                          ThreadStoreInput, ThreadIgnoreInput, ThreadReceiving, ThreadRecvPart, ThreadRecvEnd,
                          ThreadClose, ThreadForgetFd, ThreadLeave, ThreadRemove, ThreadRemoved, networkVars
  <2>3. CASE SimulationThread \/ SimSpuriousWakeup
        BY <1>0, <2>3 DEF SimulationThread, SimTest, SimTestLate, SimStops, SimSpuriousWakeup, SimStep, SimKills,
                          networkVars
  <2>4. CASE BeginShutdown \/ ServerShutdown
        BY <1>0, <2>4 DEF BeginShutdown, ServerShutdown, MainCount, MainSkipClient, MainShutClient, MainCloseClient,
            MainSignal, MainJoinSimulation, MainJoinAccept, MainJoinClient, MainReturns, NextSlot, MainStep
  <2>5. QED
        BY <2>1, <2>2, <2>3, <2>4 DEF ServerNext, ServerThreads
<1>3. ~server_up' => server_end'[c] # "open" /\ up'[c] = <<>>
      BY <1>2 DEF ServerDies
<1>4. EndInUse(c)'
      BY <1>0, <1>1, <1>3 DEF EndInUse
<1>5. LastIssued(c)'
      BY <1>0 DEF LastIssued
<1>6. QED
      BY <1>4, <1>5

\* The input that is taken is the one its player gave for its frame.
LEMMA TakenIsOwn ==
    ASSUME IInv, NEW c \in Clients, NEW s \in Slots, ThreadReceiving(s), cd_fd[s] = c, c_is_initialised[c]
    PROVE  /\ Head(up[c]).frame \in Nat /\ server_frame <= Head(up[c]).frame
           /\ Head(up[c]).frame < server_frame + FRAME_BUFFER_SIZE - 1
           /\ cd_client_frame[s] = -1 => Head(up[c]).frame = server_frame
           /\ c_client_index[c] = s /\ OwnInput(c, Head(up[c]).frame, Head(up[c]).input)
<1>0. /\ NInv /\ OnlyPredicted(c) /\ InputsKept(c)
      /\ c_joined[c] \in Nat /\ c_client_frame[c] \in Nat
      BY FrameFacts DEF IInv, RInv, NInv, NetcodeInv, ClientInv, RollbackInv, ReplicaInv
<1>1. PICK n \in 1 .. Len(up[c]) : Head(up[c]) = up[c][1]
      BY <1>0, TakenFromQueue
<1>2. 1 \in DOMAIN up[c] /\ up[c] # <<>> /\ up[c][1].frame \in Nat
  <2>1. /\ Len(up[c]) \in Nat /\ DOMAIN up[c] = 1 .. Len(up[c]) /\ (up[c] # <<>> <=> Len(up[c]) > 0)
        /\ \A k \in 1 .. Len(up[c]) : up[c][k].frame \in Nat
        BY <1>0, UpMessages
  <2>2. 1 \in 1 .. Len(up[c])
        BY <1>1, <2>1
  <2>3. QED
        BY <2>1, <2>2
<1>3. IndexToldTo(s, c) /\ InTurn(s, c) /\ SentInTurn(s, c)
  <2>1. server_up /\ Serves(s, c)
        BY <1>0, ReceivingFrom
  <2>2. QED
        BY <2>1 DEF IInv, InputInv, InputsOf, Lane
<1> DEFINE m == up[c][1]
<1>4. server_frame <= m.frame /\ m.frame < server_frame + FRAME_BUFFER_SIZE - 1
      BY <1>2, <1>3 DEF InTurn
<1>5. cd_client_frame[s] = -1 => m.frame = server_frame
      BY <1>2, <1>3 DEF InTurn
<1>6. c_client_index[c] = s
      BY <1>3 DEF IndexToldTo
<1>7. c_joined[c] <= m.frame /\ m.input = Issued(c, m.frame)
      BY <1>2, <1>3 DEF SentInTurn
<1>8. m.frame < c_client_frame[c] /\ Len(c_issued[c]) = c_client_frame[c] - c_joined[c]
      BY <1>0, <1>2 DEF OnlyPredicted, InputsKept
<1>9. OwnInput(c, m.frame, m.input)
  <2> HIDE DEF m
  <2>1. m.frame \in Nat
        BY <1>2 DEF m
  <2>2. m.frame - c_joined[c] < Len(c_issued[c])
        BY <1>0, <1>8, <2>1
  <2>3. QED
        BY <1>7, <2>2 DEF OwnInput
<1>10. QED
       BY <1>1, <1>2, <1>4, <1>5, <1>6, <1>9

\* Only an input that is stored changes what the current frame has for a slot.
LEMMA CurrentInput ==
    ASSUME NInv, ServerNext, LogQuiet, NEW i \in Slots
    PROVE  \/ CurrentEvents'.player_inputs[i] = CurrentEvents.player_inputs[i]
           \/ /\ ThreadStoreInput(i)
              /\ Ring(Head(up[cd_fd[i]]).frame) = Ring(server_frame)
              /\ CurrentEvents'.player_inputs[i] = Head(up[cd_fd[i]]).input
<1> USE DEF ringVars
<1>0. /\ server_frame \in Nat /\ game_events \in [RingIndex -> GameEvents]
      /\ Ring(server_frame) \in RingIndex
      BY RingType DEF NInv, TypeOK, ServerTypeOK
<1>1. /\ CurrentEvents = game_events[Ring(server_frame)]
      /\ CurrentEvents' = game_events'[Ring(server_frame)]
      BY DEF CurrentEvents, LogQuiet
<1> DEFINE r == Ring(server_frame)
           Kept == game_events'[r].player_inputs[i] = game_events[r].player_inputs[i]
           Stored == /\ ThreadStoreInput(i) /\ Ring(Head(up[cd_fd[i]]).frame) = r
                     /\ game_events'[r].player_inputs[i] = Head(up[cd_fd[i]]).input
<1>2. ASSUME NEW s \in Slots, ThreadInit(s) \/ ThreadLeave(s) PROVE Kept
  <2>1. PICK event \in PlayerEvent : game_events' = [game_events EXCEPT ![r].player_events[s] = event]
        BY <1>2 DEF ThreadInit, ThreadLeave, PlayerEvent
  <2> HIDE DEF r
  <2>2. game_events'[r] = [game_events[r] EXCEPT !.player_events[s] = event]
        BY <1>0, <2>1 DEF r
  <2>3. QED
        BY <1>0, <2>2 DEF r, GameEvents
<1>3. ASSUME NEW s \in Slots, ThreadStoreInput(s) PROVE Kept \/ Stored
  <2> DEFINE m == Head(up[cd_fd[s]])
  <2>1. game_events' = [game_events EXCEPT ![Ring(m.frame)].player_inputs[s] = m.input]
        BY <1>3 DEF ThreadStoreInput
  <2> HIDE DEF r, m
  <2>2. game_events'[r] = IF Ring(m.frame) = r THEN [game_events[r] EXCEPT !.player_inputs[s] = m.input]
                          ELSE game_events[r]
        BY <1>0, <2>1 DEF r
  <2>3. CASE s = i /\ Ring(m.frame) = r
    <3>1. game_events'[r].player_inputs[i] = m.input
          BY <1>0, <2>2, <2>3 DEF r, GameEvents
    <3>2. QED
          BY <1>3, <2>3, <3>1 DEF r, m
  <2>4. CASE ~(s = i /\ Ring(m.frame) = r)
        BY <1>0, <2>2, <2>4 DEF r, GameEvents
  <2>5. QED
        BY <2>3, <2>4
<1>4. ASSUME UNCHANGED game_events PROVE Kept
      BY <1>4
<1>5. Kept \/ Stored
  <2> HIDE DEF Kept, Stored
  <2>2. CASE AcceptThread
        BY <1>4, <2>2 DEF AcceptThread, AcceptConnection, AcceptStops, AcceptLimitReached, AcceptNoSlot,
                    AcceptFindSlot, AcceptStep, AcceptMark, AcceptSetFd, AcceptSetFrame, AcceptCountRead,
                    AcceptCountWrite, AcceptSpawn, AcceptSpawnFails,
                    AcceptUndoFd, AcceptUndoRead, AcceptUndoWrite, AcceptUndoUnlock, AcceptUndo, AcceptUnlock
  <2>4. ASSUME NEW s \in Slots, ClientThread(s) PROVE Kept \/ Stored
        BY <1>2, <1>3, <1>4, <2>4
        DEF ClientThread, ThreadSendInit, ThreadSendInitFails, ThreadSendInitKills, ThreadIgnoreInput, ThreadRecvPart,
            ThreadRecvEnd, ThreadClose, ThreadForgetFd, ThreadRemove, ThreadRemoved, serverVars
  <2>5. ~SimStep
        BY <1>0 DEF SimStep, LogQuiet
  <2>6. CASE SimTest \/ SimTestLate \/ SimStops \/ SimSpuriousWakeup \/ SimKills
        BY <1>4, <2>6 DEF SimTest, SimTestLate, SimStops, SimSpuriousWakeup, SimKills
  <2>7. CASE BeginShutdown \/ ServerShutdown
        BY <1>4, <2>7
        DEF BeginShutdown, ServerShutdown, MainCount, MainSkipClient, MainShutClient, MainCloseClient,
            MainSignal, MainJoinSimulation, MainJoinAccept, MainJoinClient, MainReturns, NextSlot, MainStep
  <2>8. QED
        BY <2>2, <2>4, <2>5, <2>6, <2>7 DEF ServerNext, ServerThreads, SimulationThread
<1>6. QED
      BY <1>1, <1>5

LEMMA EntryStaysOwned ==
    ASSUME IInv, NEW c \in Clients, ServerNext, LogQuiet, UNCHANGED clientVars
    PROVE  EntryOwned(c)'
<1>0. /\ NInv /\ EntryOwned(c) /\ ListenedTo(c) /\ UsesOpenEnd(c) /\ SimReady /\ server_up
      /\ server_frame \in Nat /\ thread_pc \in [Slots -> ThreadPC] /\ FRAME_BUFFER_SIZE \in Nat
      BY ServerLog, ServerFacts DEF IInv, InputInv, InputsOf, RInv, RollbackInv, ReplicaInv, NInv, NetcodeInv, ClientInv
<1>1. /\ UNCHANGED <<c_is_initialised, c_client_index, c_joined, c_issued>> /\ server_frame' = server_frame
      /\ ~listening => ~listening'
      /\ sim_pc' = "simulate" => sim_pc = "simulate" \/ (SimTest /\ ~to_shutdown)
      BY DEF clientVars, LogQuiet
<1>2. SUFFICES ASSUME c_is_initialised[c], server_up', ~(to_shutdown' /\ sim_pc' # "simulate")
               PROVE  \/ \E s \in Slots : Serves(s, c)' /\ cd_client_frame'[s] = -1
                      \/ OwnInput(c, server_frame, CurrentEvents'.player_inputs[c_client_index[c]])
      BY <1>1 DEF EntryOwned, OwnInput, Issued
<1>3. ~(to_shutdown /\ sim_pc # "simulate")
      BY <1>1, <1>2 DEF to_shutdown
<1>4. client_end[c] = "open" /\ Told(c) /\ c_client_index[c] \in Slots
      BY <1>0, <1>2 DEF UsesOpenEnd, Told
<1>5. ASSUME ~to_shutdown
      PROVE  \E s \in Slots : thread_pc[s] = "listen" /\ cd_fd[s] = c /\ server_end[c] = "open" /\ c_client_index[c] = s
  <2>1. PICK s \in Slots : thread_pc[s] = "listen" /\ cd_fd[s] = c /\ server_end[c] = "open"
        BY <1>0, <1>4, <1>5 DEF ListenedTo
  <2>2. c_client_index[c] = s
        BY <1>0, <1>2, <2>1 DEF IInv, InputInv, InputsOf, Lane, IndexToldTo, Serves
  <2>3. QED
        BY <2>1, <2>2
<1>6. CASE \E s \in Slots : Serves(s, c) /\ cd_client_frame[s] = -1
  <2>1. PICK s \in Slots : Serves(s, c) /\ cd_client_frame[s] = -1
        BY <1>6
  <2>2. sim_pc # "simulate" /\ ~to_shutdown
        BY <1>0, <1>3, <2>1 DEF SimReady, Serves
  <2>3. ~to_shutdown'
    <3>1. CASE sim_pc' = "simulate"
          BY <1>1, <2>2, <3>1 DEF SimTest, to_shutdown, networkVars
    <3>2. QED
          BY <1>2, <3>1
  <2>4. thread_pc[s] = "listen" /\ cd_fd[s] = c /\ server_end[c] = "open"
    <3>1. PICK t \in Slots : thread_pc[t] = "listen" /\ cd_fd[t] = c /\ server_end[c] = "open"
          BY <1>5, <2>2
    <3>2. s = t
          BY <1>0, <2>1, <3>1, OneServes
    <3>3. QED
          BY <3>1, <3>2
  <2>5. Serves(s, c)'
        BY <1>0, <1>2, <1>4, <2>3, <2>4, StillListens DEF Serves
  <2>6. CASE ~OwnStep(s)
        BY <1>0, <1>2, <2>1, <2>5, <2>6, ServerKeepsLane DEF LaneKept
  <2>7. CASE ThreadIgnoreInput(s)
        BY <2>1, <2>5, <2>7 DEF ThreadIgnoreInput
  <2>8. CASE ThreadStoreInput(s)
    <3> DEFINE m == Head(up[c])
    <3>1. ThreadReceiving(s) /\ game_events' = [game_events EXCEPT ![Ring(m.frame)].player_inputs[s] = m.input]
          BY <2>4, <2>8 DEF ThreadStoreInput
    <3>2. m.frame = server_frame /\ c_client_index[c] = s /\ OwnInput(c, m.frame, m.input)
          BY <1>2, <2>1, <2>4, <3>1, TakenIsOwn
    <3> HIDE DEF m
    <3>3. CurrentEvents'.player_inputs[s] = m.input
      <4>1. game_events \in [RingIndex -> GameEvents] /\ Ring(server_frame) \in RingIndex
            BY <1>0, RingType DEF NInv, TypeOK, ServerTypeOK
      <4>2. game_events'[Ring(server_frame)] = [game_events[Ring(server_frame)] EXCEPT !.player_inputs[s] = m.input]
            BY <3>1, <3>2, <4>1
      <4>3. QED
            BY <1>1, <4>1, <4>2 DEF CurrentEvents, GameEvents
    <3>4. QED
          BY <3>2, <3>3
  <2>9. QED
        BY <2>4, <2>6, <2>7, <2>8 DEF OwnStep, ThreadSendInit, ThreadSendInitFails, ThreadStep
<1>7. CASE OwnInput(c, server_frame, CurrentEvents.player_inputs[c_client_index[c]])
  <2> DEFINE i == c_client_index[c]
             m == Head(up[cd_fd[i]])
  <2>1. CASE CurrentEvents'.player_inputs[i] = CurrentEvents.player_inputs[i]
        BY <1>7, <2>1
  <2>2. CASE ThreadStoreInput(i) /\ Ring(m.frame) = Ring(server_frame) /\ CurrentEvents'.player_inputs[i] = m.input
    <3>1. ThreadReceiving(i) /\ sim_pc # "simulate"
          BY <2>2 DEF ThreadStoreInput, ThreadReceiving, StateLockFree
    <3>2. cd_fd[i] = c
          BY <1>3, <1>5, <3>1
    <3>3. /\ m.frame \in Nat /\ server_frame <= m.frame
          /\ m.frame < server_frame + FRAME_BUFFER_SIZE - 1 /\ OwnInput(c, m.frame, m.input)
          BY <1>2, <1>4, <3>1, <3>2, TakenIsOwn
    <3> HIDE DEF m
    <3>4. m.frame = server_frame
      <4>1. SUFFICES ASSUME server_frame < m.frame PROVE FALSE
            BY <1>0, <3>3
      <4>2. m.frame < server_frame + FRAME_BUFFER_SIZE
            BY <1>0, <3>3
      <4>3. Ring(server_frame) # Ring(m.frame)
            BY <1>0, <3>3, <4>1, <4>2, RingApart
      <4>4. QED
            BY <2>2, <4>3
    <3>5. QED
          BY <2>2, <3>3, <3>4
  <2>3. QED
        BY <1>0, <1>4, <2>1, <2>2, CurrentInput
<1>8. QED
      BY <1>0, <1>2, <1>3, <1>6, <1>7 DEF EntryOwned

\* A frame that is simulated has the client's own input or none, and so has the next one
\* to begin with.
LEMMA SimulatedOwned ==
    ASSUME IInv, NEW c \in Clients, SimStep \/ SimKills, UNCHANGED clientVars
    PROVE  /\ EntryOwned(c)'
           /\ c_is_initialised[c] => OwnInput(c, server_frame, CurrentEvents.player_inputs[c_client_index[c]])
<1>0. /\ NInv /\ EntryOwned(c) /\ UsesOpenEnd(c) /\ SimReady /\ server_frame \in Nat
      /\ game_events \in [RingIndex -> GameEvents]
      BY ServerFacts DEF IInv, InputInv, InputsOf, RInv, NInv, NetcodeInv, ClientInv, TypeOK, ServerTypeOK
<1>1. server_up /\ sim_pc = "simulate"
      BY DEF SimStep, SimKills, SimSimulating
<1>2. UNCHANGED <<c_is_initialised, c_client_index, c_joined, c_issued>>
      BY DEF clientVars
<1>3. ASSUME c_is_initialised[c]
      PROVE  OwnInput(c, server_frame, CurrentEvents.player_inputs[c_client_index[c]])
  <2>1. ASSUME NEW s \in Slots, Serves(s, c) PROVE cd_client_frame[s] # -1
        BY <1>0, <1>1, <2>1 DEF SimReady, Serves
  <2>2. QED
        BY <1>0, <1>1, <1>3, <2>1 DEF EntryOwned
<1>4. EntryOwned(c)'
  <2>1. CASE SimStep
    <3>1. c_is_initialised[c] => c_client_index[c] \in Slots
          BY <1>0 DEF UsesOpenEnd
    <3>2. /\ server_frame' = server_frame + 1 /\ Ring(server_frame + 1) \in RingIndex
          /\ game_events' = [game_events EXCEPT ![Ring(server_frame + 1)] = NoEvents]
          BY <1>0, <2>1, RingType DEF SimStep
    <3>3. CurrentEvents' = NoEvents
          BY <1>0, <3>2 DEF CurrentEvents
    <3>4. c_is_initialised[c] => CurrentEvents'.player_inputs[c_client_index[c]] = NoInput
          BY <3>1, <3>3 DEF NoEvents
    <3>5. QED
          BY <1>2, <3>4 DEF EntryOwned, OwnInput
  <2>2. CASE SimKills
        BY <2>2 DEF SimKills, ServerDies, EntryOwned
  <2>3. QED
        BY <2>1, <2>2
<1>5. QED
      BY <1>3, <1>4

LEMMA ServerAttributes ==
    ASSUME IInv, NEW c \in Clients, ServerNext, UNCHANGED clientVars, c_is_initialised[c],
           NEW f \in c_joined[c] .. Len(confirmed') - 1
    PROVE  Attributed(c, f)'
<1>0. /\ RInv /\ UNCHANGED <<c_is_initialised, c_client_index, c_joined, c_issued>> /\ c_joined[c] \in Nat
      /\ \A g \in c_joined[c] .. Len(confirmed) - 1 : Attributed(c, g)
      BY FrameFacts DEF IInv, InputInv, InputsOf, RInv, clientVars
<1>1. CASE LogQuiet
      BY <1>0, <1>1 DEF LogQuiet, Attributed, OwnInput, Issued
<1>2. CASE SimStep \/ SimKills
  <2>1. /\ LogGrows /\ Len(confirmed) = server_frame /\ Len(confirmed') = server_frame + 1
        /\ confirmed'[server_frame + 1] = CurrentEvents /\ server_frame \in Nat
        BY <1>0, <1>2, LogAppended, LogFacts DEF SimStep, SimKills
  <2>2. OwnInput(c, server_frame, CurrentEvents.player_inputs[c_client_index[c]])
        BY <1>2, SimulatedOwned
  <2>3. CASE f = server_frame
        BY <1>0, <2>1, <2>2, <2>3 DEF Attributed, OwnInput, Issued
  <2>4. CASE f # server_frame
    <3>1. f \in c_joined[c] .. Len(confirmed) - 1 /\ f + 1 \in 1 .. Len(confirmed)
          BY <1>0, <2>1, <2>4
    <3>2. confirmed'[f + 1] = confirmed[f + 1]
          BY <2>1, <3>1 DEF LogGrows
    <3>3. Attributed(c, f)
          BY <1>0, <3>1
    <3>4. QED
          BY <1>0, <3>2, <3>3 DEF Attributed, OwnInput, Issued
  <2>5. QED
        BY <2>3, <2>4
<1>3. QED
      BY <1>1, <1>2, ServerLog

LEMMA ServerKeepsInputs ==
    ASSUME IInv, ServerNext, UNCHANGED clientVars
    PROVE  InputInv'
<1>0. RInv /\ NInv /\ LogInv /\ InputInv /\ server_frame \in Nat /\ MaxFrame \in Nat
      BY LogFacts, NetworkAssumption DEF IInv, RInv, RollbackInv
<1>1. server_frame' <= MaxFrame
  <2>1. CASE LogQuiet
        BY <1>0, <2>1 DEF LogQuiet, InputInv
  <2>2. CASE SimStep \/ SimKills
        BY <1>0, <2>2 DEF SimStep, SimKills, SimSimulating, LogInv, InputInv
  <2>3. QED
        BY <2>1, <2>2, ServerLog
<1>2. ASSUME NEW s \in Slots, thread_pc'[s] = "send_init" PROVE thread_msg'[s].client_index = s
  <2>1. CASE ThreadInit(s)
    <3>1. thread_msg \in [Slots -> InitMessage \cup {NoMessage}]
          BY <1>0 DEF NInv, TypeOK, ServerTypeOK
    <3>2. thread_msg'[s] = InitPlayer(server_frame, game_states[Ring(server_frame)],
                                      game_events'[Ring(server_frame)], s)
          BY <2>1, <3>1 DEF ThreadInit
    <3>3. QED
          BY <3>2 DEF InitPlayer
  <2>2. CASE thread_pc[s] = "send_init" /\ thread_msg'[s] = thread_msg[s]
        BY <1>0, <2>2 DEF InputInv
  <2>3. QED
        BY <1>0, <1>2, <2>1, <2>2, FirstPrepared
<1>3. ASSUME NEW c \in Clients PROVE InputsOf(c)'
  <2>1. EndInUse(c)' /\ LastIssued(c)'
        BY ServerEndInUse
  <2>2. EntryOwned(c)'
        BY <1>0, ServerLog, EntryStaysOwned, SimulatedOwned
  <2>3. c_is_initialised'[c] => \A f \in c_joined'[c] .. Len(confirmed') - 1 : Attributed(c, f)'
        BY ServerAttributes DEF clientVars
  <2>4. up'[c] # <<>> => \E s \in Slots : Serves(s, c)'
        BY ServerServed
  <2>5. \A s \in Slots : Lane(s, c)'
        BY ServerLane
  <2>6. QED
        BY <2>1, <2>2, <2>3, <2>4, <2>5 DEF InputsOf
<1>4. QED
      BY <1>1, <1>2, <1>3 DEF InputInv

-------------------------------------------------------------------------------
(***************************************************************************)
(* A step of client c keeps what is said of the inputs.                    *)
(***************************************************************************)
\* What a client's step leaves alone on the other side.
LEMMA OtherSideKept ==
    ASSUME NInv, NEW c \in Clients, ClientStep(c)
    PROVE  /\ UNCHANGED <<server_end, server_up, listening, server_frame, game_events, confirmed, sim_pc,
                          thread_pc, thread_msg, cd_fd, cd_client_frame>>
           /\ \A s \in Slots, d \in Clients : Serves(s, d)' <=> Serves(s, d)
           /\ CurrentEvents' = CurrentEvents
BY ClientPeersOnly DEF NInv, PeersOnly, serverVars, slotVars, threadVars, ringVars, Serves, CurrentEvents

\* What has been said between client d and the server stays as it is, but for messages
\* that d reads.
Unspoken(d) ==
    /\ up'[d] = up[d]
    /\ \A k \in DOMAIN down'[d] : \E j \in DOMAIN down[d] : down'[d][k] = down[d][j]
    /\ c_is_initialised'[d] = c_is_initialised[d] /\ c_client_index'[d] = c_client_index[d]
    /\ c_joined'[d] = c_joined[d] /\ c_issued'[d] = c_issued[d]
    /\ server_end[d] = "open" => NextSent(d)' = NextSent(d)

\* The part of InputsOf that is about both sides.
Spoken(d) ==
    /\ EntryOwned(d)
    /\ c_is_initialised[d] => \A f \in c_joined[d] .. Len(confirmed) - 1 : Attributed(d, f)
    /\ up[d] # <<>> => \E s \in Slots : Serves(s, d)
    /\ \A s \in Slots : Lane(s, d)

LEMMA UnspokenKeeps ==
    ASSUME IInv, NEW c \in Clients, NEW d \in Clients, ClientStep(c), Unspoken(d)
    PROVE  Spoken(d)'
<1>0. /\ EntryOwned(d) /\ \A s \in Slots : Lane(s, d)
      /\ c_is_initialised[d] => \A f \in c_joined[d] .. Len(confirmed) - 1 : Attributed(d, f)
      /\ up[d] # <<>> => \E s \in Slots : Serves(s, d)
      BY DEF IInv, InputInv, InputsOf
<1>1. /\ UNCHANGED <<server_end, server_up, listening, server_frame, confirmed, sim_pc, cd_client_frame>>
      /\ \A s \in Slots : Serves(s, d)' <=> Serves(s, d)
      /\ CurrentEvents' = CurrentEvents
      BY OtherSideKept DEF IInv, RInv
<1>2. EntryOwned(d)'
      BY <1>0, <1>1 DEF EntryOwned, OwnInput, Issued, Unspoken, to_shutdown
<1>3. c_is_initialised'[d] => \A f \in c_joined'[d] .. Len(confirmed') - 1 : Attributed(d, f)'
      BY <1>0, <1>1 DEF Attributed, OwnInput, Issued, Unspoken
<1>4. up'[d] # <<>> => \E s \in Slots : Serves(s, d)'
      BY <1>0, <1>1 DEF Unspoken
<1>5. ASSUME NEW s \in Slots, server_up', Serves(s, d)'
      PROVE  IndexToldTo(s, d)' /\ InTurn(s, d)' /\ SentInTurn(s, d)'
  <2>1. IndexToldTo(s, d) /\ InTurn(s, d) /\ SentInTurn(s, d)
        BY <1>0, <1>1, <1>5 DEF Lane
  <2>2. IndexToldTo(s, d)'
        BY <2>1 DEF IndexToldTo, Unspoken
  <2>3. InTurn(s, d)'
        BY <1>1, <2>1 DEF InTurn, Unspoken
  <2>4. SentInTurn(s, d)'
        BY <1>1, <2>1 DEF SentInTurn, Issued, Unspoken
  <2>5. QED
        BY <2>2, <2>3, <2>4
<1>6. QED
      BY <1>2, <1>3, <1>4, <1>5 DEF Spoken, Lane

LEMMA OtherInputsKept ==
    ASSUME IInv, NEW c \in Clients, NEW d \in Clients, d # c, ClientStep(c)
    PROVE  InputsOf(d)'
<1>0. NInv /\ TypeOK /\ ClientTypeOK /\ EndInUse(d) /\ LastIssued(d)
      BY DEF IInv, RInv, NInv, TypeOK, InputInv, InputsOf
<1>1. OtherKept(d)
      BY <1>0, OthersKept
<1>2. c_out'[d] = c_out[d]
      BY ZenonT(60), <1>0 DEF ClientStep, MainThread, RecvThread, ClientConnect, ClientConnected, ClientSleeps, ClientWakes,
                  ClientPredict, ClientSend, ClientSendFails, ClientSendKills, ClientShutdown, ClientEnds,
                  Receiving, RecvInitPlayer, RecvGameEvents, RecvUnexpected, ResimStep, RecvMisread, RecvEnd,
                  ClientTypeOK
<1>3. Spoken(d)'
  <2>1. Unspoken(d)
        BY <1>1 DEF OtherKept, Unspoken, NextSent
  <2>2. QED
        BY <2>1, UnspokenKeeps
<1>4. EndInUse(d)' /\ LastIssued(d)'
      BY <1>0, <1>1, <1>2, OtherSideKept DEF EndInUse, LastIssued, OtherKept
<1>5. QED
      BY <1>3, <1>4 DEF InputsOf, Spoken

\* connect(), is_connected, the throttle, a send that fails, the end of the receive thread;
\* events that are read, and re-simulation.
LEMMA IdleInputs ==
    ASSUME IInv, NEW c \in Clients, ClientStep(c),
           ClientConnect(c) \/ ClientConnected(c) \/ ClientSleeps(c) \/ ClientWakes(c)
              \/ ClientSendFails(c) \/ RecvEnd(c) \/ RecvGameEvents(c) \/ RecvUnexpected(c) \/ ResimStep(c)
    PROVE  InputsOf(c)'
<1> USE DEF networkVars, frameVars, ringsVars
<1>0. /\ NInv /\ TypeOK /\ ClientTypeOK /\ NetworkTypeOK /\ EndInUse(c) /\ LastIssued(c) /\ UsesOpenEnd(c)
      BY DEF IInv, RInv, NInv, TypeOK, NetcodeInv, ClientInv, InputInv, InputsOf
<1>1. /\ UNCHANGED <<up, c_is_initialised, c_joined, c_issued, c_client_frame>>
      /\ c_client_index'[c] = c_client_index[c]
      BY DEF ClientConnect, ClientConnected, ClientSleeps, ClientWakes, ClientSendFails, RecvEnd, RecvGameEvents,
             RecvUnexpected, ResimStep, Receiving
<1>2. \A k \in DOMAIN down'[c] : \E j \in DOMAIN down[c] : down'[c][k] = down[c][j]
  <2>1. CASE Receiving(c)
    <3>1. /\ Len(down[c]) \in Nat /\ DOMAIN down[c] = 1 .. Len(down[c])
          /\ DOMAIN down'[c] = 1 .. Len(down[c]) - 1
          /\ \A k \in 1 .. Len(down[c]) - 1 : down'[c][k] = down[c][k + 1]
          BY <1>0, <2>1, HeadTailDown
    <3>2. ASSUME NEW k \in DOMAIN down'[c] PROVE \E j \in DOMAIN down[c] : down'[c][k] = down[c][j]
      <4>1. k + 1 \in DOMAIN down[c] /\ down'[c][k] = down[c][k + 1]
            BY <3>1, <3>2
      <4>2. QED
            BY <4>1
    <3>3. QED
          BY <3>2
  <2>2. CASE ~Receiving(c)
    <3>1. UNCHANGED down
          BY <2>2 DEF ClientConnect, ClientConnected, ClientSleeps, ClientWakes, ClientSendFails, RecvEnd,
                      RecvGameEvents, RecvUnexpected, ResimStep
    <3>2. QED
          BY <3>1
  <2>3. QED
        BY <2>1, <2>2
<1>3. /\ c_main_pc'[c] = "send" <=> c_main_pc[c] = "send" /\ ~ClientSendFails(c)
      /\ c_main_pc'[c] = "send" => c_out'[c] = c_out[c]
  <2>1. CASE ClientConnect(c) \/ ClientConnected(c) \/ ClientSleeps(c) \/ ClientWakes(c)
        BY <1>0, <2>1 DEF ClientConnect, ClientConnected, ClientSleeps, ClientWakes, ClientSendFails, MainHasStateLock,
                          ClientTypeOK
  <2>2. CASE ClientSendFails(c)
        BY <1>0, <2>2 DEF ClientSendFails, ClientTypeOK
  <2>3. CASE RecvEnd(c) \/ RecvGameEvents(c) \/ RecvUnexpected(c) \/ ResimStep(c)
    <3>1. UNCHANGED <<c_main_pc, c_out>>
          BY <2>3 DEF RecvEnd, RecvGameEvents, RecvUnexpected, ResimStep, Receiving
    <3>2. ~(ClientSendFails(c) /\ c_main_pc[c] = "send")
          BY <1>0, <3>1 DEF ClientSendFails, ClientTypeOK
    <3>3. QED
          BY <3>1, <3>2
  <2>4. QED
        BY <2>1, <2>2, <2>3
<1>4. server_end[c] = "open" => NextSent(c)' = NextSent(c)
  <2>1. ClientSendFails(c) => server_end[c] = "closed"
        BY DEF ClientSendFails
  <2>2. QED
        BY <1>1, <1>3, <2>1 DEF NextSent
<1>5. Spoken(c)'
      BY <1>1, <1>2, <1>4, UnspokenKeeps DEF Unspoken
<1>6. LastIssued(c)'
      BY <1>0, <1>1, <1>3 DEF LastIssued
<1>7. EndInUse(c)'
  <2>1. ~server_up' => server_end'[c] # "open" /\ up'[c] = <<>>
        BY <1>0, <1>1, OtherSideKept DEF EndInUse
  <2>2. c_is_initialised'[c] => c_client_frame'[c] <= MaxFrame
        BY <1>0, <1>1 DEF EndInUse
  <2>3. CASE ClientConnect(c)
        BY <1>0, <2>1, <2>2, <2>3 DEF EndInUse, ClientConnect, NetworkTypeOK
  <2>4. CASE ~ClientConnect(c)
    <3>1. UNCHANGED client_end
          BY <2>4 DEF ClientConnected, ClientSleeps, ClientWakes, ClientSendFails, RecvEnd, RecvGameEvents,
                      RecvUnexpected, ResimStep, Receiving
    <3>2. c_main_pc'[c] \in {"init", "loop", "sleep", "send"} => c_main_pc[c] \in {"init", "loop", "sleep", "send"}
          BY <1>0, <2>4 DEF ClientConnected, ClientSleeps, ClientWakes, ClientSendFails, RecvEnd, RecvGameEvents,
                      RecvUnexpected, ResimStep, Receiving, MainHasStateLock, ClientTypeOK
    <3>3. c_recv_pc'[c] \in {"recv", "resim"} => c_recv_pc[c] \in {"recv", "resim"}
          BY <1>0, <2>4 DEF ClientConnected, ClientSleeps, ClientWakes, ClientSendFails, RecvEnd, RecvGameEvents,
                      RecvUnexpected, ResimStep, Receiving, ClientTypeOK
    <3>4. QED
          BY <1>0, <2>1, <2>2, <3>1, <3>2, <3>3 DEF EndInUse
  <2>5. QED
        BY <2>3, <2>4
<1>8. QED
      BY <1>5, <1>6, <1>7 DEF InputsOf, Spoken

\* The inputs that have been given stay, in their order, when the next one is given.
LEMMA IssuedGrows ==
    ASSUME RInv, NEW c \in Clients, NEW input \in Inputs, ClientPredict(c, input)
    PROVE  /\ c_is_initialised[c] /\ Len(c_issued[c]) \in Nat /\ c_issued'[c] # <<>>
           /\ Len(c_issued[c]) = c_client_frame[c] - c_joined[c]
           /\ Len(c_issued'[c]) = Len(c_issued[c]) + 1 /\ c_issued'[c][Len(c_issued[c]) + 1] = input
           /\ \A f \in Nat : c_joined[c] <= f /\ f - c_joined[c] < Len(c_issued[c]) =>
                  c_issued'[c][f - c_joined[c] + 1] = Issued(c, f)
<1>1. /\ NInv /\ ClientTypeOK /\ c_is_initialised[c]
      /\ c_issued' = [c_issued EXCEPT ![c] = Append(@, input)]
      BY DEF RInv, NInv, TypeOK, ClientPredict, ClientReady
<1>2. c_issued[c] \in Seq(PlayerInput) /\ input \in PlayerInput
      BY <1>1, ClientAssumption DEF ClientTypeOK
<1> DEFINE q == c_issued[c]
<1>3. c_issued'[c] = Append(q, input)
      BY <1>1 DEF ClientTypeOK
<1>4. Len(q) = c_client_frame[c] - c_joined[c]
      BY <1>1 DEF RInv, RollbackInv, ReplicaInv, InputsKept
<1> HIDE DEF q
<1>5. /\ Len(q) \in Nat /\ Len(Append(q, input)) = Len(q) + 1 /\ Append(q, input)[Len(q) + 1] = input
      /\ \A i \in 1 .. Len(q) : Append(q, input)[i] = q[i]
      BY <1>2 DEF q
<1>6. c_issued'[c] # <<>>
      BY SMTT(30), <1>3, <1>5, EmptySeq
<1>7. c_joined[c] \in Nat
      BY <1>1, FrameFacts
<1>8. ASSUME NEW f \in Nat, c_joined[c] <= f, f - c_joined[c] < Len(q)
      PROVE  c_issued'[c][f - c_joined[c] + 1] = q[f - c_joined[c] + 1]
  <2>1. f - c_joined[c] + 1 \in 1 .. Len(q)
        BY <1>5, <1>7, <1>8
  <2>2. QED
        BY <1>3, <1>5, <2>1
<1>9. QED
      BY <1>1, <1>3, <1>4, <1>5, <1>6, <1>8 DEF q, Issued

LEMMA PredictInputs ==
    ASSUME IInv, NEW c \in Clients, ClientStep(c), NEW input \in Inputs, ClientPredict(c, input)
    PROVE  InputsOf(c)'
<1>0. /\ RInv /\ NInv /\ ClientTypeOK /\ EndInUse(c) /\ LastIssued(c) /\ UsesOpenEnd(c) /\ EntryOwned(c)
      /\ OnlyPredicted(c)
      BY DEF IInv, RInv, NInv, TypeOK, NetcodeInv, ClientInv, InputInv, InputsOf
<1>1. /\ c_is_initialised[c] /\ c_main_pc[c] = "loop" /\ c_client_frame[c] < MaxFrame
      /\ UNCHANGED <<up, down, client_end, c_recv_pc, c_is_initialised, c_client_index, c_joined>>
      /\ c_main_pc'[c] = "send" /\ c_client_frame'[c] = c_client_frame[c] + 1 /\ c_out'[c] = input
      BY <1>0 DEF ClientPredict, ClientReady, networkVars, ClientTypeOK
<1>2. /\ c_joined[c] \in Nat /\ c_client_frame[c] \in Nat /\ server_frame \in Nat /\ c_joined[c] <= server_frame
      BY <1>0, <1>1, FrameFacts
<1>3. /\ UNCHANGED <<server_end, server_up, listening, server_frame, confirmed, sim_pc, cd_client_frame>>
      /\ \A s \in Slots : Serves(s, c)' <=> Serves(s, c)
      /\ CurrentEvents' = CurrentEvents
      BY <1>0, OtherSideKept
<1>4. /\ Len(c_issued[c]) \in Nat /\ Len(c_issued[c]) = c_client_frame[c] - c_joined[c]
      /\ Len(c_issued'[c]) = Len(c_issued[c]) + 1 /\ c_issued'[c][Len(c_issued[c]) + 1] = input
      /\ c_issued'[c] # <<>>
      BY <1>0, IssuedGrows
<1>5. ASSUME NEW f \in Nat, c_joined[c] <= f, f - c_joined[c] < Len(c_issued[c])
      PROVE  Issued(c, f)' = Issued(c, f)
      BY <1>0, <1>1, <1>5, IssuedGrows DEF Issued
<1>6. ASSUME NEW f \in Nat, c_joined[c] <= f, NEW i, OwnInput(c, f, i)
      PROVE  OwnInput(c, f, i)'
  <2>1. CASE i = NoInput
        BY <2>1 DEF OwnInput
  <2>2. CASE f - c_joined[c] < Len(c_issued[c]) /\ i = Issued(c, f)
    <3>1. Issued(c, f)' = Issued(c, f) /\ f - c_joined'[c] < Len(c_issued'[c])
          BY <1>1, <1>2, <1>4, <1>5, <1>6, <2>2
    <3>2. QED
          BY <2>2, <3>1 DEF OwnInput
  <2>3. QED
        BY <1>6, <2>1, <2>2 DEF OwnInput
<1>7. EntryOwned(c)'
  <2>1. CASE to_shutdown /\ sim_pc # "simulate"
        BY <1>1, <1>3, <2>1 DEF EntryOwned, to_shutdown
  <2>2. CASE \E s \in Slots : Serves(s, c) /\ cd_client_frame[s] = -1
        BY <1>1, <1>3, <2>2 DEF EntryOwned
  <2>3. CASE OwnInput(c, server_frame, CurrentEvents.player_inputs[c_client_index[c]])
    <3>1. OwnInput(c, server_frame, CurrentEvents.player_inputs[c_client_index[c]])'
          BY <1>1, <1>2, <1>3, <1>6, <2>3
    <3>2. QED
          BY <3>1 DEF EntryOwned
  <2>4. QED
        BY <1>0, <1>1, <1>3, <2>1, <2>2, <2>3 DEF EntryOwned
<1>8. ASSUME NEW f \in c_joined'[c] .. Len(confirmed') - 1
      PROVE  Attributed(c, f)'
  <2>1. f \in c_joined[c] .. Len(confirmed) - 1 /\ Len(confirmed) \in Nat
        BY <1>0, <1>1, <1>3, <1>8, LogFacts
  <2>2. Attributed(c, f) /\ f \in Nat /\ c_joined[c] <= f
        BY <1>1, <1>2, <2>1 DEF IInv, InputInv, InputsOf
  <2>3. QED
        BY <1>1, <1>3, <1>6, <2>2 DEF Attributed
<1>9. up'[c] # <<>> => \E s \in Slots : Serves(s, c)'
      BY <1>1, <1>3 DEF IInv, InputInv, InputsOf
<1>10. ASSUME NEW s \in Slots, server_up', Serves(s, c)'
       PROVE  IndexToldTo(s, c)' /\ InTurn(s, c)' /\ SentInTurn(s, c)'
  <2>1. IndexToldTo(s, c) /\ InTurn(s, c) /\ SentInTurn(s, c)
        BY <1>3, <1>10 DEF IInv, InputInv, InputsOf, Lane
  <2>2. IndexToldTo(s, c)'
        BY <1>1, <2>1 DEF IndexToldTo
  <2>3. InTurn(s, c)'
        BY <1>1, <1>3, <2>1 DEF InTurn
  <2>4. NextSent(c)' = NextSent(c)
        BY <1>1, <1>2 DEF NextSent
  <2>5. ASSUME NEW k \in DOMAIN up[c]
        PROVE  c_joined[c] <= up[c][k].frame /\ up[c][k].input = Issued(c, up[c][k].frame)'
    <3>1. /\ up[c][k].frame \in Nat /\ c_joined[c] <= up[c][k].frame /\ up[c][k].frame < c_client_frame[c]
          /\ up[c][k].input = Issued(c, up[c][k].frame)
          BY <1>0, <1>1, <2>1, UpMessages DEF SentInTurn, OnlyPredicted
    <3>2. up[c][k].frame - c_joined[c] < Len(c_issued[c])
          BY <1>2, <1>4, <3>1
    <3>3. QED
          BY <1>1, <1>5, <3>1, <3>2
  <2>6. SentInTurn(s, c)'
        BY <1>1, <1>3, <2>1, <2>4, <2>5 DEF SentInTurn
  <2>7. QED
        BY <2>2, <2>3, <2>6
<1>11. EndInUse(c)'
  <2>1. c_client_frame'[c] <= MaxFrame
        BY <1>1, <1>2, NetworkAssumption
  <2>2. QED
        BY <1>0, <1>1, <1>3, <2>1 DEF EndInUse
<1>12. LastIssued(c)'
      BY <1>1, <1>4 DEF LastIssued
<1>13. QED
      BY <1>7, <1>8, <1>9, <1>10, <1>11, <1>12 DEF InputsOf, Lane

\* The input that is sent is the next one, names the client's slot and is in the window.
LEMMA NextInTurn ==
    ASSUME IInv, NEW c \in Clients, c_main_pc[c] = "send", server_up, server_end[c] = "open",
           NEW s \in Slots, Serves(s, c)
    PROVE  /\ c_client_index[c] = s /\ c_client_frame[c] - 1 \in Nat /\ NextSent(c) = c_client_frame[c] - 1
           /\ cd_client_frame[s] < c_client_frame[c] - 1 /\ server_frame <= c_client_frame[c] - 1
           /\ c_client_frame[c] - 1 < server_frame + FRAME_BUFFER_SIZE - 1
           /\ c_joined[c] <= c_client_frame[c] - 1 /\ c_out[c] = Issued(c, c_client_frame[c] - 1)
           /\ IF up[c] # <<>> THEN up[c][1].frame + Len(up[c]) = c_client_frame[c] - 1
              ELSE IF cd_client_frame[s] = -1 THEN c_client_frame[c] - 1 = server_frame
              ELSE ByteStream \/ c_client_frame[c] - 1 = cd_client_frame[s] + 1
<1>0. /\ RInv /\ NInv /\ LastIssued(c) /\ UsesOpenEnd(c)
      BY DEF IInv, RInv, NInv, NetcodeInv, ClientInv, InputInv, InputsOf
<1>1. c_is_initialised[c] /\ c_client_frame[c] > 0 /\ NextSent(c) = c_client_frame[c] - 1
      BY <1>0 DEF UsesOpenEnd, NextSent
<1>2. IndexToldTo(s, c) /\ InTurn(s, c) /\ SentInTurn(s, c)
      BY DEF IInv, InputInv, InputsOf, Lane
<1>3. /\ c_joined[c] \in Nat /\ c_sync_frame[c] \in Nat /\ c_server_frame[c] \in Nat /\ c_client_frame[c] \in Nat
      /\ FRAME_BUFFER_SIZE \in Nat /\ server_frame \in Nat
      /\ c_joined[c] <= c_sync_frame[c] /\ c_sync_frame[c] <= c_server_frame[c]
      /\ c_client_frame[c] <= c_sync_frame[c] + FRAME_BUFFER_SIZE - 1
      /\ c_server_frame[c] <= server_frame
      BY <1>0, <1>1, FrameFacts
<1>4. cd_client_frame[s] \in Int
      BY <1>0, ServerFacts
<1>5. /\ Len(up[c]) \in Nat /\ DOMAIN up[c] = 1 .. Len(up[c]) /\ (up[c] # <<>> <=> Len(up[c]) > 0)
      /\ \A k \in 1 .. Len(up[c]) : up[c][k].frame \in Nat
      BY <1>0, UpMessages
<1>6. /\ cd_client_frame[s] = -1 => c_joined[c] = server_frame
      /\ IF up[c] # <<>> THEN up[c][Len(up[c])].frame = c_client_frame[c] - 2
         ELSE IF cd_client_frame[s] = -1 THEN c_client_frame[c] - 1 = c_joined[c]
         ELSE /\ cd_client_frame[s] < c_client_frame[c] - 1
              /\ ByteStream \/ cd_client_frame[s] = c_client_frame[c] - 2
      BY <1>1, <1>2, <1>3 DEF SentInTurn
<1>7. cd_client_frame[s] = -1 \/ server_frame <= cd_client_frame[s] + 1
      BY <1>2 DEF InTurn
<1>8. /\ cd_client_frame[s] < c_client_frame[c] - 1 /\ server_frame <= c_client_frame[c] - 1
       /\ IF up[c] # <<>> THEN up[c][1].frame + Len(up[c]) = c_client_frame[c] - 1
          ELSE IF cd_client_frame[s] = -1 THEN c_client_frame[c] - 1 = server_frame
          ELSE ByteStream \/ c_client_frame[c] - 1 = cd_client_frame[s] + 1
  <2>1. CASE up[c] # <<>>
    <3>1. Len(up[c]) \in DOMAIN up[c] /\ 1 \in DOMAIN up[c]
          BY <1>5, <2>1
    <3>2. /\ up[c][Len(up[c])].frame = up[c][1].frame + Len(up[c]) - 1
          /\ cd_client_frame[s] < up[c][Len(up[c])].frame
          /\ server_frame <= up[c][Len(up[c])].frame
          BY <1>2, <3>1 DEF InTurn
    <3>3. up[c][1].frame \in Nat
          BY <1>5, <3>1
    <3>4. c_client_frame[c] - 2 = up[c][1].frame + Len(up[c]) - 1
          BY <1>6, <2>1, <3>2
    <3>5. /\ cd_client_frame[s] < c_client_frame[c] - 1 /\ server_frame <= c_client_frame[c] - 1
          /\ up[c][1].frame + Len(up[c]) = c_client_frame[c] - 1
      <4>1. cd_client_frame[s] < c_client_frame[c] - 2 /\ server_frame <= c_client_frame[c] - 2
            BY <1>6, <2>1, <3>2
      <4>2. /\ c_client_frame[c] \in Nat /\ server_frame \in Nat /\ cd_client_frame[s] \in Int
            /\ Len(up[c]) \in Nat
            BY <1>3, <1>4, <1>5
      <4>3. cd_client_frame[s] < c_client_frame[c] - 1
            BY <4>1, <4>2
      <4>4. server_frame <= c_client_frame[c] - 1
            BY <4>1, <4>2
      <4>5. up[c][1].frame + Len(up[c]) = c_client_frame[c] - 1
        <5> DEFINE a == up[c][1].frame
                   n == Len(up[c])
                   f == c_client_frame[c]
        <5>1. a \in Nat /\ n \in Nat /\ f \in Nat /\ f - 2 = a + n - 1
              BY <3>3, <3>4, <4>2
        <5> HIDE DEF a, n, f
        <5>2. a + n = f - 1
              BY <5>1
        <5>3. QED
              BY <5>2 DEF a, n, f
      <4>6. QED
            BY <4>3, <4>4, <4>5
    <3>6. QED
          BY <2>1, <3>5
  <2>2. CASE up[c] = <<>>
        BY <1>1, <1>3, <1>4, <1>6, <1>7, <2>2
  <2>3. QED
        BY <2>1, <2>2
<1>9. c_client_index[c] = s
       BY <1>1, <1>2 DEF IndexToldTo
<1>10. /\ c_client_frame[c] - 1 \in Nat /\ c_joined[c] <= c_client_frame[c] - 1
       /\ c_client_frame[c] - 1 < server_frame + FRAME_BUFFER_SIZE - 1
       BY SMTT(30), <1>1, <1>3, <1>8
<1>11. c_out[c] = Issued(c, c_client_frame[c] - 1)
  <2>1. c_out[c] = c_issued[c][Len(c_issued[c])]
        BY <1>0 DEF LastIssued
  <2>2. Len(c_issued[c]) = c_client_frame[c] - c_joined[c]
        BY <1>0, <1>1 DEF RInv, RollbackInv, ReplicaInv, InputsKept
  <2>3. Len(c_issued[c]) = c_client_frame[c] - 1 - c_joined[c] + 1
        BY <1>3, <2>2
  <2>4. QED
        BY <2>1, <2>3 DEF Issued
<1>12. QED
       BY <1>1, <1>8, <1>9, <1>10, <1>11

\* What a message more does to what is in flight.
LEMMA UpGrows ==
    ASSUME NInv, NEW c \in Clients, ClientSend(c), server_end[c] = "open"
    PROVE  /\ Len(up'[c]) = Len(up[c]) + 1 /\ DOMAIN up'[c] = 1 .. Len(up[c]) + 1 /\ up'[c] # <<>>
           /\ \A k \in 1 .. Len(up[c]) : up'[c][k] = up[c][k]
           /\ up'[c][Len(up[c]) + 1].frame = c_client_frame[c] - 1
           /\ up'[c][Len(up[c]) + 1].client_index = c_client_index[c]
           /\ up'[c][Len(up[c]) + 1].input = c_out[c]
<1> DEFINE m == FrameInputs(c_client_frame[c] - 1, c_client_index[c], c_out[c])
           q == up[c]
<1>1. up' = [up EXCEPT ![c] = Append(@, m)] /\ up \in [Clients -> Seq(InputsMessage)]
      BY ServerFacts DEF ClientSend, Delivered
<1>2. up'[c] = Append(q, m) /\ q \in Seq(InputsMessage)
      BY <1>1
<1>3. m.frame = c_client_frame[c] - 1 /\ m.client_index = c_client_index[c] /\ m.input = c_out[c]
      BY DEF FrameInputs
<1> HIDE DEF m, q
<1>4. /\ Len(q) \in Nat /\ Len(Append(q, m)) = Len(q) + 1 /\ DOMAIN Append(q, m) = 1 .. Len(q) + 1
      /\ Append(q, m)[Len(q) + 1] = m
      /\ \A k \in 1 .. Len(q) : Append(q, m)[k] = q[k]
      BY <1>2
<1>5. Append(q, m) # <<>>
      BY <1>4, EmptySeq
<1>6. QED
      BY <1>2, <1>3, <1>4, <1>5 DEF q

LEMMA SendLane ==
    ASSUME IInv, NEW c \in Clients, ClientStep(c), ClientSend(c), server_end[c] = "open", server_up,
           NEW s \in Slots, Serves(s, c)
    PROVE  IndexToldTo(s, c)' /\ InTurn(s, c)' /\ SentInTurn(s, c)'
<1> DEFINE n == Len(up[c])
           last == up'[c][n + 1]
<1>0. NInv /\ ClientTypeOK
      BY DEF IInv, RInv, NInv, TypeOK
<1>1. /\ c_main_pc[c] = "send" /\ c_main_pc'[c] = "loop"
      /\ UNCHANGED <<down, c_is_initialised, c_client_index, c_client_frame, c_joined, c_issued>>
      BY <1>0 DEF ClientSend, frameVars, ClientTypeOK
<1>2. UNCHANGED <<server_end, server_frame, cd_client_frame>>
      BY <1>0, OtherSideKept
<1>3. IndexToldTo(s, c) /\ InTurn(s, c) /\ SentInTurn(s, c)
      BY DEF IInv, InputInv, InputsOf, Lane
<1>4. /\ c_client_index[c] = s /\ c_client_frame[c] - 1 \in Nat /\ NextSent(c) = c_client_frame[c] - 1
      /\ cd_client_frame[s] < c_client_frame[c] - 1 /\ server_frame <= c_client_frame[c] - 1
      /\ c_client_frame[c] - 1 < server_frame + FRAME_BUFFER_SIZE - 1
      /\ c_joined[c] <= c_client_frame[c] - 1 /\ c_out[c] = Issued(c, c_client_frame[c] - 1)
      /\ IF up[c] # <<>> THEN up[c][1].frame + Len(up[c]) = c_client_frame[c] - 1
         ELSE IF cd_client_frame[s] = -1 THEN c_client_frame[c] - 1 = server_frame
         ELSE ByteStream \/ c_client_frame[c] - 1 = cd_client_frame[s] + 1
      BY <1>1, NextInTurn
<1>5. /\ Len(up'[c]) = n + 1 /\ DOMAIN up'[c] = 1 .. n + 1 /\ up'[c] # <<>>
      /\ \A k \in 1 .. n : up'[c][k] = up[c][k]
      /\ last.frame = c_client_frame[c] - 1 /\ last.client_index = c_client_index[c] /\ last.input = c_out[c]
      BY <1>0, UpGrows
<1>6. n \in Nat /\ DOMAIN up[c] = 1 .. n /\ (up[c] # <<>> <=> n > 0)
      BY <1>0, UpMessages
<1>7. \A k \in 1 .. n : up[c][k].frame \in Nat
      BY <1>0, UpMessages
<1>8. \A k \in 1 .. n + 1 : k = n + 1 \/ k \in 1 .. n
      BY <1>6
<1> HIDE DEF n, last
<1>9. IndexToldTo(s, c)'
      BY <1>1, <1>3 DEF IndexToldTo
<1>10. last.frame = up'[c][1].frame + n
  <2>1. CASE n > 0
    <3>1. up'[c][1] = up[c][1]
      <4>1. 1 \in 1 .. n
            BY <1>6, <2>1
      <4>2. QED
            BY <1>5, <4>1
    <3>2. up[c][1].frame + n = c_client_frame[c] - 1
          BY <1>4, <1>6, <2>1 DEF n
    <3>3. QED
          BY <1>5, <3>1, <3>2
  <2>2. CASE n = 0
        BY <1>4, <1>5, <2>2 DEF last
  <2>3. QED
        BY <1>6, <2>1, <2>2
<1>11. InTurn(s, c)'
  <2>1. ASSUME NEW k \in 1 .. n + 1
        PROVE  /\ up'[c][k].client_index = s
               /\ up'[c][k].frame = up'[c][1].frame + k - 1
               /\ cd_client_frame[s] < up'[c][k].frame
               /\ server_frame <= up'[c][k].frame
               /\ up'[c][k].frame < server_frame + FRAME_BUFFER_SIZE - 1
    <3>1. CASE k \in 1 .. n
      <4>1. up'[c][k] = up[c][k] /\ up'[c][1] = up[c][1]
        <5>1. 1 \in 1 .. n
              BY <1>6, <3>1
        <5>2. QED
              BY <1>5, <3>1, <5>1
      <4>2. QED
            BY <1>3, <1>6, <3>1, <4>1 DEF InTurn
    <3>2. CASE k = n + 1
      <4>1. up'[c][k] = last
            BY <3>2 DEF last
      <4>2. last.frame \in Nat /\ n \in Nat
            BY <1>4, <1>5, <1>6
      <4>3. up'[c][1].frame \in Nat
        <5>1. CASE n > 0
          <6>1. 1 \in 1 .. n
                BY <1>6, <5>1
          <6>2. QED
                BY <1>5, <1>7, <6>1
        <5>2. CASE n = 0
              BY <4>2, <5>2 DEF last
        <5>3. QED
              BY <1>6, <5>1, <5>2
      <4>4. last.frame = up'[c][1].frame + k - 1
            BY <1>10, <3>2, <4>2, <4>3
      <4>5. QED
            BY <1>4, <1>5, <4>1, <4>4
    <3>3. QED
          BY <1>8, <3>1, <3>2
  <2>2. IF cd_client_frame[s] = -1 THEN up'[c][1].frame = server_frame
        ELSE ByteStream \/ up'[c][1].frame = cd_client_frame[s] + 1
    <3>1. CASE n > 0
      <4>1. up'[c][1] = up[c][1]
        <5>1. 1 \in 1 .. n
              BY <1>6, <3>1
        <5>2. QED
              BY <1>5, <5>1
      <4>2. QED
            BY <1>3, <1>6, <3>1, <4>1 DEF InTurn
    <3>2. CASE n = 0
      <4>1. up'[c][1].frame = c_client_frame[c] - 1
            BY <1>5, <3>2 DEF last
      <4>2. QED
            BY <1>4, <1>6, <3>2, <4>1
    <3>3. QED
          BY <1>6, <3>1, <3>2
  <2>3. QED
        BY <1>2, <1>3, <1>5, <2>1, <2>2 DEF InTurn
<1>12. SentInTurn(s, c)'
  <2>1. up'[c][Len(up'[c])].frame = NextSent(c)' - 1
        BY <1>1, <1>5 DEF NextSent, last
  <2>2. ASSUME NEW k \in 1 .. n + 1, c_is_initialised[c]
        PROVE  c_joined[c] <= up'[c][k].frame /\ up'[c][k].input = Issued(c, up'[c][k].frame)
    <3>1. CASE k \in 1 .. n
          BY <1>3, <1>5, <1>6, <2>2, <3>1 DEF SentInTurn
    <3>2. CASE k = n + 1
          BY <1>4, <1>5, <3>2 DEF last
    <3>3. QED
          BY <1>8, <3>1, <3>2
  <2>3. QED
        BY <1>1, <1>2, <1>3, <1>5, <2>1, <2>2 DEF SentInTurn, Issued
<1>13. QED
       BY <1>9, <1>11, <1>12

LEMMA SendInputs ==
    ASSUME IInv, NEW c \in Clients, ClientStep(c), ClientSend(c)
    PROVE  InputsOf(c)'
<1>0. /\ NInv /\ ClientTypeOK /\ EndInUse(c) /\ UsesOpenEnd(c) /\ ServedWhenTold(c) /\ EntryOwned(c)
      /\ c_is_initialised[c] => \A f \in c_joined[c] .. Len(confirmed) - 1 : Attributed(c, f)
      BY DEF IInv, RInv, NInv, TypeOK, NetcodeInv, ClientInv, InputInv, InputsOf
<1>1. /\ c_main_pc[c] = "send" /\ c_main_pc'[c] = "loop"
      /\ UNCHANGED <<down, client_end, c_recv_pc, c_is_initialised, c_client_index, c_client_frame, c_joined,
                     c_issued>>
      BY <1>0 DEF ClientSend, frameVars, ClientTypeOK
<1>2. /\ UNCHANGED <<server_end, server_up, listening, server_frame, confirmed, sim_pc, cd_client_frame>>
      /\ \A s \in Slots : Serves(s, c)' <=> Serves(s, c)
      /\ CurrentEvents' = CurrentEvents
      BY <1>0, OtherSideKept
<1>3. server_end[c] # "open" => up' = up
      BY DEF ClientSend, Delivered
<1>4. Spoken(c)'
  <2>1. CASE server_end[c] # "open"
    <3>1. Unspoken(c)
          BY <1>1, <1>3, <2>1 DEF Unspoken
    <3>2. QED
          BY <3>1, UnspokenKeeps
  <2>2. CASE server_end[c] = "open"
    <3>1. server_up /\ c_is_initialised[c] /\ \E s \in Slots : Serves(s, c)
          BY <1>0, <1>1, <2>2 DEF EndInUse, UsesOpenEnd, ServedWhenTold, Told
    <3>2. EntryOwned(c)'
          BY <1>0, <1>1, <1>2 DEF EntryOwned, OwnInput, Issued, to_shutdown
    <3>3. c_is_initialised'[c] => \A f \in c_joined'[c] .. Len(confirmed') - 1 : Attributed(c, f)'
          BY <1>0, <1>1, <1>2 DEF Attributed, OwnInput, Issued
    <3>4. up'[c] # <<>> => \E s \in Slots : Serves(s, c)'
          BY <1>2, <3>1
    <3>5. ASSUME NEW s \in Slots PROVE Lane(s, c)'
          BY <1>2, <2>2, <3>1, SendLane DEF Lane
    <3>6. QED
          BY <3>2, <3>3, <3>4, <3>5 DEF Spoken
  <2>3. QED
        BY <2>1, <2>2
<1>5. LastIssued(c)'
      BY <1>1 DEF LastIssued
<1>6. EndInUse(c)'
      BY <1>0, <1>1, <1>2, <1>3 DEF EndInUse
<1>7. QED
      BY <1>4, <1>5, <1>6 DEF InputsOf, Spoken

\* SIGPIPE, the user, a connection that is gone, a message that is misread.
LEMMA EndsInputs ==
    ASSUME IInv, NEW c \in Clients, ClientStep(c), ClientEnds(c)
    PROVE  InputsOf(c)'
<1>0. /\ NInv /\ ClientTypeOK /\ NetworkTypeOK /\ EndInUse(c)
      BY DEF IInv, RInv, NInv, TypeOK, InputInv, InputsOf
<1>1. /\ c_main_pc'[c] = "done" /\ c_recv_pc'[c] = "ended" /\ ~c_is_initialised'[c]
      /\ down'[c] = <<>> /\ UNCHANGED up
      BY <1>0 DEF ClientEnds, CloseClientEnd, ClientTypeOK, NetworkTypeOK
<1>2. /\ UNCHANGED <<server_end, server_up, listening, server_frame, cd_client_frame>>
      /\ \A s \in Slots : Serves(s, c)' <=> Serves(s, c)
      BY <1>0, OtherSideKept
<1>3. EndInUse(c)' /\ LastIssued(c)' /\ EntryOwned(c)'
      BY <1>0, <1>1, <1>2 DEF EndInUse, LastIssued, EntryOwned
<1>4. up'[c] # <<>> => \E s \in Slots : Serves(s, c)'
      BY <1>1, <1>2 DEF IInv, InputInv, InputsOf
<1>5. ASSUME NEW s \in Slots, server_up', Serves(s, c)'
      PROVE  IndexToldTo(s, c)' /\ InTurn(s, c)' /\ SentInTurn(s, c)'
  <2>1. InTurn(s, c)
        BY <1>2, <1>5 DEF IInv, InputInv, InputsOf, Lane
  <2>2. InTurn(s, c)'
        BY <1>1, <1>2, <2>1 DEF InTurn
  <2>3. IndexToldTo(s, c)' /\ SentInTurn(s, c)'
        BY <1>1 DEF IndexToldTo, SentInTurn
  <2>4. QED
        BY <2>2, <2>3
<1>6. QED
      BY <1>1, <1>3, <1>4, <1>5 DEF InputsOf, Lane

\* The first message is read: nothing has been sent yet.
LEMMA InitInputs ==
    ASSUME IInv, NEW c \in Clients, ClientStep(c), RecvInitPlayer(c)
    PROVE  InputsOf(c)'
<1> DEFINE m == Head(down[c])
<1>0. /\ RInv /\ NInv /\ TypeOK /\ ClientTypeOK /\ NetworkTypeOK /\ EndInUse(c) /\ UsesOpenEnd(c)
      /\ OnlyPredicted(c) /\ InFlight(c) /\ FromLog(c) /\ ListenedTo(c) /\ server_frame <= MaxFrame
      BY DEF IInv, RInv, NInv, TypeOK, NetcodeInv, ClientInv, RollbackInv, ReplicaInv, InputInv, InputsOf
<1>1. /\ Receiving(c) /\ m.type = "INIT"
      /\ UNCHANGED <<up, client_end, c_main_pc, c_recv_pc, c_out, c_issued>>
      /\ c_recv_pc[c] = "recv"
      BY DEF RecvInitPlayer, Receiving
<1>2. /\ m = down[c][1] /\ 1 \in DOMAIN down[c] /\ m \in InitMessage \cup EventsMessage
      /\ Len(down[c]) \in Nat /\ DOMAIN down'[c] = 1 .. Len(down[c]) - 1
      BY <1>0, <1>1, HeadTailDown
<1>3. c_is_initialised'[c] /\ c_client_index'[c] = m.client_index /\ c_joined'[c] = m.frame
      /\ c_client_frame'[c] = m.frame
      BY <1>0 DEF RecvInitPlayer, ClientTypeOK
<1>4. /\ ~c_is_initialised[c] /\ Len(down[c]) = 1 /\ DOMAIN down'[c] = {}
      /\ m.frame = Len(confirmed) /\ sim_pc # "simulate" /\ m.frame <= server_frame /\ m.frame \in Nat
  <2>1. /\ 1 = Len(down[c]) /\ ~c_is_initialised[c] /\ m.frame <= server_frame
        /\ m.frame = Len(confirmed) /\ sim_pc # "simulate"
        BY <1>0, <1>1, <1>2 DEF InFlight, FromLog
  <2>2. m.frame \in Nat
        BY <1>2 DEF InitMessage, EventsMessage
  <2>3. DOMAIN down'[c] = {}
    <3>1. Len(down[c]) - 1 = 0
          BY <2>1
    <3>2. DOMAIN down'[c] = 1 .. 0
          BY <1>2, <3>1, Zenon
    <3>3. QED
          BY <3>2
  <2>4. QED
        BY <2>1, <2>2, <2>3
<1>5. /\ UNCHANGED <<server_end, server_up, listening, server_frame, confirmed, sim_pc, cd_client_frame>>
      /\ \A s \in Slots : Serves(s, c)' <=> Serves(s, c)
      BY <1>0, OtherSideKept
<1>6. up[c] = <<>> /\ \A s \in Slots : Serves(s, c) => cd_client_frame[s] = -1
      BY <1>0, <1>1, <1>4 DEF OnlyPredicted, EndInUse
<1>7. server_up => m.frame = server_frame
      BY <1>0, <1>4, LogFacts
<1>8. c_main_pc[c] # "send"
      BY <1>0, <1>4 DEF UsesOpenEnd
<1>9. EntryOwned(c)'
  <2>1. CASE to_shutdown \/ ~server_up
        BY <1>4, <1>5, <2>1 DEF EntryOwned, to_shutdown
  <2>2. CASE ~to_shutdown /\ server_up
    <3>1. Told(c)
          BY <1>1, <1>2 DEF Told
    <3>2. PICK s \in Slots : Serves(s, c)
          BY <1>0, <2>2, <3>1 DEF ListenedTo, Serves
    <3>3. Serves(s, c)' /\ cd_client_frame'[s] = -1
          BY <1>5, <1>6, <3>2
    <3>4. QED
          BY <3>3 DEF EntryOwned
  <2>3. QED
        BY <2>1, <2>2
<1>10. EndInUse(c)' /\ LastIssued(c)'
  <2>1. c_client_frame'[c] <= MaxFrame
        BY <1>0, <1>3, <1>4, NetworkAssumption, LogFacts
  <2>2. QED
        BY <1>0, <1>1, <1>5, <1>8, <2>1 DEF EndInUse, LastIssued
<1>11. \A f \in c_joined'[c] .. Len(confirmed') - 1 : FALSE
       BY <1>3, <1>4, <1>5, LogFacts, <1>0
<1>12. ASSUME NEW s \in Slots, server_up', Serves(s, c)'
       PROVE  IndexToldTo(s, c)' /\ InTurn(s, c)' /\ SentInTurn(s, c)'
  <2>1. IndexToldTo(s, c) /\ InTurn(s, c) /\ cd_client_frame[s] = -1 /\ server_up
        BY <1>5, <1>6, <1>12 DEF IInv, InputInv, InputsOf, Lane
  <2>2. IndexToldTo(s, c)'
        BY <1>1, <1>2, <1>3, <1>4, <2>1 DEF IndexToldTo
  <2>3. InTurn(s, c)'
        BY <1>1, <1>5, <2>1 DEF InTurn
  <2>4. NextSent(c)' = m.frame
        BY <1>1, <1>3, <1>8 DEF NextSent
  <2>5. SentInTurn(s, c)'
        BY <1>1, <1>3, <1>5, <1>6, <1>7, <2>1, <2>4 DEF SentInTurn
  <2>6. QED
        BY <2>2, <2>3, <2>5
<1>13. QED
       BY <1>1, <1>6, <1>9, <1>10, <1>11, <1>12 DEF InputsOf, Lane

LEMMA ClientKeepsInputs ==
    ASSUME IInv, NEW c \in Clients, ClientStep(c)
    PROVE  InputInv'
<1>1. InputsOf(c)'
  <2>1. CASE MainThread(c)
        BY <2>1, IdleInputs, PredictInputs, SendInputs, EndsInputs DEF MainThread, ClientSendKills
  <2>2. CASE RecvThread(c)
        BY <2>2, IdleInputs, InitInputs, EndsInputs DEF RecvThread, RecvMisread
  <2>3. CASE ClientShutdown(c)
        BY <2>3, EndsInputs DEF ClientShutdown
  <2>4. QED
        BY <2>1, <2>2, <2>3 DEF ClientStep
<1>2. \A d \in Clients : InputsOf(d)'
      BY <1>1, OtherInputsKept
<1>3. UNCHANGED <<server_frame, thread_pc, thread_msg>>
      BY OtherSideKept DEF IInv, RInv
<1>4. QED
      BY <1>2, <1>3 DEF IInv, InputInv

LEMMA InputInit == Init => IInv
<1> SUFFICES ASSUME Init PROVE IInv
    OBVIOUS
<1>1. /\ server_frame = 0 /\ server_up
      /\ \A s \in Slots : thread_pc[s] = "none"
      /\ \A c \in Clients : /\ up[c] = <<>> /\ c_main_pc[c] = "new" /\ c_recv_pc[c] = "none"
                            /\ c_is_initialised[c] = FALSE
      BY DEF Init, NetworkInit, ServerInit, ClientInit
<1>2. server_frame <= MaxFrame
      BY <1>1, NetworkAssumption
<1>3. ASSUME NEW c \in Clients PROVE InputsOf(c)
      BY <1>1 DEF InputsOf, EndInUse, LastIssued, EntryOwned, Lane, Serves
<1>4. QED
      BY <1>1, <1>2, <1>3, RollbackInit DEF IInv, InputInv

LEMMA InputStutter ==
    ASSUME InputInv, UNCHANGED vars
    PROVE  InputInv'
<1>0. UNCHANGED <<networkVars, serverVars, clientVars>>
      BY DEF vars
<1>1. /\ UNCHANGED <<up, down, client_end, server_end, server_up, listening, confirmed, server_frame,
                     game_events, sim_pc, thread_pc, thread_msg, cd_fd, cd_client_frame>>
      /\ UNCHANGED <<c_main_pc, c_recv_pc, c_is_initialised, c_client_index, c_client_frame, c_out, c_joined,
                     c_issued>>
      BY <1>0 DEF networkVars, serverVars, slotVars, threadVars, ringVars, clientVars, frameVars, ringsVars
<1>2. ASSUME NEW c \in Clients PROVE InputsOf(c)'
  <2>1. InputsOf(c)
        BY DEF InputInv
  <2>2. EndInUse(c)' /\ LastIssued(c)'
        BY <1>1, <2>1 DEF InputsOf, EndInUse, LastIssued
  <2>3. EntryOwned(c)'
        BY <1>1, <2>1 DEF InputsOf, EntryOwned, Serves, OwnInput, Issued, CurrentEvents, to_shutdown
  <2>4. c_is_initialised'[c] => \A f \in c_joined'[c] .. Len(confirmed') - 1 : Attributed(c, f)'
        BY <1>1, <2>1 DEF InputsOf, Attributed, OwnInput, Issued
  <2>5. up'[c] # <<>> => \E s \in Slots : Serves(s, c)'
        BY <1>1, <2>1 DEF InputsOf, Serves
  <2>6. ASSUME NEW s \in Slots PROVE Lane(s, c)'
        BY <1>1, <2>1 DEF InputsOf, Lane, Serves, IndexToldTo, InTurn, SentInTurn, NextSent, Issued
  <2>7. QED
        BY <2>2, <2>3, <2>4, <2>5, <2>6 DEF InputsOf
<1>3. QED
      BY <1>1, <1>2 DEF InputInv

LEMMA InputNext == IInv /\ [Next]_vars => IInv'
<1> SUFFICES ASSUME IInv, [Next]_vars PROVE IInv'
    OBVIOUS
<1>1. RInv'
      BY RollbackNext DEF IInv
<1>2. ASSUME ServerNext, UNCHANGED clientVars PROVE InputInv'
      BY <1>2, ServerKeepsInputs
<1>3. ASSUME ClientNext, UNCHANGED serverVars PROVE InputInv'
  <2>1. PICK c \in Clients : ClientStep(c)
        BY <1>3 DEF ClientNext, ClientStep
  <2>2. QED
        BY <2>1, ClientKeepsInputs
<1>4. ASSUME UNCHANGED vars PROVE InputInv'
      BY <1>4, InputStutter DEF IInv
<1>5. InputInv'
      BY <1>2, <1>3, <1>4 DEF Next
<1>6. QED
      BY <1>1, <1>5 DEF IInv

LEMMA InputInvariant == Spec => []IInv
BY InputInit, InputNext, PTL DEF Spec

-------------------------------------------------------------------------------
(***************************************************************************)
(* The invariant that the runs check is one, whatever the constants.       *)
(***************************************************************************)
THEOREM InputInvariantHolds == Spec => []InputInv
<1>1. IInv => InputInv
      BY DEF IInv
<1>2. QED
      BY InputInvariant, <1>1, PTL

(***************************************************************************)
(* The throttle and the window are made for each other (client/main.c:76,  *)
(* gameserver.c:285 to 313): no input in flight is one the server refuses, *)
(* now or when its turn comes, except that it refuses all of them for good *)
(* once one recv() has taken two for one.                                  *)
(***************************************************************************)
THEOREM InputsAccepted == Spec => []NoInputRefused
<1>1. ASSUME IInv PROVE NoInputRefused
  <2>1. SUFFICES ASSUME NEW s \in Slots, Listening(s), NEW k \in DOMAIN up[cd_fd[s]]
                 PROVE  LET queue == up[cd_fd[s]] IN
                        /\ queue[k].client_index = s
                        /\ queue[k].frame = queue[1].frame + k - 1
                        /\ server_frame <= queue[k].frame
                        /\ queue[k].frame < server_frame + FRAME_BUFFER_SIZE
                        /\ ~ByteStream => ~InputRefused(s, queue[1].frame)
        BY DEF NoInputRefused
  <2>2. NInv
        BY <1>1 DEF IInv, RInv
  <2> DEFINE c == cd_fd[s]
  <2>3. c \in Clients /\ Serves(s, c) /\ server_up
        BY <2>1, <2>2, ServerFacts DEF Listening, Serves, SlotInUse
  <2>4. InTurn(s, c)
        BY <1>1, <2>3 DEF IInv, InputInv, InputsOf, Lane
  <2>5. /\ Len(up[c]) \in Nat /\ DOMAIN up[c] = 1 .. Len(up[c])
        /\ \A j \in 1 .. Len(up[c]) : up[c][j].frame \in Nat
        BY <2>2, <2>3, UpMessages
  <2>6. k \in 1 .. Len(up[c]) /\ 1 \in 1 .. Len(up[c]) /\ up[c] # <<>>
        BY <2>1, <2>5, EmptySeq
  <2>7. /\ up[c][k].client_index = s /\ up[c][k].frame = up[c][1].frame + k - 1
        /\ server_frame <= up[c][k].frame /\ up[c][k].frame < server_frame + FRAME_BUFFER_SIZE - 1
        BY <2>4, <2>5, <2>6 DEF InTurn
  <2>8. server_frame \in Nat /\ FRAME_BUFFER_SIZE \in Nat /\ cd_client_frame[s] \in Int /\ up[c][k].frame \in Nat
        BY <2>2, <2>5, <2>6, ServerFacts
  <2>9. up[c][k].frame < server_frame + FRAME_BUFFER_SIZE
        BY <2>7, <2>8
  <2>10. ~ByteStream => ~InputRefused(s, up[c][1].frame)
    <3>1. /\ server_frame <= up[c][1].frame /\ up[c][1].frame < server_frame + FRAME_BUFFER_SIZE - 1
          /\ up[c][1].frame \in Nat
          BY <2>4, <2>5, <2>6 DEF InTurn
    <3>2. ~ByteStream => \/ cd_client_frame[s] = -1
                         \/ up[c][1].frame = cd_client_frame[s] + 1
          BY <2>4, <2>6 DEF InTurn
    <3>3. QED
          BY <2>8, <3>1, <3>2 DEF InputRefused
  <2>11. QED
         BY <2>7, <2>9, <2>10
<1>2. QED
      BY InputInvariant, <1>1, PTL

(***************************************************************************)
(* A frame is confirmed with a client's own input for that very frame, or  *)
(* with none (gameserver.c:322 to 324, 403, 404), whoever had the slot     *)
(* before and whatever is in flight.                                       *)
(***************************************************************************)
THEOREM InputsAttributed == Spec => []NoForeignInput
<1>1. IInv => NoForeignInput
      BY DEF IInv, InputInv, InputsOf, NoForeignInput
<1>2. QED
      BY InputInvariant, <1>1, PTL

\* How many inputs are in flight to a thread.
LEMMA InputsFit ==
    ASSUME IInv, NEW c \in Clients, NEW s \in Slots, server_up, Serves(s, c)
    PROVE  up[c] # <<>> => /\ up[c][1].frame \in Nat /\ server_frame <= up[c][1].frame
                           /\ Len(up[c]) <= FRAME_BUFFER_SIZE - 1
<1> SUFFICES ASSUME up[c] # <<>>
             PROVE  /\ up[c][1].frame \in Nat /\ server_frame <= up[c][1].frame
                    /\ Len(up[c]) <= FRAME_BUFFER_SIZE - 1
    OBVIOUS
<1>0. NInv /\ InTurn(s, c)
      BY DEF IInv, RInv, InputInv, InputsOf, Lane
<1>1. /\ Len(up[c]) \in Nat /\ DOMAIN up[c] = 1 .. Len(up[c]) /\ Len(up[c]) > 0
      /\ \A k \in 1 .. Len(up[c]) : up[c][k].frame \in Nat
      BY <1>0, UpMessages
<1>2. 1 \in 1 .. Len(up[c]) /\ Len(up[c]) \in 1 .. Len(up[c])
      BY <1>1
<1>3. /\ server_frame <= up[c][1].frame /\ up[c][1].frame \in Nat
      /\ up[c][Len(up[c])].frame = up[c][1].frame + Len(up[c]) - 1
      /\ up[c][Len(up[c])].frame < server_frame + FRAME_BUFFER_SIZE - 1
      BY <1>0, <1>1, <1>2 DEF InTurn
<1> DEFINE n == Len(up[c])
           first == up[c][1].frame
<1>4. /\ n \in Nat /\ first \in Nat /\ server_frame \in Nat /\ FRAME_BUFFER_SIZE \in Nat
      /\ server_frame <= first /\ first + n - 1 < server_frame + FRAME_BUFFER_SIZE - 1
      BY <1>0, <1>1, <1>3, ServerFacts
<1> HIDE DEF n, first
<1>5. n <= FRAME_BUFFER_SIZE - 1
      BY <1>4
<1>6. QED
      BY <1>3, <1>5 DEF n

LEMMA InputsFitAll == IInv => InputsInFlight
<1> SUFFICES ASSUME IInv, NEW c \in Clients PROVE Len(up[c]) <= FRAME_BUFFER_SIZE - 1
    BY DEF InputsInFlight
<1>1. CASE up[c] = <<>>
      BY <1>1, GlobalsAssumption
<1>2. CASE up[c] # <<>>
  <2>1. server_up /\ \E s \in Slots : Serves(s, c)
        BY <1>2 DEF IInv, InputInv, InputsOf, EndInUse
  <2>2. QED
        BY <1>2, <2>1, InputsFit
<1>3. QED
      BY <1>1, <1>2

-------------------------------------------------------------------------------
(***************************************************************************)
(* A frame is sent over a connection at most once for each slot, and no    *)
(* frame is sent twice: so a stretch of what is in flight to a client that *)
(* plays is as long as the frames it spans allow.                          *)
(***************************************************************************)
Spaced(c) ==
    \A j, k \in DOMAIN down[c] :
        j <= k => k - j + 1 <= MAX_CLIENTS * (down[c][k].frame - down[c][j].frame + 1)

FInv == IInv /\ \A c \in Clients : c_is_initialised[c] => Spaced(c)

LEMMA MoreFrames ==
    ASSUME NEW m \in Nat, NEW a \in Int, NEW b \in Int
    PROVE  /\ m * a \in Int
           /\ a <= b => m * a <= m * b
           /\ a < b => m * a + m <= m * b
<1>1. m * a \in Int
      OBVIOUS
<1>2. ASSUME a <= b PROVE m * a <= m * b
  <2>1. m * (b - a) >= 0 /\ m * (b - a) = m * b - m * a
        BY <1>2
  <2>2. QED
        BY <2>1
<1>3. ASSUME a < b PROVE m * a + m <= m * b
  <2>1. m * (b - a - 1) >= 0 /\ m * (b - a - 1) = m * b - m * a - m
        BY <1>3
  <2>2. QED
        BY <2>1
<1>4. QED
      BY <1>1, <1>2, <1>3

LEMMA CopiesLimited ==
    ASSUME NEW c \in Clients, NEW slots \in SUBSET Slots
    PROVE  Copies(slots, c) <= MAX_CLIENTS
<1> DEFINE named == {s \in slots : cd_fd[s] = c}
<1>1. IsFiniteSet(Slots) /\ Cardinality(Slots) = MAX_CLIENTS
      BY FS_Interval, GlobalsAssumption DEF Slots
<1>2. named \subseteq Slots
      OBVIOUS
<1>3. Cardinality(named) <= MAX_CLIENTS
      BY <1>1, <1>2, FS_Subset
<1>4. QED
      BY <1>3, GlobalsAssumption DEF Copies

\* A frame is sent for the first time, in some copies.
LEMMA BroadcastSpaced ==
    ASSUME IInv, NEW c \in Clients, c_is_initialised[c], Spaced(c), ServerNext,
           NEW slots \in SUBSET Slots,
           down' = Broadcast(slots, FrameGameEvents(server_frame, CurrentEvents))
    PROVE  Spaced(c)'
<1> DEFINE m == FrameGameEvents(server_frame, CurrentEvents)
           n == Copies(slots, c)
           len == Len(down[c])
<1>0. /\ RInv /\ NInv /\ TypeOK /\ FromLog(c) /\ InFlight(c) /\ server_up
      /\ server_frame \in Nat /\ Len(confirmed) = server_frame /\ MAX_CLIENTS \in Nat
      BY ServerLog, LogFacts, GlobalsAssumption
      DEF IInv, RInv, NInv, NetcodeInv, ClientInv, RollbackInv, ReplicaInv
<1>1. m.frame = server_frame
      BY DEF FrameGameEvents
<1>2. /\ n \in Nat /\ n <= MAX_CLIENTS /\ len \in Nat /\ DOMAIN down[c] = 1 .. len
      /\ DOMAIN down'[c] = 1 .. len + n
      /\ \A k \in 1 .. len : down'[c][k] = down[c][k]
      /\ \A k \in 1 .. len + n : k > len => down'[c][k] = m
      BY <1>0, BroadcastShape, CopiesLimited
<1>3. ASSUME NEW k \in 1 .. len
      PROVE  down[c][k].frame \in Nat /\ down[c][k].frame < server_frame
  <2>1. down[c][k] \in InitMessage \cup EventsMessage /\ down[c][k].frame \in Nat
        BY <1>0, DownFrames
  <2>2. down[c][k].type = "EVENTS"
        BY <1>0, <1>2, <2>1 DEF InFlight, InitMessage, EventsMessage
  <2>3. QED
        BY <1>0, <1>2, <2>1, <2>2 DEF FromLog
<1> HIDE DEF m, n, len
<1>4. ASSUME NEW j \in 1 .. len + n, NEW k \in 1 .. len + n, j <= k
      PROVE  k - j + 1 <= MAX_CLIENTS * (down'[c][k].frame - down'[c][j].frame + 1)
  <2>1. CASE k <= len
    <3>1. /\ j \in 1 .. len /\ k \in 1 .. len
          /\ down'[c][j] = down[c][j] /\ down'[c][k] = down[c][k]
          BY <1>2, <1>4, <2>1
    <3>2. QED
          BY <1>2, <1>4, <3>1 DEF Spaced
  <2>2. CASE k > len /\ j > len
    <3>1. down'[c][k].frame = server_frame /\ down'[c][j].frame = server_frame
          BY <1>1, <1>2, <1>4, <2>2
    <3>2. MAX_CLIENTS * (server_frame - server_frame + 1) = MAX_CLIENTS
          BY <1>0
    <3>3. k - j + 1 <= n
          BY <1>2, <1>4, <2>2
    <3>4. QED
          BY <1>0, <1>2, <3>1, <3>2, <3>3
  <2>3. CASE k > len /\ j <= len
    <3> DEFINE fj == down[c][j].frame
               fl == down[c][len].frame
    <3>1. j \in 1 .. len /\ len \in 1 .. len
          BY <1>2, <1>4, <2>3
    <3>2. /\ down'[c][k].frame = server_frame /\ down'[c][j].frame = fj
          /\ fj \in Nat /\ fl \in Nat /\ fl < server_frame
          BY <1>1, <1>2, <1>3, <1>4, <2>3, <3>1
    <3>3. len - j + 1 <= MAX_CLIENTS * (fl - fj + 1)
      <4>1. j \in DOMAIN down[c] /\ len \in DOMAIN down[c] /\ j <= len
            BY <1>2, <2>3, <3>1
      <4>2. QED
            BY <4>1 DEF Spaced
    <3> HIDE DEF fj, fl
    <3>4. fl - fj + 1 \in Int /\ server_frame - fj + 1 \in Int /\ fl - fj + 1 < server_frame - fj + 1
          BY <1>0, <3>2
    <3>5. /\ MAX_CLIENTS * (fl - fj + 1) + MAX_CLIENTS <= MAX_CLIENTS * (server_frame - fj + 1)
          /\ MAX_CLIENTS * (fl - fj + 1) \in Int /\ MAX_CLIENTS * (server_frame - fj + 1) \in Int
          BY <1>0, <3>4, MoreFrames
    <3> DEFINE before == MAX_CLIENTS * (fl - fj + 1)
               after == MAX_CLIENTS * (server_frame - fj + 1)
    <3>6. /\ before \in Int /\ after \in Int /\ before + MAX_CLIENTS <= after
          /\ len - j + 1 <= before
          BY <3>3, <3>5
    <3> HIDE DEF before, after
    <3>7. k - j + 1 <= after
          BY <1>0, <1>2, <1>4, <3>6
    <3>8. QED
          BY <3>2, <3>7 DEF after
  <2>4. QED
        BY <1>2, <1>4, <2>1, <2>2, <2>3
<1>5. QED
      BY <1>2, <1>4 DEF Spaced

LEMMA ServerSpaces ==
    ASSUME FInv, ServerNext, UNCHANGED clientVars, NEW c \in Clients, c_is_initialised[c]
    PROVE  Spaced(c)'
<1> DEFINE m == FrameGameEvents(server_frame, CurrentEvents)
<1>0. /\ IInv /\ NInv /\ Spaced(c) /\ ToldOnce(c) /\ SlotInUse
      /\ down \in [Clients -> Seq(InitMessage \cup EventsMessage)]
      BY DEF FInv, IInv, RInv, NInv, NetcodeInv, ServerInv, ClientInv, TypeOK, NetworkTypeOK
<1>1. ASSUME down'[c] = down[c] PROVE Spaced(c)'
      BY <1>0, <1>1 DEF Spaced
<1>2. CASE SimStep
  <2>1. BroadcastTo \in SUBSET Slots /\ down' = Broadcast(BroadcastTo, m)
        BY <1>2 DEF SimStep, BroadcastTo
  <2>2. QED
        BY <1>0, <2>1, BroadcastSpaced
<1>3. CASE SimKills
  <2>1. PICK s \in Slots : down' = Broadcast({t \in BroadcastTo : t < s}, m)
        BY <1>3 DEF SimKills
  <2>2. {t \in BroadcastTo : t < s} \in SUBSET Slots
        BY DEF BroadcastTo
  <2>3. QED
        BY <1>0, <2>1, <2>2, BroadcastSpaced
<1>4. ASSUME NEW s \in Slots, ThreadSendInit(s) PROVE Spaced(c)'
  <2>1. thread_pc[s] = "send_init" /\ down' = Delivered(down, client_end, cd_fd[s], thread_msg[s])
        BY <1>4 DEF ThreadSendInit, ThreadStep
  <2>2. cd_fd[s] # c
        BY <1>0, <2>1 DEF ToldOnce, NotYetTold, Told
  <2>3. down'[c] = down[c]
        BY <1>0, <2>1, <2>2 DEF Delivered
  <2>4. QED
        BY <1>1, <2>3
<1>5. CASE ~Sends
      BY <1>0, <1>1, <1>5, ServerQuiet DEF Quiet, ClientKept
<1>6. QED
      BY <1>2, <1>3, <1>4, <1>5 DEF Sends

LEMMA ClientSpaces ==
    ASSUME FInv, NEW c \in Clients, ClientStep(c), NEW d \in Clients, c_is_initialised'[d]
    PROVE  Spaced(d)'
<1>0. /\ IInv /\ RInv /\ NInv /\ TypeOK /\ PeersOnly /\ (c_is_initialised[d] => Spaced(d))
      /\ c_is_initialised \in [Clients -> BOOLEAN]
      BY ClientPeersOnly DEF FInv, IInv, RInv, NInv, TypeOK, ClientTypeOK
<1>1. ASSUME down'[d] = down[d], c_is_initialised'[d] = c_is_initialised[d] PROVE Spaced(d)'
      BY <1>0, <1>1 DEF Spaced
<1>2. CASE d # c
      BY <1>0, <1>1, <1>2, OthersKept DEF OtherKept
<1>3. ASSUME d = c, Receiving(c), UNCHANGED c_is_initialised PROVE Spaced(d)'
  <2>1. /\ DOMAIN down'[c] = 1 .. Len(down[c]) - 1 /\ DOMAIN down[c] = 1 .. Len(down[c])
        /\ Len(down[c]) \in Nat
        /\ \A k \in 1 .. Len(down[c]) - 1 : down'[c][k] = down[c][k + 1]
        BY <1>0, <1>3, HeadTailDown
  <2>2. ASSUME NEW j \in DOMAIN down'[c], NEW k \in DOMAIN down'[c], j <= k
        PROVE  k - j + 1 <= MAX_CLIENTS * (down'[c][k].frame - down'[c][j].frame + 1)
    <3> DEFINE len == Len(down[c])
    <3>0. /\ len \in Nat /\ DOMAIN down[c] = 1 .. len /\ j \in 1 .. len - 1 /\ k \in 1 .. len - 1
          /\ \A i \in 1 .. len - 1 : down'[c][i] = down[c][i + 1]
          BY <2>1, <2>2
    <3> HIDE DEF len
    <3>1. /\ j + 1 \in DOMAIN down[c] /\ k + 1 \in DOMAIN down[c] /\ j + 1 <= k + 1
          /\ down'[c][j] = down[c][j + 1] /\ down'[c][k] = down[c][k + 1]
          /\ (k + 1) - (j + 1) + 1 = k - j + 1
          BY <2>2, <3>0
    <3>2. (k + 1) - (j + 1) + 1 <= MAX_CLIENTS * (down[c][k + 1].frame - down[c][j + 1].frame + 1)
          BY <1>0, <1>3, <3>1 DEF Spaced
    <3>3. QED
          BY <3>1, <3>2
  <2>3. QED
        BY <1>3, <2>2 DEF Spaced
<1>4. CASE d = c /\ RecvInitPlayer(c)
  <2>1. UNCHANGED <<confirmed, truth>>
        BY <1>0 DEF PeersOnly, serverVars, ringVars
  <2>2. down'[c] = <<>>
        BY <1>0, <1>4, <2>1, InitRemembered
  <2>3. QED
        BY <1>4, <2>2 DEF Spaced
<1>5. CASE d = c /\ (RecvGameEvents(c) \/ RecvUnexpected(c))
  <2>1. Receiving(c) /\ UNCHANGED c_is_initialised
        BY <1>5 DEF RecvGameEvents, RecvUnexpected
  <2>2. QED
        BY <1>3, <1>5, <2>1
<1>6. CASE d = c /\ ClientEnds(c)
      BY <1>0, <1>6 DEF ClientEnds
<1>7. CASE /\ d = c
           /\ \/ ClientConnect(c) \/ ClientConnected(c) \/ ClientSleeps(c) \/ ClientWakes(c)
              \/ \E input \in Inputs : ClientPredict(c, input)
              \/ ClientSend(c) \/ ClientSendFails(c) \/ ResimStep(c) \/ RecvEnd(c)
  <2>1. UNCHANGED <<down, c_is_initialised>>
        BY <1>7 DEF ClientConnect, ClientConnected, ClientSleeps, ClientWakes, ClientPredict, ClientSend,
                    ClientSendFails, ResimStep, RecvEnd, networkVars
  <2>2. QED
        BY <1>1, <2>1
<1>8. QED
      BY <1>2, <1>4, <1>5, <1>6, <1>7
      DEF ClientStep, MainThread, RecvThread, ClientSendKills, ClientShutdown, RecvMisread

LEMMA SpacedInit == Init => FInv
<1>1. Init => \A c \in Clients : c_is_initialised[c] = FALSE
      BY DEF Init, ClientInit
<1>2. QED
      BY <1>1, InputInit DEF FInv

LEMMA SpacedNext == FInv /\ [Next]_vars => FInv'
<1> SUFFICES ASSUME FInv, [Next]_vars PROVE FInv'
    OBVIOUS
<1>1. IInv'
      BY InputNext DEF FInv
<1>2. CASE ServerNext /\ UNCHANGED clientVars
  <2>1. UNCHANGED c_is_initialised
        BY <1>2 DEF clientVars
  <2>2. QED
        BY <1>1, <1>2, <2>1, ServerSpaces DEF FInv
<1>3. CASE ClientNext /\ UNCHANGED serverVars
  <2>1. PICK c \in Clients : ClientStep(c)
        BY <1>3 DEF ClientNext, ClientStep
  <2>2. QED
        BY <1>1, <2>1, ClientSpaces DEF FInv
<1>4. CASE UNCHANGED vars
  <2>1. UNCHANGED <<down, c_is_initialised>>
        BY <1>4 DEF vars, networkVars, clientVars
  <2>2. QED
        BY <1>1, <2>1 DEF FInv, Spaced
<1>5. QED
      BY <1>2, <1>3, <1>4 DEF Next

LEMMA SpacedInvariant == Spec => []FInv
BY SpacedInit, SpacedNext, PTL DEF Spec

\* From the last frame confirmed to the last one predicted there is less than a ring.
LEMMA FramesFit ==
    ASSUME FInv, NEW c \in Clients, c_is_initialised[c]
    PROVE  Len(down[c]) <= MAX_CLIENTS * (FRAME_BUFFER_SIZE - 1)
<1> DEFINE n == Len(down[c])
           first == down[c][1].frame
           last == down[c][n].frame
<1>0. /\ NInv /\ TypeOK /\ Spaced(c) /\ InFlight(c) /\ InOrder(c)
      /\ MAX_CLIENTS \in Nat /\ FRAME_BUFFER_SIZE \in Nat /\ FRAME_BUFFER_SIZE - 1 \in Nat
      BY GlobalsAssumption DEF FInv, IInv, RInv, NInv, NetcodeInv, ClientInv
<1>1. n \in Nat /\ DOMAIN down[c] = 1 .. n /\ \A k \in 1 .. n : down[c][k].frame \in Nat
      BY <1>0, DownFrames
<1>2. CASE n = 0
  <2>1. MAX_CLIENTS * 0 <= MAX_CLIENTS * (FRAME_BUFFER_SIZE - 1)
        BY <1>0, MoreFrames
  <2>2. QED
        BY <1>0, <1>2, <2>1
<1>3. CASE n # 0
  <2>1. 1 \in 1 .. n /\ n \in 1 .. n /\ 1 <= n
        BY <1>1, <1>3
  <2>2. /\ first \in Nat /\ last \in Nat
        /\ c_server_frame[c] <= first /\ last < c_client_frame[c]
        BY <1>0, <1>1, <2>1 DEF InFlight
  <2>3. /\ c_server_frame[c] \in Int /\ c_client_frame[c] \in Int /\ c_sync_frame[c] \in Int
        /\ c_sync_frame[c] <= c_server_frame[c]
        /\ c_client_frame[c] <= c_sync_frame[c] + FRAME_BUFFER_SIZE - 1
        BY <1>0, FrameFacts DEF InOrder, NInv, TypeOK, ClientTypeOK
  <2>4. n - 1 + 1 <= MAX_CLIENTS * (last - first + 1)
        BY <1>0, <1>1, <2>1 DEF Spaced
  <2> HIDE DEF n, first, last
  <2>5. last - first + 1 \in Int /\ last - first + 1 <= FRAME_BUFFER_SIZE - 1
        BY <1>0, <2>2, <2>3
  <2>6. /\ MAX_CLIENTS * (last - first + 1) <= MAX_CLIENTS * (FRAME_BUFFER_SIZE - 1)
        /\ MAX_CLIENTS * (last - first + 1) \in Int /\ MAX_CLIENTS * (FRAME_BUFFER_SIZE - 1) \in Int
        BY <1>0, <2>5, MoreFrames
  <2>7. n <= MAX_CLIENTS * (FRAME_BUFFER_SIZE - 1)
        BY <1>1, <2>4, <2>6
  <2>8. QED
        BY <2>7 DEF n
<1>4. QED
      BY <1>2, <1>3

(***************************************************************************)
(* Nothing that a client which plays is sent, or sends, ever fills the     *)
(* kernel's buffers (client/main.c:76, gameserver.c:422): in flight are no *)
(* more inputs than its throttle allows frames, and no more frames than    *)
(* that for each slot, even while the receiving thread is held up.         *)
(***************************************************************************)
THEOREM ChannelsBounded == Spec => []ChannelBound
<1>1. IInv => InputsInFlight
      BY InputsFitAll
<1>2. FInv => ChannelBound
      BY <1>1, FramesFit DEF FInv, FramesInFlight, ChannelBound
<1>3. QED
      BY SpacedInvariant, <1>2, PTL

-------------------------------------------------------------------------------
(***************************************************************************)
(* Clients that have not read their first message: what is in flight to    *)
(* one of them and what it is still owed never grow together.              *)
(***************************************************************************)
EInv == FInv /\ EarlyInv

\* What the proofs below need of the other invariants.
LEMMA EarlyFacts ==
    ASSUME EInv
    PROVE  /\ FInv /\ IInv /\ NInv /\ TypeOK /\ EarlyInv /\ SlotsLimited
           /\ SlotInUse /\ SlotBeingFilled /\ SimReady
           /\ thread_pc \in [Slots -> ThreadPC] /\ cd_fd \in [Slots -> Clients \cup {NoFd}]
           /\ cd_client_frame \in [Slots -> Int] /\ server_end \in [Clients -> SocketState]
           /\ cd_is_connected \in [Slots -> BOOLEAN] /\ down \in [Clients -> Seq(InitMessage \cup EventsMessage)]
           /\ accept_slot \in Slots /\ accept_pc \in AcceptPC /\ server_frame \in Nat /\ NoFd \notin Clients
           /\ FRAME_BUFFER_SIZE \in Nat /\ FRAME_BUFFER_SIZE >= 2
BY ServerFacts DEF EInv, EarlyInv, FInv, IInv, RInv, NInv, TypeOK, ServerTypeOK, NetworkTypeOK

LEMMA OwableFinite ==
    /\ IsFiniteSet(Owable)
    /\ Cardinality(Owable) <= MAX_CLIENTS * (FRAME_BUFFER_SIZE - 1) + 2
<1> DEFINE frames == Slots \X Window
           more == frames \cup {Untimely}
           most == MAX_CLIENTS * (FRAME_BUFFER_SIZE - 1)
<1>1. IsFiniteSet(Slots) /\ Cardinality(Slots) = MAX_CLIENTS
      BY FS_Interval, GlobalsAssumption DEF Slots
<1>2. IsFiniteSet(Window) /\ Cardinality(Window) = FRAME_BUFFER_SIZE - 1
  <2>1. /\ FRAME_BUFFER_SIZE \in Nat /\ FRAME_BUFFER_SIZE >= 2
        /\ 0 \in Int /\ FRAME_BUFFER_SIZE - 2 \in Int
        BY GlobalsAssumption
  <2>2. /\ IsFiniteSet(0 .. FRAME_BUFFER_SIZE - 2)
        /\ Cardinality(0 .. FRAME_BUFFER_SIZE - 2) =
               IF 0 > FRAME_BUFFER_SIZE - 2 THEN 0 ELSE FRAME_BUFFER_SIZE - 2 - 0 + 1
        BY <2>1, FS_Interval
  <2>3. QED
        BY <2>1, <2>2 DEF Window
<1>3. IsFiniteSet(frames) /\ Cardinality(frames) = most
      BY <1>1, <1>2, FS_Product
<1>4. most \in Nat
      BY <1>3, FS_CardinalityType
<1> HIDE DEF frames, most
<1>5. IsFiniteSet(more) /\ Cardinality(more) = IF Untimely \in frames THEN most ELSE most + 1
      BY <1>3, FS_AddElement
<1>6. Cardinality(more) \in Nat /\ Cardinality(more) <= most + 1
      BY <1>4, <1>5, FS_CardinalityType
<1> HIDE DEF more
<1>7. /\ IsFiniteSet(more \cup {Greeting})
      /\ Cardinality(more \cup {Greeting}) = IF Greeting \in more THEN Cardinality(more) ELSE Cardinality(more) + 1
      BY <1>5, FS_AddElement
<1>8. Owable = more \cup {Greeting}
      BY DEF Owable, frames, more
<1>9. QED
      BY <1>4, <1>6, <1>7, <1>8 DEF most

LEMMA OwableFits ==
    ASSUME NEW owed \in SUBSET Owable
    PROVE  /\ IsFiniteSet(owed) /\ Cardinality(owed) \in Nat
           /\ Cardinality(owed) <= MAX_CLIENTS * (FRAME_BUFFER_SIZE - 1) + 2
<1>1. IsFiniteSet(owed) /\ Cardinality(owed) <= Cardinality(Owable)
      BY OwableFinite, FS_Subset
<1>2. /\ Cardinality(Owable) \in Nat /\ Cardinality(owed) \in Nat
      /\ MAX_CLIENTS * (FRAME_BUFFER_SIZE - 1) \in Int
      BY <1>1, OwableFinite, FS_CardinalityType, GlobalsAssumption
<1>3. QED
      BY <1>1, <1>2, OwableFinite

LEMMA OwedFinite ==
    ASSUME NEW c \in Clients
    PROVE  /\ IsFiniteSet(Owed(c)) /\ Cardinality(Owed(c)) \in Nat
           /\ Cardinality(Owed(c)) <= MAX_CLIENTS * (FRAME_BUFFER_SIZE - 1) + 2
<1>1. Owed(c) \in SUBSET Owable
      BY DEF Owed
<1>2. QED
      BY <1>1, OwableFits

\* With nothing in flight, whatever may be owed fits.
LEMMA NothingSent ==
    ASSUME NEW c \in Clients
    PROVE  /\ down[c] = <<>> => Early(c)
           /\ down'[c] = <<>> => Early(c)'
<1>1. Owed(c) \in SUBSET Owable /\ Owed(c)' \in SUBSET Owable
      BY DEF Owed
<1>2. /\ Cardinality(Owed(c)) \in Nat /\ Cardinality(Owed(c)) <= MAX_CLIENTS * (FRAME_BUFFER_SIZE - 1) + 2
      /\ Cardinality(Owed(c)') \in Nat /\ Cardinality(Owed(c)') <= MAX_CLIENTS * (FRAME_BUFFER_SIZE - 1) + 2
      BY <1>1, OwableFits
<1>3. QED
      BY <1>2, GlobalsAssumption DEF Early

\* What has been sent is not owed any more.
LEMMA Repaid ==
    ASSUME TypeOK, TypeOK', NEW c \in Clients, Early(c), NEW sent \in SUBSET Owed(c),
           Owed(c)' \subseteq Owed(c) \ sent, Len(down'[c]) <= Len(down[c]) + Cardinality(sent)
    PROVE  Early(c)'
<1> DEFINE most == MAX_CLIENTS * (FRAME_BUFFER_SIZE - 1) + 2
           due == Cardinality(Owed(c))
           paid == Cardinality(sent)
           len == Len(down[c])
<1>1. most \in Int /\ len \in Nat /\ Len(down'[c]) \in Nat
      BY DownFrames, GlobalsAssumption DEF TypeOK, NetworkTypeOK
<1>2. IsFiniteSet(Owed(c)) /\ due \in Nat /\ len + due <= most
      BY OwedFinite DEF Early
<1>3. /\ IsFiniteSet(sent) /\ IsFiniteSet(Owed(c) \ sent)
      /\ Cardinality(Owed(c) \ sent) = due - Cardinality(Owed(c) \cap sent)
      BY <1>2, FS_Subset, FS_Difference
<1>4. Owed(c) \cap sent = sent
      OBVIOUS
<1>5. Cardinality(Owed(c)') <= Cardinality(Owed(c) \ sent) /\ IsFiniteSet(Owed(c)')
      BY <1>3, FS_Subset
<1>6. /\ paid \in Nat /\ Cardinality(Owed(c)') \in Nat /\ Cardinality(Owed(c)') <= due - paid
      /\ Len(down'[c]) <= len + paid
      BY <1>3, <1>4, <1>5, FS_CardinalityType
<1> HIDE DEF most, due, paid, len
<1>7. Len(down'[c]) + Cardinality(Owed(c)') <= most
      BY <1>1, <1>2, <1>6
<1>8. QED
      BY <1>7 DEF Early, most

-------------------------------------------------------------------------------
(***************************************************************************)
(* Nothing is added to what is owed: the slots that name a connection are  *)
(* settled when it is taken, their frames stay as they are as long as the  *)
(* client has not been told that it may send inputs, and no frame is found *)
(* ready before the input of the client's own slot has come.               *)
(***************************************************************************)
RoutesKept(c) ==
    /\ server_up /\ server_frame <= server_frame'
    /\ Admitted(c)' => Admitted(c)
    /\ NotYetTold(c)' => NotYetTold(c)
    /\ OwedUntimely(c)' => OwedUntimely(c)
    /\ \A s \in Slots :
          /\ Admitted(c)' /\ Gone(s) => Gone(s)'
          /\ cd_fd'[s] = c => cd_fd[s] = c \/ (Admitted(c) /\ Gone(s))
          /\ cd_fd'[s] = c \/ (Admitted(c)' /\ Gone(s)') => cd_client_frame'[s] \in {cd_client_frame[s], -1}

LEMMA OwedShrinks ==
    ASSUME EInv, TypeOK', NEW c \in Clients, RoutesKept(c)
    PROVE  Owed(c)' \subseteq Owed(c)
<1>1. ASSUME NEW s \in Slots, NEW i \in Window, OwedThrough(c, s, i)'
      PROVE  OwedThrough(c, s, i)
  <2>1. /\ server_frame \in Nat /\ server_frame' \in Nat /\ i \in Nat
        /\ cd_client_frame[s] \in Int /\ cd_client_frame'[s] \in Int
    <3>1. /\ server_frame \in Nat /\ cd_client_frame[s] \in Int /\ FRAME_BUFFER_SIZE \in Nat
          BY EarlyFacts
    <3>2. /\ server_frame' \in Nat /\ cd_client_frame'[s] \in Int
          BY DEF TypeOK, ServerTypeOK
    <3>3. QED
          BY <3>1, <3>2 DEF Window
  <2>2. CASE Admitted(c)' /\ ~Gone(s)'
        BY <2>2 DEF RoutesKept, OwedThrough
  <2>3. CASE /\ cd_fd'[s] = c \/ (Admitted(c)' /\ Gone(s)')
             /\ server_frame' + i <= cd_client_frame'[s]
    <3>1. cd_client_frame'[s] = cd_client_frame[s]
          BY <2>1, <2>3 DEF RoutesKept
    <3>2. server_frame + i <= cd_client_frame[s]
          BY <2>1, <2>3, <3>1 DEF RoutesKept
    <3>3. QED
          BY <2>3, <3>2 DEF RoutesKept, OwedThrough
  <2>4. QED
        BY <1>1, <2>2, <2>3 DEF OwedThrough
<1>2. ASSUME NEW x \in Slots \X Window, OwedThrough(c, x[1], x[2])'
      PROVE  OwedThrough(c, x[1], x[2])
      BY <1>1, <1>2
<1>3. QED
      BY <1>2 DEF Owed, RoutesKept

\* Nothing that routes a frame to the client is touched.
LEMMA RoutesUntouched ==
    ASSUME NEW c \in Clients, server_up, NotYetTold(c)' => NotYetTold(c),
           UNCHANGED <<server_frame, accept_pc, accept_fd, accept_slot, cd_fd, cd_client_frame>>,
           \A s \in Slots : (Gone(s) => Gone(s)') /\ (cd_is_connected'[s] => cd_is_connected[s]),
           sim_pc' # sim_pc => sim_pc' # "simulate", server_frame \in Nat
    PROVE  RoutesKept(c)
BY DEF RoutesKept, Admitted, OwedUntimely

LEMMA AcceptRoutes ==
    ASSUME EInv, NEW c \in Clients, server_end[c] # "none", AcceptThread, UNCHANGED clientVars
    PROVE  RoutesKept(c)
<1> USE DEF slotVars, threadVars, ringVars
<1>0. /\ SlotInUse /\ SlotBeingFilled /\ SlotsLimited /\ cd_fd \in [Slots -> Clients \cup {NoFd}]
      /\ cd_is_connected \in [Slots -> BOOLEAN]
      /\ thread_pc \in [Slots -> ThreadPC] /\ cd_client_frame \in [Slots -> Int]
      /\ accept_slot \in Slots /\ server_frame \in Nat /\ NoFd \notin Clients
      BY EarlyFacts
<1>1. /\ NotYetTold(c)' => NotYetTold(c)
      /\ server_frame' = server_frame /\ server_frame <= server_frame'
      BY <1>0, EarlyFacts, AcceptQuiet DEF Quiet, ServiceKept
<1>2. ASSUME NEW d \in Clients, AcceptConnection(d) PROVE RoutesKept(c)
  <2>1. /\ server_up /\ d # c /\ accept_fd' = d /\ accept_pc' = "lock"
        /\ UNCHANGED <<server_frame, cd_client_frame, cd_is_connected, thread_pc, sim_pc>>
        /\ \/ UNCHANGED cd_fd
           \/ \E fd \in Released : cd_fd' = [t \in Slots |-> IF cd_fd[t] = fd THEN d ELSE cd_fd[t]]
        BY <1>2 DEF AcceptConnection
  <2>2. \A s \in Slots : cd_fd'[s] = c => cd_fd[s] = c
        BY <1>0, <2>1
  <2>3. QED
        BY <1>1, <2>1, <2>2 DEF RoutesKept, Admitted, OwedUntimely
<1>3. CASE AcceptLimitReached \/ AcceptNoSlot \/ AcceptUndo \/ AcceptUnlock \/ AcceptStops
  <2>1. /\ server_up /\ accept_pc' \in {"accept", "ended"}
        /\ UNCHANGED <<server_frame, cd_client_frame, cd_is_connected, cd_fd, thread_pc, sim_pc>>
        BY <1>3 DEF AcceptLimitReached, AcceptNoSlot, AcceptUndo, AcceptUnlock, AcceptStops, Admitting,
                    AcceptForget
  <2>2. QED
        BY <1>1, <2>1 DEF RoutesKept, Admitted, OwedUntimely
<1>3a. CASE AcceptMark
  <2>1. /\ server_up /\ accept_fd' = accept_fd /\ accept_pc = "mark" /\ accept_pc' = "set_fd"
        /\ UNCHANGED <<server_frame, cd_client_frame, cd_fd, thread_pc, sim_pc>>
        /\ cd_is_connected' = [cd_is_connected EXCEPT ![accept_slot] = TRUE]
        BY <1>3a DEF AcceptMark, AcceptStep
  <2>2. \A s \in Slots : cd_fd[s] = c => cd_is_connected[s]
        BY <1>0, <2>1 DEF SlotsLimited
  <2>3. QED
        BY <1>1, <2>1, <2>2 DEF RoutesKept, Admitted, OwedUntimely, Gone
<1>4. CASE AcceptCountRead \/ AcceptCountWrite \/ \E s \in Slots : AcceptFindSlot(s)
  <2>1. /\ server_up /\ accept_fd' = accept_fd
        /\ \/ accept_pc = "lock" /\ accept_pc' = "mark"
           \/ accept_pc' \in {"count_write", "spawn"}
        /\ UNCHANGED <<server_frame, cd_client_frame, cd_is_connected, cd_fd, thread_pc, sim_pc>>
        BY <1>4 DEF AcceptCountRead, AcceptCountWrite, AcceptFindSlot, AcceptStep, Admitting
  <2>2. QED
        BY <1>1, <2>1 DEF RoutesKept, Admitted, OwedUntimely, Gone
<1>5. CASE AcceptSetFd
  <2>1. /\ server_up /\ accept_pc = "set_fd" /\ accept_pc' = "set_frame" /\ accept_fd' = accept_fd
        /\ accept_slot' = accept_slot /\ cd_fd' = [cd_fd EXCEPT ![accept_slot] = accept_fd]
        /\ UNCHANGED <<server_frame, cd_client_frame, cd_is_connected, thread_pc, sim_pc>>
        BY <1>5 DEF AcceptSetFd, AcceptStep
  <2>2. Gone(accept_slot)
        BY <1>0, <2>1 DEF SlotBeingFilled, Filling, Gone
  <2>3. ASSUME NEW s \in Slots, cd_fd'[s] = c PROVE cd_fd[s] = c \/ (Admitted(c) /\ Gone(s))
        BY <1>0, <2>1, <2>2, <2>3 DEF Admitted
  <2>4. QED
        BY <1>1, <2>1, <2>3 DEF RoutesKept, Admitted, OwedUntimely
<1>6. CASE AcceptSetFrame
  <2>1. /\ server_up /\ accept_pc = "set_frame" /\ accept_pc' = "count_read" /\ accept_fd' = accept_fd
        /\ cd_client_frame' = [cd_client_frame EXCEPT ![accept_slot] = -1]
        /\ UNCHANGED <<server_frame, cd_fd, cd_is_connected, thread_pc, sim_pc>>
        BY <1>6 DEF AcceptSetFrame, AcceptStep
  <2>2. \A s \in Slots : cd_client_frame'[s] \in {cd_client_frame[s], -1}
        BY <1>0, <2>1
  <2>3. OwedUntimely(c)' => OwedUntimely(c)
    <3>1. SUFFICES ASSUME sim_pc = "simulate", NEW s \in Slots, cd_fd[s] = c, cd_is_connected[s],
                          cd_client_frame'[s] < server_frame
                   PROVE  OwedUntimely(c)
          BY <2>1 DEF OwedUntimely, Admitted
    <3>2. CASE s = accept_slot
      <4>1. accept_fd = c
            BY <1>0, <2>1, <3>1, <3>2 DEF SlotBeingFilled
      <4>2. cd_client_frame[s] \in Int
            BY <1>0
      <4>3. QED
            BY <1>0, <2>1, <3>1, <3>2, <4>1, <4>2 DEF OwedUntimely
    <3>3. CASE s # accept_slot
          BY <1>0, <2>1, <3>1, <3>3 DEF OwedUntimely
    <3>4. QED
          BY <3>2, <3>3
  <2>4. QED
        BY <1>1, <2>1, <2>2, <2>3 DEF RoutesKept, Admitted
<1>7. CASE AcceptSpawn
  <2>1. /\ server_up /\ accept_pc' = "unlock"
        /\ UNCHANGED <<server_frame, cd_fd, cd_client_frame, cd_is_connected, sim_pc>>
        BY <1>7 DEF AcceptSpawn
  <2>2. QED
        BY <1>1, <2>1 DEF RoutesKept, Admitted, OwedUntimely
<1>7a. CASE AcceptSpawnFails \/ AcceptUndoRead \/ AcceptUndoWrite \/ AcceptUndoUnlock
  <2>1. /\ server_up /\ accept_pc' \in Undoing
        /\ UNCHANGED <<server_frame, thread_pc, cd_fd, cd_client_frame, sim_pc>>
        /\ \A s \in Slots : cd_is_connected'[s] => cd_is_connected[s]
        BY <1>0, <1>7a DEF AcceptSpawnFails, AcceptUndoRead, AcceptUndoWrite, AcceptUndoUnlock, AcceptStep, Undoing
  <2>2. QED
        BY <1>1, <2>1 DEF RoutesKept, Admitted, OwedUntimely, Undoing
<1>8. CASE AcceptUndoFd
  <2>1. /\ server_up /\ accept_pc' = "undo_read" /\ cd_fd' = [cd_fd EXCEPT ![accept_slot] = NoFd]
        /\ UNCHANGED <<server_frame, thread_pc, cd_client_frame, cd_is_connected, sim_pc>>
        BY <1>8 DEF AcceptUndoFd, AcceptStep
  <2>2. \A s \in Slots : cd_fd'[s] = c => cd_fd[s] = c
        BY <1>0, <2>1
  <2>3. QED
        BY <1>1, <2>1, <2>2 DEF RoutesKept, Admitted, OwedUntimely
<1>9. QED
      BY <1>2, <1>3, <1>3a, <1>4, <1>5, <1>6, <1>7, <1>7a, <1>8 DEF AcceptThread

LEMMA ThreadRoutes ==
    ASSUME EInv, NEW c \in Clients, client_end[c] = "open", ~c_is_initialised[c], NEW t \in Slots,
           ClientThread(t), NotYetTold(c)' => NotYetTold(c), server_up'
    PROVE  RoutesKept(c)
<1> USE DEF networkVars, acceptVars, slotVars, threadVars, ringVars
<1>0. /\ SlotInUse /\ SlotBeingFilled /\ SlotsLimited /\ cd_fd \in [Slots -> Clients \cup {NoFd}]
      /\ cd_is_connected \in [Slots -> BOOLEAN]
      /\ thread_pc \in [Slots -> ThreadPC] /\ cd_client_frame \in [Slots -> Int]
      /\ accept_slot \in Slots /\ server_frame \in Nat /\ NoFd \notin Clients
      BY EarlyFacts
<1>1. CASE ThreadInit(t) \/ ThreadSendInit(t) \/ ThreadSendInitFails(t) \/ ThreadRecvEnd(t) \/ ThreadClose(t)
              \/ ThreadLeave(t) \/ ThreadRemove(t) \/ ThreadRemoved(t)
  <2>1. /\ server_up /\ UNCHANGED <<server_frame, accept_pc, accept_fd, accept_slot, cd_fd, cd_client_frame, sim_pc>>
        BY <1>1 DEF ThreadInit, ThreadSendInit, ThreadSendInitFails, ThreadRecvEnd, ThreadClose, ThreadLeave,
                    ThreadRemove, ThreadRemoved, ThreadStep
  <2>2. \/ thread_pc' = thread_pc
        \/ ~Gone(t) /\ \E to \in {"send_init", "listen", "close", "forget"} : thread_pc' = [thread_pc EXCEPT ![t] = to]
        \/ \E to \in {"remove", "none"} : thread_pc' = [thread_pc EXCEPT ![t] = to]
        BY <1>1 DEF ThreadInit, ThreadSendInit, ThreadSendInitFails, ThreadRecvEnd, ThreadClose, ThreadLeave,
                    ThreadRemove, ThreadRemoved, ThreadStep, NextRecv, Gone
  <2>3. \A s \in Slots : (Gone(s) => Gone(s)') /\ (cd_is_connected'[s] => cd_is_connected[s])
    <3>1. \A s \in Slots : Gone(s) => Gone(s)'
          BY <1>0, <2>2 DEF Gone
    <3>2. \A s \in Slots : cd_is_connected'[s] => cd_is_connected[s]
          BY <1>0, <1>1 DEF ThreadInit, ThreadSendInit, ThreadSendInitFails, ThreadRecvEnd, ThreadClose,
                            ThreadLeave, ThreadRemove, ThreadRemoved
    <3>3. QED
          BY <3>1, <3>2
  <2>4. QED
        BY <1>0, <2>1, <2>3, RoutesUntouched
<1>2. CASE ThreadForgetFd(t)
  <2>1. /\ server_up /\ thread_pc' = [thread_pc EXCEPT ![t] = "leave"] /\ cd_fd' = [cd_fd EXCEPT ![t] = NoFd]
        /\ UNCHANGED <<server_frame, accept_pc, accept_fd, accept_slot, cd_client_frame, cd_is_connected, sim_pc>>
        BY <1>2 DEF ThreadForgetFd, ThreadStep
  <2>2. \A s \in Slots : /\ cd_fd'[s] = c => cd_fd[s] = c
                         /\ Gone(s) => Gone(s)'
        BY <1>0, <2>1 DEF Gone
  <2>3. QED
        BY <1>0, <2>1, <2>2 DEF RoutesKept, Admitted, OwedUntimely
<1>3. CASE ThreadStoreInput(t) \/ ThreadIgnoreInput(t)
  <2>1. /\ server_up /\ thread_pc[t] = "listen" /\ thread_pc' = [thread_pc EXCEPT ![t] = NextRecv]
        /\ StateLockFree /\ up[cd_fd[t]] # <<>>
        /\ UNCHANGED <<server_frame, accept_pc, accept_fd, accept_slot, cd_fd>>
        /\ \A s \in Slots : s # t => cd_client_frame'[s] = cd_client_frame[s]
    <3>1. ThreadReceiving(t)
          BY <1>3 DEF ThreadStoreInput, ThreadIgnoreInput
    <3>2. up[cd_fd[t]] # <<>>
          BY <3>1, ReceivesSomething
    <3>3. \A s \in Slots : s # t => cd_client_frame'[s] = cd_client_frame[s]
          BY <1>0, <1>3 DEF ThreadStoreInput, ThreadIgnoreInput
    <3>4. QED
          BY <3>1, <3>2, <3>3 DEF ThreadReceiving, ThreadStep
  <2>2. cd_fd[t] # c
    <3>1. up[c] = <<>>
          BY EarlyFacts DEF NInv, NetcodeInv, ClientInv, OnlyPredicted
    <3>2. QED
          BY <2>1, <3>1
  <2>3. sim_pc # "simulate" /\ sim_pc' # "simulate"
        BY <1>3, <2>1 DEF ThreadStoreInput, ThreadIgnoreInput, SignalSimulation, StateLockFree
  <2>4. \A s \in Slots : Gone(s) <=> Gone(s)'
        BY <1>0, <2>1 DEF Gone, NextRecv
  <2>5. accept_pc = "set_frame" => accept_slot # t
        BY <1>0, <2>1 DEF SlotBeingFilled, Filling
  <2>6. ~Gone(t)
        BY <2>1 DEF Gone
  <2>7. OwedUntimely(c)' => OwedUntimely(c)
        BY <1>0, <2>1, <2>3, <2>5 DEF OwedUntimely, Admitted
  <2>8. \A s \in Slots : cd_fd'[s] = c \/ (Admitted(c)' /\ Gone(s)') => cd_client_frame'[s] = cd_client_frame[s]
        BY <2>1, <2>2, <2>4, <2>6
  <2>9. QED
        BY <1>0, <2>1, <2>4, <2>7, <2>8 DEF RoutesKept, Admitted
<1>4. CASE ThreadSendInitKills(t) \/ ThreadRecvPart(t)
      BY <1>4 DEF ThreadSendInitKills, ThreadRecvPart, ServerDies
<1>5. QED
      BY <1>1, <1>2, <1>3, <1>4 DEF ClientThread

LEMMA SimRoutes ==
    ASSUME EInv, NEW c \in Clients, SimTest \/ SimTestLate \/ SimStops \/ SimSpuriousWakeup
    PROVE  RoutesKept(c)
<1> USE DEF networkVars, acceptVars, slotVars, threadVars, ringVars
<1>0. /\ SlotsLimited /\ server_frame \in Nat /\ cd_client_frame \in [Slots -> Int]
      BY EarlyFacts
<1>1. /\ server_up
      /\ UNCHANGED <<server_frame, accept_pc, accept_fd, accept_slot, cd_fd, cd_is_connected,
                     cd_client_frame, thread_pc, server_end>>
      BY DEF SimTest, SimTestLate, SimStops, SimSpuriousWakeup
<1>2. NotYetTold(c)' => NotYetTold(c)
      BY <1>1 DEF NotYetTold
<1>3. OwedUntimely(c)' => OwedUntimely(c)
  <2>1. SUFFICES ASSUME sim_pc' = "simulate", NEW s \in Slots, cd_fd[s] = c, cd_is_connected[s],
                        cd_client_frame[s] < server_frame
                 PROVE  FALSE
        BY <1>1 DEF OwedUntimely, Admitted
  <2>2. CanSimulate(client_count, cd_client_frame)
        BY <2>1 DEF SimTest, SimTestLate, SimStops, SimSpuriousWakeup
  <2>3. QED
        BY <1>0, <2>1, <2>2 DEF CanSimulate
<1>4. QED
      BY <1>0, <1>1, <1>2, <1>3 DEF RoutesKept, Admitted, Gone

LEMMA MainRoutes ==
    ASSUME EInv, NEW c \in Clients, BeginShutdown \/ (ServerShutdown /\ ~MainReturns), UNCHANGED clientVars
    PROVE  RoutesKept(c)
<1> USE DEF networkVars, acceptVars, slotVars, threadVars, ringVars
<1>0. thread_pc \in [Slots -> ThreadPC] /\ server_frame \in Nat
      BY EarlyFacts
<1>1. NotYetTold(c)' => NotYetTold(c)
      BY EarlyFacts, MainQuiet DEF Quiet, ServiceKept
<1>2. CASE BeginShutdown
  <2>1. /\ server_up
        /\ UNCHANGED <<server_frame, accept_pc, accept_fd, accept_slot, cd_fd, cd_client_frame, cd_is_connected>>
        /\ sim_pc' \in {sim_pc, "tested"}
        BY <1>2 DEF BeginShutdown, MainStep
  <2>2. \A s \in Slots : (Gone(s) => Gone(s)') /\ (cd_is_connected'[s] => cd_is_connected[s])
        BY <1>0, <1>2, <2>1 DEF BeginShutdown, Gone
  <2>3. QED
        BY <1>0, <1>1, <2>1, <2>2, RoutesUntouched
<1>3. CASE ServerShutdown /\ ~MainReturns
  <2>1. /\ server_up /\ thread_pc' = thread_pc
        /\ UNCHANGED <<server_frame, accept_pc, accept_fd, accept_slot, cd_fd, cd_client_frame, cd_is_connected>>
        /\ sim_pc' \in {sim_pc, "test"}
        BY <1>3 DEF ServerShutdown, MainCount, MainSkipClient, MainShutClient, MainCloseClient, MainSignal,
                    MainJoinSimulation, MainJoinAccept, MainJoinClient, NextSlot, MainStep, SignalSimulation
  <2>2. \A s \in Slots : (Gone(s) => Gone(s)') /\ (cd_is_connected'[s] => cd_is_connected[s])
        BY <2>1 DEF Gone
  <2>3. QED
        BY <1>0, <1>1, <2>1, <2>2, RoutesUntouched
<1>4. QED
      BY <1>2, <1>3

-------------------------------------------------------------------------------
(***************************************************************************)
(* A frame that is sent was owed: once through each slot that names the    *)
(* connection, by the input stored there or as the untimely one.           *)
(***************************************************************************)
Named(slots, c) == {s \in slots : cd_fd[s] = c}

Charge(s) ==
    IF server_frame <= cd_client_frame[s] THEN <<s, cd_client_frame[s] - server_frame>> ELSE Untimely

Charges(slots, c) == {Charge(s) : s \in Named(slots, c)}

\* No two of them are charged for the same.
LEMMA ChargedApart ==
    ASSUME EInv, NEW c \in Clients, NEW slots \in SUBSET BroadcastTo, sim_pc = "simulate",
           NEW s \in Named(slots, c), NEW t \in Named(slots, c), Charge(s) = Charge(t)
    PROVE  s = t
<1>0. /\ SlotInUse /\ SimReady /\ thread_pc \in [Slots -> ThreadPC] /\ NoFd \notin Clients
      /\ cd_client_frame \in [Slots -> Int] /\ server_frame \in Nat
      BY EarlyFacts
<1>1. s \in Slots /\ t \in Slots /\ cd_fd[s] = c /\ cd_fd[t] = c
      BY DEF Named, BroadcastTo
<1>2. s >= 0 /\ t >= 0
      BY <1>1, GlobalsAssumption DEF Slots
<1>3. CASE server_frame <= cd_client_frame[s] \/ server_frame <= cd_client_frame[t]
      BY <1>2, <1>3 DEF Charge, Untimely
<1>4. CASE ~(server_frame <= cd_client_frame[s]) /\ ~(server_frame <= cd_client_frame[t])
  <2>1. thread_pc[s] \in {"none", "init"} /\ thread_pc[t] \in {"none", "init"}
        BY <1>0, <1>1, <1>4 DEF SimReady
  <2>2. QED
        BY <1>0, <1>1, <2>1 DEF SlotInUse
<1>5. QED
      BY <1>3, <1>4

LEMMA ChargesOwed ==
    ASSUME EInv, NEW c \in Clients, NEW slots \in SUBSET BroadcastTo, sim_pc = "simulate", server_up
    PROVE  Charges(slots, c) \subseteq Owed(c)
<1> SUFFICES ASSUME NEW s \in Named(slots, c) PROVE Charge(s) \in Owed(c)
    BY DEF Charges
<1>0. /\ SlotsLimited /\ cd_client_frame \in [Slots -> Int] /\ server_frame \in Nat /\ FRAME_BUFFER_SIZE \in Nat
      BY EarlyFacts
<1>1. s \in Slots /\ cd_fd[s] = c /\ cd_is_connected[s]
      BY DEF Named, BroadcastTo
<1>2. \A t \in Slots : t >= 0
      BY GlobalsAssumption DEF Slots
<1>3. CASE server_frame <= cd_client_frame[s]
  <2> DEFINE i == cd_client_frame[s] - server_frame
  <2>1. cd_client_frame[s] \in Int /\ cd_client_frame[s] <= server_frame + FRAME_BUFFER_SIZE - 2
        BY <1>0, <1>1 DEF SlotsLimited
  <2>2. i \in Window /\ server_frame + i <= cd_client_frame[s]
        BY <1>0, <1>3, <2>1 DEF Window
  <2>3. OwedThrough(c, s, i)
        BY <1>1, <2>2 DEF OwedThrough
  <2>4. Charge(s) = <<s, i>>
        BY <1>3 DEF Charge
  <2> HIDE DEF i
  <2>5. <<s, i>> \in Slots \X Window /\ <<s, i>> # Untimely /\ <<s, i>> # Greeting
        BY <1>1, <1>2, <2>2 DEF Untimely, Greeting
  <2>6. QED
        BY <2>3, <2>4, <2>5 DEF Owed, Owable
<1>4. CASE ~(server_frame <= cd_client_frame[s])
  <2>1. OwedUntimely(c)
        BY <1>0, <1>1, <1>4 DEF OwedUntimely
  <2>2. Untimely \notin Slots \X Window /\ Untimely # Greeting
        BY <1>2 DEF Untimely, Greeting
  <2>3. QED
        BY <1>4, <2>1, <2>2 DEF Charge, Owed, Owable
<1>5. QED
      BY <1>3, <1>4

LEMMA BroadcastCharged ==
    ASSUME EInv, NEW c \in Clients, NEW slots \in SUBSET BroadcastTo, sim_pc = "simulate", server_up,
           NEW m, down' = Broadcast(slots, m)
    PROVE  Len(down'[c]) <= Len(down[c]) + Cardinality(Charges(slots, c))
<1> DEFINE charge == [s \in Named(slots, c) |-> Charge(s)]
           named == Named(slots, c)
           charges == Charges(slots, c)
<1>1. charges \subseteq Owed(c)
      BY ChargesOwed
<1>2. IsFiniteSet(charges) /\ Cardinality(charges) \in Nat
      BY <1>1, OwedFinite, FS_Subset, FS_CardinalityType
<1>3. charge \in Injection(named, charges)
  <2>1. charge \in [named -> charges]
        BY DEF Charges
  <2>2. \A s, t \in named : charge[s] = charge[t] => s = t
        BY ChargedApart
  <2>3. QED
        BY <2>1, <2>2 DEF Injection, IsInjective
<1>4. Cardinality(named) <= Cardinality(charges) /\ IsFiniteSet(named)
      BY <1>2, <1>3, FS_Injection
<1>5. Cardinality(named) \in Nat
      BY <1>4, FS_CardinalityType
<1>6. slots \in SUBSET Slots
      BY DEF BroadcastTo
<1>7. /\ Len(down'[c]) = Len(down[c]) + Copies(slots, c)
      /\ Len(down[c]) \in Nat /\ Copies(slots, c) \in Nat
      BY <1>6, EarlyFacts, BroadcastShape
<1>8. Copies(slots, c) \in {0, Cardinality(named)}
      BY DEF Copies, Named
<1> HIDE DEF named, charges
<1>9. Len(down'[c]) <= Len(down[c]) + Cardinality(charges)
      BY <1>2, <1>4, <1>5, <1>7, <1>8
<1>10. QED
       BY <1>9 DEF charges

LEMMA StepEarly ==
    ASSUME EInv, TypeOK', NEW c \in Clients, SimStep, Early(c), UNCHANGED clientVars
    PROVE  Early(c)'
<1> USE DEF networkVars, acceptVars, slotVars, threadVars
<1>0. /\ SlotInUse /\ SlotBeingFilled /\ TypeOK /\ thread_pc \in [Slots -> ThreadPC]
      /\ cd_client_frame \in [Slots -> Int] /\ server_frame \in Nat /\ accept_slot \in Slots
      /\ NoFd \notin Clients /\ SimReady
      BY EarlyFacts
<1>1. /\ server_up /\ sim_pc = "simulate" /\ sim_pc' = "test" /\ server_frame' = server_frame + 1
      /\ UNCHANGED <<accept_pc, accept_fd, accept_slot, cd_fd, cd_client_frame, thread_pc, server_end>>
      /\ down' = Broadcast(BroadcastTo, FrameGameEvents(server_frame, CurrentEvents))
      BY DEF SimStep, SimSimulating
<1> DEFINE sent == Charges(BroadcastTo, c)
<1>2. sent \in SUBSET Owed(c) /\ Len(down'[c]) <= Len(down[c]) + Cardinality(sent)
      BY <1>1, ChargesOwed, BroadcastCharged
<1>3. RoutesKept(c)
  <2>1. NotYetTold(c)' => NotYetTold(c)
        BY <1>1 DEF NotYetTold
  <2>2. OwedUntimely(c)' => OwedUntimely(c)
        BY <1>0, <1>1 DEF OwedUntimely, Admitted
  <2>3. QED
        BY <1>0, <1>1, <2>1, <2>2 DEF RoutesKept, Admitted, Gone
<1>4. ASSUME NEW s \in Named(BroadcastTo, c) PROVE Charge(s) \notin Owed(c)'
  <2>1. s \in Slots /\ cd_fd[s] = c
        BY DEF Named, BroadcastTo
  <2>2. Admitted(c) => thread_pc[s] = "forget"
        BY <1>0, <2>1 DEF Admitted, SlotBeingFilled
  <2>3. CASE server_frame <= cd_client_frame[s]
    <3>1. PICK i \in Int : i = cd_client_frame[s] - server_frame /\ ~(server_frame' + i <= cd_client_frame'[s])
          BY <1>0, <1>1, <2>1
    <3>2. ~(Admitted(c)' /\ ~Gone(s)')
          BY <1>1, <2>2 DEF Admitted, Gone
    <3>3. ~OwedThrough(c, s, i)'
          BY <3>1, <3>2 DEF OwedThrough
    <3>4. Charge(s) = <<s, i>>
          BY <2>3, <3>1 DEF Charge
    <3>5. i \in Window
      <4>1. Charge(s) \in Owed(c)
            BY <1>2 DEF Charges
      <4>2. <<s, i>> \in Owable
            BY <3>4, <4>1 DEF Owed
      <4>3. s >= 0
            BY <2>1, GlobalsAssumption DEF Slots
      <4>4. QED
            BY <4>2, <4>3 DEF Owable, Untimely, Greeting
    <3>6. <<s, i>> \in Slots \X Window
          BY <2>1, <3>5
    <3>7. QED
          BY <3>3, <3>4, <3>6 DEF Owed
  <2>4. CASE ~(server_frame <= cd_client_frame[s])
    <3>1. thread_pc[s] \in {"none", "init"}
          BY <1>0, <1>1, <2>1, <2>4 DEF SimReady
    <3>2. ~Admitted(c)
          BY <2>2, <3>1
    <3>3. accept_pc = "set_frame" /\ accept_fd = c => s = accept_slot
          BY <1>0, <2>1, <3>1 DEF SlotBeingFilled, SlotInUse, Filling
    <3>4. ~OwedUntimely(c)'
          BY <1>0, <1>1, <2>1, <2>4, <3>2, <3>3 DEF OwedUntimely, Admitted
    <3>5. Untimely \notin Owed(c)'
          BY <3>4 DEF Owed
    <3>6. QED
          BY <2>4, <3>5 DEF Charge
  <2>5. QED
        BY <2>3, <2>4
<1>5. Owed(c)' \subseteq Owed(c) \ sent
      BY <1>3, <1>4, OwedShrinks DEF Charges
<1>6. QED
      BY <1>0, <1>2, <1>5, Repaid

\* The server that is killed while it sends a frame sends nothing more.
LEMMA DeathEarly ==
    ASSUME EInv, TypeOK', NEW c \in Clients, SimKills, Early(c)
    PROVE  Early(c)'
<1>1. server_up /\ sim_pc = "simulate" /\ server_up' = FALSE
      BY DEF SimKills, SimSimulating, ServerDies
<1>2. PICK s \in Slots :
         down' = Broadcast({t \in BroadcastTo : t < s}, FrameGameEvents(server_frame, CurrentEvents))
      BY DEF SimKills
<1> DEFINE slots == {t \in BroadcastTo : t < s}
           sent == Charges(slots, c)
<1>3. slots \in SUBSET BroadcastTo
      OBVIOUS
<1>4. sent \in SUBSET Owed(c) /\ Len(down'[c]) <= Len(down[c]) + Cardinality(sent)
      BY <1>1, <1>2, <1>3, ChargesOwed, BroadcastCharged
<1>5. Owed(c)' \subseteq Owed(c) \ sent
      BY <1>1 DEF Owed
<1>6. QED
      BY <1>4, <1>5, EarlyFacts, Repaid

\* The first message is sent once, to a client that was not told before.
LEMMA GreetingEarly ==
    ASSUME EInv, NInv', NEW c \in Clients, NEW s \in Slots, ThreadSendInit(s), Early(c),
           client_end[c] = "open", ~c_is_initialised[c], UNCHANGED clientVars
    PROVE  Early(c)'
<1>0. /\ SlotInUse /\ TypeOK /\ TypeOK' /\ ToldOnce(c)' /\ thread_pc \in [Slots -> ThreadPC]
      /\ down \in [Clients -> Seq(InitMessage \cup EventsMessage)]
      BY EarlyFacts DEF NInv, NetcodeInv, ClientInv
<1>1. /\ server_up /\ server_up' /\ thread_pc[s] = "send_init" /\ thread_pc' = [thread_pc EXCEPT ![s] = NextRecv]
      /\ down' = Delivered(down, client_end, cd_fd[s], thread_msg[s])
      /\ UNCHANGED <<accept_pc, accept_fd, cd_fd, server_end>>
      BY DEF ThreadSendInit, ThreadStep, acceptVars, slotVars
<1>2. NotYetTold(c)' => NotYetTold(c)
      BY <1>0, <1>1 DEF NotYetTold, NextRecv
<1>3. RoutesKept(c)
  <2>1. ClientThread(s)
        BY DEF ClientThread
  <2>2. QED
        BY <1>1, <1>2, <2>1, ThreadRoutes
<1>4. Owed(c)' \subseteq Owed(c)
      BY <1>0, <1>3, OwedShrinks
<1>5. CASE cd_fd[s] # c
  <2>1. down'[c] = down[c] /\ Len(down[c]) \in Nat
        BY <1>0, <1>1, <1>5, DownFrames DEF Delivered
  <2>2. Cardinality({}) = 0
        BY FS_EmptySet
  <2>3. Owed(c)' \subseteq Owed(c) \ {} /\ Len(down'[c]) <= Len(down[c]) + Cardinality({})
        BY <1>4, <2>1, <2>2
  <2>4. QED
        BY <1>0, <2>3, Repaid
<1>6. CASE cd_fd[s] = c
  <2> DEFINE q == down[c]
  <2>1. q \in Seq(InitMessage \cup EventsMessage) /\ thread_msg[s] \in InitMessage
        BY <1>0, <1>1 DEF SlotInUse
  <2>2. down'[c] = Append(q, thread_msg[s])
        BY <1>0, <1>1, <1>6 DEF Delivered
  <2> HIDE DEF q
  <2>3. /\ Len(down'[c]) = Len(q) + 1 /\ Len(q) \in Nat /\ DOMAIN down'[c] = 1 .. Len(q) + 1
        /\ down'[c][Len(q) + 1] = thread_msg[s]
        BY <2>1, <2>2, AppendProperties
  <2>4. Told(c)'
        BY <2>1, <2>3 DEF Told, InitMessage
  <2>5. Greeting \notin Owed(c)'
        BY <1>0, <2>4 DEF ToldOnce, Owed
  <2>6. Greeting \in Owed(c)
    <3>1. NotYetTold(c)
          BY <1>1, <1>6 DEF NotYetTold
    <3>2. Greeting \notin Slots \X Window /\ Greeting # Untimely
          BY GlobalsAssumption DEF Greeting, Untimely, Slots
    <3>3. QED
          BY <1>1, <3>1, <3>2 DEF Owed, Owable
  <2>7. Cardinality({Greeting}) = 1
        BY FS_Singleton
  <2>8. Len(down'[c]) <= Len(down[c]) + Cardinality({Greeting})
        BY <2>3, <2>7 DEF q
  <2>9. QED
        BY <1>0, <1>4, <2>5, <2>6, <2>8, Repaid
<1>7. QED
      BY <1>5, <1>6

LEMMA ServerKeepsEnds ==
    ASSUME NInv, NEW c \in Clients, ServerNext, UNCHANGED clientVars
    PROVE  client_end' = client_end
<1>1. CASE ~Sends
      BY <1>1, ServerQuiet DEF Quiet, ClientKept
<1>2. CASE Sends
      BY <1>2 DEF Sends, SimStep, SimKills, ThreadSendInit
<1>3. QED
      BY <1>1, <1>2

LEMMA ServerEarly ==
    ASSUME EInv, NInv', NEW c \in Clients, ServerNext, UNCHANGED clientVars, ~c_is_initialised[c]
    PROVE  Early(c)'
<1>0. /\ NInv /\ TypeOK /\ TypeOK' /\ UsesOpenEnd(c)' /\ Early(c) /\ client_end' = client_end
      /\ (server_end[c] = "none" => down[c] = <<>>)
  <2>1. client_end' = client_end
        BY EarlyFacts, ServerKeepsEnds
  <2>2. QED
        BY <2>1, EarlyFacts DEF EarlyInv, NInv, NetcodeInv, ClientInv
<1>1. ASSUME down'[c] = <<>> PROVE Early(c)'
      BY <1>1, NothingSent
<1>2. CASE client_end[c] # "open"
      BY <1>0, <1>1, <1>2 DEF UsesOpenEnd
<1>3. CASE client_end[c] = "open" /\ SimStep
      BY <1>0, <1>3, StepEarly
<1>4. CASE client_end[c] = "open" /\ SimKills
      BY <1>0, <1>4, DeathEarly
<1>5. ASSUME client_end[c] = "open", NEW s \in Slots, ThreadSendInit(s) PROVE Early(c)'
      BY <1>0, <1>5, GreetingEarly
<1>6. CASE client_end[c] = "open" /\ ~Sends
  <2>1. Quiet(c)
        BY <1>0, <1>6, ServerQuiet
  <2>2. down'[c] = down[c] /\ (NotYetTold(c)' => NotYetTold(c))
        BY <2>1 DEF Quiet, ClientKept, ServiceKept
  <2>3. CASE server_end[c] = "none"
        BY <1>0, <1>1, <2>2, <2>3
  <2>4. ASSUME RoutesKept(c) \/ ~server_up' PROVE Early(c)'
    <3>1. Owed(c)' \subseteq Owed(c)
          BY <1>0, <2>4, OwedShrinks DEF Owed
    <3>2. Cardinality({}) = 0 /\ Len(down[c]) \in Nat
          BY <1>0, FS_EmptySet, DownFrames
    <3>3. Owed(c)' \subseteq Owed(c) \ {} /\ Len(down'[c]) <= Len(down[c]) + Cardinality({})
          BY <2>2, <3>1, <3>2
    <3>4. QED
          BY <1>0, <3>3, Repaid
  <2>5. CASE server_end[c] # "none" /\ AcceptThread
        BY <2>4, <2>5, AcceptRoutes
  <2>6. ASSUME NEW t \in Slots, ClientThread(t) PROVE Early(c)'
        BY <1>6, <2>2, <2>4, <2>6, ThreadRoutes
  <2>7. CASE SimTest \/ SimTestLate \/ SimStops \/ SimSpuriousWakeup
        BY <2>4, <2>7, SimRoutes
  <2>8. CASE BeginShutdown \/ ServerShutdown
        BY <2>4, <2>8, MainRoutes DEF MainReturns, ServerDies
  <2>9. QED
        BY <1>6, <2>3, <2>5, <2>6, <2>7, <2>8 DEF Sends, ServerNext, ServerThreads, SimulationThread
<1>7. QED
      BY <1>2, <1>3, <1>4, <1>5, <1>6 DEF Sends

-------------------------------------------------------------------------------
(***************************************************************************)
(* What is stored of a slot, and what has not been connected yet.          *)
(***************************************************************************)
LEMMA AcceptLimits ==
    ASSUME EInv, AcceptThread
    PROVE  SlotsLimited'
<1> USE DEF slotVars, threadVars, ringVars
<1>0. /\ SlotsLimited /\ SlotBeingFilled /\ SlotInUse
      /\ cd_fd \in [Slots -> Clients \cup {NoFd}] /\ cd_is_connected \in [Slots -> BOOLEAN]
      /\ thread_pc \in [Slots -> ThreadPC] /\ cd_client_frame \in [Slots -> Int]
      /\ accept_slot \in Slots /\ server_frame \in Nat /\ NoFd \notin Clients
      /\ FRAME_BUFFER_SIZE \in Nat /\ FRAME_BUFFER_SIZE >= 2
      BY EarlyFacts
<1>1. ASSUME NEW d \in Clients, AcceptConnection(d) PROVE SlotsLimited'
  <2>1. /\ UNCHANGED <<server_frame, cd_client_frame, thread_pc, cd_is_connected>>
        /\ accept_pc = "accept"
        /\ \/ UNCHANGED cd_fd
           \/ \E fd \in Released : cd_fd' = [t \in Slots |-> IF cd_fd[t] = fd THEN d ELSE cd_fd[t]]
        BY <1>1 DEF AcceptConnection
  <2>2. \A s \in Slots : cd_fd'[s] # cd_fd[s] => cd_fd[s] \in Clients
        BY <1>0, <2>1 DEF Released
  <2>3. QED
        BY <1>0, <2>1, <2>2 DEF SlotsLimited
<1>2. CASE AcceptMark
      BY <1>0, <1>2 DEF AcceptMark, AcceptStep, SlotsLimited
<1>3. CASE AcceptSetFd
      BY <1>0, <1>3 DEF AcceptSetFd, AcceptStep, SlotsLimited, SlotBeingFilled, Filling, Filled
<1>4. CASE AcceptSetFrame
      BY <1>0, <1>4 DEF AcceptSetFrame, AcceptStep, SlotsLimited
<1>5. CASE AcceptSpawn
      BY <1>0, <1>5 DEF AcceptSpawn, SlotsLimited
<1>6. CASE AcceptSpawnFails
      BY <1>0, <1>6 DEF AcceptSpawnFails, AcceptStep, SlotsLimited, SlotBeingFilled
<1>6a. CASE AcceptUndoFd
       BY <1>0, <1>6a DEF AcceptUndoFd, AcceptStep, SlotsLimited
<1>7. CASE \/ AcceptStops \/ AcceptLimitReached \/ AcceptNoSlot \/ AcceptCountRead \/ AcceptCountWrite
           \/ AcceptUndoRead \/ AcceptUndoWrite \/ AcceptUndoUnlock \/ AcceptUndo \/ AcceptUnlock
           \/ \E s \in Slots : AcceptFindSlot(s)
  <2>1. UNCHANGED <<server_frame, slotVars, thread_pc>> /\ accept_pc # "undo_fd"
        BY <1>7 DEF AcceptStops, AcceptLimitReached, AcceptNoSlot, AcceptCountRead, AcceptCountWrite,
                    AcceptUndoRead, AcceptUndoWrite, AcceptUndoUnlock, AcceptUndo, AcceptUnlock, AcceptFindSlot,
                    AcceptStep, Admitting
  <2>2. QED
        BY <1>0, <2>1 DEF SlotsLimited
<1>8. QED
      BY <1>1, <1>2, <1>3, <1>4, <1>5, <1>6, <1>6a, <1>7 DEF AcceptThread

LEMMA ThreadLimits ==
    ASSUME EInv, NEW t \in Slots, ClientThread(t)
    PROVE  SlotsLimited'
<1> USE DEF slotVars, threadVars, ringVars, acceptVars
<1>0. /\ SlotsLimited /\ SlotInUse /\ NInv
      /\ cd_fd \in [Slots -> Clients \cup {NoFd}] /\ cd_is_connected \in [Slots -> BOOLEAN]
      /\ thread_pc \in [Slots -> ThreadPC] /\ cd_client_frame \in [Slots -> Int]
      /\ server_frame \in Nat /\ NoFd \notin Clients /\ FRAME_BUFFER_SIZE \in Nat
      BY EarlyFacts
<1>1. CASE \/ ThreadInit(t) \/ ThreadSendInit(t) \/ ThreadSendInitFails(t) \/ ThreadIgnoreInput(t)
           \/ ThreadRecvEnd(t) \/ ThreadClose(t)
  <2>1. /\ UNCHANGED <<server_frame, cd_fd, cd_is_connected, cd_client_frame, accept_pc, accept_slot>>
        /\ \E to \in {"send_init", "listen", "close", "forget"} : thread_pc' = [thread_pc EXCEPT ![t] = to]
        BY <1>1 DEF ThreadInit, ThreadSendInit, ThreadSendInitFails, ThreadIgnoreInput, ThreadReceiving,
                    ThreadRecvEnd, ThreadClose, ThreadStep, NextRecv
  <2>2. QED
        BY <1>0, <2>1 DEF SlotsLimited
<1>2. CASE ThreadStoreInput(t)
  <2> DEFINE c == cd_fd[t]
             frame == Head(up[c]).frame
  <2>1. /\ server_up /\ thread_pc[t] = "listen" /\ thread_pc' = [thread_pc EXCEPT ![t] = NextRecv]
        /\ UNCHANGED <<server_frame, cd_fd, cd_is_connected, accept_pc, accept_slot>>
        /\ cd_client_frame' = [cd_client_frame EXCEPT ![t] = frame]
        BY <1>2 DEF ThreadStoreInput, ThreadReceiving, ThreadStep
  <2>2. c \in Clients /\ Serves(t, c) /\ up[c] # <<>>
    <3>1. up[c] # <<>>
          BY <1>2, ReceivesSomething DEF ThreadStoreInput
    <3>2. QED
          BY <1>0, <2>1, <3>1 DEF SlotInUse, Serves
  <2>3. InTurn(t, c)
        BY <2>1, <2>2, EarlyFacts DEF IInv, InputInv, InputsOf, Lane
  <2>4. /\ up[c] \in Seq(InputsMessage) /\ 1 \in DOMAIN up[c] /\ up[c][1].frame \in Nat
        BY <1>0, <2>2, UpMessages
  <2>5. Head(up[c]) = up[c][1]
        BY <2>2, <2>4, HeadTailProperties
  <2>6. frame \in Nat /\ frame < server_frame + FRAME_BUFFER_SIZE - 1
        BY <2>3, <2>4, <2>5 DEF InTurn
  <2> HIDE DEF frame, c
  <2>7. NextRecv \in {"listen", "close"}
        BY DEF NextRecv
  <2>8. QED
        BY <1>0, <2>1, <2>6, <2>7 DEF SlotsLimited
<1>3. CASE ThreadForgetFd(t)
      BY <1>0, <1>3 DEF ThreadForgetFd, ThreadStep, SlotsLimited
<1>4. CASE ThreadLeave(t)
      BY <1>0, <1>4 DEF ThreadLeave, ThreadStep, SlotsLimited
<1>5. CASE ThreadRemove(t)
      BY <1>0, <1>5 DEF ThreadRemove, ThreadStep, SlotsLimited
<1>6. CASE ThreadRemoved(t) \/ ThreadSendInitKills(t) \/ ThreadRecvPart(t)
  <2>1. UNCHANGED <<server_frame, slotVars, thread_pc, accept_pc, accept_slot>>
        BY <1>6 DEF ThreadRemoved, ThreadSendInitKills, ThreadRecvPart, serverVars
  <2>2. QED
        BY <1>0, <2>1 DEF SlotsLimited
<1>7. QED
      BY <1>1, <1>2, <1>3, <1>4, <1>5, <1>6 DEF ClientThread

LEMMA ServerLimits ==
    ASSUME EInv, ServerNext
    PROVE  SlotsLimited'
<1>0. /\ SlotsLimited /\ cd_client_frame \in [Slots -> Int] /\ server_frame \in Nat /\ FRAME_BUFFER_SIZE \in Nat
      /\ thread_pc \in [Slots -> ThreadPC]
      BY EarlyFacts
<1>1. CASE SimulationThread \/ SimSpuriousWakeup
  <2>1. /\ server_frame' \in {server_frame, server_frame + 1}
        /\ UNCHANGED <<slotVars, thread_pc, accept_pc, accept_slot>>
        BY <1>1 DEF SimulationThread, SimSpuriousWakeup, SimTest, SimTestLate, SimStops, SimStep, SimKills,
                    threadVars, ringVars, acceptVars
  <2>2. QED
        BY <1>0, <2>1 DEF SlotsLimited, slotVars
<1>2. CASE BeginShutdown \/ ServerShutdown
  <2>1. /\ UNCHANGED <<server_frame, slotVars, accept_pc, accept_slot>>
        /\ \A s \in Slots : thread_pc'[s] \in {"leave", "remove"} => thread_pc[s] = thread_pc'[s]
        BY <1>0, <1>2 DEF BeginShutdown, ServerShutdown, MainCount, MainSkipClient, MainShutClient, MainCloseClient,
            MainSignal, MainJoinSimulation, MainJoinAccept, MainJoinClient, MainReturns, NextSlot, MainStep,
            threadVars, ringVars, acceptVars
  <2>2. QED
        BY <1>0, <2>1 DEF SlotsLimited, slotVars
<1>3. QED
      BY <1>1, <1>2, AcceptLimits, ThreadLimits DEF ServerNext, ServerThreads

LEMMA ServerUnconnected ==
    ASSUME EInv, NInv', NEW c \in Clients, ServerNext, UNCHANGED clientVars, server_end'[c] = "none"
    PROVE  down'[c] = <<>>
<1>0. /\ NInv /\ TypeOK /\ TypeOK' /\ SlotInUse /\ UsesOpenEnd(c)'
      /\ (server_end[c] = "none" => down[c] = <<>>)
      /\ down \in [Clients -> Seq(InitMessage \cup EventsMessage)]
      /\ client_end \in [Clients -> SocketState]
      BY EarlyFacts DEF EarlyInv, NInv, NetcodeInv, ClientInv, TypeOK, NetworkTypeOK
<1>1. CASE ~Sends
      BY <1>0, <1>1, ServerQuiet DEF Quiet, ClientKept, EndKept
<1>2. CASE SimStep
  <2>1. /\ UNCHANGED server_end
        /\ down' = Broadcast(BroadcastTo, FrameGameEvents(server_frame, CurrentEvents))
        BY <1>2 DEF SimStep
  <2>2. Named(BroadcastTo, c) = {}
        BY <2>1 DEF Named, BroadcastTo
  <2>3. Copies(BroadcastTo, c) = 0
        BY <2>2, FS_EmptySet DEF Copies, Named
  <2>4. Len(down'[c]) = Len(down[c]) /\ Len(down[c]) = 0
    <3>1. Len(down'[c]) = Len(down[c]) + Copies(BroadcastTo, c) /\ Len(down[c]) \in Nat
          BY <1>0, <2>1, BroadcastShape DEF BroadcastTo
    <3>2. QED
          BY <1>0, <2>1, <2>3, <3>1
  <2>5. down'[c] \in Seq(InitMessage \cup EventsMessage)
        BY <1>0 DEF TypeOK, NetworkTypeOK
  <2>6. QED
        BY <2>4, <2>5, EmptySeq
<1>3. CASE SimKills
  <2>1. server_end'[c] = "none" => client_end'[c] # "open"
        BY <1>0, <1>3 DEF SimKills, ServerDies
  <2>2. QED
        BY <1>0, <2>1 DEF UsesOpenEnd
<1>4. ASSUME NEW s \in Slots, ThreadSendInit(s) PROVE down'[c] = <<>>
  <2>1. cd_fd[s] # c /\ UNCHANGED server_end /\ down' = Delivered(down, client_end, cd_fd[s], thread_msg[s])
        BY <1>4 DEF ThreadSendInit
  <2>2. QED
        BY <1>0, <2>1 DEF Delivered
<1>5. QED
      BY <1>1, <1>2, <1>3, <1>4 DEF Sends

(***************************************************************************)
(* A client takes what is in flight to it, and its end is lost with it.    *)
(***************************************************************************)
LEMMA ClientOwed ==
    ASSUME EInv, NEW c \in Clients, ClientStep(c), NEW d \in Clients
    PROVE  /\ SlotsLimited' /\ Owed(d)' = Owed(d)
           /\ server_end'[d] = server_end[d]
<1>1. UNCHANGED <<serverVars, server_end, server_up>>
      BY ClientPeersOnly, EarlyFacts DEF PeersOnly
<1>2. SlotsLimited'
      BY <1>1, EarlyFacts DEF SlotsLimited, serverVars, acceptVars, slotVars, threadVars, ringVars
<1>3. /\ NotYetTold(d)' <=> NotYetTold(d)
      /\ OwedUntimely(d)' <=> OwedUntimely(d)
      /\ \A s \in Slots, i \in Window : OwedThrough(d, s, i)' <=> OwedThrough(d, s, i)
      BY <1>1 DEF NotYetTold, OwedUntimely, OwedThrough, Admitted, Gone, serverVars, acceptVars, slotVars,
                  threadVars, ringVars
<1>4. \A x \in Slots \X Window : OwedThrough(d, x[1], x[2])' <=> OwedThrough(d, x[1], x[2])
      BY <1>3
<1>5. Owed(d)' = Owed(d)
      BY <1>1, <1>3, <1>4 DEF Owed
<1>6. QED
      BY <1>1, <1>2, <1>5

LEMMA ClientEarly ==
    ASSUME EInv, NInv', NEW c \in Clients, ClientStep(c), NEW d \in Clients
    PROVE  /\ server_end'[d] = "none" => down'[d] = <<>>
           /\ ~c_is_initialised'[d] => Early(d)'
<1>0. /\ TypeOK /\ TypeOK' /\ (server_end[d] = "none" => down[d] = <<>>) /\ (~c_is_initialised[d] => Early(d))
      /\ Owed(d)' = Owed(d) /\ server_end'[d] = server_end[d]
      /\ down \in [Clients -> Seq(InitMessage \cup EventsMessage)]
      /\ c_is_initialised \in [Clients -> BOOLEAN]
      BY ClientOwed, EarlyFacts DEF EarlyInv, NInv, TypeOK, ClientTypeOK
<1>1. \/ down'[d] = <<>>
      \/ down[d] # <<>> /\ Len(down'[d]) <= Len(down[d]) /\ (~c_is_initialised'[d] => ~c_is_initialised[d])
      \/ down'[d] = down[d] /\ (~c_is_initialised'[d] => ~c_is_initialised[d])
  <2>1. CASE d # c
        BY <1>0, <2>1, OthersKept DEF OtherKept
  <2>2. CASE d = c /\ ClientEnds(c)
        BY <1>0, <2>2 DEF ClientEnds, CloseClientEnd
  <2>3. CASE d = c /\ (RecvInitPlayer(c) \/ RecvGameEvents(c) \/ RecvUnexpected(c))
    <3>1. Receiving(c)
          BY <2>3 DEF RecvInitPlayer, RecvGameEvents, RecvUnexpected
    <3>2. Len(down'[c]) = Len(down[c]) - 1 /\ Len(down[c]) \in Nat
          BY <1>0, <3>1, HeadTailDown
    <3>3. ~c_is_initialised'[c] => ~c_is_initialised[c]
          BY <1>0, <2>3 DEF RecvInitPlayer, RecvGameEvents, RecvUnexpected
    <3>4. QED
          BY <2>3, <3>1, <3>2, <3>3 DEF Receiving
  <2>4. CASE /\ d = c
             /\ \/ ClientConnect(c) \/ ClientConnected(c) \/ ClientSleeps(c) \/ ClientWakes(c)
                \/ \E input \in Inputs : ClientPredict(c, input)
                \/ ClientSend(c) \/ ClientSendFails(c) \/ ResimStep(c) \/ RecvEnd(c)
    <3>1. UNCHANGED <<down, c_is_initialised>>
          BY <2>4 DEF ClientConnect, ClientConnected, ClientSleeps, ClientWakes, ClientPredict, ClientSend,
                      ClientSendFails, ResimStep, RecvEnd, networkVars
    <3>2. QED
          BY <3>1
  <2>5. QED
        BY <2>1, <2>2, <2>3, <2>4
        DEF ClientStep, MainThread, RecvThread, ClientSendKills, ClientShutdown, RecvMisread
<1>2. server_end'[d] = "none" => down'[d] = <<>>
      BY <1>0, <1>1
<1>3. ASSUME ~c_is_initialised'[d] PROVE Early(d)'
  <2>1. CASE down'[d] = <<>>
        BY <2>1, NothingSent
  <2>2. CASE down'[d] # <<>>
    <3>1. Early(d) /\ Cardinality({}) = 0 /\ Len(down[d]) \in Nat
          BY <1>0, <1>1, <1>3, <2>2, FS_EmptySet, DownFrames
    <3>2. Owed(d)' \subseteq Owed(d) \ {} /\ Len(down'[d]) <= Len(down[d]) + Cardinality({})
          BY <1>0, <1>1, <2>2, <3>1
    <3>3. QED
          BY <1>0, <3>1, <3>2, Repaid
  <2>3. QED
        BY <2>1, <2>2
<1>4. QED
      BY <1>2, <1>3

-------------------------------------------------------------------------------
LEMMA EarlyInit == Init => EInv
<1> SUFFICES ASSUME Init PROVE EInv
    OBVIOUS
<1>1. FInv
  <2>1. Init => FInv
        BY SpacedInit
  <2>2. QED
        BY <2>1
<1>2. SlotsLimited
      BY GlobalsAssumption, NetworkAssumption DEF Init, ServerInit, SlotsLimited
<1>3. \A c \in Clients : down[c] = <<>>
      BY DEF Init, NetworkInit
<1>4. QED
      BY <1>1, <1>2, <1>3, NothingSent DEF EInv, EarlyInv

LEMMA EarlyNext == EInv /\ [Next]_vars => EInv'
<1> SUFFICES ASSUME EInv, [Next]_vars PROVE EInv'
    OBVIOUS
<1>1. FInv'
      BY SpacedNext DEF EInv
<1>2. NInv'
      BY <1>1 DEF FInv, IInv, RInv
<1>3. CASE ServerNext /\ UNCHANGED clientVars
  <2>1. c_is_initialised' = c_is_initialised
        BY <1>3 DEF clientVars
  <2>2. QED
        BY <1>1, <1>2, <1>3, <2>1, ServerLimits, ServerEarly, ServerUnconnected DEF EInv, EarlyInv
<1>4. CASE ClientNext /\ UNCHANGED serverVars
  <2>1. PICK c \in Clients : ClientStep(c)
        BY <1>4 DEF ClientNext, ClientStep
  <2>2. QED
        BY <1>1, <1>2, <2>1, ClientOwed, ClientEarly DEF EInv, EarlyInv
<1>5. CASE UNCHANGED vars
  <2>1. /\ UNCHANGED <<down, server_end, server_up, c_is_initialised, server_frame, cd_fd, cd_client_frame,
                       cd_is_connected, thread_pc, accept_pc, accept_fd, accept_slot, sim_pc>>
        BY <1>5 DEF vars, networkVars, serverVars, clientVars, acceptVars, slotVars, threadVars, ringVars
  <2>2. SlotsLimited'
        BY <2>1, EarlyFacts DEF SlotsLimited
  <2>3. ASSUME NEW c \in Clients PROVE Early(c)' <=> Early(c)
        BY <2>1 DEF Early, Owed, OwedThrough, OwedUntimely, Admitted, Gone, NotYetTold
  <2>4. QED
        BY <1>1, <2>1, <2>2, <2>3 DEF EInv, EarlyInv
<1>6. QED
      BY <1>3, <1>4, <1>5 DEF Next

LEMMA EarlyInvariant == Spec => []EInv
BY EarlyInit, EarlyNext, PTL DEF Spec

(***************************************************************************)
(* The invariant that the run checks is one, whatever the constants.       *)
(***************************************************************************)
THEOREM EarlyInvariantHolds == Spec => []EarlyInv
<1>1. EInv => EarlyInv
      BY DEF EInv
<1>2. QED
      BY EarlyInvariant, <1>1, PTL

(***************************************************************************)
(* Nor does what is in flight to a client that has not read its first      *)
(* message grow without bound (gameserver.c:199, 345, 451), for any number *)
(* of slots, clients and frames in the rings.                              *)
(***************************************************************************)
THEOREM EarlyBounded == Spec => []EarlyBound
<1>1. ASSUME EInv PROVE EarlyBound
  <2>1. SUFFICES ASSUME NEW c \in Clients, ~c_is_initialised[c]
                 PROVE  Len(down[c]) <= MAX_CLIENTS * (FRAME_BUFFER_SIZE - 1) + 2
        BY DEF EarlyBound
  <2>2. Early(c)
        BY <1>1, <2>1 DEF EInv, EarlyInv
  <2>3. Len(down[c]) \in Nat /\ Cardinality(Owed(c)) \in Nat /\ MAX_CLIENTS * (FRAME_BUFFER_SIZE - 1) \in Int
        BY <1>1, EarlyFacts, DownFrames, OwedFinite, GlobalsAssumption
  <2>4. QED
        BY <2>2, <2>3 DEF Early
<1>2. QED
      BY EarlyInvariant, <1>1, PTL

-------------------------------------------------------------------------------
(***************************************************************************)
(* The server of the whole system is that of OpenServer.                   *)
(***************************************************************************)
LEMMA SameVars ==
    /\ UNCHANGED Open!serverVars <=> UNCHANGED serverVars
    /\ UNCHANGED Open!vars <=> UNCHANGED <<networkVars, serverVars>>
BY DEF networkVars, acceptVars, slotVars, threadVars, ringVars, mainVars, serverVars,
       Open!vars, Open!networkVars, Open!acceptVars, Open!slotVars, Open!threadVars, Open!ringVars,
       Open!mainVars, Open!serverVars

LEMMA SameInit == NetworkInit /\ ServerInit => Open!Init
BY DEF NetworkInit, ServerInit, Slots, RingIndex, NoInput, NoEvents, InitialState, NoMessage,
       Open!Init, Open!NetworkInit, Open!ServerInit, Open!Slots, Open!RingIndex, Open!NoInput,
       Open!NoEvents, Open!InitialState, Open!NoMessage

\* The two are the same text, thread by thread: every definition of it is expanded,
\* here and there.
LEMMA SameServer == ServerNext => Open!ServerNext
<1>1. AcceptThread => Open!AcceptThread
      BY ZenonT(30) DEF Cardinality, Slots, networkVars, CloseServerEnd, slotVars, threadVars, ringVars,
          mainVars, ClientsLockFree, to_shutdown, Released, Backlog, AcceptConnection, AcceptStops,
          Admitting, AcceptForget, FreeSlot, AcceptLimitReached, AcceptFindSlot, AcceptNoSlot, AcceptStep,
          AcceptMark, AcceptSetFd, AcceptSetFrame, AcceptCountRead, AcceptCountWrite, AcceptSpawn,
          AcceptSpawnFails, AcceptUndoFd, AcceptUndoRead, AcceptUndoWrite, AcceptUndoUnlock, AcceptUndo,
          AcceptUnlock, AcceptThread, Open!Cardinality, Open!Slots, Open!networkVars, Open!CloseServerEnd,
          Open!slotVars, Open!threadVars, Open!ringVars, Open!mainVars, Open!ClientsLockFree,
          Open!to_shutdown, Open!Released, Open!Backlog, Open!AcceptConnection, Open!AcceptStops,
          Open!Admitting, Open!AcceptForget, Open!FreeSlot, Open!AcceptLimitReached, Open!AcceptFindSlot,
          Open!AcceptNoSlot, Open!AcceptStep, Open!AcceptMark, Open!AcceptSetFd, Open!AcceptSetFrame,
          Open!AcceptCountRead, Open!AcceptCountWrite, Open!AcceptSpawn, Open!AcceptSpawnFails,
          Open!AcceptUndoFd, Open!AcceptUndoRead, Open!AcceptUndoWrite, Open!AcceptUndoUnlock,
          Open!AcceptUndo, Open!AcceptUnlock, Open!AcceptThread
<1>2. ASSUME NEW s \in Slots, ClientThread(s) PROVE Open!ClientThread(s)
      BY ZenonT(30), <1>2 DEF Slots, Ring, networkVars, CloseServerEnd, acceptVars, slotVars, threadVars,
          ringVars, mainVars, serverVars, NoMessage, StateLockFree, ClientsLockFree, SignalSimulation,
          CanSimulate, to_shutdown, ServerDies, InitPlayer, Delivered, RecvSizes, ThreadStep, ThreadInit,
          NextRecv, HalfShut, ThreadSendInit, ThreadSendInitFails, ThreadSendInitKills, InputRefused,
          ThreadReceiving, ThreadStoreInput, ThreadIgnoreInput, ThreadRecvPart, ThreadRecvEnd, ThreadClose,
          ThreadForgetFd, ThreadLeave, ThreadRemove, ThreadRemoved, ClientThread, Open!Slots, Open!Ring,
          Open!networkVars, Open!CloseServerEnd, Open!acceptVars, Open!slotVars, Open!threadVars,
          Open!ringVars, Open!mainVars, Open!serverVars, Open!NoMessage, Open!StateLockFree,
          Open!ClientsLockFree, Open!SignalSimulation, Open!CanSimulate, Open!to_shutdown, Open!ServerDies,
          Open!InitPlayer, Open!Delivered, Open!RecvSizes, Open!ThreadStep, Open!ThreadInit, Open!NextRecv,
          Open!HalfShut, Open!ThreadSendInit, Open!ThreadSendInitFails, Open!ThreadSendInitKills,
          Open!InputRefused, Open!ThreadReceiving, Open!ThreadStoreInput, Open!ThreadIgnoreInput,
          Open!ThreadRecvPart, Open!ThreadRecvEnd, Open!ThreadClose, Open!ThreadForgetFd, Open!ThreadLeave,
          Open!ThreadRemove, Open!ThreadRemoved, Open!ClientThread
<1>3. SimulationThread \/ SimSpuriousWakeup => Open!SimulationThread \/ Open!SimSpuriousWakeup
      BY ZenonT(30) DEF Cardinality, Slots, Ring, NoInput, Spawned, NoEvents, networkVars, acceptVars,
          slotVars, threadVars, ringVars, mainVars, ClientsLockFree, CanSimulate, to_shutdown, ServerDies,
          HalfShut, HandleEvent, Held, HandleMovement, GameSimulate, FrameGameEvents, SimTest, SimTestLate,
          SimStops, SimSpuriousWakeup, CurrentEvents, NextState, BroadcastTo, Copies, Broadcast,
          SimSimulating, SimStep, SimKills, SimulationThread, Open!Cardinality, Open!Slots, Open!Ring,
          Open!NoInput, Open!Spawned, Open!NoEvents, Open!networkVars, Open!acceptVars, Open!slotVars,
          Open!threadVars, Open!ringVars, Open!mainVars, Open!ClientsLockFree, Open!CanSimulate,
          Open!to_shutdown, Open!ServerDies, Open!HalfShut, Open!HandleEvent, Open!Held,
          Open!HandleMovement, Open!GameSimulate, Open!FrameGameEvents, Open!SimTest, Open!SimTestLate,
          Open!SimStops, Open!SimSpuriousWakeup, Open!CurrentEvents, Open!NextState, Open!BroadcastTo,
          Open!Copies, Open!Broadcast, Open!SimSimulating, Open!SimStep, Open!SimKills,
          Open!SimulationThread
<1>4. BeginShutdown \/ ServerShutdown => Open!BeginShutdown \/ Open!ServerShutdown
      BY ZenonT(30) DEF Slots, acceptVars, slotVars, threadVars, ringVars, SignalSimulation, ServerDies,
          MainStep, BeginShutdown, MainCount, NextSlot, MainSkipClient, MainShutClient, MainCloseClient,
          MainSignal, MainJoinSimulation, MainJoinAccept, MainJoinClient, MainReturns, ServerShutdown,
          Open!Slots, Open!acceptVars, Open!slotVars, Open!threadVars, Open!ringVars, Open!SignalSimulation,
          Open!ServerDies, Open!MainStep, Open!BeginShutdown, Open!MainCount, Open!NextSlot,
          Open!MainSkipClient, Open!MainShutClient, Open!MainCloseClient, Open!MainSignal,
          Open!MainJoinSimulation, Open!MainJoinAccept, Open!MainJoinClient, Open!MainReturns,
          Open!ServerShutdown
<1>5. QED
      BY <1>1, <1>2, <1>3, <1>4 DEF ServerNext, ServerThreads, Slots,
         Open!ServerNext, Open!ServerThreads, Open!Slots

(***************************************************************************)
(* Each step of a client is one that OpenServer's clients may take, or     *)
(* changes nothing that the server has to do with.                         *)
(***************************************************************************)
LEMMA SendIsOpen ==
    ASSUME IInv, NEW c \in Clients, ClientStep(c), ClientSend(c)
    PROVE  Open!EnvNext \/ UNCHANGED <<networkVars, serverVars>>
<1>0. /\ NInv /\ EndInUse(c) /\ LastIssued(c) /\ UsesOpenEnd(c) /\ ServedWhenTold(c)
      BY DEF IInv, RInv, NInv, NetcodeInv, ClientInv, InputInv, InputsOf
<1>1. /\ c_main_pc[c] = "send"
      /\ up' = Delivered(up, server_end, c, FrameInputs(c_client_frame[c] - 1, c_client_index[c], c_out[c]))
      /\ UNCHANGED <<down, client_end, server_end, server_up, listening, serverVars>>
      BY DEF ClientSend, ClientStep
<1>2. CASE server_end[c] # "open"
      BY <1>1, <1>2 DEF Delivered, networkVars
<1>3. CASE server_end[c] = "open"
  <2>1. server_up /\ c_is_initialised[c] /\ client_end[c] = "open"
        BY <1>0, <1>1, <1>3 DEF EndInUse, UsesOpenEnd
  <2>2. PICK s \in Slots : Serves(s, c)
        BY <1>0, <1>3, <2>1 DEF ServedWhenTold, Told
  <2>3. /\ c_client_index[c] = s /\ c_client_frame[c] - 1 \in Nat
        /\ c_client_frame[c] - 1 < server_frame + FRAME_BUFFER_SIZE - 1
        /\ up[c] # <<>> => up[c][1].frame + Len(up[c]) = c_client_frame[c] - 1
        BY <1>1, <1>3, <2>1, <2>2, NextInTurn
  <2>4. c_client_frame[c] - 1 \in 0 .. MaxFrame /\ c_out[c] \in Inputs
        BY <1>0, <1>1, <2>1, <2>3, FrameFacts, NetworkAssumption DEF EndInUse, LastIssued
  <2>5. Len(up[c]) < FRAME_BUFFER_SIZE - 1
    <3>1. CASE up[c] = <<>>
          BY <3>1, GlobalsAssumption
    <3>2. CASE up[c] # <<>>
      <4> DEFINE n == Len(up[c])
                 first == up[c][1].frame
      <4>1. /\ n \in Nat /\ first \in Nat /\ server_frame \in Nat /\ FRAME_BUFFER_SIZE \in Nat
            /\ server_frame <= first /\ first + n < server_frame + FRAME_BUFFER_SIZE - 1
            BY <1>0, <2>1, <2>2, <2>3, <3>2, InputsFit, UpMessages, ServerFacts
      <4> HIDE DEF n, first
      <4>2. n < FRAME_BUFFER_SIZE - 1
            BY <4>1
      <4>3. QED
            BY <4>2 DEF n
    <3>3. QED
          BY <3>1, <3>2
  <2>6. /\ s \in Open!Slots
        /\ \A fr, i : Open!FrameInputs(fr, s, i) = FrameInputs(fr, s, i)
        /\ \A m : Open!Delivered(up, server_end, c, m) = Delivered(up, server_end, c, m)
        BY DEF Slots, Open!Slots, FrameInputs, Open!FrameInputs, Delivered, Open!Delivered
  <2>7. Open!EnvSend(c, c_client_frame[c] - 1, c_out[c])
        BY <1>1, <2>1, <2>2, <2>3, <2>5, <2>6, SameVars DEF Open!EnvSend, Serves
  <2>8. QED
        BY <2>4, <2>7 DEF Open!EnvNext
<1>4. QED
      BY <1>2, <1>3

LEMMA EndIsOpen ==
    ASSUME IInv, NEW c \in Clients, ClientStep(c), ClientEnds(c), client_end[c] = "open"
    PROVE  Open!EnvNext
<1>1. /\ CloseClientEnd(c) /\ UNCHANGED <<up, server_end, server_up, listening, serverVars>>
      BY DEF ClientEnds, ClientStep
<1>2. Open!EnvClose(c)
      BY <1>1, SameVars DEF Open!EnvClose, CloseClientEnd, Open!CloseClientEnd
<1>3. QED
      BY <1>2 DEF Open!EnvNext

LEMMA ReceiveIsOpen ==
    ASSUME NEW c \in Clients, ClientStep(c), Receiving(c)
    PROVE  Open!EnvNext
<1>1. Open!EnvReceive(c)
      BY SameVars DEF Open!EnvReceive, Receiving, ClientStep
<1>2. QED
      BY <1>1 DEF Open!EnvNext

LEMMA ClientIsOpen ==
    ASSUME IInv, NEW c \in Clients, ClientStep(c)
    PROVE  Open!EnvNext \/ UNCHANGED <<networkVars, serverVars>>
<1>0. EndInUse(c) /\ UsesOpenEnd(c) /\ UNCHANGED serverVars
      BY DEF IInv, RInv, NInv, NetcodeInv, ClientInv, InputInv, InputsOf, ClientStep
<1>1. CASE ClientConnect(c)
  <2>1. Open!EnvConnect(c)
        BY <1>0, <1>1, SameVars DEF Open!EnvConnect, ClientConnect, UsesOpenEnd
  <2>2. QED
        BY <2>1 DEF Open!EnvNext
<1>2. CASE \/ ClientConnected(c) \/ ClientSleeps(c) \/ ClientWakes(c) \/ ClientSendFails(c)
           \/ ResimStep(c) \/ RecvEnd(c) \/ \E input \in Inputs : ClientPredict(c, input)
      BY <1>0, <1>2 DEF ClientConnected, ClientSleeps, ClientWakes, ClientSendFails, ResimStep, RecvEnd,
                        ClientPredict
<1>3. CASE ClientSend(c)
      BY <1>3, SendIsOpen
<1>4. CASE ClientSendKills(c) \/ ClientShutdown(c) \/ RecvMisread(c)
      BY <1>0, <1>4, EndIsOpen DEF ClientSendKills, ClientShutdown, RecvMisread, EndInUse
<1>5. CASE RecvInitPlayer(c) \/ RecvGameEvents(c) \/ RecvUnexpected(c)
      BY <1>5, ReceiveIsOpen DEF RecvInitPlayer, RecvGameEvents, RecvUnexpected
<1>6. QED
      BY <1>1, <1>2, <1>3, <1>4, <1>5 DEF ClientStep, MainThread, RecvThread

(***************************************************************************)
(* To the server, the clients are some of the clients of OpenServer        *)
(* (gameclient.c:225 to 231, gameserver.c:260 to 285): what is proved of   *)
(* the server there is true of it here.                                    *)
(***************************************************************************)
THEOREM NetcodeIsOpen == Spec => ServerIsOpen
<1>1. Init => Open!Init
      BY SameInit DEF Init
<1>2. IInv /\ [Next]_vars => [Open!Next]_(Open!vars)
  <2> SUFFICES ASSUME IInv, [Next]_vars PROVE Open!Next \/ UNCHANGED Open!vars
      OBVIOUS
  <2>1. CASE ServerNext
        BY <2>1, SameServer DEF Open!Next
  <2>2. CASE ClientNext /\ UNCHANGED serverVars
    <3>1. PICK c \in Clients : ClientStep(c)
          BY <2>2 DEF ClientNext, ClientStep
    <3>2. QED
          BY <3>1, ClientIsOpen, SameVars DEF Open!Next
  <2>3. CASE UNCHANGED vars
        BY <2>3, SameVars DEF vars
  <2>4. QED
        BY <2>1, <2>2, <2>3 DEF Next
<1>3. QED
      BY InputInvariant, <1>1, <1>2, PTL DEF Spec, ServerIsOpen, Open!Spec

===============================================================================
