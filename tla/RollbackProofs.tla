----------------------------- MODULE RollbackProofs -----------------------------
(***************************************************************************)
(* Rollback works, for any number of clients and slots, any ring size and  *)
(* any inputs: a client holds the confirmed events, re-simulates from them *)
(* the server's states, and replays its own inputs on top of these; and so *)
(* the clients replicate the server's log (Replication).                   *)
(***************************************************************************)
EXTENDS NetcodeProofs

RInv == NInv /\ RollbackInv

-------------------------------------------------------------------------------
(***************************************************************************)
(* Events that consist of inputs the players may give.                     *)
(***************************************************************************)
LEMMA PossibleAreEvents == PossibleEvents \subseteq GameEvents
BY ClientAssumption DEF PossibleEvents, GameEvents, NoInput, PlayerInput

LEMMA NoEventsPossible == NoEvents \in PossibleEvents
BY DEF NoEvents, PossibleEvents, PlayerEvent

LEMMA AnnouncePossible ==
    ASSUME NEW s \in Slots, NEW e \in PossibleEvents, NEW event \in PlayerEvent
    PROVE  [e EXCEPT !.player_events[s] = event] \in PossibleEvents
BY DEF PossibleEvents

LEMMA InputPossible ==
    ASSUME NEW s \in Slots, NEW e \in PossibleEvents, NEW input \in Inputs \cup {NoInput}
    PROVE  [e EXCEPT !.player_inputs[s] = input] \in PossibleEvents
BY DEF PossibleEvents

-------------------------------------------------------------------------------
(***************************************************************************)
(* Frames of one ring's length have entries of their own.                  *)
(***************************************************************************)
LEMMA RingApart ==
    ASSUME NEW f \in Nat, NEW g \in Nat, f < g, g < f + FRAME_BUFFER_SIZE
    PROVE  Ring(f) # Ring(g)
<1> DEFINE k == g - f
<1>1. k \in 1 .. FRAME_BUFFER_SIZE - 1 /\ g = f + k
      BY GlobalsAssumption
<1> HIDE DEF k
<1>2. QED
      BY <1>1, RingDistinct

\* What the frames of an initialised client have to do with one another.
LEMMA FrameFacts ==
    ASSUME NInv, NEW c \in Clients, c_is_initialised[c]
    PROVE  /\ c_joined[c] \in Nat /\ c_sync_frame[c] \in Nat /\ c_server_frame[c] \in Nat
           /\ c_client_frame[c] \in Nat /\ c_client_index[c] \in Slots
           /\ FRAME_BUFFER_SIZE \in Nat /\ FRAME_BUFFER_SIZE >= 2
           /\ c_joined[c] <= c_sync_frame[c] /\ c_sync_frame[c] <= c_server_frame[c]
           /\ c_server_frame[c] <= c_client_frame[c]
           /\ c_client_frame[c] <= c_sync_frame[c] + FRAME_BUFFER_SIZE - 1
           /\ c_server_frame[c] <= server_frame /\ server_frame \in Nat
           /\ c_recv_pc[c] # "resim" => c_sync_frame[c] = c_server_frame[c]
           /\ c_recv_pc[c] = "resim" =>
                /\ c_resim[c] \in Nat /\ c_resim[c] < c_client_frame[c]
                /\ c_server_frame[c] < c_client_frame[c]
                /\ \/ c_sync_frame[c] = c_server_frame[c] /\ c_sync_frame[c] <= c_resim[c]
                   \/ c_sync_frame[c] + 1 = c_server_frame[c] /\ c_sync_frame[c] = c_resim[c]
<1>1. InOrder(c) /\ Reconciling(c) /\ InFlight(c) /\ ClientTypeOK /\ ServerTypeOK
      BY DEF NInv, NetcodeInv, TypeOK, ClientInv
<1>2. c_resim[c] \in Nat \cup {-1}
      BY <1>1 DEF ClientTypeOK
<1>3. QED
      BY <1>1, <1>2, InitialisedTypes, GlobalsAssumption DEF InOrder, Reconciling, InFlight, ServerTypeOK

\* The log has as many frames as the server counts, or one more.
LEMMA LogFacts ==
    ASSUME RInv
    PROVE  /\ confirmed \in Seq(GameEvents) /\ truth \in Seq(GameState) /\ server_frame \in Nat
           /\ Len(confirmed) \in Nat /\ Len(truth) = Len(confirmed) + 1
           /\ server_frame <= Len(confirmed) /\ (server_up => Len(confirmed) = server_frame)
           /\ confirmed # <<>> <=> Len(confirmed) > 0
BY EmptySeq DEF RInv, NInv, TypeOK, ServerTypeOK, RollbackInv, LogInv

-------------------------------------------------------------------------------
(***************************************************************************)
(* What client c remembers stays true while only the log grows.            *)
(***************************************************************************)
LogGrows ==
    /\ Len(confirmed') \in Nat /\ Len(confirmed) <= Len(confirmed')
    /\ confirmed # <<>> => confirmed' # <<>>
    /\ \A f \in 1 .. Len(confirmed) : confirmed'[f] = confirmed[f]
    /\ \A f \in 1 .. Len(truth) : truth'[f] = truth[f]

MemoryKept(c) ==
    /\ c_is_initialised'[c] = c_is_initialised[c] /\ c_client_index'[c] = c_client_index[c]
    /\ c_sync_frame'[c] = c_sync_frame[c] /\ c_server_frame'[c] = c_server_frame[c]
    /\ c_client_frame'[c] = c_client_frame[c]
    /\ c_states'[c] = c_states[c] /\ c_events'[c] = c_events[c]
    /\ c_joined'[c] = c_joined[c] /\ c_issued'[c] = c_issued[c]
    /\ c_recv_pc'[c] = "resim" <=> c_recv_pc[c] = "resim"
    /\ c_resim'[c] = c_resim[c]

\* The part of ReplicaInv that is about the client's memory.
Remembers(c) ==
    /\ c_is_initialised[c] =>
          /\ EventsHeld(c) /\ InputsKept(c) /\ StatesFresh(c)
          /\ c_joined[c] = 0 => Agrees(c)
    /\ ~c_is_initialised[c] => c_issued[c] = <<>>

LEMMA ReachedFacts ==
    ASSUME NInv, NEW c \in Clients, c_is_initialised[c]
    PROVE  /\ Reached(c) \in Int /\ Reached(c) <= c_server_frame[c]
           /\ Reached(c) # c_server_frame[c] => c_server_frame[c] = 0 /\ Reached(c) = -1
BY FrameFacts DEF Reached

LEMMA MemoryKeeps ==
    ASSUME RInv, NEW c \in Clients, MemoryKept(c), LogGrows
    PROVE  /\ Remembers(c)'
           /\ c_is_initialised[c] => Reached(c)' \in Int /\ Reached(c) <= Reached(c)'
<1>0. NInv /\ Remembers(c)
      BY DEF RInv, RollbackInv, ReplicaInv, Remembers
<1>1. CASE ~c_is_initialised[c]
      BY <1>0, <1>1 DEF Remembers, MemoryKept
<1>2. CASE c_is_initialised[c]
  <2>1. /\ c_joined[c] \in Nat /\ c_sync_frame[c] \in Nat /\ c_server_frame[c] \in Nat
        /\ c_joined[c] <= c_sync_frame[c] /\ c_sync_frame[c] <= c_server_frame[c]
        /\ c_server_frame[c] <= server_frame /\ server_frame <= Len(confirmed) /\ server_frame \in Nat
        /\ Len(confirmed) \in Nat /\ Len(truth) = Len(confirmed) + 1
        BY <1>0, <1>2, FrameFacts, LogFacts
  <2>2. EventsHeld(c) /\ InputsKept(c) /\ StatesFresh(c) /\ (c_joined[c] = 0 => Agrees(c))
        BY <1>0, <1>2 DEF Remembers
  <2>3. EventsHeld(c)'
    <3>1. Received(c)' = Received(c)
          BY DEF Received, MemoryKept
    <3>2. ASSUME NEW f \in Received(c) PROVE f + 1 \in 1 .. Len(confirmed)
      <4>1. f \in c_joined[c] .. c_server_frame[c] /\ c_joined[c] < c_server_frame[c]
            BY <2>1, <3>2 DEF Received
      <4>2. QED
            BY <2>1, <2>2, <4>1 DEF EventsHeld
    <3>3. ASSUME NEW f \in Received(c), InRing(c, f)
          PROVE  c_events'[c][Ring(f)] = confirmed'[f + 1]
          BY <2>2, <3>2, <3>3 DEF EventsHeld, MemoryKept, LogGrows
    <3>4. InRing(c, 0)' <=> InRing(c, 0)
          BY DEF InRing, MemoryKept
    <3>5. \A f \in Received(c) : InRing(c, f)' <=> InRing(c, f)
          BY DEF InRing, MemoryKept
    <3>6. c_joined[c] < c_server_frame[c] => c_server_frame[c] < Len(confirmed')
          BY <2>1, <2>2 DEF EventsHeld, LogGrows
    <3>7. QED
          BY <2>2, <3>1, <3>3, <3>5, <3>6 DEF EventsHeld, MemoryKept
  <2>4. InputsKept(c)' /\ StatesFresh(c)'
        BY <2>2 DEF InputsKept, StatesFresh, Issued, MemoryKept
  <2>5. c_joined[c] = 0 => Agrees(c)'
    <3>1. c_sync_frame[c] + 1 \in 1 .. Len(truth)
          BY <2>1
    <3>2. QED
          BY <2>2, <3>1 DEF Agrees, MemoryKept, LogGrows
  <2>6. FirstHeld(c) => FirstHeld(c)'
    <3>1. confirmed # <<>> => 1 \in 1 .. Len(confirmed)
          BY LogFacts
    <3>2. QED
          BY <3>1 DEF FirstHeld, MemoryKept, LogGrows
  <2>7. Reached(c)' \in Int /\ Reached(c) <= Reached(c)'
        BY <2>1, <2>6 DEF Reached, MemoryKept
  <2>8. QED
        BY <1>2, <2>3, <2>4, <2>5, <2>7 DEF Remembers, MemoryKept
<1>3. QED
      BY <1>1, <1>2

-------------------------------------------------------------------------------
(***************************************************************************)
(* A prediction writes the entries of its own frame and of the next, which *)
(* are not among those from the confirmed frame on (client/main.c:76).     *)
(***************************************************************************)
LEMMA PredictKeeps ==
    ASSUME RInv, NEW c \in Clients, NEW input \in Inputs, ClientPredict(c, input),
           UNCHANGED <<confirmed, truth>>
    PROVE  /\ Remembers(c)'
           /\ Reached(c)' \in Int /\ Reached(c) <= Reached(c)'
<1> DEFINE f == c_client_frame[c]
           sync == c_sync_frame[c]
           last == c_server_frame[c]
           played == [c_events[c][Ring(f)] EXCEPT !.player_inputs[c_client_index[c]] = input]
<1>0. /\ NInv /\ Remembers(c) /\ c_is_initialised[c] /\ c_recv_pc[c] # "resim"
      /\ f < sync + FRAME_BUFFER_SIZE - 1
  <2>1. c_is_initialised[c] /\ c_recv_pc[c] # "resim" /\ ~TooFarAhead(c)
        BY DEF ClientPredict, ClientReady, ClientStateLockFree
  <2>2. NInv
        BY DEF RInv
  <2>3. QED
        BY <2>1, <2>2, FrameFacts DEF TooFarAhead, RInv, RollbackInv, ReplicaInv, Remembers
<1>1. /\ c_joined[c] \in Nat /\ sync \in Nat /\ last \in Nat /\ f \in Nat
      /\ c_client_index[c] \in Slots /\ FRAME_BUFFER_SIZE \in Nat /\ FRAME_BUFFER_SIZE >= 2
      /\ c_joined[c] <= last /\ sync = last /\ last <= f
      BY <1>0, FrameFacts
<1>2. EventsHeld(c) /\ InputsKept(c) /\ StatesFresh(c) /\ (c_joined[c] = 0 => Agrees(c))
      BY <1>0 DEF Remembers
<1>3. ClientTypeOK
      BY <1>0 DEF NInv, TypeOK
<1>4. Ring(f) \in RingIndex /\ Ring(f + 1) \in RingIndex /\ Ring(f) # Ring(f + 1)
      BY <1>1, RingType, RingApart
<1>5. /\ c_client_frame'[c] = f + 1
      /\ c_events'[c][Ring(f)] = played
      /\ c_states'[c][Ring(f + 1)] = GameSimulate(c_states[c][Ring(f)], played)
      /\ \A r \in RingIndex : r # Ring(f + 1) => c_states'[c][r] = c_states[c][r]
      /\ \A r \in RingIndex : r # Ring(f) /\ r # Ring(f + 1) => c_events'[c][r] = c_events[c][r]
      /\ c_issued'[c] = Append(c_issued[c], input)
      /\ UNCHANGED <<c_recv_pc, c_is_initialised, c_client_index, c_sync_frame, c_server_frame, c_joined>>
      BY <1>3, <1>4 DEF ClientPredict, EventsPredicted, ClientTypeOK
<1>6. played.player_inputs[c_client_index[c]] = input
      BY <1>1, <1>3, <1>4 DEF ClientTypeOK, GameEvents
<1> HIDE DEF played
<1>7. ASSUME NEW g \in Nat, last <= g, g < f
      PROVE  /\ Ring(g) \in RingIndex /\ Ring(g + 1) \in RingIndex
             /\ Ring(g) # Ring(f) /\ Ring(g) # Ring(f + 1) /\ Ring(g + 1) # Ring(f + 1)
      BY <1>0, <1>1, <1>7, RingType, RingApart
<1>8. ASSUME NEW g \in Nat, g <= last, g < f, g > f + 1 - FRAME_BUFFER_SIZE
      PROVE  Ring(g) \in RingIndex /\ Ring(g) # Ring(f) /\ Ring(g) # Ring(f + 1)
      BY <1>1, <1>8, RingType, RingApart
<1>9. EventsHeld(c)'
  <2>1. Received(c)' = Received(c)
        BY <1>5 DEF Received
  <2>2. ASSUME NEW g \in Received(c), InRing(c, g)'
        PROVE  c_events'[c][Ring(g)] = confirmed'[g + 1]
    <3>1. g \in Nat /\ g <= last /\ c_joined[c] < last /\ g > f + 1 - FRAME_BUFFER_SIZE
          BY <1>1, <1>5, <2>2 DEF Received, InRing
    <3>2. last < f
          BY <1>2, <3>1 DEF EventsHeld
    <3>3. c_events'[c][Ring(g)] = c_events[c][Ring(g)]
          BY SMTT(30), <1>1, <1>5, <1>8, <3>1, <3>2
    <3>4. InRing(c, g)
          BY <1>1, <3>1 DEF InRing
    <3>5. QED
          BY <1>2, <3>3, <3>4 DEF EventsHeld
  <2>3. c_joined[c] < last => last < f + 1 /\ last < Len(confirmed)
        BY <1>1, <1>2 DEF EventsHeld
  <2>4. QED
        BY <1>5, <2>1, <2>2, <2>3 DEF EventsHeld
<1>10. InputsKept(c)'
  <2>1. /\ c_issued[c] \in Seq(PlayerInput) /\ input \in PlayerInput
        /\ Len(c_issued[c]) = f - c_joined[c]
        BY <1>2, <1>3, ClientAssumption DEF ClientTypeOK, InputsKept
  <2>2. /\ Len(c_issued'[c]) = f + 1 - c_joined[c]
        /\ c_issued'[c][f - c_joined[c] + 1] = input
        /\ \A k \in 1 .. f - c_joined[c] : c_issued'[c][k] = c_issued[c][k]
    <3> DEFINE q == c_issued[c]
    <3>1. q \in Seq(PlayerInput) /\ Len(q) = f - c_joined[c] /\ c_issued'[c] = Append(q, input)
          BY <1>5, <2>1
    <3> HIDE DEF q
    <3>2. /\ Len(Append(q, input)) = Len(q) + 1 /\ Append(q, input)[Len(q) + 1] = input
          /\ \A k \in 1 .. Len(q) : Append(q, input)[k] = q[k]
          BY <2>1, <3>1, AppendProperties
    <3>3. QED
          BY <1>1, <3>1, <3>2 DEF q
  <2>3. ASSUME NEW g \in last + 1 .. f
        PROVE  c_events'[c][Ring(g)].player_inputs[c_client_index[c]] = c_issued'[c][g - c_joined[c] + 1]
    <3>1. CASE g = f
          BY <1>5, <1>6, <2>2, <3>1
    <3>2. CASE g # f
      <4>1. g \in last + 1 .. f - 1 /\ g \in Nat /\ last <= g /\ g < f
            BY <1>1, <2>3, <3>2
      <4>2. c_events'[c][Ring(g)] = c_events[c][Ring(g)]
            BY <1>5, <1>7, <4>1
      <4>3. c_events[c][Ring(g)].player_inputs[c_client_index[c]] = c_issued[c][g - c_joined[c] + 1]
            BY <1>2, <4>1 DEF InputsKept, Issued
      <4>4. g - c_joined[c] + 1 \in 1 .. f - c_joined[c]
            BY <1>1, <4>1
      <4>5. QED
            BY <2>2, <4>2, <4>3, <4>4
    <3>3. QED
          BY <3>1, <3>2
  <2>4. ASSUME NEW g \in c_server_frame'[c] + 1 .. c_client_frame'[c] - 1
        PROVE  c_events'[c][Ring(g)].player_inputs[c_client_index'[c]] = Issued(c, g)'
    <3>1. g \in last + 1 .. f
          BY <1>1, <1>5, <2>4
    <3>2. QED
          BY <1>5, <2>3, <3>1 DEF Issued
  <2>5. Len(c_issued'[c]) = c_client_frame'[c] - c_joined'[c]
        BY <1>1, <1>5, <2>2
  <2>6. QED
        BY <2>4, <2>5 DEF InputsKept
<1>11. StatesFresh(c)'
  <2>1. ASSUME NEW g \in sync .. f
        PROVE  c_states'[c][Ring(g + 1)] = GameSimulate(c_states'[c][Ring(g)], c_events'[c][Ring(g)])
    <3>1. CASE g = f
          BY <1>4, <1>5, <3>1
    <3>2. CASE g # f
      <4>1. g \in sync .. f - 1 /\ g \in Nat /\ last <= g /\ g < f
            BY <1>1, <2>1, <3>2
      <4>2. /\ c_states'[c][Ring(g + 1)] = c_states[c][Ring(g + 1)]
            /\ c_states'[c][Ring(g)] = c_states[c][Ring(g)]
            /\ c_events'[c][Ring(g)] = c_events[c][Ring(g)]
            BY <1>5, <1>7, <4>1
      <4>3. c_states[c][Ring(g + 1)] = GameSimulate(c_states[c][Ring(g)], c_events[c][Ring(g)])
            BY <1>0, <1>2, <4>1 DEF StatesFresh
      <4>4. QED
            BY <4>2, <4>3
    <3>3. QED
          BY <3>1, <3>2
  <2>2. /\ c_recv_pc'[c] # "resim" /\ c_sync_frame'[c] = sync
        /\ c_client_frame'[c] - 1 = f
        BY <1>0, <1>1, <1>5
  <2> HIDE DEF f, sync
  <2>3. QED
        BY <2>1, <2>2 DEF StatesFresh
<1>12. c_joined[c] = 0 => Agrees(c)'
  <2>1. Ring(sync) \in RingIndex /\ Ring(sync) # Ring(f + 1)
        BY <1>0, <1>1, RingType, RingApart
  <2>2. QED
        BY <1>2, <1>5, <2>1 DEF Agrees
<1>13. FirstHeld(c) /\ last = 0 => FirstHeld(c)'
  <2>1. ASSUME f > 0, last = 0 PROVE c_events'[c][Ring(0)] = c_events[c][Ring(0)]
        BY <1>1, <1>5, <1>7, <2>1
  <2>2. QED
        BY <1>1, <1>5, <2>1 DEF FirstHeld
<1>14. Reached(c)' \in Int /\ Reached(c) <= Reached(c)'
       BY <1>1, <1>5, <1>13 DEF Reached
<1>15. QED
       BY <1>0, <1>5, <1>9, <1>10, <1>11, <1>12, <1>14 DEF Remembers

-------------------------------------------------------------------------------
(***************************************************************************)
(* Confirmed events take the entry of their frame, which is the next one   *)
(* or frame 0, and the re-simulation starts from the frame before it.      *)
(***************************************************************************)
\* What is first in the stream is the frame after the last one reached, at the latest.
LEMMA FirstMessage ==
    ASSUME RInv, NEW c \in Clients, Receiving(c), c_is_initialised[c]
    PROVE  /\ 1 \in DOMAIN down[c] /\ Head(down[c]) = down[c][1]
           /\ down[c][1].type = "EVENTS" /\ down[c][1].frame \in Nat
           /\ c_server_frame[c] <= down[c][1].frame /\ down[c][1].frame < c_client_frame[c]
           /\ down[c][1].frame <= Reached(c) + 1
           /\ down[c][1].frame < Len(confirmed)
           /\ down[c][1].events = confirmed[down[c][1].frame + 1]
<1>1. TypeOK /\ InFlight(c) /\ InSequence(c) /\ FromLog(c)
      BY DEF RInv, NInv, NetcodeInv, ClientInv, RollbackInv, ReplicaInv
<1>2. /\ Head(down[c]) = down[c][1] /\ 1 \in DOMAIN down[c]
      /\ down[c][1] \in InitMessage \cup EventsMessage
      BY <1>1, HeadTailDown
<1>3. /\ down[c][1].type = "EVENTS" /\ down[c][1].frame \in Nat
      /\ c_server_frame[c] <= down[c][1].frame /\ down[c][1].frame < c_client_frame[c]
      BY <1>1, <1>2 DEF InFlight, InitMessage, EventsMessage
<1>4. down[c][1].frame <= Reached(c) + 1
      BY <1>1, <1>2 DEF InSequence
<1>5. down[c][1].frame < Len(confirmed) /\ down[c][1].events = confirmed[down[c][1].frame + 1]
      BY <1>1, <1>2, <1>3 DEF FromLog
<1>6. QED
      BY <1>2, <1>3, <1>4, <1>5

LEMMA EventsRemembered ==
    ASSUME RInv, NEW c \in Clients, RecvGameEvents(c), UNCHANGED <<confirmed, truth>>
    PROVE  /\ Remembers(c)'
           /\ c_is_initialised[c] => Reached(c)' = down[c][1].frame
<1>0. NInv /\ TypeOK /\ ClientTypeOK /\ Remembers(c) /\ Receiving(c) /\ c_recv_pc[c] = "recv"
      BY DEF RInv, NInv, TypeOK, RollbackInv, ReplicaInv, Remembers, RecvGameEvents, Receiving
<1>1. CASE ~c_is_initialised[c]
      BY <1>0, <1>1 DEF Remembers, RecvGameEvents, Receiving
<1>2. CASE c_is_initialised[c]
  <2> DEFINE m == down[c][1]
             n == m.frame
             f == c_client_frame[c]
             last == c_server_frame[c]
  <2>1. /\ Head(down[c]) = m /\ n \in Nat /\ last <= n /\ n < f /\ n <= Reached(c) + 1
        /\ n < Len(confirmed) /\ m.events = confirmed[n + 1]
        BY <1>0, <1>2, FirstMessage
  <2>2. /\ c_joined[c] \in Nat /\ last \in Nat /\ f \in Nat
        /\ FRAME_BUFFER_SIZE \in Nat /\ FRAME_BUFFER_SIZE >= 2
        /\ c_joined[c] <= last /\ c_sync_frame[c] = last /\ f <= last + FRAME_BUFFER_SIZE - 1
        /\ Len(confirmed) \in Nat /\ (confirmed # <<>> <=> Len(confirmed) > 0)
        BY <1>0, <1>2, FrameFacts, LogFacts
  <2>3. FrameExpected(c, n) /\ (n = last + 1 \/ n = 0)
        BY <2>1 DEF RecvGameEvents, FrameExpected
  <2>4. /\ Ring(n) \in RingIndex
        /\ c_server_frame'[c] = n
        /\ c_events'[c][Ring(n)] = m.events
        /\ \A r \in RingIndex : r # Ring(n) => c_events'[c][r] = c_events[c][r]
        /\ c_recv_pc'[c] = "resim" /\ c_resim'[c] = last
        /\ UNCHANGED <<c_states, c_sync_frame, c_client_frame, c_client_index, c_is_initialised,
                       c_joined, c_issued, confirmed, truth>>
    <3> DEFINE from == IF n > c_sync_frame[c] THEN c_sync_frame[c] ELSE n
               to == Later(n, f)
    <3>1. from = last /\ to = f /\ from < to
          BY <2>1, <2>2, <2>3 DEF Later
    <3>2. /\ c_server_frame' = [c_server_frame EXCEPT ![c] = n]
          /\ c_events' = [c_events EXCEPT ![c][Ring(n)] = m.events]
          /\ c_recv_pc' = [c_recv_pc EXCEPT ![c] = IF from < to THEN "resim" ELSE "recv"]
          /\ c_resim' = [c_resim EXCEPT ![c] = IF from < to THEN from ELSE -1]
          /\ UNCHANGED <<c_states, c_sync_frame, c_client_frame, c_client_index, c_is_initialised,
                         c_joined, c_issued>>
          BY <2>1 DEF RecvGameEvents, Receiving
    <3> HIDE DEF from, to
    <3>3. Ring(n) \in RingIndex
          BY <2>1, RingType
    <3>4. QED
          BY <1>0, <3>1, <3>2, <3>3 DEF ClientTypeOK
  <2>5. EventsHeld(c) /\ InputsKept(c) /\ (c_joined[c] = 0 => Agrees(c))
        BY <1>0, <1>2 DEF Remembers
  <2> HIDE DEF m, n
  <2>6. ASSUME NEW g \in Nat, g < n, g > f - FRAME_BUFFER_SIZE
        PROVE  c_events'[c][Ring(g)] = c_events[c][Ring(g)]
    <3>1. Ring(g) \in RingIndex /\ Ring(g) # Ring(n)
          BY <2>1, <2>2, <2>6, RingType, RingApart
    <3>2. QED
          BY <2>4, <3>1
  <2>7. ASSUME NEW g \in Nat, n < g, g < f
        PROVE  c_events'[c][Ring(g)] = c_events[c][Ring(g)]
    <3>1. Ring(g) \in RingIndex /\ Ring(g) # Ring(n)
          BY <2>1, <2>2, <2>7, RingType, RingApart
    <3>2. QED
          BY <2>4, <3>1
  <2>8. EventsHeld(c)'
    <3>1. ASSUME NEW g \in Received(c)', InRing(c, g)'
          PROVE  c_events'[c][Ring(g)] = confirmed[g + 1]
      <4>1. /\ g \in Nat /\ c_joined[c] <= g /\ g <= n /\ g > f - FRAME_BUFFER_SIZE /\ InRing(c, g)
            /\ g = c_joined[c] => g = 0 /\ n > 0
            BY <2>1, <2>2, <2>4, <3>1 DEF Received, InRing
      <4>2. CASE g = n
            BY <2>1, <2>4, <4>2
      <4>3. CASE g # n
        <5>1. g <= last /\ n = last + 1 /\ c_events'[c][Ring(g)] = c_events[c][Ring(g)]
              BY <2>1, <2>2, <2>3, <2>6, <4>1, <4>3
        <5>2. CASE g \in Received(c)
              BY <2>5, <4>1, <5>1, <5>2 DEF EventsHeld
        <5>3. CASE g \notin Received(c)
          <6>1. g = 0 /\ last = 0 /\ n = 1
                BY <2>1, <2>2, <4>1, <5>1, <5>3 DEF Received
          <6>2. FirstHeld(c)
                BY <2>1, <2>2, <6>1 DEF Reached
          <6>3. QED
                BY <5>1, <6>1, <6>2 DEF FirstHeld
        <5>4. QED
              BY <5>2, <5>3
      <4>4. QED
            BY <4>2, <4>3
    <3>2. QED
          BY <2>1, <2>4, <3>1 DEF EventsHeld
  <2>9. InputsKept(c)'
    <3>1. ASSUME NEW g \in n + 1 .. f - 1
          PROVE  c_events'[c][Ring(g)].player_inputs[c_client_index[c]] = Issued(c, g)
      <4>1. g \in last + 1 .. f - 1 /\ g \in Nat /\ n < g /\ g < f
            BY <2>1, <2>2, <3>1
      <4>2. QED
            BY <2>5, <2>7, <4>1 DEF InputsKept
    <3>2. QED
          BY <2>4, <2>5, <3>1 DEF InputsKept, Issued
  <2>10. StatesFresh(c)'
         BY <2>2, <2>4 DEF StatesFresh
  <2>11. c_joined[c] = 0 => Agrees(c)'
         BY <2>4, <2>5 DEF Agrees
  <2>12. n = 0 => FirstHeld(c)'
         BY <2>1, <2>2, <2>4 DEF FirstHeld
  <2>13. Reached(c)' = n
         BY <2>1, <2>4, <2>12 DEF Reached
  <2>14. QED
         BY <1>2, <2>4, <2>8, <2>9, <2>10, <2>11, <2>13 DEF Remembers, n, m
<1>3. QED
      BY <1>1, <1>2

(***************************************************************************)
(* The first message leaves nothing unread behind it, and the client at    *)
(* the end of the log.                                                     *)
(***************************************************************************)
LEMMA InitRemembered ==
    ASSUME RInv, NEW c \in Clients, RecvInitPlayer(c), UNCHANGED <<confirmed, truth>>
    PROVE  /\ Remembers(c)'
           /\ ~c_is_initialised[c] /\ c_is_initialised'[c] /\ down'[c] = <<>>
           /\ Reached(c)' \in Int /\ Len(confirmed) <= Reached(c)' + 1
<1> DEFINE m == down[c][1]
           n == Len(confirmed)
<1>0. /\ NInv /\ TypeOK /\ ClientTypeOK /\ Receiving(c) /\ InFlight(c) /\ FromLog(c)
      /\ ~c_is_initialised[c] => c_issued[c] = <<>>
      BY DEF RInv, NInv, TypeOK, NetcodeInv, ClientInv, RollbackInv, ReplicaInv, RecvInitPlayer
<1>1. /\ Head(down[c]) = m /\ 1 \in DOMAIN down[c] /\ m.type = "INIT"
      /\ Len(down'[c]) = Len(down[c]) - 1 /\ Len(down[c]) \in Nat
      /\ down'[c] \in Seq(InitMessage \cup EventsMessage)
      BY <1>0, HeadTailDown DEF RecvInitPlayer
<1>2. Len(down[c]) = 1 /\ ~c_is_initialised[c] /\ c_issued[c] = <<>>
      BY <1>0, <1>1 DEF InFlight
<1>3. down'[c] = <<>>
      BY <1>1, <1>2, EmptySeq
<1>4. n \in Nat /\ m.frame = n /\ m.state = truth[n + 1]
      BY <1>0, <1>1, LogFacts DEF FromLog
<1> HIDE DEF m, n
<1>5. Ring(n) \in RingIndex
      BY <1>4, RingType
<1>6. /\ c_sync_frame'[c] = n /\ c_server_frame'[c] = n /\ c_client_frame'[c] = n /\ c_joined'[c] = n
      /\ c_states'[c][Ring(n)] = truth[n + 1]
      /\ c_is_initialised'[c] /\ c_recv_pc'[c] = "recv" /\ c_issued'[c] = <<>>
      BY <1>0, <1>1, <1>2, <1>4, <1>5 DEF RecvInitPlayer, Receiving, ClientTypeOK
<1>7. Received(c)' = {}
      BY <1>4, <1>6 DEF Received
<1>8. EventsHeld(c)'
      BY <1>4, <1>6, <1>7 DEF EventsHeld
<1>9. InputsKept(c)' /\ StatesFresh(c)'
  <2>1. Len(<<>>) = n - n
        BY <1>4
  <2>2. n + 1 .. n - 1 = {} /\ n .. n - 1 = {}
        BY <1>4
  <2>3. QED
        BY <1>6, <2>1, <2>2 DEF InputsKept, StatesFresh
<1>10. Agrees(c)'
       BY <1>6 DEF Agrees
<1>11. Reached(c)' \in Int /\ n <= Reached(c)' + 1
       BY <1>4, <1>6 DEF Reached
<1>12. QED
       BY <1>2, <1>3, <1>6, <1>8, <1>9, <1>10, <1>11 DEF Remembers, n

(***************************************************************************)
(* One iteration of game_client_reconcile_frames: the first one computes   *)
(* the confirmed state from the confirmed state and the confirmed events   *)
(* before it (gameclient.c:195 to 218).                                    *)
(***************************************************************************)
\* One iteration of the loops (gameclient.c:202 to 218).
LEMMA ResimComputes ==
    ASSUME RInv, NEW c \in Clients, ResimStep(c), c_is_initialised[c]
    PROVE  /\ c_states'[c][Ring(c_resim[c] + 1)]
                 = GameSimulate(c_states[c][Ring(c_resim[c])], c_events[c][Ring(c_resim[c])])
           /\ \A r \in RingIndex : r # Ring(c_resim[c] + 1) => c_states'[c][r] = c_states[c][r]
           /\ c_sync_frame'[c] = c_server_frame[c]
           /\ IF c_recv_pc'[c] = "resim" THEN c_resim'[c] = c_resim[c] + 1
              ELSE c_resim[c] + 1 = c_client_frame[c]
<1> DEFINE i == c_resim[c]
           f == c_client_frame[c]
           last == c_server_frame[c]
<1>0. NInv /\ ClientTypeOK /\ c_recv_pc[c] = "resim"
      BY DEF RInv, NInv, TypeOK, ResimStep
<1>1. /\ last \in Nat /\ f \in Nat /\ i \in Nat /\ last < f /\ i < f
      /\ \/ c_sync_frame[c] = last /\ last <= i
         \/ c_sync_frame[c] + 1 = last /\ c_sync_frame[c] = i
      BY <1>0, FrameFacts
<1>2. Ring(i + 1) \in RingIndex
      BY <1>1, RingType
<1>3. PICK next \in IF i < 0 THEN JunkStates ELSE {GameSimulate(c_states[c][Ring(i)], c_events[c][Ring(i)])} :
         c_states' = [c_states EXCEPT ![c][Ring(i + 1)] = next]
      BY DEF ResimStep
<1>4. next = GameSimulate(c_states[c][Ring(i)], c_events[c][Ring(i)])
      BY <1>1, <1>3
<1>5. /\ c_states'[c][Ring(i + 1)] = next
      /\ \A r \in RingIndex : r # Ring(i + 1) => c_states'[c][r] = c_states[c][r]
      BY <1>0, <1>2, <1>3 DEF ClientTypeOK
<1>6. Later(last, f) = f
      BY <1>1 DEF Later
<1>7. /\ c_sync_frame'[c] = IF i + 1 = last THEN i + 1 ELSE c_sync_frame[c]
      /\ c_resim'[c] = IF i + 1 = Later(last, f) THEN -1 ELSE i + 1
      /\ c_recv_pc'[c] = IF i + 1 = Later(last, f) THEN "recv" ELSE "resim"
      BY <1>0 DEF ResimStep, ClientTypeOK
<1>8. QED
      BY <1>1, <1>4, <1>5, <1>6, <1>7

LEMMA ResimRemembered ==
    ASSUME RInv, NEW c \in Clients, ResimStep(c), UNCHANGED <<confirmed, truth>>
    PROVE  /\ Remembers(c)'
           /\ c_is_initialised[c] => Reached(c)' = Reached(c)
<1>0. NInv /\ ClientTypeOK /\ Remembers(c) /\ c_recv_pc[c] = "resim"
      BY DEF RInv, NInv, TypeOK, RollbackInv, ReplicaInv, Remembers, ResimStep
<1>1. UNCHANGED <<c_is_initialised, c_client_index, c_server_frame, c_client_frame, c_events, c_joined, c_issued>>
      BY DEF ResimStep
<1>2. CASE ~c_is_initialised[c]
      BY <1>0, <1>1, <1>2 DEF Remembers
<1>3. CASE c_is_initialised[c]
  <2> DEFINE i == c_resim[c]
             f == c_client_frame[c]
             sync == c_sync_frame[c]
             last == c_server_frame[c]
  <2>1. /\ c_joined[c] \in Nat /\ sync \in Nat /\ last \in Nat /\ f \in Nat /\ i \in Nat
        /\ FRAME_BUFFER_SIZE \in Nat /\ FRAME_BUFFER_SIZE >= 2
        /\ c_joined[c] <= sync /\ last < f /\ i < f /\ f <= sync + FRAME_BUFFER_SIZE - 1
        /\ \/ sync = last /\ sync <= i
           \/ sync + 1 = last /\ sync = i
        /\ Len(confirmed) \in Nat
        BY <1>0, <1>3, FrameFacts, LogFacts
  <2>2. EventsHeld(c) /\ InputsKept(c) /\ StatesFresh(c) /\ (c_joined[c] = 0 => Agrees(c))
        BY <1>0, <1>3 DEF Remembers
  <2>3. Ring(i) \in RingIndex /\ Ring(i + 1) \in RingIndex /\ Ring(i) # Ring(i + 1)
        BY SMTT(30), <2>1, RingType, RingApart
  <2>4. /\ c_states'[c][Ring(i + 1)] = GameSimulate(c_states[c][Ring(i)], c_events[c][Ring(i)])
        /\ \A r \in RingIndex : r # Ring(i + 1) => c_states'[c][r] = c_states[c][r]
        BY <1>3, ResimComputes
  <2>5. /\ c_sync_frame'[c] = last
        /\ IF c_recv_pc'[c] = "resim" THEN c_resim'[c] = i + 1 ELSE i + 1 = f
        BY <1>3, ResimComputes
  <2>6. EventsHeld(c)' /\ InputsKept(c)'
        BY <1>1, <2>2 DEF EventsHeld, Received, InRing, InputsKept, Issued
  <2>7. StatesFresh(c)'
    <3>1. ASSUME NEW g \in last .. i
          PROVE  c_states'[c][Ring(g + 1)] = GameSimulate(c_states'[c][Ring(g)], c_events[c][Ring(g)])
      <4>1. sync = last /\ sync <= g /\ g <= i /\ g \in Nat
            BY <2>1, <3>1
      <4>2. CASE g = i
            BY <2>3, <2>4, <4>2
      <4>3. CASE g # i
        <5>1. g \in sync .. i - 1 /\ g < i + 1 /\ g + 1 < i + 1 /\ i + 1 < g + FRAME_BUFFER_SIZE
              BY SMTT(30), <2>1, <4>1, <4>3
        <5>2. /\ Ring(g) \in RingIndex /\ Ring(g + 1) \in RingIndex
              /\ Ring(g) # Ring(i + 1) /\ Ring(g + 1) # Ring(i + 1)
              BY <2>1, <4>1, <5>1, RingType, RingApart
        <5>3. c_states[c][Ring(g + 1)] = GameSimulate(c_states[c][Ring(g)], c_events[c][Ring(g)])
              BY <1>0, <2>2, <5>1 DEF StatesFresh
        <5>4. QED
              BY <2>4, <5>2, <5>3
      <4>4. QED
            BY <4>2, <4>3
    <3>2. (IF c_recv_pc'[c] = "resim" THEN c_resim'[c] ELSE c_client_frame'[c]) - 1 = i
          BY SMTT(30), <1>1, <2>1, <2>5
    <3>3. c_sync_frame'[c] = last /\ c_events'[c] = c_events[c]
          BY <1>1, <2>5
    <3> HIDE DEF i, last
    <3>4. QED
          BY <3>1, <3>2, <3>3 DEF StatesFresh
  <2>8. ASSUME c_joined[c] = 0 PROVE c_states'[c][Ring(last)] = truth[last + 1]
    <3>1. c_states[c][Ring(sync)] = truth[sync + 1]
          BY <2>2, <2>8 DEF Agrees
    <3>2. CASE sync = last /\ sync <= i
      <4>1. Ring(sync) \in RingIndex /\ Ring(sync) # Ring(i + 1)
            BY <2>1, <3>2, RingType, RingApart
      <4>2. QED
            BY <2>4, <3>1, <3>2, <4>1
    <3>3. CASE sync + 1 = last /\ sync = i
      <4>1. sync \in Received(c) /\ InRing(c, sync) /\ c_joined[c] < last
            BY <2>1, <2>8, <3>3 DEF Received, InRing
      <4>2. c_events[c][Ring(sync)] = confirmed[sync + 1] /\ last < Len(confirmed)
            BY <2>2, <4>1 DEF EventsHeld
      <4>3. truth[sync + 2] = GameSimulate(truth[sync + 1], confirmed[sync + 1])
        <5>1. sync + 1 \in 1 .. Len(confirmed)
              BY <2>1, <3>3, <4>2
        <5>2. sync + 1 + 1 = sync + 2
              BY <2>1
        <5>3. QED
              BY <5>1, <5>2 DEF RInv, RollbackInv, LogInv
      <4>4. last + 1 = sync + 2 /\ Ring(i + 1) = Ring(last) /\ Ring(i) = Ring(sync)
            BY <2>1, <3>3
      <4>5. QED
            BY <2>4, <3>1, <4>2, <4>3, <4>4
    <3>4. QED
          BY <2>1, <3>2, <3>3
  <2>9. c_joined[c] = 0 => Agrees(c)'
        BY <2>5, <2>8 DEF Agrees
  <2>10. Reached(c)' = Reached(c)
         BY <1>1 DEF Reached, FirstHeld
  <2>11. QED
         BY <1>1, <1>3, <2>2, <2>6, <2>7, <2>9, <2>10 DEF Remembers
<1>4. QED
      BY <1>2, <1>3

-------------------------------------------------------------------------------
(***************************************************************************)
(* What is on the way to client c comes from the log, without a gap, as    *)
(* long as the server still sends to it.                                   *)
(***************************************************************************)
Live == server_up /\ (~to_shutdown \/ sim_pc = "simulate")

\* The messages, as numbers.
LEMMA DownFrames ==
    ASSUME TypeOK, NEW c \in Clients
    PROVE  /\ Len(down[c]) \in Nat /\ DOMAIN down[c] = 1 .. Len(down[c])
           /\ \A k \in 1 .. Len(down[c]) :
                 down[c][k] \in InitMessage \cup EventsMessage /\ down[c][k].frame \in Nat
<1> DEFINE q == down[c]
<1>1. q \in Seq(InitMessage \cup EventsMessage)
      BY DEF TypeOK, NetworkTypeOK
<1> HIDE DEF q
<1>2. Len(q) \in Nat /\ DOMAIN q = 1 .. Len(q)
      BY <1>1, LenProperties
<1>3. \A k \in 1 .. Len(q) : q[k] \in InitMessage \cup EventsMessage
      BY <1>1, <1>2, ElementOfSeq
<1>4. \A k \in 1 .. Len(q) : q[k].frame \in Nat
      BY <1>3 DEF InitMessage, EventsMessage
<1>5. QED
      BY <1>2, <1>3, <1>4 DEF q

\* The stream stays as it is, while the client and the server do other things.
LEMMA StreamKept ==
    ASSUME RInv, NEW c \in Clients,
           down'[c] = down[c], c_is_initialised'[c] = c_is_initialised[c],
           UNCHANGED <<confirmed, truth, server_frame>>, Live' => Live,
           c_is_initialised[c] => Reached(c)' \in Int /\ Reached(c) <= Reached(c)',
           sim_pc' = "simulate" =>
               sim_pc = "simulate" \/ \A k \in DOMAIN down[c] : down[c][k].type # "INIT"
    PROVE  FromLog(c)' /\ (c_is_initialised'[c] => InSequence(c)')
<1>0. NInv /\ TypeOK /\ FromLog(c) /\ (c_is_initialised[c] => InSequence(c)) /\ server_frame \in Nat
      BY LogFacts DEF RInv, NInv, RollbackInv, ReplicaInv
<1>1. FromLog(c)'
      BY <1>0 DEF FromLog
<1>2. ASSUME c_is_initialised[c] PROVE InSequence(c)'
  <2>1. InSequence(c) /\ Reached(c) \in Int /\ Reached(c)' \in Int /\ Reached(c) <= Reached(c)'
        BY <1>0, <1>2, ReachedFacts
  <2>2. /\ Len(down[c]) \in Nat /\ DOMAIN down[c] = 1 .. Len(down[c])
        /\ \A k \in 1 .. Len(down[c]) : down[c][k].frame \in Nat
        BY <1>0, DownFrames
  <2>3. ASSUME NEW k \in DOMAIN down[c]
        PROVE  down[c][k].frame <= (IF k = 1 THEN Reached(c)' ELSE down[c][k - 1].frame) + 1
    <3>1. down[c][k].frame <= (IF k = 1 THEN Reached(c) ELSE down[c][k - 1].frame) + 1
          BY <2>1, <2>3 DEF InSequence
    <3>2. QED
          BY <2>1, <2>2, <2>3, <3>1
  <2>4. ASSUME Live
        PROVE  server_frame <= (IF Len(down[c]) + 1 = 1 THEN Reached(c)' ELSE down[c][Len(down[c]) + 1 - 1].frame) + 1
    <3>1. server_frame <= (IF Len(down[c]) + 1 = 1 THEN Reached(c) ELSE down[c][Len(down[c]) + 1 - 1].frame) + 1
          BY <2>1, <2>4 DEF InSequence, Live
    <3>2. QED
          BY <1>0, <2>1, <2>2, <3>1
  <2>5. QED
        BY <2>3, <2>4 DEF InSequence, Live
<1>3. QED
      BY <1>1, <1>2

\* The first message is taken, and the client has reached its frame.
LEMMA FrontRead ==
    ASSUME RInv, NEW c \in Clients, Receiving(c), c_is_initialised'[c] = c_is_initialised[c],
           UNCHANGED <<confirmed, truth, server_frame, sim_pc, server_up, listening>>,
           c_is_initialised[c] => Reached(c)' = down[c][1].frame
    PROVE  /\ FromLog(c)' /\ (c_is_initialised'[c] => InSequence(c)')
           /\ Told(c)' => Told(c)
<1>0. NInv /\ TypeOK /\ FromLog(c) /\ (c_is_initialised[c] => InSequence(c))
      BY DEF RInv, NInv, RollbackInv, ReplicaInv
<1>1. /\ 1 \in DOMAIN down[c] /\ DOMAIN down'[c] = 1 .. Len(down[c]) - 1
      /\ DOMAIN down[c] = 1 .. Len(down[c]) /\ Len(down[c]) \in Nat
      /\ Len(down'[c]) = Len(down[c]) - 1
      /\ \A k \in 1 .. Len(down[c]) - 1 : down'[c][k] = down[c][k + 1]
      BY <1>0, HeadTailDown
<1>2. ASSUME NEW k \in DOMAIN down'[c]
      PROVE  k + 1 \in DOMAIN down[c] /\ down'[c][k] = down[c][k + 1] /\ k \in Nat /\ k >= 1
      BY <1>1, <1>2
<1>3. FromLog(c)'
  <2>1. ASSUME NEW k \in DOMAIN down'[c]
        PROVE  /\ down'[c][k].type = "INIT" => /\ down'[c][k].frame = Len(confirmed)
                                               /\ down'[c][k].state = truth[down'[c][k].frame + 1]
                                               /\ sim_pc # "simulate"
               /\ down'[c][k].type = "EVENTS" => /\ down'[c][k].frame < Len(confirmed)
                                                 /\ down'[c][k].events = confirmed[down'[c][k].frame + 1]
    <3>1. k + 1 \in DOMAIN down[c] /\ down'[c][k] = down[c][k + 1]
          BY <1>2, <2>1
    <3>2. QED
          BY <1>0, <3>1 DEF FromLog
  <2>2. QED
        BY <2>1 DEF FromLog
<1>4. ASSUME c_is_initialised[c] PROVE InSequence(c)'
  <2>1. /\ InSequence(c)
        /\ \A j \in DOMAIN down[c] :
              down[c][j].frame <= (IF j = 1 THEN Reached(c) ELSE down[c][j - 1].frame) + 1
        BY <1>0, <1>4 DEF InSequence
  <2>2. ASSUME NEW k \in DOMAIN down'[c]
        PROVE  down'[c][k].frame <= (IF k = 1 THEN Reached(c)' ELSE down'[c][k - 1].frame) + 1
    <3>1. k + 1 \in DOMAIN down[c] /\ down'[c][k] = down[c][k + 1] /\ k \in Nat /\ k >= 1
          BY <1>2, <2>2
    <3>2. down[c][k + 1].frame <= (IF k + 1 = 1 THEN Reached(c) ELSE down[c][k + 1 - 1].frame) + 1
          BY <2>1, <3>1
    <3>3. k + 1 # 1 /\ k + 1 - 1 = k
          BY <3>1
    <3>4. CASE k = 1
          BY <1>4, <3>1, <3>2, <3>3, <3>4
    <3>5. CASE k # 1
      <4>1. k - 1 \in 1 .. Len(down[c]) - 1 /\ k - 1 + 1 = k
            BY <1>1, <2>2, <3>1, <3>5
      <4>2. down'[c][k - 1] = down[c][k]
            BY <1>1, <4>1
      <4>3. QED
            BY <3>1, <3>2, <3>3, <3>5, <4>2
    <3>6. QED
          BY <3>4, <3>5
  <2>3. ASSUME Live
        PROVE  server_frame <= (IF Len(down'[c]) + 1 = 1 THEN Reached(c)'
                                ELSE down'[c][Len(down'[c]) + 1 - 1].frame) + 1
    <3> DEFINE n == Len(down[c])
    <3>1. server_frame <= (IF n + 1 = 1 THEN Reached(c) ELSE down[c][n + 1 - 1].frame) + 1
          BY <2>1, <2>3 DEF InSequence, Live
    <3>2. n \in Nat /\ n >= 1 /\ n + 1 # 1 /\ n + 1 - 1 = n
          BY <1>1
    <3>3. server_frame <= down[c][n].frame + 1
          BY <3>1, <3>2
    <3>4. CASE n = 1
          BY <1>1, <1>4, <3>3, <3>4
    <3>5. CASE n # 1
      <4>0. Len(down'[c]) = n - 1
            BY <1>1
      <4>1. /\ n - 1 \in 1 .. n - 1 /\ n - 1 + 1 = n /\ Len(down'[c]) + 1 # 1
            /\ Len(down'[c]) + 1 - 1 = n - 1
        <5> HIDE DEF n
        <5>1. QED
              BY <3>2, <3>5, <4>0
      <4>2. down'[c][n - 1] = down[c][n]
            BY <1>1, <4>1
      <4>3. QED
            BY <3>3, <4>1, <4>2
    <3>6. QED
          BY <3>4, <3>5
  <2>4. Live' <=> Live
        BY DEF Live, to_shutdown
  <2>5. QED
        BY <2>2, <2>3, <2>4 DEF InSequence, Live
<1>5. Told(c)' => Told(c)
      BY <1>2 DEF Told
<1>6. QED
      BY <1>3, <1>4, <1>5

-------------------------------------------------------------------------------
(***************************************************************************)
(* A step of client c keeps its own part of the invariant.                 *)
(***************************************************************************)
LEMMA LogStays ==
    ASSUME RInv, UNCHANGED <<confirmed, truth>>
    PROVE  LogGrows
BY LogFacts DEF LogGrows

LEMMA ListenKept ==
    ASSUME RInv, NEW c \in Clients, PeersOnly, Told(c)' => Told(c)
    PROVE  ListenedTo(c)'
<1>1. ListenedTo(c)
      BY DEF RInv, RollbackInv, ReplicaInv
<1>2. UNCHANGED <<server_up, listening, server_end, thread_pc, cd_fd>>
      BY DEF PeersOnly, serverVars, threadVars, slotVars
<1>3. QED
      BY <1>1, <1>2 DEF ListenedTo, to_shutdown

\* Actions that touch neither the frames nor the stream.
LEMMA IdleReplica ==
    ASSUME RInv, NEW c \in Clients, PeersOnly,
           ClientConnect(c) \/ ClientConnected(c) \/ ClientSleeps(c) \/ ClientWakes(c)
              \/ ClientSend(c) \/ ClientSendFails(c) \/ RecvEnd(c)
    PROVE  ReplicaInv(c)'
<1>0. NInv /\ ClientTypeOK /\ UsesOpenEnd(c)
      BY DEF RInv, NInv, TypeOK, NetcodeInv, ClientInv
<1>1. UNCHANGED <<confirmed, truth, server_frame, sim_pc, server_up, listening>>
      BY DEF PeersOnly, serverVars, ringVars
<1>2. LogGrows
      BY <1>1, LogStays
<1>3. /\ UNCHANGED <<c_is_initialised, c_client_index, c_sync_frame, c_server_frame, c_client_frame,
                     c_states, c_events, c_joined, c_issued, c_resim>>
      /\ down'[c] = down[c]
      BY DEF ClientConnect, ClientConnected, ClientSleeps, ClientWakes, ClientSend, ClientSendFails, RecvEnd,
             frameVars, ringsVars, networkVars
<1>4. Live' <=> Live
      BY <1>1 DEF Live, to_shutdown
<1>5. Told(c)' <=> Told(c)
      BY <1>3 DEF Told
<1>6. CASE c_is_initialised[c]
  <2>1. c_recv_pc'[c] = "resim" <=> c_recv_pc[c] = "resim"
    <3>1. ~ClientConnect(c)
          BY <1>0, <1>6 DEF UsesOpenEnd, ClientConnect
    <3>2. QED
          BY <1>0, <3>1 DEF ClientConnected, ClientSleeps, ClientWakes, ClientSend, ClientSendFails, RecvEnd,
                            ClientTypeOK
  <2>2. MemoryKept(c)
        BY <1>3, <2>1 DEF MemoryKept
  <2>3. Remembers(c)' /\ Reached(c)' \in Int /\ Reached(c) <= Reached(c)'
        BY <1>2, <1>6, <2>2, MemoryKeeps
  <2>4. FromLog(c)' /\ InSequence(c)'
        BY <1>1, <1>3, <1>4, <1>6, <2>3, StreamKept
  <2>5. ListenedTo(c)'
        BY <1>5, ListenKept
  <2>6. QED
        BY <2>3, <2>4, <2>5 DEF ReplicaInv, Remembers
<1>7. CASE ~c_is_initialised[c]
  <2>1. c_issued[c] = <<>>
        BY <1>7 DEF RInv, RollbackInv, ReplicaInv
  <2>2. FromLog(c)'
        BY <1>1, <1>3, <1>4, <1>7, StreamKept
  <2>3. ListenedTo(c)'
        BY <1>5, ListenKept
  <2>4. QED
        BY <1>3, <1>7, <2>1, <2>2, <2>3 DEF ReplicaInv
<1>8. QED
      BY <1>6, <1>7

LEMMA ClientReplica ==
    ASSUME RInv, NEW c \in Clients, ClientStep(c)
    PROVE  ReplicaInv(c)'
<1>0. /\ NInv /\ TypeOK /\ NetworkTypeOK /\ ClientTypeOK /\ PeersOnly
      BY ClientPeersOnly DEF RInv, NInv, TypeOK
<1>1. UNCHANGED <<confirmed, truth, server_frame, sim_pc, server_up, listening>>
      BY <1>0 DEF PeersOnly, serverVars, ringVars
<1>2. LogGrows /\ (Live' <=> Live)
      BY <1>1, LogStays DEF Live, to_shutdown
<1>3. ASSUME NEW input \in Inputs, ClientPredict(c, input) PROVE ReplicaInv(c)'
  <2>1. /\ down'[c] = down[c] /\ UNCHANGED c_is_initialised /\ c_is_initialised[c]
        BY <1>3 DEF ClientPredict, ClientReady, networkVars
  <2>2. Remembers(c)' /\ Reached(c)' \in Int /\ Reached(c) <= Reached(c)'
        BY <1>1, <1>3, PredictKeeps
  <2>3. FromLog(c)' /\ InSequence(c)'
        BY <1>1, <1>2, <2>1, <2>2, StreamKept
  <2>4. ListenedTo(c)'
        BY <1>0, <2>1, ListenKept DEF Told
  <2>5. QED
        BY <2>1, <2>2, <2>3, <2>4 DEF ReplicaInv, Remembers
<1>4. CASE ResimStep(c)
  <2>1. down'[c] = down[c] /\ UNCHANGED c_is_initialised
        BY <1>4 DEF ResimStep, networkVars
  <2>2. Remembers(c)' /\ (c_is_initialised[c] => Reached(c)' = Reached(c) /\ Reached(c) \in Int)
        BY <1>0, <1>1, <1>4, ResimRemembered, ReachedFacts
  <2>3. FromLog(c)' /\ (c_is_initialised'[c] => InSequence(c)')
        BY <1>1, <1>2, <2>1, <2>2, StreamKept
  <2>4. ListenedTo(c)'
        BY <1>0, <2>1, ListenKept DEF Told
  <2>5. QED
        BY <2>1, <2>2, <2>3, <2>4 DEF ReplicaInv, Remembers
<1>5. CASE RecvUnexpected(c)
  <2>1. /\ Receiving(c) /\ UNCHANGED c_is_initialised /\ MemoryKept(c) /\ UNCHANGED <<c_server_frame, c_client_frame, c_events>>
        BY <1>5 DEF RecvUnexpected, Receiving, MemoryKept, frameVars, ringsVars
  <2>2. Remembers(c)'
        BY <1>2, <2>1, MemoryKeeps
  <2>3. ASSUME c_is_initialised[c] PROVE Reached(c)' = down[c][1].frame
    <3>1. /\ Head(down[c]) = down[c][1] /\ down[c][1].frame \in Nat /\ c_server_frame[c] <= down[c][1].frame
          /\ down[c][1].frame <= Reached(c) + 1
          BY <2>1, <2>3, FirstMessage
    <3>2. /\ Reached(c) \in Int /\ Reached(c) <= c_server_frame[c]
          /\ Reached(c) # c_server_frame[c] => c_server_frame[c] = 0 /\ Reached(c) = -1
          /\ c_server_frame[c] \in Nat
          BY <1>0, <2>3, ReachedFacts, FrameFacts
    <3>3. down[c][1].frame # c_server_frame[c] + 1 /\ down[c][1].frame # 0
          BY <1>5, <3>1 DEF RecvUnexpected, FrameExpected
    <3>4. Reached(c) = down[c][1].frame
          BY <3>1, <3>2, <3>3
    <3>5. Reached(c)' = Reached(c)
          BY <1>1, <2>1 DEF Reached, FirstHeld
    <3>6. QED
          BY <3>4, <3>5
  <2>4. FromLog(c)' /\ (c_is_initialised'[c] => InSequence(c)') /\ (Told(c)' => Told(c))
        BY <1>1, <2>1, <2>3, FrontRead
  <2>5. ListenedTo(c)'
        BY <1>0, <2>4, ListenKept
  <2>6. QED
        BY <2>1, <2>2, <2>4, <2>5 DEF ReplicaInv, Remembers
<1>6. CASE RecvGameEvents(c)
  <2>1. Receiving(c) /\ UNCHANGED c_is_initialised
        BY <1>6 DEF RecvGameEvents
  <2>2. Remembers(c)' /\ (c_is_initialised[c] => Reached(c)' = down[c][1].frame)
        BY <1>1, <1>6, EventsRemembered
  <2>3. FromLog(c)' /\ (c_is_initialised'[c] => InSequence(c)') /\ (Told(c)' => Told(c))
        BY <1>1, <2>1, <2>2, FrontRead
  <2>4. ListenedTo(c)'
        BY <1>0, <2>3, ListenKept
  <2>5. QED
        BY <2>1, <2>2, <2>3, <2>4 DEF ReplicaInv, Remembers
<1>7. CASE RecvInitPlayer(c)
  <2>1. /\ Remembers(c)' /\ c_is_initialised'[c] /\ down'[c] = <<>>
        /\ Reached(c)' \in Int /\ Len(confirmed) <= Reached(c)' + 1
        BY <1>1, <1>7, InitRemembered
  <2>2. FromLog(c)'
        BY <2>1 DEF FromLog
  <2>3. Told(c)
    <3>1. Head(down[c]) = down[c][1] /\ 1 \in DOMAIN down[c]
          BY <1>0, <1>7, HeadTailDown DEF RecvInitPlayer
    <3>2. QED
          BY <1>7, <3>1 DEF RecvInitPlayer, Told
  <2>4. ListenedTo(c)'
        BY <1>0, <2>3, ListenKept
  <2>5. InSequence(c)'
    <3>1. server_up => server_frame <= Reached(c)' + 1
          BY <2>1, LogFacts
    <3>2. server_up' = server_up /\ server_frame' = server_frame /\ Len(<<>>) + 1 = 1
          BY <1>1
    <3>3. QED
          BY <2>1, <3>1, <3>2 DEF InSequence
  <2>6. QED
        BY <2>1, <2>2, <2>4, <2>5 DEF ReplicaInv, Remembers
<1>8. CASE ClientEnds(c)
  <2>1. down'[c] = <<>> /\ ~c_is_initialised'[c] /\ c_issued'[c] = <<>>
        BY <1>0, <1>8 DEF ClientEnds, CloseClientEnd, NetworkTypeOK, ClientTypeOK
  <2>2. FromLog(c)' /\ ~Told(c)'
        BY <2>1 DEF FromLog, Told
  <2>3. ListenedTo(c)'
        BY <2>2 DEF ListenedTo
  <2>4. QED
        BY <2>1, <2>2, <2>3 DEF ReplicaInv
<1>9. QED
      BY <1>0, <1>3, <1>4, <1>5, <1>6, <1>7, <1>8, IdleReplica
      DEF ClientStep, MainThread, RecvThread, ClientSendKills, ClientShutdown, RecvMisread

LEMMA OtherReplica ==
    ASSUME RInv, NEW c \in Clients, NEW d \in Clients, d # c, ClientStep(c)
    PROVE  ReplicaInv(d)'
<1>0. NInv /\ TypeOK /\ PeersOnly /\ OtherKept(d)
      BY ClientPeersOnly, OthersKept DEF RInv, NInv
<1>1. UNCHANGED <<confirmed, truth, server_frame, sim_pc, server_up, listening>>
      BY <1>0 DEF PeersOnly, serverVars, ringVars
<1>2. LogGrows /\ (Live' <=> Live)
      BY <1>1, LogStays DEF Live, to_shutdown
<1>3. MemoryKept(d) /\ down'[d] = down[d] /\ c_is_initialised'[d] = c_is_initialised[d]
      BY <1>0 DEF OtherKept, MemoryKept
<1>4. Remembers(d)' /\ (c_is_initialised[d] => Reached(d)' \in Int /\ Reached(d) <= Reached(d)')
      BY <1>2, <1>3, MemoryKeeps
<1>5. FromLog(d)' /\ (c_is_initialised'[d] => InSequence(d)')
      BY <1>1, <1>2, <1>3, <1>4, StreamKept
<1>6. ListenedTo(d)'
      BY <1>0, <1>3, ListenKept DEF Told
<1>7. QED
      BY <1>4, <1>5, <1>6 DEF ReplicaInv, Remembers

(***************************************************************************)
(* A client makes up no inputs.                                            *)
(***************************************************************************)
LEMMA ClientInputs ==
    ASSUME RInv, NEW c \in Clients, ClientStep(c)
    PROVE  PossibleInputs(c)'
<1>0. /\ NInv /\ TypeOK /\ NetworkTypeOK /\ ClientTypeOK /\ PossibleInputs(c)
      BY DEF RInv, NInv, TypeOK, RollbackInv, PossibleOnly
<1> USE DEF networkVars, frameVars, ringsVars
<1>1. ASSUME c_out'[c] \in {c_out[c], NoInput}, UNCHANGED <<up, down, c_events>>
      PROVE  PossibleInputs(c)'
      BY <1>0, <1>1 DEF PossibleInputs
<1>2. CASE ClientConnect(c) \/ ClientConnected(c) \/ ClientSleeps(c) \/ ClientWakes(c)
              \/ ClientSendFails(c) \/ ResimStep(c) \/ RecvEnd(c)
  <2>1. c_out'[c] \in {c_out[c], NoInput} /\ UNCHANGED <<up, down, c_events>>
        BY <1>0, <1>2 DEF ClientConnect, ClientConnected, ClientSleeps, ClientWakes, ClientSendFails, ResimStep,
                          RecvEnd, ClientTypeOK
  <2>2. QED
        BY <1>1, <2>1
<1>3. ASSUME NEW input \in Inputs, ClientPredict(c, input) PROVE PossibleInputs(c)'
  <2> DEFINE f == c_client_frame[c]
             played == [c_events[c][Ring(f)] EXCEPT !.player_inputs[c_client_index[c]] = input]
  <2>1. c_is_initialised[c]
        BY <1>3 DEF ClientPredict, ClientReady
  <2>2. f \in Nat /\ c_client_index[c] \in Slots /\ Ring(f) \in RingIndex /\ Ring(f + 1) \in RingIndex
        BY <1>0, <2>1, FrameFacts, RingType
  <2>3. c_events[c][Ring(f)] \in PossibleEvents
        BY <1>0, <2>2 DEF PossibleInputs
  <2>4. played \in PossibleEvents
        BY <2>2, <2>3, InputPossible
  <2>5. /\ c_out'[c] = input /\ UNCHANGED <<up, down>>
        /\ \A r \in RingIndex : c_events'[c][r] \in {c_events[c][r], played, NoEvents}
        BY <1>0, <1>3, <2>2 DEF ClientPredict, EventsPredicted, ClientTypeOK
  <2> HIDE DEF played
  <2>6. QED
        BY <1>0, <2>4, <2>5, NoEventsPossible DEF PossibleInputs
<1>4. CASE ClientSend(c)
  <2> DEFINE m == FrameInputs(c_client_frame[c] - 1, c_client_index[c], c_out[c])
             q == up[c]
  <2>1. /\ c_out'[c] = NoInput /\ UNCHANGED <<down, c_events>>
        /\ up'[c] \in {q, Append(q, m)}
        BY <1>0, <1>4 DEF ClientSend, Delivered, NetworkTypeOK, ClientTypeOK
  <2>2. m.input \in Inputs \cup {NoInput}
        BY <1>0 DEF PossibleInputs, FrameInputs
  <2>3. q \in Seq(InputsMessage)
        BY <1>0 DEF NetworkTypeOK
  <2>4. \A k \in DOMAIN q : q[k].input \in Inputs \cup {NoInput}
        BY <1>0 DEF PossibleInputs
  <2> HIDE DEF m, q
  <2>5. ASSUME NEW k \in DOMAIN Append(q, m) PROVE Append(q, m)[k].input \in Inputs \cup {NoInput}
    <3>1. /\ Len(q) \in Nat /\ DOMAIN q = 1 .. Len(q) /\ DOMAIN Append(q, m) = 1 .. Len(q) + 1
          /\ Append(q, m)[Len(q) + 1] = m
          /\ \A j \in 1 .. Len(q) : Append(q, m)[j] = q[j]
          BY <2>3
    <3>2. CASE k = Len(q) + 1
          BY <2>2, <3>1, <3>2
    <3>3. CASE k # Len(q) + 1
      <4>1. k \in 1 .. Len(q)
            BY <2>5, <3>1, <3>3
      <4>2. QED
            BY <2>4, <3>1, <4>1
    <3>4. QED
          BY <3>2, <3>3
  <2>6. \A k \in DOMAIN up'[c] : up'[c][k].input \in Inputs \cup {NoInput}
        BY <2>1, <2>4, <2>5
  <2>7. QED
        BY <1>0, <2>1, <2>6 DEF PossibleInputs
<1>5. ASSUME Receiving(c),
             \A r \in RingIndex : c_events'[c][r] \in {c_events[c][r], Head(down[c]).events}
                                  \/ c_events'[c][r] = c_events[c][r]
      PROVE  PossibleInputs(c)'
  <2>1. /\ Head(down[c]) = down[c][1] /\ 1 \in DOMAIN down[c]
        /\ DOMAIN down'[c] = 1 .. Len(down[c]) - 1
        /\ DOMAIN down[c] = 1 .. Len(down[c]) /\ Len(down[c]) \in Nat
        /\ \A k \in 1 .. Len(down[c]) - 1 : down'[c][k] = down[c][k + 1]
        BY <1>0, <1>5, HeadTailDown
  <2>2. \A r \in RingIndex : c_events'[c][r] \in PossibleEvents
        BY <1>0, <1>5, <2>1 DEF PossibleInputs
  <2>3. ASSUME NEW k \in DOMAIN down'[c] PROVE down'[c][k].events \in PossibleEvents
    <3>1. k + 1 \in DOMAIN down[c] /\ down'[c][k] = down[c][k + 1]
          BY <2>1, <2>3
    <3>2. QED
          BY <1>0, <3>1 DEF PossibleInputs
  <2>4. UNCHANGED <<up, c_out>>
        BY <1>5 DEF Receiving
  <2>5. QED
        BY <1>0, <2>2, <2>3, <2>4 DEF PossibleInputs
<1>6. CASE RecvInitPlayer(c) \/ RecvGameEvents(c)
  <2>1. \A r \in RingIndex : c_events'[c][r] \in {c_events[c][r], Head(down[c]).events}
        BY <1>0, <1>6 DEF RecvInitPlayer, RecvGameEvents, ClientTypeOK
  <2>2. QED
        BY <1>5, <1>6, <2>1 DEF RecvInitPlayer, RecvGameEvents
<1>7. CASE RecvUnexpected(c)
      BY <1>5, <1>7 DEF RecvUnexpected
<1>8. CASE ClientEnds(c)
  <2>1. /\ down'[c] = <<>> /\ c_out'[c] = NoInput /\ UNCHANGED up
        /\ \A r \in RingIndex : c_events'[c][r] = NoEvents
        BY <1>0, <1>8 DEF ClientEnds, CloseClientEnd, ClientTypeOK, NetworkTypeOK
  <2>2. QED
        BY <1>0, <2>1, NoEventsPossible DEF PossibleInputs
<1>9. QED
      BY <1>2, <1>3, <1>4, <1>6, <1>7, <1>8
      DEF ClientStep, MainThread, RecvThread, ClientSendKills, ClientShutdown, RecvMisread

LEMMA OtherInputs ==
    ASSUME RInv, NEW c \in Clients, NEW d \in Clients, d # c, ClientStep(c)
    PROVE  PossibleInputs(d)'
<1>0. TypeOK /\ ClientTypeOK /\ PossibleInputs(d)
      BY DEF RInv, NInv, TypeOK, RollbackInv, PossibleOnly
<1>1. OtherKept(d)
      BY <1>0, OthersKept
<1>2. c_out'[d] = c_out[d]
      BY ZenonT(60), <1>0 DEF ClientStep, MainThread, RecvThread, ClientConnect, ClientConnected, ClientSleeps, ClientWakes,
                  ClientPredict, ClientSend, ClientSendFails, ClientSendKills, ClientShutdown, ClientEnds,
                  Receiving, RecvInitPlayer, RecvGameEvents, RecvUnexpected, ResimStep, RecvMisread, RecvEnd,
                  ClientTypeOK
<1>3. QED
      BY <1>0, <1>1, <1>2 DEF OtherKept, PossibleInputs

LEMMA ClientKeepsRollback ==
    ASSUME RInv, NEW c \in Clients, ClientStep(c)
    PROVE  RollbackInv'
<1>0. RollbackInv /\ PeersOnly
      BY ClientPeersOnly DEF RInv, NInv
<1>1. UNCHANGED <<confirmed, truth, server_frame, sim_pc, server_up, game_states, game_events, thread_pc,
                  thread_msg>>
      BY <1>0 DEF PeersOnly, serverVars, ringVars, threadVars
<1>2. LogInv' /\ TellsTheEnd'
  <2>1. LogInv /\ TellsTheEnd
        BY <1>0 DEF RollbackInv
  <2>2. LogInv'
        BY <1>1, <2>1 DEF LogInv
  <2>3. TellsTheEnd'
        BY <1>1, <2>1 DEF TellsTheEnd
  <2>4. QED
        BY <2>2, <2>3
<1>3. \A d \in Clients : PossibleInputs(d)' /\ ReplicaInv(d)'
      BY ClientInputs, OtherInputs, ClientReplica, OtherReplica
<1>4. PossibleOnly'
      BY <1>0, <1>1, <1>3 DEF RollbackInv, PossibleOnly
<1>5. QED
      BY <1>2, <1>3, <1>4 DEF RollbackInv

-------------------------------------------------------------------------------
(***************************************************************************)
(* A step of the server that simulates no frame leaves the log alone, and  *)
(* nothing makes the server go on that has begun to stop.                  *)
(***************************************************************************)
LogQuiet ==
    /\ UNCHANGED <<confirmed, truth, server_frame, game_states>>
    /\ listening' => listening
    /\ sim_pc' = "simulate" => sim_pc = "simulate" \/ (SimTest /\ ~to_shutdown /\ server_frame < MaxFrame)

LEMMA ServerLog ==
    ASSUME ServerNext
    PROVE  server_up /\ (SimStep \/ SimKills \/ LogQuiet)
<1> USE DEF LogQuiet, ringVars, networkVars
<1>1. CASE AcceptThread
      BY <1>1 DEF AcceptThread, AcceptConnection, AcceptStops, AcceptLimitReached, AcceptNoSlot, AcceptFindSlot,
                  Admitting, AcceptStep, AcceptMark, AcceptSetFd, AcceptSetFrame, AcceptCountRead,
                  AcceptCountWrite, AcceptSpawn, AcceptSpawnFails,
                  AcceptUndoFd, AcceptUndoRead, AcceptUndoWrite, AcceptUndoUnlock, AcceptUndo, AcceptUnlock
<1>2. ASSUME NEW s \in Slots, ClientThread(s) PROVE server_up /\ LogQuiet
  <2>1. CASE ThreadInit(s) \/ ThreadSendInit(s) \/ ThreadSendInitFails(s) \/ ThreadRecvEnd(s) \/ ThreadClose(s)
                \/ ThreadForgetFd(s) \/ ThreadLeave(s) \/ ThreadRemove(s) \/ ThreadRemoved(s)
        BY <2>1 DEF ThreadStep, ThreadInit, ThreadSendInit, ThreadSendInitFails, ThreadRecvEnd, ThreadClose,
                    ThreadForgetFd, ThreadLeave, ThreadRemove, ThreadRemoved
  <2>2. CASE ThreadSendInitKills(s) \/ ThreadRecvPart(s)
        BY <2>2 DEF ThreadSendInitKills, ThreadRecvPart, ServerDies, serverVars
  <2>3. CASE ThreadStoreInput(s) \/ ThreadIgnoreInput(s)
    <3>1. server_up /\ UNCHANGED <<confirmed, truth, server_frame, game_states, listening>>
          BY <2>3 DEF ThreadStoreInput, ThreadIgnoreInput, ThreadReceiving, ThreadStep
    <3>2. sim_pc' = "simulate" => sim_pc = "simulate"
          BY <2>3 DEF ThreadStoreInput, ThreadIgnoreInput, SignalSimulation
    <3>3. QED
          BY <3>1, <3>2
  <2>4. QED
        BY <1>2, <2>1, <2>2, <2>3 DEF ClientThread
<1>3. CASE SimTest \/ SimTestLate \/ SimStops \/ SimSpuriousWakeup
  <2>1. server_up /\ UNCHANGED <<confirmed, truth, server_frame, game_states, listening>>
        BY <1>3 DEF SimTest, SimTestLate, SimStops, SimSpuriousWakeup
  <2>2. sim_pc' = "simulate" => SimTest
        BY <1>3 DEF SimTest, SimTestLate, SimStops, SimSpuriousWakeup
  <2>3. SimTest => ~to_shutdown /\ server_frame < MaxFrame
        BY DEF SimTest
  <2>4. QED
        BY <2>1, <2>2, <2>3
<1>4. CASE SimStep \/ SimKills
      BY <1>4 DEF SimStep, SimKills, SimSimulating
<1>5. CASE BeginShutdown
      BY <1>5 DEF BeginShutdown, MainStep
<1>6. CASE ServerShutdown
  <2>1. CASE MainReturns
        BY <2>1 DEF MainReturns, ServerDies
  <2>2. CASE MainSignal
        BY <2>2 DEF MainSignal, MainStep, SignalSimulation
  <2>3. CASE ServerShutdown /\ ~MainReturns /\ ~MainSignal
        BY <2>3 DEF ServerShutdown, MainCount, MainSkipClient, MainShutClient, MainCloseClient,
                    MainJoinSimulation, MainJoinAccept, MainJoinClient, NextSlot, MainStep
  <2>4. QED
        BY <1>6, <2>1, <2>2, <2>3
<1>7. QED
      BY <1>1, <1>2, <1>3, <1>4, <1>5, <1>6 DEF ServerNext, ServerThreads, SimulationThread

(***************************************************************************)
(* Where the server puts events and inputs: a join or a leave, an input it *)
(* received, a cleared entry, and what it sends of these.                  *)
(***************************************************************************)
\* Inputs in flight were in flight.
LEMMA InputsTaken ==
    ASSUME NInv, NEW c \in Clients, ServerNext
    PROVE  \A k \in DOMAIN up'[c] : \E j \in DOMAIN up[c] : up'[c][k] = up[c][j]
<1> USE DEF networkVars
<1>0. /\ up \in [Clients -> Seq(InputsMessage)]
      /\ SlotInUse /\ SlotBeingFilled
      BY DEF NInv, NetcodeInv, ServerInv, TypeOK, NetworkTypeOK
<1>1. ASSUME up'[c] = up[c] \/ up'[c] = <<>>
      PROVE  \A k \in DOMAIN up'[c] : \E j \in DOMAIN up[c] : up'[c][k] = up[c][j]
      BY <1>1
<1>2. ASSUME NEW fd, CloseServerEnd(fd) PROVE up'[c] = up[c] \/ up'[c] = <<>>
      BY <1>0, <1>2 DEF CloseServerEnd
<1>3. ASSUME ServerDies PROVE up'[c] = up[c] \/ up'[c] = <<>>
      BY <1>3 DEF ServerDies
<1>4. CASE AcceptThread
      BY <1>1, <1>2, <1>4
      DEF AcceptThread, AcceptConnection, AcceptStops, AcceptLimitReached, AcceptNoSlot, AcceptFindSlot, AcceptStep,
          AcceptMark, AcceptSetFd, AcceptSetFrame, AcceptCountRead, AcceptCountWrite, AcceptSpawn,
          AcceptSpawnFails,
          AcceptUndoFd, AcceptUndoRead, AcceptUndoWrite, AcceptUndoUnlock, AcceptUndo, AcceptUnlock
<1>5. ASSUME NEW s \in Slots, ThreadStoreInput(s) \/ ThreadIgnoreInput(s)
      PROVE  \A k \in DOMAIN up'[c] : \E j \in DOMAIN up[c] : up'[c][k] = up[c][j]
  <2>1. thread_pc[s] = "listen" /\ cd_fd[s] \in Clients
        BY <1>0, <1>5 DEF ThreadStoreInput, ThreadIgnoreInput, ThreadReceiving, ThreadStep, SlotInUse
  <2> DEFINE q == up[cd_fd[s]]
  <2>2. q \in Seq(InputsMessage) /\ Len(q) \in Nat /\ DOMAIN q = 1 .. Len(q)
        BY <1>0, <2>1, LenProperties
  <2>3. PICK n \in RecvSizes(q) : up' = [up EXCEPT ![cd_fd[s]] = SubSeq(q, n + 1, Len(q))]
        BY <1>5 DEF ThreadStoreInput, ThreadIgnoreInput, ThreadReceiving
  <2>4. n \in 1 .. Len(q)
        BY <2>3 DEF RecvSizes
  <2> DEFINE tail == SubSeq(q, n + 1, Len(q))
  <2>5. /\ DOMAIN tail = 1 .. Len(q) - n
        /\ \A k \in 1 .. Len(q) - n : tail[k] = q[n + k]
    <3> HIDE DEF q
    <3>1. n + 1 \in Int /\ Len(q) \in Int /\ \A i \in n + 1 .. Len(q) : q[i] \in InputsMessage
          BY <2>2, <2>4
    <3>2. /\ tail \in Seq(InputsMessage)
          /\ Len(tail) = (IF n + 1 <= Len(q) THEN Len(q) - (n + 1) + 1 ELSE 0)
          /\ \A k \in 1 .. Len(q) - (n + 1) + 1 : tail[k] = q[n + 1 + k - 1]
          BY <3>1, SubSeqProperties
    <3> HIDE DEF tail
    <3>3. Len(q) - (n + 1) + 1 = Len(q) - n /\ Len(tail) = Len(q) - n
      <4>1. n \in Int /\ Len(q) \in Int /\ n <= Len(q)
            BY <2>2, <2>4
      <4>2. Len(tail) = IF n + 1 <= Len(q) THEN Len(q) - (n + 1) + 1 ELSE 0
            BY <3>2
      <4>3. QED
            BY <4>1, <4>2
    <3>4. ASSUME NEW k \in 1 .. Len(q) - n PROVE tail[k] = q[n + k]
      <4>1. n + 1 + k - 1 = n + k
            BY <2>4, <3>4
      <4>2. QED
            BY <3>2, <3>3, <4>1
    <3>5. QED
          BY <3>2, <3>3, <3>4, LenProperties
  <2>6. ASSUME NEW k \in DOMAIN tail PROVE \E j \in DOMAIN q : tail[k] = q[j]
    <3>1. n + k \in 1 .. Len(q)
          BY <2>2, <2>4, <2>5, <2>6
    <3>2. QED
          BY <2>2, <2>5, <2>6, <3>1
  <2>7. up'[c] = IF c = cd_fd[s] THEN tail ELSE up[c]
        BY <1>0, <2>1, <2>3
  <2> HIDE DEF tail
  <2>8. QED
        BY <2>6, <2>7
<1>6. ASSUME NEW s \in Slots, ClientThread(s)
      PROVE  \A k \in DOMAIN up'[c] : \E j \in DOMAIN up[c] : up'[c][k] = up[c][j]
      BY <1>1, <1>2, <1>3, <1>5, <1>6
      DEF ClientThread, ThreadInit, ThreadSendInit, ThreadSendInitFails, ThreadSendInitKills, ThreadRecvPart,
          ThreadRecvEnd, ThreadClose, ThreadForgetFd, ThreadLeave, ThreadRemove, ThreadRemoved
<1>7. CASE SimulationThread \/ SimSpuriousWakeup
      BY <1>1, <1>3, <1>7 DEF SimulationThread, SimTest, SimTestLate, SimStops, SimSpuriousWakeup, SimStep, SimKills
<1>8. CASE BeginShutdown \/ ServerShutdown
      BY <1>1, <1>3, <1>8
      DEF BeginShutdown, ServerShutdown, MainCount, MainSkipClient, MainShutClient, MainCloseClient, MainSignal,
          MainJoinSimulation, MainJoinAccept, MainJoinClient, MainReturns, NextSlot, MainStep
<1>9. QED
      BY <1>4, <1>6, <1>7, <1>8 DEF ServerNext, ServerThreads

\* A first message is prepared in one step and waits until it is sent.
LEMMA FirstPrepared ==
    ASSUME NInv, ServerNext, NEW s \in Slots, thread_pc'[s] = "send_init"
    PROVE  ThreadInit(s) \/ (thread_pc[s] = "send_init" /\ thread_msg'[s] = thread_msg[s])
<1> USE DEF threadVars
<1>0. /\ thread_pc \in [Slots -> ThreadPC] /\ thread_msg \in [Slots -> InitMessage \cup {NoMessage}]
      /\ accept_slot \in Slots
      BY DEF NInv, TypeOK, ServerTypeOK
<1>1. CASE AcceptThread
      BY <1>0, <1>1 DEF AcceptThread, AcceptConnection, AcceptStops, AcceptLimitReached, AcceptNoSlot,
                        AcceptFindSlot, AcceptStep, AcceptMark, AcceptSetFd, AcceptSetFrame, AcceptCountRead,
                        AcceptCountWrite, AcceptSpawn, AcceptSpawnFails,
                        AcceptUndoFd, AcceptUndoRead, AcceptUndoWrite, AcceptUndoUnlock, AcceptUndo, AcceptUnlock
<1>2. ASSUME NEW t \in Slots, ClientThread(t)
      PROVE  ThreadInit(s) \/ (thread_pc[s] = "send_init" /\ thread_msg'[s] = thread_msg[s])
  <2>1. CASE ThreadSendInitKills(t) \/ ThreadRecvPart(t)
        BY <2>1 DEF ThreadSendInitKills, ThreadRecvPart, serverVars
  <2>2. CASE ThreadInit(t)
        BY <1>0, <2>2 DEF ThreadInit, ThreadStep
  <2>3. CASE ThreadSendInit(t) \/ ThreadSendInitFails(t)
        BY <1>0, <2>3 DEF ThreadSendInit, ThreadSendInitFails, ThreadStep, NextRecv
  <2>4. CASE ThreadStoreInput(t) \/ ThreadIgnoreInput(t)
        BY <1>0, <2>4 DEF ThreadStoreInput, ThreadIgnoreInput, ThreadReceiving, ThreadStep, NextRecv
  <2>5. CASE ThreadRecvEnd(t) \/ ThreadClose(t) \/ ThreadForgetFd(t) \/ ThreadLeave(t) \/ ThreadRemove(t)
                \/ ThreadRemoved(t)
        BY <1>0, <2>5 DEF ThreadStep, ThreadRecvEnd, ThreadClose, ThreadForgetFd, ThreadLeave, ThreadRemove, ThreadRemoved
  <2>6. QED
        BY <1>2, <2>1, <2>2, <2>3, <2>4, <2>5 DEF ClientThread
<1>3. CASE SimulationThread \/ SimSpuriousWakeup
      BY <1>3 DEF SimulationThread, SimTest, SimTestLate, SimStops, SimSpuriousWakeup, SimStep, SimKills
<1>4. CASE BeginShutdown \/ ServerShutdown
      BY <1>4 DEF BeginShutdown, ServerShutdown, MainCount, MainSkipClient, MainShutClient, MainCloseClient,
          MainSignal, MainJoinSimulation, MainJoinAccept, MainJoinClient, MainReturns, NextSlot, MainStep
<1>5. QED
      BY <1>1, <1>2, <1>3, <1>4 DEF ServerNext, ServerThreads

LEMMA EventsMade ==
    ASSUME RInv, ServerNext
    PROVE  /\ \A r \in RingIndex : game_events'[r] \in PossibleEvents
           /\ \A s \in Slots : thread_pc'[s] = "send_init" => thread_msg'[s].events \in PossibleEvents
<1> USE DEF ringVars
<1>0. /\ NInv /\ PossibleOnly /\ SlotInUse /\ server_frame \in Nat
      /\ game_events \in [RingIndex -> GameEvents] /\ cd_client_frame \in [Slots -> Int]
      /\ thread_msg \in [Slots -> InitMessage \cup {NoMessage}] /\ up \in [Clients -> Seq(InputsMessage)]
      BY DEF RInv, NInv, NetcodeInv, ServerInv, RollbackInv, TypeOK, NetworkTypeOK, ServerTypeOK
<1>1. Ring(server_frame) \in RingIndex /\ Ring(server_frame + 1) \in RingIndex
      BY <1>0, RingType
<1>2. ASSUME NEW s \in Slots, NEW event \in PlayerEvent,
             game_events' = [game_events EXCEPT ![Ring(server_frame)].player_events[s] = event]
      PROVE  \A r \in RingIndex : game_events'[r] \in PossibleEvents
  <2> DEFINE e == [game_events[Ring(server_frame)] EXCEPT !.player_events[s] = event]
  <2>1. e \in PossibleEvents
        BY <1>0, <1>1, AnnouncePossible DEF PossibleOnly
  <2>2. \A r \in RingIndex : game_events'[r] \in {game_events[r], e}
        BY <1>0, <1>1, <1>2
  <2> HIDE DEF e
  <2>3. QED
        BY <1>0, <2>1, <2>2 DEF PossibleOnly
<1>3. ASSUME NEW s \in Slots, ThreadStoreInput(s)
      PROVE  \A r \in RingIndex : game_events'[r] \in PossibleEvents
  <2> DEFINE q == up[cd_fd[s]]
             m == Head(q)
             e == [game_events[Ring(m.frame)] EXCEPT !.player_inputs[s] = m.input]
  <2>1. thread_pc[s] = "listen" /\ cd_fd[s] \in Clients
        BY <1>0, <1>3 DEF ThreadStoreInput, ThreadReceiving, ThreadStep, SlotInUse
  <2>2. PICK n \in RecvSizes(q) : TRUE
        BY <1>3 DEF ThreadStoreInput, ThreadReceiving
  <2>3. q \in Seq(InputsMessage) /\ Len(q) \in Nat /\ DOMAIN q = 1 .. Len(q) /\ n \in 1 .. Len(q)
        BY <1>0, <2>1, <2>2, LenProperties DEF RecvSizes
  <2>4. m = q[1] /\ 1 \in DOMAIN q /\ q[1] \in InputsMessage
    <3> HIDE DEF q
    <3>1. QED
          BY <2>3
  <2>5. m.frame \in Nat /\ m.input \in Inputs \cup {NoInput}
        BY <1>0, <2>1, <2>4 DEF PossibleOnly, PossibleInputs, InputsMessage
  <2>6. game_events' = [game_events EXCEPT ![Ring(m.frame)].player_inputs[s] = m.input]
        BY <1>3 DEF ThreadStoreInput
  <2> HIDE DEF m
  <2>7. Ring(m.frame) \in RingIndex
        BY <2>5, RingType
  <2>8. e \in PossibleEvents
        BY <1>0, <2>5, <2>7, InputPossible DEF PossibleOnly
  <2>9. \A r \in RingIndex : game_events'[r] \in {game_events[r], e}
        BY <1>0, <2>6, <2>7
  <2> HIDE DEF e
  <2>10. QED
         BY <1>0, <2>8, <2>9 DEF PossibleOnly
<1>4. \A r \in RingIndex : game_events'[r] \in PossibleEvents
  <2>1. ASSUME UNCHANGED game_events PROVE \A r \in RingIndex : game_events'[r] \in PossibleEvents
        BY <1>0, <2>1 DEF PossibleOnly
  <2>2. CASE AcceptThread
        BY <2>1, <2>2 DEF AcceptThread, AcceptConnection, AcceptStops, AcceptLimitReached, AcceptNoSlot,
                    AcceptFindSlot, AcceptStep, AcceptMark, AcceptSetFd, AcceptSetFrame, AcceptCountRead,
                    AcceptCountWrite, AcceptSpawn, AcceptSpawnFails,
                    AcceptUndoFd, AcceptUndoRead, AcceptUndoWrite, AcceptUndoUnlock, AcceptUndo, AcceptUnlock
  <2>3. ASSUME NEW s \in Slots, ThreadInit(s) \/ ThreadLeave(s)
        PROVE  \A r \in RingIndex : game_events'[r] \in PossibleEvents
    <3>1. PICK event \in PlayerEvent :
             game_events' = [game_events EXCEPT ![Ring(server_frame)].player_events[s] = event]
          BY <2>3 DEF ThreadInit, ThreadLeave, PlayerEvent
    <3>2. QED
          BY <1>2, <3>1
  <2>4. ASSUME NEW s \in Slots, ClientThread(s) PROVE \A r \in RingIndex : game_events'[r] \in PossibleEvents
        BY <1>3, <2>1, <2>3, <2>4
        DEF ClientThread, ThreadSendInit, ThreadSendInitFails, ThreadSendInitKills, ThreadIgnoreInput, ThreadRecvPart,
            ThreadRecvEnd, ThreadClose, ThreadForgetFd, ThreadRemove, ThreadRemoved, serverVars
  <2>5. CASE SimStep
    <3>1. \A r \in RingIndex : game_events'[r] \in {game_events[r], NoEvents}
          BY <1>0, <1>1, <2>5 DEF SimStep
    <3>2. QED
          BY <1>0, <3>1, NoEventsPossible DEF PossibleOnly
  <2>6. CASE SimTest \/ SimTestLate \/ SimStops \/ SimSpuriousWakeup \/ SimKills
        BY <2>1, <2>6 DEF SimTest, SimTestLate, SimStops, SimSpuriousWakeup, SimKills
  <2>7. CASE BeginShutdown \/ ServerShutdown
        BY <2>1, <2>7
        DEF BeginShutdown, ServerShutdown, MainCount, MainSkipClient, MainShutClient, MainCloseClient,
            MainSignal, MainJoinSimulation, MainJoinAccept, MainJoinClient, MainReturns, NextSlot, MainStep
  <2>8. QED
        BY <2>2, <2>4, <2>5, <2>6, <2>7 DEF ServerNext, ServerThreads, SimulationThread
<1>5. ASSUME NEW s \in Slots, thread_pc'[s] = "send_init"
      PROVE  thread_msg'[s].events \in PossibleEvents
  <2>1. CASE ThreadInit(s)
    <3>1. thread_msg'[s] = InitPlayer(server_frame, game_states[Ring(server_frame)],
                                      game_events'[Ring(server_frame)], s)
          BY <1>0, <2>1 DEF ThreadInit
    <3>2. thread_msg'[s].events = game_events'[Ring(server_frame)]
          BY <3>1 DEF InitPlayer
    <3>3. QED
          BY <1>1, <1>4, <3>2
  <2>2. CASE thread_pc[s] = "send_init" /\ thread_msg'[s] = thread_msg[s]
        BY <1>0, <2>2 DEF PossibleOnly
  <2>3. QED
        BY <1>0, <1>5, <2>1, <2>2, FirstPrepared
<1>6. QED
      BY <1>4, <1>5

(***************************************************************************)
(* A frame is simulated: its events are the next entry of the log, and the *)
(* state it starts from is the last one of the log.                        *)
(***************************************************************************)
LEMMA LogAppended ==
    ASSUME RInv, SimSimulating
    PROVE  /\ LogGrows /\ Len(confirmed) = server_frame
           /\ Len(confirmed') = server_frame + 1 /\ Len(truth') = server_frame + 2
           /\ confirmed'[server_frame + 1] = CurrentEvents
           /\ truth'[server_frame + 2] = GameSimulate(truth[server_frame + 1], CurrentEvents)
           /\ NextState = GameSimulate(truth[server_frame + 1], CurrentEvents)
<1> DEFINE n == server_frame
<1>0. /\ confirmed \in Seq(GameEvents) /\ truth \in Seq(GameState) /\ n \in Nat
      /\ Len(confirmed) = n /\ Len(truth) = n + 1 /\ game_states[Ring(n)] = truth[n + 1]
      BY LogFacts DEF SimSimulating, RInv, RollbackInv, LogInv
<1>1. CurrentEvents \in GameEvents /\ NextState \in GameState
  <2>1. /\ game_states \in [RingIndex -> GameState] /\ game_events \in [RingIndex -> GameEvents]
        /\ Ring(n) \in RingIndex
        BY <1>0, RingType DEF RInv, NInv, TypeOK, ServerTypeOK
  <2>2. QED
        BY <2>1, GameSimulateType DEF CurrentEvents, NextState
<1>2. confirmed' = Append(confirmed, CurrentEvents) /\ truth' = Append(truth, NextState)
      BY DEF SimSimulating
<1>3. NextState = GameSimulate(truth[n + 1], CurrentEvents)
      BY <1>0 DEF NextState
<1>4. /\ Len(confirmed') = n + 1 /\ confirmed'[n + 1] = CurrentEvents
      /\ \A f \in 1 .. n : confirmed'[f] = confirmed[f]
      BY <1>0, <1>1, <1>2, AppendProperties
<1>5. /\ Len(truth') = n + 2 /\ truth'[n + 2] = NextState
      /\ \A f \in 1 .. n + 1 : truth'[f] = truth[f]
  <2>1. /\ Len(truth') = Len(truth) + 1 /\ truth'[Len(truth) + 1] = NextState
        /\ \A f \in 1 .. Len(truth) : truth'[f] = truth[f]
        BY <1>0, <1>1, <1>2, AppendProperties
  <2>2. Len(truth) + 1 = n + 2
        BY <1>0
  <2>3. QED
        BY <1>0, <2>1, <2>2
<1>6. confirmed' # <<>>
      BY <1>0, <1>4, EmptySeq
<1>7. LogGrows
      BY <1>0, <1>4, <1>5, <1>6 DEF LogGrows
<1>8. QED
      BY <1>0, <1>3, <1>4, <1>5, <1>7

LEMMA LogInvKept ==
    ASSUME RInv, ServerNext
    PROVE  LogInv' /\ LogGrows
<1>0. NInv /\ LogInv /\ server_up /\ server_frame \in Nat
      BY ServerLog, LogFacts DEF RInv, RollbackInv
<1>1. CASE LogQuiet
  <2>1. UNCHANGED <<confirmed, truth, server_frame, game_states>>
        BY <1>1 DEF LogQuiet
  <2>2. sim_pc' = "simulate" => server_frame < MaxFrame
        BY <1>0, <1>1 DEF LogQuiet, LogInv
  <2>3. Len(confirmed) = server_frame /\ game_states[Ring(server_frame)] = truth[server_frame + 1]
        BY <1>0 DEF LogInv
  <2>4. Len(truth) = Len(confirmed) + 1
        /\ \A f \in 1 .. Len(confirmed) : truth[f + 1] = GameSimulate(truth[f], confirmed[f])
        BY <1>0 DEF LogInv
  <2>5. LogInv'
        BY <2>1, <2>2, <2>3, <2>4 DEF LogInv
  <2>6. QED
        BY <2>1, <2>5, LogStays
<1>2. CASE SimStep \/ SimKills
  <2> DEFINE n == server_frame
  <2>1. SimSimulating /\ sim_pc = "simulate"
        BY <1>2 DEF SimStep, SimKills, SimSimulating
  <2>2. /\ LogGrows /\ Len(confirmed) = n /\ Len(truth) = n + 1
        /\ Len(confirmed') = n + 1 /\ Len(truth') = n + 2
        /\ confirmed'[n + 1] = CurrentEvents
        /\ truth'[n + 2] = GameSimulate(truth[n + 1], CurrentEvents)
        /\ NextState = truth'[n + 2]
    <3>1. Len(truth) = Len(confirmed) + 1
          BY <1>0 DEF LogInv
    <3>2. QED
          BY <2>1, <3>1, LogAppended
  <2>3. ASSUME NEW f \in 1 .. Len(confirmed')
        PROVE  truth'[f + 1] = GameSimulate(truth'[f], confirmed'[f])
    <3>0. f \in 1 .. Len(truth) /\ truth'[f] = truth[f]
          BY <1>0, <2>2, <2>3 DEF LogGrows
    <3>1. CASE f = n + 1
      <4>1. f + 1 = n + 2
            BY <1>0, <3>1
      <4>2. QED
            BY <2>2, <3>0, <3>1, <4>1
    <3>2. CASE f # n + 1
      <4>1. f \in 1 .. Len(confirmed) /\ f + 1 \in 1 .. Len(truth)
            BY <1>0, <2>2, <2>3, <3>2
      <4>2. confirmed'[f] = confirmed[f] /\ truth'[f + 1] = truth[f + 1]
            BY <2>2, <4>1 DEF LogGrows
      <4>3. QED
            BY <1>0, <3>0, <4>1, <4>2 DEF LogInv
    <3>3. QED
          BY <3>1, <3>2
  <2>4. n < MaxFrame /\ Len(truth') = Len(confirmed') + 1
        BY <1>0, <2>1, <2>2 DEF LogInv
  <2>5. CASE SimStep
    <3>1. server_frame' = n + 1 /\ sim_pc' = "test"
          BY <2>5 DEF SimStep
    <3>2. game_states'[Ring(n + 1)] = NextState
      <4>1. game_states' = [game_states EXCEPT ![Ring(n + 1)] = NextState]
            BY <2>1 DEF SimSimulating
      <4>2. game_states \in [RingIndex -> GameState] /\ Ring(n + 1) \in RingIndex
            BY <1>0, RingType DEF NInv, TypeOK, ServerTypeOK
      <4>3. QED
            BY <4>1, <4>2
    <3>3. game_states'[Ring(server_frame')] = truth'[server_frame' + 1]
      <4>1. server_frame' + 1 = n + 2
            BY <1>0, <3>1
      <4>2. QED
            BY <2>2, <3>1, <3>2, <4>1
    <3>4. Len(confirmed') = server_frame'
          BY <2>2, <3>1
    <3> HIDE DEF n
    <3>5. QED
          BY <2>2, <2>3, <2>4, <3>1, <3>3, <3>4 DEF LogInv
  <2>6. CASE SimKills
    <3>1. ~server_up' /\ server_frame' = n /\ sim_pc' = sim_pc
          BY <2>6 DEF SimKills, ServerDies
    <3> HIDE DEF n
    <3>2. QED
          BY <2>2, <2>3, <2>4, <3>1 DEF LogInv
  <2>7. QED
        BY <1>2, <2>2, <2>5, <2>6
<1>3. QED
      BY <1>1, <1>2, ServerLog

LEMMA EndKeptForNew ==
    ASSUME RInv, ServerNext
    PROVE  TellsTheEnd'
<1>0. /\ NInv /\ TellsTheEnd /\ LogInv /\ SlotInUse /\ SimReady /\ server_up /\ server_frame \in Nat
      /\ thread_msg \in [Slots -> InitMessage \cup {NoMessage}]
      BY ServerLog, LogFacts DEF RInv, RollbackInv, NInv, NetcodeInv, ServerInv, TypeOK, ServerTypeOK
<1>1. SUFFICES ASSUME NEW s \in Slots, server_up', thread_pc'[s] = "send_init"
               PROVE  thread_msg'[s].frame = server_frame' /\ thread_msg'[s].state = truth'[server_frame' + 1]
      BY DEF TellsTheEnd
<1>2. CASE LogQuiet
  <2>1. UNCHANGED <<truth, server_frame>>
        BY <1>2 DEF LogQuiet
  <2>2. CASE ThreadInit(s)
    <3>1. thread_msg'[s] = InitPlayer(server_frame, game_states[Ring(server_frame)],
                                      game_events'[Ring(server_frame)], s)
          BY <1>0, <2>2 DEF ThreadInit
    <3>2. thread_msg'[s].frame = server_frame /\ thread_msg'[s].state = game_states[Ring(server_frame)]
          BY <3>1 DEF InitPlayer
    <3>3. QED
          BY <1>0, <2>1, <3>2 DEF LogInv
  <2>3. CASE thread_pc[s] = "send_init" /\ thread_msg'[s] = thread_msg[s]
        BY <1>0, <2>1, <2>3 DEF TellsTheEnd
  <2>4. QED
        BY <1>0, <1>1, <2>2, <2>3, FirstPrepared
<1>3. CASE SimStep
  <2>1. sim_pc = "simulate" /\ thread_pc'[s] = thread_pc[s]
        BY <1>3 DEF SimStep, SimSimulating, threadVars
  <2>2. cd_client_frame[s] = -1 /\ cd_client_frame[s] >= server_frame
        BY <1>0, <1>1, <2>1 DEF SlotInUse, SimReady
  <2>3. QED
        BY <1>0, <2>2
<1>4. CASE SimKills
      BY <1>1, <1>4 DEF SimKills, ServerDies
<1>5. QED
      BY <1>2, <1>3, <1>4, ServerLog

-------------------------------------------------------------------------------
(***************************************************************************)
(* Until the server stops, a thread that listens to a client goes on to do *)
(* so: it closes the connection only when the client has, nobody else ever *)
(* does, and its slot keeps the descriptor.                                *)
(***************************************************************************)
LEMMA StillListens ==
    ASSUME NInv, NEW c \in Clients, NEW s \in Slots, ServerNext,
           thread_pc[s] = "listen", cd_fd[s] = c, server_end[c] = "open", client_end[c] = "open",
           server_up', ~to_shutdown'
    PROVE  thread_pc'[s] = "listen" /\ cd_fd'[s] = c /\ server_end'[c] = "open"
<1> USE DEF networkVars, slotVars, threadVars
<1>0. /\ SlotInUse /\ SlotBeingFilled /\ StopsOnce /\ listening /\ ~to_shutdown
      /\ thread_pc \in [Slots -> ThreadPC] /\ cd_fd \in [Slots -> Clients \cup {NoFd}]
      /\ server_end \in [Clients -> SocketState] /\ accept_slot \in Slots /\ NoFd \notin Clients
  <2>1. listening' => listening
        BY ServerLog DEF LogQuiet, SimStep, SimKills, ServerDies
  <2>2. QED
        BY <2>1, NetworkAssumption DEF NInv, NetcodeInv, ServerInv, TypeOK, NetworkTypeOK, ServerTypeOK, to_shutdown
<1>1. ASSUME UNCHANGED <<thread_pc, cd_fd, server_end>>
      PROVE  thread_pc'[s] = "listen" /\ cd_fd'[s] = c /\ server_end'[c] = "open"
      BY <1>1
<1>2. CASE AcceptThread
  <2>1. ASSUME NEW d \in Clients, AcceptConnection(d)
        PROVE  thread_pc'[s] = "listen" /\ cd_fd'[s] = c /\ server_end'[c] = "open"
    <3>1. server_end[d] = "none" /\ server_end' = [server_end EXCEPT ![d] = "open"] /\ UNCHANGED thread_pc
          BY <2>1 DEF AcceptConnection
    <3>2. \/ UNCHANGED cd_fd
          \/ \E fd \in Released : cd_fd' = [t \in Slots |-> IF cd_fd[t] = fd THEN d ELSE cd_fd[t]]
          BY <2>1 DEF AcceptConnection
    <3>3. c \notin Released
          BY DEF Released
    <3>4. QED
          BY <1>0, <3>1, <3>2, <3>3
  <2>2. CASE AcceptLimitReached \/ AcceptNoSlot \/ AcceptUndo
    <3>1. /\ accept_pc \in {"lock", "undo_close"} /\ CloseServerEnd(accept_fd) /\ UNCHANGED <<thread_pc, cd_fd>>
          BY <2>2 DEF AcceptLimitReached, AcceptNoSlot, AcceptUndo, Admitting
    <3>2. accept_fd # c
          BY <1>0, <3>1 DEF SlotBeingFilled, Undoing
    <3>3. QED
          BY <1>0, <3>1, <3>2 DEF CloseServerEnd
  <2>3. CASE AcceptSetFd \/ AcceptUndoFd \/ AcceptSpawn
    <3>1. Filling /\ UNCHANGED server_end
          BY <2>3 DEF AcceptSetFd, AcceptUndoFd, AcceptSpawn, AcceptStep, Filling, Undoing
    <3>2. accept_slot # s
          BY <1>0, <3>1 DEF SlotBeingFilled
    <3>3. QED
          BY <1>0, <2>3, <3>1, <3>2 DEF AcceptSetFd, AcceptUndoFd, AcceptSpawn, AcceptStep
  <2>4. AcceptStops => to_shutdown
        BY DEF AcceptStops
  <2>5. QED
        BY <1>0, <1>1, <1>2, <2>1, <2>2, <2>3, <2>4
        DEF AcceptThread, AcceptFindSlot, AcceptStep, AcceptMark, AcceptSetFrame, AcceptCountRead,
            AcceptCountWrite, AcceptSpawnFails, AcceptUndoRead, AcceptUndoWrite, AcceptUndoUnlock, AcceptUnlock
<1>3. ASSUME NEW t \in Slots, ClientThread(t)
      PROVE  thread_pc'[s] = "listen" /\ cd_fd'[s] = c /\ server_end'[c] = "open"
  <2>1. ASSUME NEW from, NEW to, ThreadStep(t, from, to), from # "listen" \/ to = "listen",
               UNCHANGED <<cd_fd, server_end>>
        PROVE  thread_pc'[s] = "listen" /\ cd_fd'[s] = c /\ server_end'[c] = "open"
        BY <1>0, <2>1 DEF ThreadStep
  <2>2. NextRecv = "listen"
        BY <1>0 DEF NextRecv
  <2>3. CASE ThreadSendInitKills(t) \/ ThreadRecvPart(t)
        BY <2>3 DEF ThreadSendInitKills, ThreadRecvPart, ServerDies
  <2>4. CASE ThreadInit(t) \/ ThreadSendInit(t) \/ ThreadSendInitFails(t) \/ ThreadLeave(t)
        BY <2>1, <2>4 DEF ThreadInit, ThreadSendInit, ThreadSendInitFails, ThreadLeave
  <2>5. CASE ThreadStoreInput(t) \/ ThreadIgnoreInput(t)
        BY <2>1, <2>2, <2>5 DEF ThreadStoreInput, ThreadIgnoreInput, ThreadReceiving
  <2>6. CASE ThreadRecvEnd(t)
    <3>1. t # s
          BY <2>6 DEF ThreadRecvEnd
    <3>2. QED
          BY <1>0, <2>6, <3>1 DEF ThreadRecvEnd, ThreadStep
  <2>7. CASE ThreadClose(t)
    <3>1. thread_pc[t] = "close" /\ cd_fd[t] \in Clients
          BY <1>0, <2>7 DEF ThreadClose, ThreadStep, SlotInUse
    <3>2. t # s /\ cd_fd[t] # c
          BY <1>0, <3>1 DEF SlotInUse
    <3>3. QED
          BY <1>0, <2>7, <3>1, <3>2 DEF ThreadClose, ThreadStep, CloseServerEnd
  <2>8. CASE ThreadForgetFd(t) \/ ThreadRemove(t) \/ ThreadRemoved(t)
    <3>1. t # s \/ ThreadRemoved(t)
          BY <2>8 DEF ThreadForgetFd, ThreadRemove, ThreadStep
    <3>2. QED
          BY <1>0, <2>8, <3>1 DEF ThreadForgetFd, ThreadRemove, ThreadRemoved, ThreadStep
  <2>9. QED
        BY <1>3, <2>3, <2>4, <2>5, <2>6, <2>7, <2>8 DEF ClientThread
<1>4. CASE SimulationThread \/ SimSpuriousWakeup
      BY <1>1, <1>4 DEF SimulationThread, SimTest, SimTestLate, SimStops, SimSpuriousWakeup, SimStep, SimKills, ServerDies
<1>5. CASE BeginShutdown
      BY <1>5 DEF BeginShutdown, to_shutdown
<1>6. CASE ServerShutdown
      BY <1>0, <1>6, NInvInv, MainPast
<1>7. QED
      BY <1>2, <1>3, <1>4, <1>5, <1>6 DEF ServerNext, ServerThreads

LEMMA ServerListens ==
    ASSUME RInv, NEW c \in Clients, ServerNext,
           Told(c)' => Told(c) \/ \E s \in Slots : ThreadSendInit(s) /\ cd_fd[s] = c
    PROVE  ListenedTo(c)'
<1>0. /\ NInv /\ ListenedTo(c) /\ UsesOpenEnd(c) /\ server_up
      BY ServerLog DEF RInv, RollbackInv, ReplicaInv, NInv, NetcodeInv, ClientInv
<1>1. SUFFICES ASSUME Told(c)', server_up', ~to_shutdown'
               PROVE  /\ server_end'[c] = "open"
                      /\ \E s \in Slots : thread_pc'[s] = "listen" /\ cd_fd'[s] = c
      BY DEF ListenedTo
<1>2. ~to_shutdown
      BY <1>1, ServerLog DEF LogQuiet, SimStep, SimKills, ServerDies, to_shutdown
<1>3. CASE Told(c)
  <2>1. client_end[c] = "open"
        BY <1>0, <1>3 DEF Told, UsesOpenEnd
  <2>2. PICK s \in Slots : thread_pc[s] = "listen" /\ cd_fd[s] = c /\ server_end[c] = "open"
        BY <1>0, <1>2, <1>3 DEF ListenedTo
  <2>3. thread_pc'[s] = "listen" /\ cd_fd'[s] = c /\ server_end'[c] = "open"
        BY <1>0, <1>1, <2>1, <2>2, StillListens
  <2>4. QED
        BY <2>3
<1>4. CASE \E s \in Slots : ThreadSendInit(s) /\ cd_fd[s] = c
  <2>1. PICK s \in Slots : ThreadSendInit(s) /\ cd_fd[s] = c
        BY <1>4
  <2>2. thread_pc \in [Slots -> ThreadPC]
        BY <1>0 DEF NInv, TypeOK, ServerTypeOK
  <2>3. thread_pc'[s] = "listen" /\ cd_fd'[s] = c /\ server_end'[c] = "open"
        BY <1>2, <2>1, <2>2 DEF ThreadSendInit, ThreadStep, NextRecv, slotVars
  <2>4. QED
        BY <2>3
<1>5. QED
      BY <1>1, <1>3, <1>4

-------------------------------------------------------------------------------
(***************************************************************************)
(* A step of the server that sends nothing to client c.                    *)
(***************************************************************************)
\* No frame is about to be simulated while a client has its first message to read: the
\* thread that listens to it has no input yet (gameserver.c:446 to 454).
LEMMA NoneWaitsForFirst ==
    ASSUME RInv, NEW c \in Clients, SimTest, sim_pc' = "simulate", NEW k \in DOMAIN down[c]
    PROVE  down[c][k].type # "INIT"
<1>0. /\ NInv /\ ListenedTo(c) /\ UsesOpenEnd(c) /\ OnlyPredicted(c) /\ InFlight(c) /\ SlotInUse
      /\ server_frame \in Nat
      BY LogFacts DEF RInv, RollbackInv, ReplicaInv, NInv, NetcodeInv, ClientInv, ServerInv
<1>1. SUFFICES ASSUME down[c][k].type = "INIT" PROVE FALSE
      OBVIOUS
<1>2. server_up /\ ~to_shutdown /\ CanSimulate(client_count, cd_client_frame)
      BY DEF SimTest
<1>3. Told(c) /\ ~c_is_initialised[c] /\ client_end[c] # "closed"
      BY <1>0, <1>1 DEF Told, InFlight, UsesOpenEnd
<1>4. PICK s \in Slots : thread_pc[s] = "listen" /\ cd_fd[s] = c
      BY <1>0, <1>2, <1>3 DEF ListenedTo
<1>5. cd_client_frame[s] = -1 /\ cd_is_connected[s]
      BY <1>0, <1>3, <1>4 DEF OnlyPredicted, Serves, SlotInUse
<1>6. cd_client_frame[s] >= server_frame
      BY <1>2, <1>5 DEF CanSimulate
<1>7. QED
      BY <1>0, <1>5, <1>6

LEMMA ServerQuietReplica ==
    ASSUME RInv, NEW c \in Clients, ServerNext, LogQuiet, ClientKept(c)
    PROVE  ReplicaInv(c)'
<1>0. server_up /\ UNCHANGED <<confirmed, truth, server_frame>>
      BY ServerLog DEF LogQuiet
<1>1. LogGrows
      BY <1>0, LogStays
<1>2. MemoryKept(c) /\ down'[c] = down[c] /\ c_is_initialised'[c] = c_is_initialised[c]
      BY DEF ClientKept, clientVars, frameVars, ringsVars, MemoryKept
<1>3. Remembers(c)' /\ (c_is_initialised[c] => Reached(c)' \in Int /\ Reached(c) <= Reached(c)')
      BY <1>1, <1>2, MemoryKeeps
<1>4. Live' => Live
      BY <1>0 DEF Live, LogQuiet, to_shutdown
<1>5. sim_pc' = "simulate" => sim_pc = "simulate" \/ \A k \in DOMAIN down[c] : down[c][k].type # "INIT"
      BY NoneWaitsForFirst DEF LogQuiet
<1>6. FromLog(c)' /\ (c_is_initialised'[c] => InSequence(c)')
      BY <1>0, <1>2, <1>3, <1>4, <1>5, StreamKept
<1>7. ListenedTo(c)'
      BY <1>2, ServerListens DEF Told
<1>8. QED
      BY <1>3, <1>6, <1>7 DEF ReplicaInv, Remembers

LEMMA QuietInputs ==
    ASSUME RInv, NEW c \in Clients, ServerNext, UNCHANGED clientVars, down'[c] = down[c]
    PROVE  PossibleInputs(c)'
<1>1. PossibleInputs(c) /\ NInv
      BY DEF RInv, RollbackInv, PossibleOnly
<1>2. UNCHANGED <<c_out, c_events>>
      BY DEF clientVars, ringsVars
<1>3. \A k \in DOMAIN up'[c] : \E j \in DOMAIN up[c] : up'[c][k] = up[c][j]
      BY <1>1, InputsTaken
<1>4. QED
      BY <1>1, <1>2, <1>3 DEF PossibleInputs

(***************************************************************************)
(* The first message is sent: the end of the log, which does not grow      *)
(* before the client has answered it.                                      *)
(***************************************************************************)
LEMMA SendInitReplica ==
    ASSUME RInv, NEW s \in Slots, ThreadSendInit(s), UNCHANGED clientVars
    PROVE  \A c \in Clients : ReplicaInv(c)' /\ PossibleInputs(c)'
<1>0. /\ RollbackInv /\ NInv /\ TypeOK /\ NetworkTypeOK /\ SlotInUse /\ SimReady /\ server_up
      /\ thread_msg \in [Slots -> InitMessage \cup {NoMessage}] /\ ServerNext
      /\ down \in [Clients -> Seq(InitMessage \cup EventsMessage)] /\ server_frame \in Nat
      BY LogFacts DEF RInv, NInv, NetcodeInv, ServerInv, TypeOK, NetworkTypeOK, ServerTypeOK, ThreadSendInit, ThreadStep,
                      ServerNext, ServerThreads, ClientThread
<1> DEFINE fd == cd_fd[s]
           m == thread_msg[s]
<1>1. /\ thread_pc[s] = "send_init" /\ fd \in Clients /\ m \in InitMessage /\ cd_client_frame[s] = -1
      /\ down' = (IF client_end[fd] = "open" THEN [down EXCEPT ![fd] = Append(down[fd], m)] ELSE down)
      /\ UNCHANGED <<up, client_end, server_end, confirmed, truth, server_frame, sim_pc, game_states, listening>>
      BY <1>0 DEF ThreadSendInit, ThreadStep, SlotInUse, Delivered, ringVars
<1>2. LogQuiet
      BY <1>1 DEF LogQuiet
<1>3. ASSUME NEW c \in Clients, down'[c] = down[c] PROVE ReplicaInv(c)' /\ PossibleInputs(c)'
      BY <1>0, <1>1, <1>2, <1>3, ServerQuietReplica, QuietInputs DEF ClientKept
<1>4. ASSUME NEW c \in Clients, c = fd, client_end[c] = "open" PROVE ReplicaInv(c)' /\ PossibleInputs(c)'
  <2> DEFINE q == down[c]
  <2>1. /\ m.type = "INIT" /\ m.frame = server_frame /\ m.state = truth[server_frame + 1]
        /\ m.events \in PossibleEvents /\ Len(confirmed) = server_frame
        BY <1>0, <1>1, LogFacts DEF InitMessage, RollbackInv, TellsTheEnd, PossibleOnly
  <2>2. sim_pc # "simulate"
        BY <1>0, <1>1, <1>4 DEF SimReady
  <2>3. ~c_is_initialised[c] /\ ~c_is_initialised'[c] /\ c_issued[c] = <<>> /\ c_issued'[c] = <<>>
    <3>1. ClientInv(c) /\ ReplicaInv(c)
          BY <1>0, <1>1, <1>4 DEF RollbackInv, NInv, NetcodeInv
    <3>2. ~Told(c)
          BY <1>1, <1>4, <3>1 DEF ClientInv, ToldOnce, NotYetTold
    <3>3. UNCHANGED <<c_is_initialised, c_issued>>
          BY DEF clientVars
    <3>4. QED
          BY <3>1, <3>2, <3>3 DEF Told, ReplicaInv
  <2>4. q \in Seq(InitMessage \cup EventsMessage) /\ m \in InitMessage \cup EventsMessage
        BY <1>0, <1>1, <1>4
  <2>5. down'[c] = Append(q, m)
        BY <1>0, <1>1, <1>4
  <2> HIDE DEF q, m
  <2>6. /\ Len(q) \in Nat /\ DOMAIN q = 1 .. Len(q)
        /\ DOMAIN down'[c] = 1 .. Len(q) + 1
        /\ \A k \in 1 .. Len(q) : down'[c][k] = q[k]
        /\ down'[c][Len(q) + 1] = m
        BY <2>4, <2>5, AppendProperties, LenProperties
  <2>7. ASSUME NEW k \in DOMAIN down'[c] PROVE (k \in DOMAIN q /\ down'[c][k] = q[k]) \/ down'[c][k] = m
        BY <2>6, <2>7
  <2>8. FromLog(c)'
    <3>1. FromLog(c)
          BY <1>0, <1>1, <1>4 DEF RollbackInv, ReplicaInv
    <3>2. ASSUME NEW k \in DOMAIN down'[c]
          PROVE  /\ down'[c][k].type = "INIT" =>
                        /\ down'[c][k].frame = Len(confirmed)
                        /\ down'[c][k].state = truth[down'[c][k].frame + 1]
                        /\ sim_pc # "simulate"
                 /\ down'[c][k].type = "EVENTS" =>
                        /\ down'[c][k].frame < Len(confirmed)
                        /\ down'[c][k].events = confirmed[down'[c][k].frame + 1]
      <4>1. CASE k \in DOMAIN q /\ down'[c][k] = q[k]
            BY <3>1, <4>1 DEF FromLog, q
      <4>2. CASE down'[c][k] = m
            BY <2>1, <2>2, <4>2
      <4>3. QED
            BY <2>7, <3>2, <4>1, <4>2
    <3>3. QED
          BY SMTT(30), <1>1, <3>2 DEF FromLog
  <2>9. ListenedTo(c)'
        BY <1>0, <1>1, <1>4, ServerListens
  <2>10. PossibleInputs(c)'
    <3>1. PossibleInputs(c) /\ UNCHANGED <<c_out, c_events>>
          BY <1>0, <1>1, <1>4 DEF RollbackInv, PossibleOnly, clientVars, ringsVars
    <3>2. ASSUME NEW k \in DOMAIN down'[c] PROVE down'[c][k].events \in PossibleEvents
      <4>1. CASE k \in DOMAIN q /\ down'[c][k] = q[k]
            BY <3>1, <4>1 DEF PossibleInputs, q
      <4>2. QED
            BY <2>1, <2>7, <3>2, <4>1
    <3>3. QED
          BY <1>1, <3>1, <3>2 DEF PossibleInputs
  <2>11. QED
         BY <2>3, <2>8, <2>9, <2>10 DEF ReplicaInv
<1>5. ASSUME NEW c \in Clients PROVE ReplicaInv(c)' /\ PossibleInputs(c)'
  <2>1. c # fd \/ client_end[c] # "open" => down'[c] = down[c]
        BY <1>0, <1>1
  <2>2. QED
        BY <1>3, <1>4, <2>1
<1>6. QED
      BY <1>5

-------------------------------------------------------------------------------
(***************************************************************************)
(* A frame is simulated and sent to some of the clients, or to all: the    *)
(* stream of each goes on where it stopped.                                *)
(***************************************************************************)
\* Who is listened to is reached by the broadcast (gameserver.c:422 to 441).
LEMMA BroadcastReaches ==
    ASSUME NInv, NEW c \in Clients, ListenedTo(c), Told(c), server_up, ~to_shutdown
    PROVE  Copies(BroadcastTo, c) >= 1
<1> DEFINE reached == {s \in BroadcastTo : cd_fd[s] = c}
<1>1. PICK s \in Slots : thread_pc[s] = "listen" /\ cd_fd[s] = c /\ server_end[c] = "open"
      BY DEF ListenedTo
<1>2. cd_is_connected[s] /\ c # NoFd
      BY <1>1, NetworkAssumption DEF NInv, NetcodeInv, ServerInv, SlotInUse
<1>3. s \in reached
      BY <1>1, <1>2 DEF BroadcastTo
<1>4. IsFiniteSet(reached)
  <2>1. IsFiniteSet(Slots)
        BY FS_Interval, GlobalsAssumption DEF Slots
  <2>2. reached \subseteq Slots
        BY DEF BroadcastTo
  <2>3. QED
        BY <2>1, <2>2, FS_Subset
<1> HIDE DEF reached
<1>5. Cardinality(reached) \in Nat /\ Cardinality(reached) # 0
      BY <1>3, <1>4, FS_CardinalityType, FS_EmptySet
<1>6. client_end[c] = "open"
      BY DEF NInv, NetcodeInv, ClientInv, UsesOpenEnd, Told
<1>7. Copies(BroadcastTo, c) = Cardinality(reached)
      BY <1>6 DEF Copies, reached
<1>8. QED
      BY <1>5, <1>7

LEMMA BroadcastReplica ==
    ASSUME RInv, NEW c \in Clients, ServerNext, UNCHANGED clientVars, SimSimulating,
           NEW slots \in SUBSET Slots,
           down' = Broadcast(slots, FrameGameEvents(server_frame, CurrentEvents)),
           server_frame' \in {server_frame, server_frame + 1},
           Live' => ~to_shutdown /\ slots = BroadcastTo
    PROVE  ReplicaInv(c)' /\ PossibleInputs(c)'
<1> DEFINE m == FrameGameEvents(server_frame, CurrentEvents)
           n == Copies(slots, c)
           len == Len(down[c])
<1>0. /\ NInv /\ TypeOK /\ RollbackInv /\ ReplicaInv(c) /\ server_frame \in Nat
      /\ server_up /\ sim_pc = "simulate"
      BY LogFacts DEF RInv, NInv, RollbackInv, SimSimulating
<1>1. /\ m.type = "EVENTS" /\ m.frame = server_frame /\ m.events = CurrentEvents
      BY DEF FrameGameEvents
<1>2. /\ LogGrows /\ Len(confirmed) = server_frame /\ Len(confirmed') = server_frame + 1
      /\ confirmed'[server_frame + 1] = CurrentEvents
      BY LogAppended
<1>3. MemoryKept(c) /\ c_is_initialised'[c] = c_is_initialised[c] /\ UNCHANGED <<c_out, c_events>>
      BY DEF clientVars, frameVars, ringsVars, MemoryKept
<1>4. Remembers(c)' /\ (c_is_initialised[c] => Reached(c)' \in Int /\ Reached(c) <= Reached(c)')
      BY <1>2, <1>3, MemoryKeeps
<1>5. /\ n \in Nat /\ len \in Nat /\ DOMAIN down[c] = 1 .. len
      /\ Len(down'[c]) = len + n /\ DOMAIN down'[c] = 1 .. len + n
      /\ \A k \in 1 .. len : down'[c][k] = down[c][k]
      /\ \A k \in 1 .. len + n : k > len => down'[c][k] = m
      BY <1>0, BroadcastShape
<1>6. \A k \in 1 .. len : down[c][k].frame \in Nat
      BY <1>0, DownFrames
<1>7. CurrentEvents \in PossibleEvents
      BY <1>0, RingType DEF RollbackInv, PossibleOnly, CurrentEvents
<1> HIDE DEF m, n, len
<1>8. ASSUME NEW k \in DOMAIN down'[c]
      PROVE  (k \in DOMAIN down[c] /\ down'[c][k] = down[c][k]) \/ (k > len /\ down'[c][k] = m)
      BY <1>5, <1>8
<1>9. Told(c)' => Told(c)
      BY <1>1, <1>3, <1>8 DEF Told
<1>10. FromLog(c)'
  <2>1. ASSUME NEW k \in DOMAIN down'[c]
        PROVE  /\ down'[c][k].type # "INIT"
               /\ down'[c][k].type = "EVENTS" => /\ down'[c][k].frame < Len(confirmed')
                                                 /\ down'[c][k].events = confirmed'[down'[c][k].frame + 1]
    <3>1. CASE k \in DOMAIN down[c] /\ down'[c][k] = down[c][k]
      <4>1. /\ down[c][k].type # "INIT"
            /\ down[c][k].type = "EVENTS" => /\ down[c][k].frame < Len(confirmed)
                                             /\ down[c][k].events = confirmed[down[c][k].frame + 1]
            BY <1>0, <3>1 DEF ReplicaInv, FromLog
      <4>2. down[c][k].frame \in Nat
            BY <1>5, <1>6, <3>1
      <4>3. ASSUME down[c][k].frame < Len(confirmed)
            PROVE  /\ down[c][k].frame < Len(confirmed')
                   /\ confirmed'[down[c][k].frame + 1] = confirmed[down[c][k].frame + 1]
            BY <1>0, <1>2, <4>2, <4>3 DEF LogGrows
      <4>4. QED
            BY <3>1, <4>1, <4>3
    <3>2. CASE down'[c][k] = m
          BY <1>0, <1>1, <1>2, <3>2
    <3>3. QED
          BY <1>8, <2>1, <3>1, <3>2
  <2>2. QED
        BY <2>1 DEF FromLog
<1>11. ASSUME c_is_initialised[c] PROVE InSequence(c)'
  <2>1. /\ Reached(c) \in Int /\ Reached(c)' \in Int /\ Reached(c) <= Reached(c)'
        BY <1>0, <1>4, <1>11, ReachedFacts
  <2>2. /\ \A k \in DOMAIN down[c] :
              down[c][k].frame <= (IF k = 1 THEN Reached(c) ELSE down[c][k - 1].frame) + 1
        /\ server_frame <= (IF len + 1 = 1 THEN Reached(c) ELSE down[c][len + 1 - 1].frame) + 1
    <3>1. InSequence(c)
          BY <1>0, <1>11 DEF ReplicaInv
    <3>2. QED
          BY <1>0, <3>1 DEF InSequence, len
  <2>3. ASSUME NEW k \in DOMAIN down'[c]
        PROVE  down'[c][k].frame <= (IF k = 1 THEN Reached(c)' ELSE down'[c][k - 1].frame) + 1
    <3>1. CASE k \in DOMAIN down[c] /\ down'[c][k] = down[c][k]
      <4>1. k = 1 \/ (k - 1 \in 1 .. len /\ down'[c][k - 1] = down[c][k - 1])
            BY <1>5, <3>1
      <4>2. down[c][k].frame \in Nat /\ (k # 1 => down[c][k - 1].frame \in Nat)
            BY <1>5, <1>6, <3>1, <4>1
      <4>3. down[c][k].frame <= (IF k = 1 THEN Reached(c) ELSE down[c][k - 1].frame) + 1
            BY <2>2, <3>1
      <4>4. QED
            BY <2>1, <3>1, <4>1, <4>2, <4>3
    <3>2. CASE k = len + 1 /\ down'[c][k] = m
      <4>0. len = 0 \/ len \in 1 .. len
            BY <1>5
      <4>1. len = 0 \/ (len \in 1 .. len /\ down'[c][len] = down[c][len] /\ down[c][len].frame \in Nat)
            BY <1>5, <1>6, <4>0
      <4>2. len + 1 - 1 = len /\ k - 1 = len /\ (k = 1 <=> len = 0) /\ (len + 1 = 1 <=> len = 0)
            BY <1>5, <3>2
      <4>3. server_frame <= (IF len = 0 THEN Reached(c) ELSE down[c][len].frame) + 1
            BY <2>2, <4>2
      <4>4. QED
            BY <1>0, <1>1, <2>1, <3>2, <4>1, <4>2, <4>3
    <3>3. CASE k > len + 1 /\ down'[c][k] = m
      <4>1. k # 1 /\ k - 1 \in 1 .. len + n /\ k - 1 > len
            BY <1>5, <2>3, <3>3
      <4>2. down'[c][k - 1] = m
            BY <1>5, <4>1
      <4>3. QED
            BY <1>0, <1>1, <3>3, <4>1, <4>2
    <3>4. QED
          BY <1>5, <1>8, <2>3, <3>1, <3>2, <3>3
  <2>4. ASSUME Live'
        PROVE  server_frame' <= (IF Len(down'[c]) + 1 = 1 THEN Reached(c)'
                                 ELSE down'[c][Len(down'[c]) + 1 - 1].frame) + 1
    <3>1. n >= 1
          BY <1>0, <1>11, <2>4, BroadcastReaches DEF ReplicaInv, Told, n
    <3>2. /\ Len(down'[c]) + 1 # 1 /\ Len(down'[c]) + 1 - 1 = len + n
          /\ len + n \in 1 .. len + n /\ len + n > len
          BY <1>5, <3>1
    <3>3. down'[c][len + n] = m
          BY <1>5, <3>2
    <3>4. server_frame' <= server_frame + 1
          BY <1>0
    <3>5. QED
          BY <1>1, <3>2, <3>3, <3>4
  <2>5. QED
        BY <2>3, <2>4 DEF InSequence, Live
<1>12. ListenedTo(c)'
       BY <1>9, ServerListens
<1>13. PossibleInputs(c)'
  <2>1. PossibleInputs(c)
        BY <1>0 DEF RollbackInv, PossibleOnly
  <2>2. \A k \in DOMAIN up'[c] : \E j \in DOMAIN up[c] : up'[c][k] = up[c][j]
        BY <1>0, InputsTaken
  <2>3. \A k \in DOMAIN down'[c] : down'[c][k].events \in PossibleEvents
        BY <1>1, <1>7, <1>8, <2>1 DEF PossibleInputs
  <2>4. QED
        BY <1>3, <2>1, <2>2, <2>3 DEF PossibleInputs
<1>14. QED
       BY <1>3, <1>4, <1>10, <1>11, <1>12, <1>13 DEF ReplicaInv, Remembers

-------------------------------------------------------------------------------
(***************************************************************************)
(* Every step keeps the invariant.                                         *)
(***************************************************************************)
LEMMA SimulationReplica ==
    ASSUME RInv, NEW c \in Clients, SimStep \/ SimKills, UNCHANGED clientVars
    PROVE  ReplicaInv(c)' /\ PossibleInputs(c)'
<1> DEFINE m == FrameGameEvents(server_frame, CurrentEvents)
<1>0. ServerNext /\ SimSimulating
      BY DEF ServerNext, ServerThreads, SimulationThread, SimStep, SimKills
<1>1. CASE SimStep
  <2>1. /\ down' = Broadcast(BroadcastTo, m) /\ server_frame' = server_frame + 1
        /\ sim_pc' = "test" /\ UNCHANGED listening
        BY <1>1 DEF SimStep
  <2>2. BroadcastTo \in SUBSET Slots /\ (Live' => ~to_shutdown)
        BY <2>1 DEF BroadcastTo, Live, to_shutdown
  <2>3. QED
        BY <1>0, <2>1, <2>2, BroadcastReplica
<1>2. CASE SimKills
  <2>1. PICK s \in Slots : down' = Broadcast({t \in BroadcastTo : t < s}, m)
        BY <1>2 DEF SimKills
  <2> DEFINE slots == {t \in BroadcastTo : t < s}
  <2>2. /\ slots \in SUBSET Slots /\ down' = Broadcast(slots, m)
        BY <2>1 DEF BroadcastTo
  <2>3. server_frame' = server_frame /\ ~Live'
        BY <1>2 DEF SimKills, ServerDies, Live
  <2> HIDE DEF slots
  <2>4. QED
        BY <1>0, <2>2, <2>3, BroadcastReplica
<1>3. QED
      BY <1>1, <1>2

LEMMA ServerKeepsRollback ==
    ASSUME RInv, ServerNext, UNCHANGED clientVars
    PROVE  RollbackInv'
<1>0. NInv /\ (SimStep \/ SimKills \/ LogQuiet)
      BY ServerLog DEF RInv
<1>1. ASSUME LogQuiet, \A c \in Clients : ClientKept(c)
      PROVE  \A c \in Clients : ReplicaInv(c)' /\ PossibleInputs(c)'
      BY <1>1, ServerQuietReplica, QuietInputs DEF ClientKept
<1>2. ASSUME NEW c \in Clients,
             \/ AcceptThread \/ BeginShutdown \/ ServerShutdown
             \/ SimTest \/ SimTestLate \/ SimStops \/ SimSpuriousWakeup
             \/ \E s \in Slots : ClientThread(s) /\ ~ThreadSendInit(s)
      PROVE  ClientKept(c)
      BY <1>0, <1>2, AcceptQuiet, ThreadQuiet, SimQuiet, MainQuiet DEF Quiet
<1>3. \A c \in Clients : ReplicaInv(c)' /\ PossibleInputs(c)'
  <2>1. CASE SimStep \/ SimKills
        BY <2>1, SimulationReplica
  <2>2. CASE \E s \in Slots : ThreadSendInit(s)
        BY <2>2, SendInitReplica
  <2>3. CASE LogQuiet /\ ~\E s \in Slots : ThreadSendInit(s)
    <3>1. \/ AcceptThread \/ BeginShutdown \/ ServerShutdown
          \/ SimTest \/ SimTestLate \/ SimStops \/ SimSpuriousWakeup \/ SimStep \/ SimKills
          \/ \E s \in Slots : ClientThread(s) /\ ~ThreadSendInit(s)
          BY <2>3 DEF ServerNext, ServerThreads, SimulationThread
    <3>2. QED
          BY <1>1, <1>2, <2>1, <2>3, <3>1
  <2>4. QED
        BY <1>0, <2>1, <2>2, <2>3
<1>4. PossibleOnly'
      BY <1>3, EventsMade DEF PossibleOnly
<1>5. QED
      BY <1>3, <1>4, LogInvKept, EndKeptForNew DEF RollbackInv

LEMMA RollbackInit == Init => RInv
<1> SUFFICES ASSUME Init PROVE RInv
    OBVIOUS
<1>0. NInv
      BY NetcodeInit
<1>1. /\ confirmed = <<>> /\ truth = <<InitialState>> /\ server_frame = 0 /\ server_up
      /\ sim_pc # "simulate" /\ game_states = [r \in RingIndex |-> InitialState]
      /\ game_events = [r \in RingIndex |-> NoEvents]
      /\ \A s \in Slots : thread_pc[s] = "none"
      /\ \A c \in Clients : /\ up[c] = <<>> /\ down[c] = <<>> /\ c_out[c] = NoInput
                            /\ c_events[c] = [r \in RingIndex |-> NoEvents]
                            /\ c_is_initialised[c] = FALSE /\ c_issued[c] = <<>>
      BY DEF Init, NetworkInit, ServerInit, ClientInit
<1>2. LogInv
  <2>1. Len(confirmed) = 0 /\ Len(truth) = 1 /\ truth[1] = InitialState
        BY <1>1
  <2>2. Ring(0) \in RingIndex
        BY RingType
  <2>3. QED
        BY <1>1, <2>1, <2>2 DEF LogInv
<1>3. PossibleOnly /\ TellsTheEnd
      BY <1>1, NoEventsPossible DEF PossibleOnly, PossibleInputs, TellsTheEnd
<1>4. ASSUME NEW c \in Clients PROVE ReplicaInv(c)
      BY <1>1 DEF ReplicaInv, FromLog, ListenedTo, Told
<1>5. QED
      BY <1>0, <1>2, <1>3, <1>4 DEF RInv, RollbackInv

LEMMA RollbackStutter ==
    ASSUME RollbackInv, UNCHANGED vars
    PROVE  RollbackInv'
<1>0. UNCHANGED <<networkVars, serverVars, clientVars>>
      BY DEF vars
<1>1. /\ UNCHANGED <<up, down, client_end, server_end, server_up, listening, confirmed, truth, server_frame,
                     game_states, game_events, sim_pc, thread_pc, thread_msg, cd_fd>>
      /\ UNCHANGED <<c_main_pc, c_recv_pc, c_is_initialised, c_client_index, c_sync_frame, c_server_frame,
                     c_client_frame, c_states, c_events, c_resim, c_out, c_joined, c_issued>>
      BY <1>0 DEF networkVars, serverVars, slotVars, threadVars, ringVars, clientVars, frameVars, ringsVars
<1>2. LogInv'
      BY <1>1 DEF RollbackInv, LogInv
<1>3. PossibleOnly' /\ TellsTheEnd'
      BY <1>1 DEF RollbackInv, PossibleOnly, PossibleInputs, TellsTheEnd
<1>4. ASSUME NEW c \in Clients PROVE ReplicaInv(c)'
  <2>1. ReplicaInv(c)
        BY DEF RollbackInv
  <2>2. (FromLog(c) /\ ListenedTo(c))'
        BY <1>1, <2>1 DEF ReplicaInv, FromLog, ListenedTo, Told, to_shutdown
  <2>3. c_is_initialised[c] => InSequence(c)'
        BY <1>1, <2>1 DEF ReplicaInv, InSequence, Reached, FirstHeld, to_shutdown
  <2>4. c_is_initialised[c] => EventsHeld(c)' /\ InputsKept(c)'
        BY <1>1, <2>1 DEF ReplicaInv, EventsHeld, Received, InRing, InputsKept, Issued
  <2>5. c_is_initialised[c] => StatesFresh(c)' /\ (c_joined[c] = 0 => Agrees(c)')
        BY <1>1, <2>1 DEF ReplicaInv, StatesFresh, Agrees
  <2>6. QED
        BY <1>1, <2>1, <2>2, <2>3, <2>4, <2>5 DEF ReplicaInv
<1>5. QED
      BY <1>2, <1>3, <1>4 DEF RollbackInv

LEMMA RollbackNext == RInv /\ [Next]_vars => RInv'
<1> SUFFICES ASSUME RInv, [Next]_vars PROVE RInv'
    OBVIOUS
<1>1. NInv'
      BY NetcodeNext DEF RInv
<1>2. ASSUME ServerNext, UNCHANGED clientVars PROVE RollbackInv'
      BY <1>2, ServerKeepsRollback
<1>3. ASSUME ClientNext, UNCHANGED serverVars PROVE RollbackInv'
  <2>1. PICK c \in Clients : ClientStep(c)
        BY <1>3 DEF ClientNext, ClientStep
  <2>2. QED
        BY <2>1, ClientKeepsRollback
<1>4. ASSUME UNCHANGED vars PROVE RollbackInv'
      BY <1>4, RollbackStutter DEF RInv
<1>5. RollbackInv'
      BY <1>2, <1>3, <1>4 DEF Next
<1>6. QED
      BY <1>1, <1>5 DEF RInv

LEMMA RollbackInvariant == Spec => []RInv
BY RollbackInit, RollbackNext, PTL DEF Spec

-------------------------------------------------------------------------------
(***************************************************************************)
(* The invariant that the runs check is one, whatever the constants.       *)
(***************************************************************************)
THEOREM RollbackInvariantHolds == Spec => []RollbackInv
<1>1. RInv => RollbackInv
      BY DEF RInv
<1>2. QED
      BY RollbackInvariant, <1>1, PTL

(***************************************************************************)
(* What a client holds of the confirmed frames is what the server          *)
(* simulated (gameclient.c:163 to 172, client/main.c:98 to 100), however   *)
(* predictions, messages and the clearing of ring entries interleave.      *)
(***************************************************************************)
THEOREM ConfirmedEventsKept == Spec => []ConfirmedKept
<1>1. RInv => ConfirmedKept
  <2> SUFFICES ASSUME RInv, NEW c \in Clients, c_is_initialised[c],
                      NEW f \in c_joined[c] + 1 .. c_server_frame[c], InRing(c, f)
               PROVE  c_events[c][Ring(f)] = confirmed[f + 1]
      BY DEF ConfirmedKept
  <2>1. c_joined[c] \in Nat /\ c_server_frame[c] \in Nat /\ EventsHeld(c)
        BY FrameFacts DEF RInv, RollbackInv, ReplicaInv
  <2>2. f \in Received(c)
        BY <2>1 DEF Received
  <2>3. QED
        BY <2>1, <2>2 DEF EventsHeld
<1>2. QED
      BY RollbackInvariant, <1>1, PTL

(***************************************************************************)
(* The player's own inputs stay in the ring until the server's events      *)
(* replace them (gameclient.c:172, client/main.c:84 to 100).               *)
(***************************************************************************)
THEOREM PredictionsKept == Spec => []PredictionKept
<1>1. RInv => PredictionKept
      BY DEF RInv, RollbackInv, ReplicaInv, InputsKept, PredictionKept
<1>2. QED
      BY RollbackInvariant, <1>1, PTL

(***************************************************************************)
(* Rollback works (gameclient.c:195 to 218): a client that joined at frame *)
(* 0 agrees with the server on the last frame confirmed to it.             *)
(***************************************************************************)
THEOREM ClientsFollowServer == Spec => []FollowsServer
<1>1. RInv => FollowsServer
      BY DEF RInv, RollbackInv, ReplicaInv, FollowsServer, Settled
<1>2. QED
      BY RollbackInvariant, <1>1, PTL

(***************************************************************************)
(* What the player sees follows from the confirmed state by the events in  *)
(* the ring, and is no stale prediction (gameclient.c:208 to 218).         *)
(***************************************************************************)
THEOREM PredictionsFresh == Spec => []PredictionFresh
<1>1. RInv => PredictionFresh
      BY DEF RInv, RollbackInv, ReplicaInv, StatesFresh, PredictionFresh, Settled
<1>2. QED
      BY RollbackInvariant, <1>1, PTL

-------------------------------------------------------------------------------
(***************************************************************************)
(* The refinement: every step of the netcode is a step of the replicated   *)
(* log, or leaves the log and the replicas as they are.                    *)
(***************************************************************************)
\* The log plays by the same rules.
LEMMA LogRules ==
    /\ Log!InitialState = InitialState
    /\ \A state, events : Log!GameSimulate(state, events) = GameSimulate(state, events)
<1> USE DEF Log!Slots, Slots
<1>1. Log!InitialState = InitialState
      BY DEF Log!InitialState, InitialState
<1>2. ASSUME NEW player, NEW event PROVE Log!HandleEvent(player, event) = HandleEvent(player, event)
      BY DEF Log!HandleEvent, HandleEvent, Log!Spawned, Spawned
<1>3. ASSUME NEW player, NEW input PROVE Log!HandleMovement(player, input) = HandleMovement(player, input)
      BY DEF Log!HandleMovement, HandleMovement, Log!Held, Held
<1>4. ASSUME NEW state, NEW events PROVE Log!GameSimulate(state, events) = GameSimulate(state, events)
      BY <1>2, <1>3 DEF Log!GameSimulate, GameSimulate
<1>5. QED
      BY <1>1, <1>4

\* One client's replica, and what becomes of the others.
LEMMA ReplicaIs ==
    ASSUME NEW c \in Clients
    PROVE  Replicas[c] = IF c_is_initialised[c]
                         THEN [joined |-> c_joined[c], frame |-> c_sync_frame[c],
                               state |-> c_states[c][Ring(c_sync_frame[c])]]
                         ELSE Log!Away
BY LogRules DEF Replicas, Log!Away

LEMMA ReplicaNext ==
    ASSUME NEW c \in Clients
    PROVE  Replicas'[c] = IF c_is_initialised'[c]
                          THEN [joined |-> c_joined'[c], frame |-> c_sync_frame'[c],
                                state |-> c_states'[c][Ring(c_sync_frame'[c])]]
                          ELSE Log!Away
BY LogRules DEF Replicas, Log!Away

LEMMA ReplicasMove ==
    ASSUME RInv, NEW c \in Clients, ClientStep(c)
    PROVE  Replicas' = [Replicas EXCEPT ![c] = Replicas'[c]]
<1>1. ASSUME NEW d \in Clients, d # c PROVE Replicas'[d] = Replicas[d]
  <2>1. OtherKept(d)
        BY <1>1, OthersKept DEF RInv, NInv
  <2>2. QED
        BY <2>1, ReplicaIs, ReplicaNext DEF OtherKept
<1>2. Replicas = [d \in Clients |-> Replicas[d]] /\ Replicas' = [d \in Clients |-> Replicas'[d]]
      BY DEF Replicas
<1>3. QED
      BY <1>1, <1>2

LEMMA ReplicaAdvances ==
    ASSUME RInv, NEW c \in Clients, ResimStep(c), UNCHANGED serverVars
    PROVE  Log!Advance(c) \/ UNCHANGED Replicas
<1>0. NInv /\ ClientStep(c) /\ c_recv_pc[c] = "resim" /\ UNCHANGED <<confirmed, truth>>
      BY DEF RInv, ClientStep, RecvThread, ResimStep, serverVars, ringVars
<1>1. UNCHANGED <<c_is_initialised, c_joined>>
      BY DEF ResimStep
<1>2. Replicas' = [Replicas EXCEPT ![c] = Replicas'[c]] /\ Replicas = [d \in Clients |-> Replicas[d]]
      BY <1>0, ReplicasMove DEF Replicas
<1>3. ASSUME Replicas'[c] = Replicas[c] PROVE UNCHANGED Replicas
      BY <1>2, <1>3
<1>4. CASE ~c_is_initialised[c]
      BY <1>1, <1>3, <1>4, ReplicaIs, ReplicaNext
<1>5. CASE c_is_initialised[c]
  <2> DEFINE i == c_resim[c]
             sync == c_sync_frame[c]
             last == c_server_frame[c]
             joined == c_joined[c]
  <2>1. /\ joined \in Nat /\ sync \in Nat /\ last \in Nat /\ c_client_frame[c] \in Nat /\ i \in Nat
        /\ FRAME_BUFFER_SIZE \in Nat /\ FRAME_BUFFER_SIZE >= 2
        /\ joined <= sync /\ i < c_client_frame[c] /\ c_client_frame[c] <= sync + FRAME_BUFFER_SIZE - 1
        /\ \/ sync = last /\ sync <= i
           \/ sync + 1 = last /\ sync = i
        BY <1>0, <1>5, FrameFacts
  <2>2. /\ c_states'[c][Ring(i + 1)] = GameSimulate(c_states[c][Ring(i)], c_events[c][Ring(i)])
        /\ \A r \in RingIndex : r # Ring(i + 1) => c_states'[c][r] = c_states[c][r]
        /\ c_sync_frame'[c] = last
        BY <1>5, ResimComputes
  <2>3. /\ Replicas[c] = [joined |-> joined, frame |-> sync, state |-> c_states[c][Ring(sync)]]
        /\ Replicas'[c] = [joined |-> joined, frame |-> last, state |-> c_states'[c][Ring(last)]]
        BY <1>1, <1>5, <2>2, ReplicaIs, ReplicaNext
  <2>4. CASE sync = last /\ sync <= i
    <3>1. Ring(sync) \in RingIndex /\ Ring(sync) # Ring(i + 1)
          BY <2>1, <2>4, RingType, RingApart
    <3>2. QED
          BY <1>3, <2>2, <2>3, <2>4, <3>1
  <2>5. CASE sync + 1 = last /\ sync = i
    <3> DEFINE events == c_events[c][Ring(sync)]
    <3>1. EventsHeld(c) /\ joined < last /\ sync \in joined .. last
          BY <1>5, <2>1, <2>5 DEF RInv, RollbackInv, ReplicaInv
    <3>2. sync + 1 < Len(confirmed)
          BY <2>5, <3>1 DEF EventsHeld
    <3>3. events \in PossibleEvents
      <4>1. Ring(sync) \in RingIndex
            BY <2>1, RingType
      <4>2. QED
            BY <4>1 DEF RInv, RollbackInv, PossibleOnly, PossibleInputs
    <3>4. ASSUME sync # joined \/ joined = 0 PROVE events = confirmed[sync + 1]
      <4>1. sync \in Received(c) /\ InRing(c, sync)
            BY <2>1, <3>1, <3>4 DEF Received, InRing
      <4>2. QED
            BY <3>1, <4>1 DEF EventsHeld
    <3>5. events \in Log!Applicable(c)
          BY <2>3, <3>3, <3>4 DEF Log!Applicable
    <3>6. Replicas'[c] = [joined |-> Replicas[c].joined, frame |-> Replicas[c].frame + 1,
                          state |-> Log!GameSimulate(Replicas[c].state, events)]
          BY <2>2, <2>3, <2>5, LogRules
    <3>7. Log!Present(c)
          BY <2>1, <2>3 DEF Log!Present
    <3> HIDE DEF events
    <3>8. QED
          BY <1>0, <1>2, <2>3, <3>2, <3>5, <3>6, <3>7 DEF Log!Advance
  <2>6. QED
        BY <2>1, <2>4, <2>5
<1>6. QED
      BY <1>4, <1>5

LEMMA ReplicaJoins ==
    ASSUME RInv, NEW c \in Clients, RecvInitPlayer(c), UNCHANGED serverVars
    PROVE  Log!Join(c)
<1> DEFINE m == Head(down[c])
<1>0. /\ NInv /\ TypeOK /\ ClientTypeOK /\ ClientStep(c) /\ FromLog(c) /\ InFlight(c)
      /\ Receiving(c) /\ UNCHANGED <<confirmed, truth>>
      BY DEF RInv, NInv, NetcodeInv, ClientInv, TypeOK, RollbackInv, ReplicaInv, ClientStep, RecvThread, RecvInitPlayer,
             serverVars, ringVars
<1>1. m.type = "INIT" /\ m = down[c][1] /\ 1 \in DOMAIN down[c] /\ m \in InitMessage \cup EventsMessage
      BY <1>0, HeadTailDown DEF RecvInitPlayer
<1>2. ~c_is_initialised[c] /\ m.frame = Len(confirmed) /\ m.state = truth[m.frame + 1]
      BY <1>0, <1>1 DEF InFlight, FromLog
<1>3. Len(confirmed) \in Nat /\ Len(truth) = Len(confirmed) + 1
      BY LogFacts
<1>4. Ring(m.frame) \in RingIndex
      BY <1>2, <1>3, RingType
<1>5. /\ c_is_initialised'[c] /\ c_joined'[c] = m.frame /\ c_sync_frame'[c] = m.frame
      /\ c_states'[c][Ring(m.frame)] = m.state
  <2> HIDE DEF m
  <2>1. /\ c_is_initialised' = [c_is_initialised EXCEPT ![c] = TRUE]
        /\ c_joined' = [c_joined EXCEPT ![c] = m.frame]
        /\ c_sync_frame' = [c_sync_frame EXCEPT ![c] = m.frame]
        /\ c_states' = [c_states EXCEPT ![c][Ring(m.frame)] = m.state]
        BY DEF RecvInitPlayer, m
  <2>2. QED
        BY <1>0, <1>4, <2>1 DEF ClientTypeOK
<1> HIDE DEF m
<1>6. Replicas'[c] = [joined |-> Len(confirmed), frame |-> Len(confirmed), state |-> truth[Len(truth)]]
      BY <1>2, <1>3, <1>5, ReplicaNext
<1>7. Replicas[c] = Log!Away
      BY <1>2, ReplicaIs
<1>8. Replicas' = [Replicas EXCEPT ![c] = Replicas'[c]]
      BY <1>0, ReplicasMove
<1>9. QED
      BY <1>0, <1>6, <1>7, <1>8 DEF Log!Join, Log!Present, Log!Away

LEMMA ReplicaLeaves ==
    ASSUME RInv, NEW c \in Clients, ClientStep(c), ClientEnds(c)
    PROVE  Log!Leave(c) \/ UNCHANGED Replicas
<1>0. NInv /\ ClientTypeOK /\ UNCHANGED <<confirmed, truth>>
      BY DEF RInv, NInv, TypeOK, ClientStep, serverVars, ringVars
<1>1. Replicas' = [Replicas EXCEPT ![c] = Replicas'[c]] /\ Replicas = [d \in Clients |-> Replicas[d]]
      BY ReplicasMove DEF Replicas
<1>2. ~c_is_initialised'[c]
      BY <1>0 DEF ClientEnds, ClientTypeOK
<1>3. Replicas'[c] = Log!Away
      BY <1>2, ReplicaNext
<1>4. CASE c_is_initialised[c]
  <2>1. c_joined[c] \in Nat
        BY <1>0, <1>4, FrameFacts
  <2>2. Replicas[c] = [joined |-> c_joined[c], frame |-> c_sync_frame[c],
                       state |-> c_states[c][Ring(c_sync_frame[c])]]
        BY <1>4, ReplicaIs
  <2>3. QED
        BY <1>0, <1>1, <1>3, <2>1, <2>2 DEF Log!Leave, Log!Present
<1>5. CASE ~c_is_initialised[c]
  <2>1. Replicas[c] = Log!Away
        BY <1>5, ReplicaIs
  <2>2. QED
        BY <1>1, <1>3, <2>1
<1>6. QED
      BY <1>4, <1>5

\* A prediction does not touch the state the client has confirmed.
LEMMA ReplicaPredicts ==
    ASSUME RInv, NEW c \in Clients, NEW input \in Inputs, ClientPredict(c, input), UNCHANGED serverVars
    PROVE  UNCHANGED Replicas
<1> DEFINE f == c_client_frame[c]
           sync == c_sync_frame[c]
<1>0. /\ NInv /\ ClientTypeOK /\ ClientStep(c) /\ c_is_initialised[c]
      /\ UNCHANGED <<c_is_initialised, c_joined, c_sync_frame>>
      BY DEF RInv, NInv, TypeOK, ClientStep, MainThread, ClientPredict, ClientReady
<1>1. /\ f \in Nat /\ sync \in Nat /\ sync <= f /\ FRAME_BUFFER_SIZE \in Nat
      /\ f < sync + FRAME_BUFFER_SIZE - 1
  <2>1. /\ f \in Nat /\ sync \in Nat /\ sync <= c_server_frame[c] /\ c_server_frame[c] <= f
        /\ c_server_frame[c] \in Nat /\ FRAME_BUFFER_SIZE \in Nat
        BY <1>0, FrameFacts
  <2>2. QED
        BY <2>1 DEF ClientPredict, TooFarAhead
<1>2. Ring(f + 1) \in RingIndex /\ Ring(sync) \in RingIndex /\ Ring(sync) # Ring(f + 1)
      BY <1>1, RingType, RingApart
<1>3. c_states'[c][Ring(sync)] = c_states[c][Ring(sync)]
  <2>1. c_states' = [c_states EXCEPT ![c][Ring(f + 1)] =
            GameSimulate(c_states[c][Ring(f)], [c_events[c][Ring(f)] EXCEPT !.player_inputs[c_client_index[c]] = input])]
        BY DEF ClientPredict
  <2>2. QED
        BY <1>0, <1>2, <2>1 DEF ClientTypeOK
<1>4. Replicas'[c] = Replicas[c]
      BY <1>0, <1>3, ReplicaIs, ReplicaNext
<1>5. Replicas' = [Replicas EXCEPT ![c] = Replicas'[c]] /\ Replicas = [d \in Clients |-> Replicas[d]]
      BY <1>0, ReplicasMove DEF Replicas
<1>6. QED
      BY <1>4, <1>5

LEMMA ClientRefines ==
    ASSUME RInv, NEW c \in Clients, ClientStep(c)
    PROVE  [Log!Next]_(Log!vars)
<1>0. UNCHANGED <<confirmed, truth>> /\ UNCHANGED serverVars
      BY DEF ClientStep, serverVars, ringVars
<1>1. CASE \/ ClientConnect(c) \/ ClientConnected(c) \/ ClientSleeps(c) \/ ClientWakes(c) \/ ClientSend(c)
           \/ ClientSendFails(c) \/ RecvEnd(c) \/ RecvGameEvents(c) \/ RecvUnexpected(c)
  <2>1. UNCHANGED <<c_is_initialised, c_joined, c_sync_frame, c_states>>
        BY <1>1 DEF ClientConnect, ClientConnected, ClientSleeps, ClientWakes, ClientSend, ClientSendFails, RecvEnd,
                    RecvGameEvents, RecvUnexpected, frameVars, ringsVars
  <2>2. UNCHANGED Replicas
        BY <2>1 DEF Replicas
  <2>3. QED
        BY <1>0, <2>2 DEF Log!vars
<1>2. ASSUME NEW input \in Inputs, ClientPredict(c, input) PROVE [Log!Next]_(Log!vars)
      BY <1>0, <1>2, ReplicaPredicts DEF Log!vars
<1>3. CASE RecvInitPlayer(c)
      BY <1>0, <1>3, ReplicaJoins DEF Log!Next
<1>4. CASE ResimStep(c)
      BY <1>0, <1>4, ReplicaAdvances DEF Log!Next, Log!vars
<1>5. CASE ClientEnds(c)
      BY <1>0, <1>5, ReplicaLeaves DEF Log!Next, Log!vars
<1>6. QED
      BY <1>1, <1>2, <1>3, <1>4, <1>5
      DEF ClientStep, MainThread, RecvThread, ClientSendKills, ClientShutdown, RecvMisread

LEMMA ServerRefines ==
    ASSUME RInv, ServerNext, UNCHANGED clientVars
    PROVE  [Log!Next]_(Log!vars)
<1>0. UNCHANGED Replicas
      BY DEF Replicas, clientVars, frameVars, ringsVars
<1>1. CASE SimStep \/ SimKills
  <2>1. SimSimulating /\ sim_pc = "simulate"
        BY <1>1 DEF SimStep, SimKills, SimSimulating
  <2>2. /\ Len(confirmed) = server_frame /\ server_frame < MaxFrame /\ server_frame \in Nat
        /\ Len(truth) = server_frame + 1
        /\ confirmed' = Append(confirmed, CurrentEvents) /\ truth' = Append(truth, NextState)
    <3>1. server_frame < MaxFrame
          BY <2>1 DEF RInv, RollbackInv, LogInv
    <3>2. QED
          BY <2>1, <3>1, LogFacts, LogAppended DEF SimSimulating
  <2>3. NextState = Log!GameSimulate(truth[Len(truth)], CurrentEvents)
    <3>1. NextState = GameSimulate(truth[server_frame + 1], CurrentEvents)
          BY <2>1, LogAppended
    <3>2. QED
          BY <2>2, <3>1, LogRules
  <2>4. CurrentEvents \in PossibleEvents
        BY <2>2, RingType DEF CurrentEvents, RInv, RollbackInv, PossibleOnly
  <2>5. Log!Confirm(CurrentEvents)
        BY <1>0, <2>2, <2>3 DEF Log!Confirm
  <2>6. QED
        BY <2>4, <2>5 DEF Log!Next
<1>2. CASE LogQuiet
      BY <1>0, <1>2 DEF LogQuiet, Log!vars
<1>3. QED
      BY <1>1, <1>2, ServerLog

(***************************************************************************)
(* The netcode implements the replicated log, at every step of every       *)
(* thread: the server only appends to it (gameserver.c:387 to 404), a      *)
(* client starts from its end and then takes its entries one by one        *)
(* (gameclient.c:130 to 147, 195 to 206).                                  *)
(***************************************************************************)
THEOREM NetcodeReplicates == Spec => Replicates
<1>1. Init => Log!Init
  <2> SUFFICES ASSUME Init PROVE Log!Init
      OBVIOUS
  <2>1. confirmed = <<>> /\ truth = <<InitialState>> /\ \A c \in Clients : ~c_is_initialised[c]
        BY DEF Init, ServerInit, ClientInit
  <2>2. Replicas = [c \in Clients |-> Log!Away]
        BY <2>1, LogRules DEF Replicas, Log!Away
  <2>3. QED
        BY <2>1, <2>2, LogRules DEF Log!Init
<1>2. RInv /\ [Next]_vars => [Log!Next]_(Log!vars)
  <2> SUFFICES ASSUME RInv, [Next]_vars PROVE [Log!Next]_(Log!vars)
      OBVIOUS
  <2>1. CASE ServerNext /\ UNCHANGED clientVars
        BY <2>1, ServerRefines
  <2>2. CASE ClientNext /\ UNCHANGED serverVars
        BY <2>2, ClientRefines DEF ClientNext, ClientStep
  <2>3. CASE UNCHANGED vars
    <3>1. UNCHANGED <<confirmed, truth, c_is_initialised, c_joined, c_sync_frame, c_states>>
          BY <2>3 DEF vars, serverVars, ringVars, clientVars, frameVars, ringsVars
    <3>2. QED
          BY <3>1 DEF Log!vars, Replicas
  <2>4. QED
        BY <2>1, <2>2, <2>3 DEF Next
<1>3. QED
      BY RollbackInvariant, <1>1, <1>2, PTL DEF Spec, Replicates, Log!Spec

(***************************************************************************)
(* What the log promises therefore holds of the netcode at every step, not *)
(* only between two messages: the replica of a client that joined at frame *)
(* 0 is the server's state of its frame (gameserver.c:393, gameclient.c:   *)
(* 195 to 206).                                                            *)
(***************************************************************************)
THEOREM NetcodeFaithful == Spec => []Log!Faithful
<1>1. RInv => Log!Faithful
  <2> SUFFICES ASSUME RInv PROVE Log!Faithful
      OBVIOUS
  <2>1. Log!Replays
        BY LogRules DEF RInv, RollbackInv, LogInv, Log!Replays
  <2>2. ASSUME NEW c \in Clients, Log!Present(c), Replicas[c].joined = 0
        PROVE  Replicas[c].frame <= Len(confirmed) /\ Replicas[c].state = truth[Replicas[c].frame + 1]
    <3>1. c_is_initialised[c]
      <4>1. SUFFICES ASSUME ~c_is_initialised[c] PROVE FALSE
            OBVIOUS
      <4>2. Replicas[c] = Log!Away
            BY <4>1, ReplicaIs
      <4>3. QED
            BY <2>2, <4>2 DEF Log!Present, Log!Away
    <3>2. Replicas[c] = [joined |-> c_joined[c], frame |-> c_sync_frame[c],
                         state |-> c_states[c][Ring(c_sync_frame[c])]]
          BY <3>1, ReplicaIs
    <3>3. c_joined[c] = 0 /\ Agrees(c)
          BY <2>2, <3>1, <3>2 DEF RInv, RollbackInv, ReplicaInv
    <3>4. /\ c_sync_frame[c] \in Nat /\ c_server_frame[c] \in Nat /\ server_frame \in Nat
          /\ c_sync_frame[c] <= c_server_frame[c] /\ c_server_frame[c] <= server_frame
          BY <3>1, FrameFacts DEF RInv
    <3>5. server_frame <= Len(confirmed) /\ Len(confirmed) \in Nat
          BY LogFacts
    <3>6. QED
          BY <3>2, <3>3, <3>4, <3>5 DEF Agrees
  <2>3. QED
        BY <2>1, <2>2 DEF Log!Faithful
<1>2. QED
      BY RollbackInvariant, <1>1, PTL

===============================================================================
