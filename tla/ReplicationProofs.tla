--------------------------- MODULE ReplicationProofs ---------------------------
(***************************************************************************)
(* The replicated log keeps its promise, for any number of clients and     *)
(* player slots and however many frames are confirmed.                     *)
(***************************************************************************)
EXTENDS Replication, GameProofs, SequenceTheorems, TLAPS

\* What the netcode puts for the constant (Netcode.tla, PossibleEvents) is of this kind.
EventsAreGameEvents == Events \subseteq GameEvents

-------------------------------------------------------------------------------
(***************************************************************************)
(* The inductive invariant: the replicas that are there know a frame of    *)
(* the log, from the one they joined in on; there is one state more than   *)
(* there are frames.                                                       *)
(***************************************************************************)
Known ==
    \A c \in Clients : Present(c) =>
        /\ replica[c].joined \in Nat /\ replica[c].frame \in Nat
        /\ replica[c].joined <= replica[c].frame
        /\ replica[c].frame <= Len(log)

Inv ==
    /\ TypeOK
    /\ Len(states) = Len(log) + 1
    /\ Known
    /\ Faithful

LEMMA InitInv == Init => Inv
<1> SUFFICES ASSUME Init PROVE Inv
    OBVIOUS
<1>1. Away \in [joined : Nat \cup {-1}, frame : Nat \cup {-1}, state : GameState]
      BY InitialStateType DEF Away
<1>2. TypeOK
      BY <1>1, InitialStateType DEF Init, TypeOK
<1>3. Len(log) = 0 /\ Len(states) = 1
      BY DEF Init
<1>4. \A c \in Clients : ~Present(c)
      BY DEF Init, Present, Away
<1>5. QED
      BY <1>2, <1>3, <1>4 DEF Inv, Known, Faithful, Replays

LEMMA ConfirmInv ==
    ASSUME EventsAreGameEvents, Inv, NEW events \in Events, Confirm(events)
    PROVE  Inv'
<1> DEFINE next == GameSimulate(states[Len(states)], events)
<1>1. events \in GameEvents
      BY DEF EventsAreGameEvents
<1>2. /\ log \in Seq(GameEvents) /\ states \in Seq(GameState)
      /\ Len(log) \in Nat /\ Len(states) = Len(log) + 1
      BY DEF Inv, TypeOK
<1>3. next \in GameState
  <2>1. states[Len(states)] \in GameState
        BY <1>2
  <2>2. QED
        BY <2>1, <1>1, GameSimulateType
<1>4. /\ log' = Append(log, events) /\ states' = Append(states, next)
      /\ log' \in Seq(GameEvents) /\ states' \in Seq(GameState)
      /\ Len(log') = Len(log) + 1 /\ Len(states') = Len(states) + 1
      BY <1>1, <1>2, <1>3 DEF Confirm
<1>5. replica' = replica
      BY DEF Confirm
<1>6. TypeOK'
      BY <1>4, <1>5 DEF Inv, TypeOK
<1>7. Known'
      BY <1>2, <1>4, <1>5 DEF Inv, Known, Present
<1>8. \A f \in 1 .. Len(states) : states'[f] = states[f]
      BY <1>2, <1>3, <1>4
<1>9. Replays'
  <2>1. SUFFICES ASSUME NEW f \in 1 .. Len(log) + 1
                 PROVE  states'[f + 1] = GameSimulate(states'[f], log'[f])
        BY <1>4 DEF Replays
  <2>2. CASE f \in 1 .. Len(log)
    <3>1. states[f + 1] = GameSimulate(states[f], log[f])
          BY <2>2 DEF Inv, Faithful, Replays
    <3>2. states'[f + 1] = states[f + 1] /\ states'[f] = states[f] /\ log'[f] = log[f]
          BY <1>1, <1>2, <1>4, <1>8, <2>2
    <3>3. QED
          BY <3>1, <3>2
  <2>3. CASE f = Len(log) + 1
    <3>1. states'[f + 1] = next /\ states'[f] = states[Len(states)] /\ log'[f] = events
          BY <1>1, <1>2, <1>3, <1>4, <1>8, <2>3
    <3>2. QED
          BY <3>1
  <2>4. QED
        BY <1>2, <2>2, <2>3
<1>10. ASSUME NEW c \in Clients, Present(c)', replica'[c].joined = 0
       PROVE  /\ replica'[c].frame <= Len(log')
              /\ replica'[c].state = states'[replica'[c].frame + 1]
  <2>1. replica[c].frame \in Nat /\ replica[c].frame <= Len(log)
        BY <1>5, <1>10 DEF Inv, Known, Present
  <2>2. replica[c].state = states[replica[c].frame + 1]
        BY <1>5, <1>10 DEF Inv, Faithful, Present
  <2>3. QED
        BY <1>2, <1>4, <1>5, <1>8, <2>1, <2>2
<1>11. QED
       BY <1>2, <1>4, <1>6, <1>7, <1>9, <1>10 DEF Inv, Faithful

LEMMA JoinInv ==
    ASSUME Inv, NEW c \in Clients, Join(c)
    PROVE  Inv'
<1> DEFINE new == [joined |-> Len(log), frame |-> Len(log), state |-> states[Len(states)]]
<1>1. Len(log) \in Nat /\ Len(states) = Len(log) + 1
      BY DEF Inv, TypeOK
<1>2. states[Len(states)] \in GameState
      BY <1>1 DEF Inv, TypeOK
<1>3. replica' = [replica EXCEPT ![c] = new] /\ log' = log /\ states' = states
      BY DEF Join
<1>4. new \in [joined : Nat \cup {-1}, frame : Nat \cup {-1}, state : GameState]
      BY <1>1, <1>2
<1>5. TypeOK'
      BY <1>3, <1>4 DEF Inv, TypeOK
<1>6. \A d \in Clients : replica'[d] = IF d = c THEN new ELSE replica[d]
      BY <1>3 DEF Inv, TypeOK
<1>7. Known'
      BY <1>1, <1>3, <1>6 DEF Inv, Known, Present
<1>8. Faithful'
      BY <1>1, <1>3, <1>6 DEF Inv, Faithful, Replays, Present
<1>9. QED
      BY <1>1, <1>3, <1>5, <1>7, <1>8 DEF Inv

LEMMA AdvanceInv ==
    ASSUME EventsAreGameEvents, Inv, NEW c \in Clients, Advance(c)
    PROVE  Inv'
<1>1. PICK events \in Applicable(c) :
         replica' = [replica EXCEPT ![c] = [joined |-> @.joined, frame |-> @.frame + 1,
                                            state |-> GameSimulate(@.state, events)]]
      BY DEF Advance
<1> DEFINE r == replica[c]
           moved == [joined |-> r.joined, frame |-> r.frame + 1,
                     state |-> GameSimulate(r.state, events)]
<1>2. log' = log /\ states' = states /\ Len(log) \in Nat /\ r.frame + 1 < Len(log)
      BY DEF Advance, Inv, TypeOK
<1>3. r.joined \in Nat /\ r.frame \in Nat /\ r.joined <= r.frame /\ r.state \in GameState
      BY DEF Advance, Inv, Known, TypeOK
<1>4. r \in [joined : Nat \cup {-1}, frame : Nat \cup {-1}, state : GameState]
      BY DEF Inv, TypeOK
<1>5. events \in GameEvents
  <2>1. log[r.frame + 1] \in GameEvents
        BY <1>2, <1>3 DEF Inv, TypeOK
  <2>2. QED
        BY <2>1 DEF Applicable, EventsAreGameEvents
<1>6. GameSimulate(r.state, events) \in GameState
      BY <1>3, <1>5, GameSimulateType
<1>7. \A d \in Clients : replica'[d] = IF d = c THEN moved ELSE replica[d]
      BY <1>1 DEF Inv, TypeOK
<1>8. moved \in [joined : Nat \cup {-1}, frame : Nat \cup {-1}, state : GameState]
      BY <1>3, <1>4, <1>6
<1>9. TypeOK'
      BY <1>1, <1>2, <1>7, <1>8 DEF Inv, TypeOK
<1>10. Known'
  <2>1. SUFFICES ASSUME NEW d \in Clients, Present(d)'
                 PROVE  /\ replica'[d].joined \in Nat /\ replica'[d].frame \in Nat
                        /\ replica'[d].joined <= replica'[d].frame
                        /\ replica'[d].frame <= Len(log')
        BY DEF Known
  <2>2. CASE d = c
        BY <1>2, <1>3, <1>7, <2>2
  <2>3. CASE d # c
        BY <1>2, <1>7, <2>1, <2>3 DEF Inv, Known, Present
  <2>4. QED
        BY <2>2, <2>3
<1>11. ASSUME NEW d \in Clients, Present(d)', replica'[d].joined = 0
       PROVE  /\ replica'[d].frame <= Len(log')
              /\ replica'[d].state = states'[replica'[d].frame + 1]
  <2>1. CASE d = c
    <3>1. r.joined = 0 /\ r.state = states[r.frame + 1]
          BY <1>3, <1>7, <1>8, <1>11, <2>1 DEF Inv, Faithful, Present
    <3>2. events = log[r.frame + 1]
          BY <3>1 DEF Applicable
    <3>3. states[r.frame + 2] = GameSimulate(states[r.frame + 1], log[r.frame + 1])
      <4>1. r.frame + 1 \in 1 .. Len(log)
            BY <1>2, <1>3
      <4>2. states[(r.frame + 1) + 1] = GameSimulate(states[r.frame + 1], log[r.frame + 1])
            BY <4>1 DEF Inv, Faithful, Replays
      <4>3. (r.frame + 1) + 1 = r.frame + 2
            BY <1>3
      <4>4. QED
            BY <4>2, <4>3
    <3>4. moved.frame + 1 = r.frame + 2
          BY <1>3, <1>8
    <3>5. QED
          BY <1>2, <1>3, <1>7, <1>8, <2>1, <3>1, <3>2, <3>3, <3>4
  <2>2. CASE d # c
        BY <1>2, <1>7, <1>11, <2>2 DEF Inv, Faithful, Present
  <2>3. QED
        BY <2>1, <2>2
<1>12. Replays'
       BY <1>2 DEF Inv, Faithful, Replays
<1>13. QED
       BY <1>2, <1>9, <1>10, <1>11, <1>12 DEF Inv, Faithful

LEMMA LeaveInv ==
    ASSUME Inv, NEW c \in Clients, Leave(c)
    PROVE  Inv'
<1>1. replica' = [replica EXCEPT ![c] = Away] /\ log' = log /\ states' = states
      BY DEF Leave
<1>2. Away \in [joined : Nat \cup {-1}, frame : Nat \cup {-1}, state : GameState]
      BY InitialStateType DEF Away
<1>3. \A d \in Clients : replica'[d] = IF d = c THEN Away ELSE replica[d]
      BY <1>1 DEF Inv, TypeOK
<1>4. TypeOK'
      BY <1>1, <1>2 DEF Inv, TypeOK
<1>5. Known'
      BY <1>1, <1>3 DEF Inv, Known, Present, Away
<1>6. Faithful'
      BY <1>1, <1>3 DEF Inv, Faithful, Replays, Present, Away
<1>7. QED
      BY <1>1, <1>4, <1>5, <1>6 DEF Inv

LEMMA InvariantInv ==
    ASSUME EventsAreGameEvents
    PROVE  Spec => []Inv
<1>1. Inv /\ [Next]_vars => Inv'
  <2> SUFFICES ASSUME Inv, [Next]_vars PROVE Inv'
      OBVIOUS
  <2>2. CASE Next
        BY <2>2, ConfirmInv, JoinInv, AdvanceInv, LeaveInv DEF Next
  <2>3. CASE UNCHANGED vars
        BY <2>3 DEF vars, Inv, TypeOK, Known, Faithful, Replays, Present
  <2>4. QED
        BY <2>2, <2>3
<1>2. QED
      BY InitInv, <1>1, PTL DEF Spec

-------------------------------------------------------------------------------
(***************************************************************************)
(* The variables of the replicated log keep their types.                   *)
(***************************************************************************)
THEOREM ReplicationTypeCorrect ==
    ASSUME EventsAreGameEvents
    PROVE  Spec => []TypeOK
<1>1. Inv => TypeOK
      BY DEF Inv
<1>2. QED
      BY InvariantInv, <1>1, PTL

(***************************************************************************)
(* A replica that has been there from frame 0 always has the server's      *)
(* state of its frame (gameclient.c:186 to 206 against gameserver.c:393).  *)
(***************************************************************************)
THEOREM ReplicasFaithful ==
    ASSUME EventsAreGameEvents
    PROVE  Spec => []Faithful
<1>1. Inv => Faithful
      BY DEF Inv
<1>2. QED
      BY InvariantInv, <1>1, PTL

===============================================================================
