# Verification of raylib-netcode

TLA+ models of the rollback netcode in `src/`: an authoritative server, clients
that predict, and the TCP connections between them. TLC checks them on small
instances; TLAPS proves for every instance that the server's threads keep out of one
another's way and come to an end, that rollback works (the netcode implements a
replicated log), that no input is refused or mistaken for another, and that nobody stops
waiting for the others while a game is played.

## 1. The system

| Component | Code | State | Operations |
|---|---|---|---|
| Game rules | `shared/gameimpl.[ch]`, `client/gameimpl.c` | none; `GameState`, `GameEvents` are values | `game_simulate`, `game_handle_events` |
| Protocol | `shared/protocol.[ch]` | none | serialize/deserialize of three messages |
| Server | `server/gameserver.[ch]` | slots (`client_data`), `client_count`, `server_frame`, rings of states and events, two mutexes, a condition variable | accept thread, one thread per client, simulation thread, init, shutdown |
| Client | `client/gameclient.[ch]`, `client/main.c` | `sync_frame` <= `server_frame` <= `client_frame`, rings of states and events, one mutex, three flags | main thread (predict, send), receive thread (initialise, reconcile), init, shutdown |
| Server process | `server/main.c` | `to_shutdown_app` | waits for a signal, runs `game_server_shutdown`, ends the process |
| Rendering, logging, build, raylib | `client/gameimpl.c`, `shared/log.c`, scripts, `libs/` | none | not modelled |

How a frame travels. The client's main thread predicts frame *f* with the local
input and sends that input (`MSG_P2S_FRAME_INPUTS`). The thread the server has
for the client stores it in ring entry *f* and signals the simulation thread if
every connected client has reached `server_frame`. The simulation thread applies
the events of `server_frame`, broadcasts them (`MSG_S2P_FRAME_GAME_EVENTS`) and
clears the entry of the next frame. The client's receive thread overwrites its
own events of that frame and simulates again, from the last state known to be
right up to the frame predicted. A client that joins is sent the state and the
events of the frame being assembled (`MSG_S2P_INIT_PLAYER`). The client does not
predict `FRAME_BUFFER_SIZE - 1` frames past the last reconciled one.

Shared state and who may see it half done:

* server: `state_lock` covers the rings and `server_frame`; `clients_lock` covers
  the slots, except that the accept thread gives it up as soon as it has found a
  free slot (`gameserver.c:184`) and fills the slot without it. The simulation
  thread takes `clients_lock` inside `state_lock`, as the client threads do.
* client: `state_lock` covers the frames and rings; the flags are atomics.
* between programs: one TCP connection per client.

What makes it correct: frames are simulated with everybody's inputs, once, in
order; no input is refused or attributed to another frame or player; the rings
never hold two frames in one entry while both are needed; a client ends up with
the server's states; players join and leave the game exactly as connections come
and go; the game goes on; and a server that is told to stop does. What is hard: three kinds of
threads in the server
and two in each client, joins and leaves at any point, state tested under a lock
and used under it later, a shutdown that takes no lock at all, ring arithmetic, a
stream of bytes taken for one of messages, and a peer that can vanish. The hazards
are listed, line by line, in `PROJECT.json`.

## 2. The modules

| Module | Models | Kind |
|---|---|---|
| `Game` | `game_simulate` and its types, ring indices | operators |
| `Network` | connections as pairs of FIFO streams, the messages | variables shared by both ends |
| `GameServer` | the server's threads | actions, properties of the server |
| `ServerMain` | the server's main thread: waiting for a signal, `game_server_shutdown`, the end of the process | actions, properties of the shutdown, the server's inductive invariant |
| `OpenServer` | the server facing any client that speaks the protocol | specification |
| `GameClient` | the client's two threads, indexed by client | actions |
| `Netcode` | server and clients together | specification, properties, inductive invariant, refinements |
| `Replication` | what the netcode promises: a log of confirmed frames and replicas of it | abstract specification |
| `GameProofs`, `ReplicationProofs` | | theorems about the rules and the abstract specification |
| `OpenServerProofs` | | theorems about the server and its shutdown |
| `NetcodeProofs`, `RollbackProofs`, `InputProofs`, `ProgressProofs` | | theorems about the whole: the order of frames; the rollback and `Replicates`; the inputs, what is in flight and `ServerIsOpen`; who can go on |
| `ServerProofs` | | lemmas about the server's steps, used by both compositions |
| `MCOpenServer`, `MCNetcode` | | values for TLC |

`ServerMain` extends `GameServer` extends `Network` extends `Game`; `OpenServer` is
`ServerMain` with an environment, `Netcode` is `ServerMain` and `GameClient` together,
and instantiates `Replication` and `OpenServer` for the two refinements.

Variables keep the names of the code: `cd_*` are the fields of `ClientData` by
slot, `c_*` the fields of `GameClient` by client program. Program counters
(`main_pc`, `accept_pc`, `thread_pc`, `sim_pc`, `c_main_pc`, `c_recv_pc`) name the point a
thread has reached. An action is what a thread does between two points where
another thread could interfere: a section under a lock is one action, an access
without a lock is an action of its own. So the accept thread's stores
(`gameserver.c:199` to `203`), and those that undo them when the client's thread cannot be
created (`212` to `217`), are an action each and `client_count++` and
`client_count--` are a load and a store each, while storing an input
(`289` to `334`), which holds both locks, is one. A store that follows the call it
depends on is one action with it (`is_connected` at `212` with the failed
`pthread_create`). Two locks are states rather than
sections: the simulation thread keeps `state_lock` from its test to the end of the
frame (`sim_pc = "simulate"`), and `clients_lock` can be left locked or released by
a thread that does not hold it (`gameserver.c:194`, `216`, `226`). Where that leaves two threads
between the load and the store of `client_count--` of one slot, `removing` keeps what each has loaded.
The test whether every input is there (`432` to `458`) and a broadcast (`413` to `430`) walk
over the slots in one action each. As long as they hold `clients_lock`, at most one slot changes
meanwhile, the one being filled, and the walk is as if it happened when it reads that slot. If line
226 releases the lock in the middle, a second slot may change, one that is given back: the walk
then sees it before or after, which makes no difference to a connection that is closed already.

A connection stands for its descriptor on the server. The number of a descriptor that
a leaving thread has closed but still holds in its slot (`gameserver.c:344`, `345`) may
be the one the next `accept()` returns: `AcceptConnection` then lets every slot that
holds the old connection name the new one, and a broadcast reaches the new client
through both slots, or through the old one before its first message. The model
checker finds such duplicates; `FollowsServer` holds all the same, because the client
drops a frame it does not expect and confirms frame 0 again without harm.

Shutting down is `to_shutdown` and the listening socket, which the main thread sets
and shuts one after the other (`gameserver.c:90` to `97`): one variable, `listening`.
Every thread tests the flag at the places the code does (`AcceptStops`, `NextRecv`,
`SimStops`). What a thread tested just before the flag was set, it acts on after:
`BeginShutdown` lets any client thread that is about to `recv()` be one that tests the
flag instead, and the simulation thread be one that has tested it already
(`sim_pc = "tested"`), goes to wait without a second test, and waits for a signal that
may have been sent (`"waiting_late"`). The server also stops when its simulation thread could not be
created (`gameserver.c:74` to `80`): the accept thread runs by then and may have started client
threads, `game_server_shutdown` is the same, and there is no simulation thread to wait for
(`sim_pc = "ended"` from the start; `pthread_join` of a thread that was never created
is taken to return at once). The walk over the slots is an action per slot
and per system call, without a lock: between `shutdown()` and `close()` of a socket a
`send()` to it raises SIGPIPE (`HalfShut`). `MainJoinClient` waits for a slot to be
given back, which its thread does before its last unlock.

One reconciliation is one iteration per step (`ResimStep`); the client's
`state_lock` is held meanwhile (`c_recv_pc = "resim"`). Reading `states[-1]`, which
the code does when it reconciles from `sync_frame` -1, yields any member of
`JunkStates`. The end of a client's process resets its variables.

History variables: `confirmed` and `truth` (the events of every simulated frame and
the states they lead to), `c_joined` and `c_issued` (the frame a client started in
and the inputs it has given since). The actions never read them, and the properties are about them.

Definitions commented `mutant` are plausible slips (a lock not waited for, an
off-by-one, a missing reset). They are not part of the specifications: each
property is known to fail when one of them replaces the definition after it.

### Abstractions

* Positions are integers; the floats of the code hold whole numbers only.
* The unit of a stream is a message. With `ByteStream`, one `recv()` may return any
  number of those that are there, or a part of one. The server takes the first for all
  of them (`RecvSizes`, `gameserver.c:276` to `285`); a part of a message fails an
  assertion in its parser (`ThreadRecvPart`), and anything but one message fails one in
  the client (`RecvMisread`, `gameclient.c:103`, `109`). Bytes, and what a parser makes
  of a message that starts in the middle, are left out: the first assertion that fails
  on either part ends the program. Without `ByteStream`, one `recv()` is one message, as
  the comment at `gameclient.c:102` assumes; a lost input then never happens, which
  progress needs. `NoInputRefused` holds either way, but for one of the three reasons to
  refuse: that an input is out of turn (`gameserver.c:314`) is excluded only without
  `ByteStream`. Another, that it is too new (`304`), takes an input for frame 3 with a ring of 3,
  one more than the runs have: there the theorem `InputsAccepted` says more than they do.
* The clients of `OpenServer` may send to a slot whose thread listens or is about to
  close its socket (`EnvSend`): that the thread has stopped listening they do not see.
* A socket buffer never fills up; `ChannelBound` bounds what is in flight.
* A slot that has not had a client holds descriptor 0, and sending to it fails
  (standard input is no socket): `NoFd`, as -1.
* `send()` to a peer that has closed may succeed, fail, or raise SIGPIPE, which
  neither program handles: it ends the process. In a broadcast it may do so at any
  receiver that has closed, after the slots before it have been sent the frame.
* A receive that ends (`recv()` <= 0) may overtake data in flight, as after a reset.
* `recv()` of an input and its storing under the locks are one step: what lies
  between is local to the thread.
* Setting the slot's `index` (`gameserver.c:201`) is left out: it is only logged.
* A client leaves by `game_client_shutdown`, by a SIGPIPE or by a failed assertion.
* The server stops if `MayStop`. Only the runs of the shutdown set it, so that the
  others have room for longer games; the proofs hold with it.
* A connection that `accept()` has returned when the flag is tested is left open until
  the process ends (`AcceptStops`); the others of the backlog are reset.
* `game_client_shutdown` is one step. Once it has closed the socket, the receive thread can
  at most end a reconciliation, which nobody sees; its step waits for that, and so do the
  server's steps that follow the close, without loss of an order in which they can come.
* A message taken from the socket while the main thread sleeps waits for the lock; in the
  model it waits in the stream.

## 3. Properties and runs

Safety of the server, against any client (`OpenServer`):

* `Lockstep`: the newest input of a joined client is at most one frame behind and
  less than one ring ahead of the frame being assembled.
* `NeverAheadOfInputs`: no frame is simulated before the inputs of all joined clients.
* `SlotHandover`, `ServerInv`: who owns a slot, although it is filled without the lock.
* `RosterMatchesThreads`: the players in the game are those whose thread has
  announced them and not yet announced their leave.
* `WakeupsSent`: the simulation thread comes to wait for a frame it could simulate only when
  a slot is given back (`gameserver.c:212`, `359`: nobody signals), or a lost update of `client_count`
  leaves a thread uncounted. The input that completes a frame always wakes it, and the client
  that joins never completes one, although its slot is filled without the lock.
* `ShutdownNotStuck`: once the server has been told to stop, its threads never all
  wait for one another or for a client, except for three causes. The simulation thread
  missed the signal, which is sent without `state_lock` (`SignalMissed`); the accept thread
  left `clients_lock` locked (`LockLeft`); or the main thread passed over a thread that
  waits in `recv()` (`PassedOver`). The property allows for the three and shows that there is no
  fourth. Who can go on is spelled out, by what each thread may have to
  wait for (`SomeoneGoesOn`); a spurious wakeup or a client that closes does not count.
  `WaitsForNoMore` says that this is the same as ENABLED. Each cause is real: without the
  first, TLC finds a counterexample of six states in this very instance; the second
  takes four clients and the third three, more than this run has.
* `SocketsShut`: when the main thread is done with the sockets, which it walks without a
  lock, every thread that listens has had its own shut. A lost update of `client_count`
  that makes the count too small (`CountLost`) is the only way to `PassedOver`.
* `ThreadsJoined`: the mutexes are destroyed only when every thread has ended or is at
  least past the slot it gave back; the same lost update is the one exception. That the
  last of its steps, the unlock, may come after the mutex is destroyed
  (`gameserver.c:126`, `138`, `362`) is allowed by the property, and happens.
* `ShutdownInv`: the inductive invariant behind the three (section 5).

Safety of the whole (`Netcode`): `NoInputRefused`, `FrameOrder`, `ConfirmedKept`,
`PredictionKept`, `FollowsServer`, `PredictionFresh`, `NoForeignInput`,
`ChannelBound`, `EarlyBound`; and `Replicates` (the netcode implements `Replication`) and
`ServerIsOpen` (its clients are clients of `OpenServer`, so what is proved of
`OpenServer` holds of the server in the whole).

Progress of the whole:

* `EveryFrameConfirmed`: as long as nobody leaves and every `recv()` returns one message, every
  client that connects has every frame of the run confirmed, with threads that are fairly scheduled
  and no more. One thing may hold the run up for ever, and the property names it: a client's main
  thread that sleeps at its throttle with `state_lock` and takes it again each time before the
  receive thread does (`Starved`, the finding `starve`).
* `PlaysOn` is the safety half of it: until then somebody, a thread of the server or of a
  client, has something to do (`SomeEndGoesOn`). A client's sleep at its throttle does not count.
* `NeverAllWait` says the same of any run, with clients that leave and `ByteStream`, except for
  what may go wrong: a wakeup that was not sent (`FrameMissed`, the finding `stall`), a thread
  not counted (`NobodyCounted`), a lock left locked (`LockLeft`, the finding `reject`), an input
  lost because one `recv()` returned two (`InputSkipped`), or a client that does not see the end of
  its connection (`EndUnseen`). Without the first, the second or the fourth, TLC finds a
  counterexample in the instance of `rollback`; the third takes four clients and the last
  three, one of which is rejected. Both properties are about rings of more than two entries. With
  two the client that joins at frame 0 stops for good: confirming frame 0 does not move
  `sync_frame`, and the throttle lets it predict no further.
* `ProgressInv`: the inductive invariant behind the two (section 5).

| Run | Instance | Shows |
|---|---|---|
| `server_inputs` | 2 clients, 2 slots, ring 2, frames up to 2, `ByteStream` | types, `Lockstep`, `ServerInv`, `NeverAheadOfInputs`, `WakeupsSent` |
| `server_slots` | 4 clients, 2 slots, no frames, client threads may fail to start | `SlotHandover` |
| `shutdown` | 2 clients that may leave, 2 slots, ring 2, 1 frame, a signal at any moment, client threads and the simulation thread may fail to start | `ShutdownNotStuck`, `WaitsForNoMore`, `SocketsShut`, `ThreadsJoined`, `ShutdownInv` |
| `rollback` | 2 clients that may leave, alternating inputs, ring 3, 3 frames, `ByteStream` | types, order of frames, rings, agreement, attribution of inputs, none refused, bounds, `RollbackInv`, `EarlyInv`, `NeverAllWait`, `Replicates` |
| `reuse` | 3 clients that may leave, 2 slots, ring 2, 1 frame | `NetcodeInv`, `InputInv`, `ProgressInv`, `RosterMatchesThreads`, `ServerIsOpen`, with slots, rings and counts that outlive their client |
| `progress` | 2 clients that stay, ring 3, 3 frames, every `recv()` one message, weak fairness | `EveryFrameConfirmed`, `PlaysOn`, `NoInputRefused` with inputs that also are in turn |
| the six others | the smallest instance that shows it | section 4 |

Why these bounds. With a ring of 3 and 3 frames a client runs ahead of the server by more
than the frame being assembled, reaches its throttle, and rolls back over the end of the
ring into entries used before. A ring of 2 is the smallest the code could be built with,
but no game gets anywhere with it: confirming frame 0 does not move `sync_frame`, so a
client may never predict frame 1; progress is checked with 3. There a client may send the inputs of
frames 0 and 1 before it is at its throttle, and that of frame 2 only when frame 1 is confirmed and
reconciled: with 3 frames the throttle waits for the server while the server still
needs an input of the client it holds back. In `rollback`, players
alternate between two inputs, and two players never give the same one in the same frame
(the state constraint `InputsAlternate`), so that an input stored for another frame or
player is seen without a choice of inputs in every frame. Two slots give
"the slowest client" and "another slot"; a third client makes a slot change hands
while the other is in use, and a fourth makes the count wrong while every slot is
taken. The shutdown is over
in at most one more frame, whatever came before, so one frame and the input for it are
enough to have the simulation thread at each of its points when the signal comes.
`MaxFrame` bounds both ends: the server does not begin to simulate and a
client does not predict beyond it. `MaxQueue` bounds the inputs in flight in
`OpenServer`; in `ServerIsOpen` it is `FRAME_BUFFER_SIZE - 1`, which the throttle
keeps. Client programs are interchangeable, so the safety runs use symmetry; the
runs with fairness do not. Deadlock is not checked: every bounded run stops, and
so does a server without clients.

Fairness (`FairSpec`): weak fairness of every thread, that is, a thread that stays
able to take a step takes one. A player need not close the window, and
`pthread_cond_wait` need not wake up by itself (`SimSpuriousWakeup` has no
fairness); `main()` does leave its loop once the connection is gone (`MainUnclosed`).
That is all the operating system promises: a default mutex need not be handed to the
thread that waits for it. In a bounded run each lock is taken finitely often, but for
one: a client's main thread at its throttle sleeps with `state_lock` held and takes it
again at once (`client/main.c:79` to `81`, `ClientSleeps`, `ClientWakes`). The receive
thread then has the lock within its reach again and again, and never for long, so that weak
fairness does not give it the lock: `EveryFrameConfirmed` allows for just that, and `starve`
shows it (section 4).

## 4. Where the code and its comments disagree

Each of these has a run in which TLC finds the counterexample.

* `lost_input`: an input for a frame after the one being assembled is stored in its
  ring entry, which is cleared when that frame's turn comes (`gameserver.c:404`).
  A client ahead of a slower one loses its inputs; it is corrected by each rollback.
* `late_join`: the confirmed events of the frame a client joined in are dropped
  unless it is frame 0 (`gameclient.c:163`); the joiner may stay different from the
  server for good. `Replication` says exactly how far: it leaves that one frame
  with other events, and all later ones with the confirmed ones.
* `stall`: the slowest client leaves, the others wait at their throttle, and nobody
  signals the simulation thread (`gameserver.c:360`).
* `starve`: a client at its throttle sleeps for a second with its lock held, gives it up
  and takes it again at once (`client/main.c:79` to `81`). The receive thread may never get
  the lock, and so never read the confirmed frame that would end the wait.
* `early_frame`: a frame broadcast to a client before its first message makes it
  simulate from index -1 (`gameclient.c:198`). `MSG_S2P_INIT_PLAYER` then repairs it.
* `reject`: `client_count++` without the lock loses an update (`gameserver.c:203`);
  with the count too low and all slots taken, the accept thread keeps `clients_lock`
  (`gameserver.c:194`).

The models also have a behaviour no comment speaks of: a send to a client that has
just gone may raise SIGPIPE, which ends the server (`gameserver.c:422`, `ServerDies`).
All properties are checked with it.

## 5. What is proved

For every number of clients and slots, every ring of at least two entries
(`GlobalsAssumption`), every set of frames and inputs the clients may send
(`OpenServerAssumption`, `ClientAssumption`), with `NoFd` not a client
(`NetworkAssumption`), whether or not the server may be stopped (`MayStop`), threads may fail to
start (`ThreadCreateMayFail`) and `recv()` keeps messages apart (`ByteStream`):

| Theorem | Says | Module |
|---|---|---|
| `TypeCorrect`, `ServerInvariant`, `SlotsHandedOver`, `InLockstep`, `FramesComplete`, `WakeupsAreSent`, `RosterIsRight` | `TypeOK`, `ServerInv`, `SlotHandover`, `Lockstep`, `NeverAheadOfInputs`, `WakeupsSent`, `RosterMatchesThreads` of `OpenServer` | `OpenServerProofs` |
| `ShutdownInvariant`, `NeverStuck`, `AllSocketsShut`, `JoinedBeforeDestroy` | `ShutdownInv`, `ShutdownNotStuck`, `SocketsShut`, `ThreadsJoined` of `OpenServer` | `OpenServerProofs` |
| `NetcodeTypeCorrect`, `NetcodeInvariantHolds`, `FramesInOrder`, `PlayersMatchThreads` | `TypeOK`, `NetcodeInv`, `FrameOrder`, `RosterMatchesThreads` of `Netcode` | `NetcodeProofs` |
| `RollbackInvariantHolds`, `ConfirmedEventsKept`, `PredictionsKept`, `ClientsFollowServer`, `PredictionsFresh` | `RollbackInv`, `ConfirmedKept`, `PredictionKept`, `FollowsServer`, `PredictionFresh` of `Netcode` | `RollbackProofs` |
| `NetcodeReplicates`, `NetcodeFaithful` | `Replicates`: `Netcode` implements `Replication`; and so `Faithful` of its replicas | `RollbackProofs` |
| `InputInvariantHolds`, `InputsAccepted`, `InputsAttributed`, `ChannelsBounded`, `EarlyInvariantHolds`, `EarlyBounded` | `InputInv`, `NoInputRefused`, `NoForeignInput`, `ChannelBound`, `EarlyInv`, `EarlyBound` of `Netcode` | `InputProofs` |
| `NetcodeIsOpen` | `ServerIsOpen`: `Netcode` implements `OpenServer` | `InputProofs` |
| `ProgressInvariantHolds`, `NeverAllWaiting`, `PlayGoesOn` | `ProgressInv`, `NeverAllWait`, `PlaysOn` of `Netcode` | `ProgressProofs` |
| `ReplicationTypeCorrect`, `ReplicasFaithful` | the types and `Faithful` of `Replication`, if its events are events of the game (`EventsAreGameEvents`) | `ReplicationProofs` |
| `GameSimulateType`, `RingDistinct` | `game_simulate` maps states to states; frames less than a ring apart have entries of their own | `GameProofs` |

Clients may leave at any time in all of them. `MaxFrame` may be any number: the proofs are
about games of any length.

**The server.** `Lockstep` is not inductive alone: when the frame
number goes up, every joined client must have been one frame further, and that was
tested two steps earlier, under a lock. `SimReady` says that what was tested still
holds: the simulation thread keeps `state_lock`, so no input is stored and no client
is announced meanwhile. A client that is not announced yet must not count as joined
with the last client's frame: its slot is connected (`SlotInUse`), and reads -1
(`SlotBeingFilled`) before its thread exists, whatever the accept thread does without
the lock. That no other thread undoes what the accept thread stores needs that the
slot has no thread (`Filling`), which follows because a thread keeps its slot
connected to the end. That a descriptor is only ever renamed in slots whose thread is
about to forget it needs that every other slot's connection is open (`SlotInUse`).
`TypeOK` needs the same invariant: a thread that listens has a
connection to read from. While the server is being
stopped, sockets are closed under the threads that use them, so what is said of open
sockets holds up to then; that only a main thread that has shut the listening socket
closes others is `StopsOnce`. `ServerInv` is the conjunction, checked by `server_inputs`
before it was proved. Each lemma of the proof is about one thread, with one step per
action.

`RosterMatchesThreads` is inductive given `ServerInv`: a slot the accept thread fills has
no thread yet, an input is stored beside the announcements, a simulated frame keeps who
is in the game (`HandleMovementActive`), and when the process dies in a broadcast the
state already written is in another ring entry than the current one (`RingDistinct`).

`WakeupsSent` goes through the steps that could make the condition true. Storing an input tests it
and signals, under both locks. The end of a frame goes back to the test. Announcing a client only
adds to those who must have an input, unless it is the first that is counted: then its slot reads -1
(`SlotBeingFilled`), which is below every frame. What is left is giving a slot back.

**The shutdown.** `ShutdownInv` has three parts. `JoinsInOrder`: what the main thread has waited
for stays as it is, since no thread is started once the accept thread has ended, and no slot
that was given back is filled again. `SocketsShutSoFar`: the sockets of the slots behind the main
thread are shut, although it holds no lock, because after the flag is set no thread begins to
listen (`ShutStays`). `WaitsEnd`: a lock taken by a cleanup has an owner that will release
it, a connected slot has a thread or is being filled, and nobody waits for a signal that has
been sent, but for the thread that had tested the flag before. Then `NeverStuck` is a
case distinction on where the main thread waits: for the simulation thread, which can go on unless
it missed the signal; for the accept thread, which can go on once the lock is free; or for the
thread of a connected slot, which exists, and can go on unless it listens to an open
socket. The runs' property with ENABLED (`WaitsForNoMore`) ties this to the actions.

**The order of frames.** In `Netcode`, `FrameOrder` needs to know what is in flight. A frame confirmed
to a client is below the one it predicts (`InFlight`) because the server had an input for it when it
simulated the frame (`SimReady`), and the client sends inputs only for frames it has
predicted (`OnlyPredicted`). So the server must have had no input from the slot's last
client (`SlotInUse`), and the client must have been served, by a thread that told it where
to start, ever since it was told (`ServedWhenTold`). Nothing follows the first message
before it has been read, because no frame is simulated without the new client's first input;
it is sent once (`ToldOnce`), so it never takes a client back. Frames that arrive twice or
before the first message do no harm: they come in order, and only the next frame, or frame 0
again, is taken. While a client reconciles, `Reconciling` says how far it is. The proof has
one lemma for the server's steps that leave client `c` alone (`QuietKeeps`), one for each of
those that send something, and one for each action of the client.

**The rollback.** `RollbackInv` relates three copies of the game's history. The server's: each state
of `truth` follows from the one before, and the last is the one in its ring (`LogInv`), which the
proof needs `RingDistinct` for. The messages': whatever is in flight to a client is an entry of the
log, and a first message is its end, which stays the end until the client has answered
(`TellsTheEnd`, `FromLog`, and `ListenedTo`, without which the server would go on). The client's:
it holds the confirmed events of every frame it was sent and did not drop (`EventsHeld`), its own
inputs of the frames after that (`InputsKept`), and the states computed from them (`StatesFresh`). That no frame
is left out on the way is `InSequence`: a frame follows the one before it in the stream, or the
last the client took. Frame 0 is the hard case: confirming it does not move `server_frame`,
which is 0 from the start, so whether the client has it can only be told from its ring
(`FirstHeld`). With it, the state reconciled last is the server's, by induction along the log, for clients
that joined at frame 0 (`Agrees`); and each step of a thread appends to the log, moves one replica
along it, or leaves both alone (`NetcodeReplicates`). A client that joined later is
covered by the latter, not by the former: `late_join` shows why.

**The inputs.** `InputInv` follows an input from the player to the log. What is in flight to a thread
is one interval of frames, which begins after the last frame stored (`InTurn`) and ends where the client
goes on (`SentInTurn`), with the slot the client was told (`IndexToldTo`); nothing is in flight
to a connection without a thread to read it. The interval lies in the server's window because the client's
throttle counts from a frame the server has simulated, and `FrameOrder` bounds it by
`FRAME_BUFFER_SIZE - 1`; that is `NoInputRefused`. An input for a frame ahead is stored in a ring entry that is
cleared before it is used (the finding `lost_input`), so of the entries of the ring only that of the
current frame needs an owner: `EntryOwned` says that it holds the client's own input or none, or that the
client's first input has yet to come and no frame is simulated before it does. That is
`NoForeignInput`, although slots and entries had other owners before.

`ChannelBound` needs one more invariant, about streams only (`Spaced`): a broadcast reaches a connection at
most once through each slot, so of `MAX_CLIENTS + 1` frames in a row in a stream the last is newer than
the first. With `InFlight`, which bounds the frames themselves, that bounds the number
of messages.

`EarlyBound` cannot be had that way: a client that has not read its first message has no frame to
count from, and the frames sent to it come through several slots over several windows. `EarlyInv`
counts what it is still owed (`Owed`) instead: a frame through each slot that names its connection
for each frame the slot's last input allows, the one being simulated when its own slot was
filled, and the message. What it is owed and what is in flight never exceed the bound together
(`Early`). It holds when the connection is accepted, as there are no more things to owe; afterwards no step
adds to what is owed, and a broadcast takes something else from it for each slot it sends through
(`ChargesOwed`). The subtle part is how many frames a slot has left when it comes to name the client: the
thread of its last client may store inputs until it has closed its connection. So until the client's own
slot is filled, a whole window is owed through every slot with such a thread (`Admitted`, `Gone`), and a slot
whose thread has not closed its connection is never renamed (`SlotInUse`). Once a slot names the client, no
input is stored in it before the client has read its message, since it sends none (`OnlyPredicted`).

`NetcodeIsOpen` then is step by step: each action of a client is an action of the environment of `OpenServer` or
changes nothing the server sees. A client's send needs that the bound of the queue is kept
(`InputsInFlight`) and that a thread is there to be spoken to (`InputInv`).

**The progress.** That nobody waits for ever is a property of all threads at once: each wait is
ended by somebody else. `ProgressInv` says who that is, besides the `WaitsEnd` of the server: a connection
the server has not closed is held by the accept thread or read by a client thread (`HeldByServer`); a
client that is listened to has its first message, read or in flight (`ToldWhenHeard`); it has
both its threads, which end only with the connection (`ThreadsOfClient`); no thread of the server stops
before it is told to (`Stopping`); and while nobody leaves, the locks are free between steps, every
thread is counted and no wakeup is missed (`Orderly`, from the argument of `WakeupsSent`).

`NeverAllWaiting` then is by contradiction. If nobody can go on, no lock is held, the accept thread has
nobody to accept, the simulation thread waits, and every client thread listens to an empty stream.
So every client with an open connection has read all that was sent to it: it has been told where it
starts, it is at its throttle, and the server's frame is at most one past its last reconciled
(`InSequence`, of the rollback). The throttle being `FRAME_BUFFER_SIZE - 1` and the ring longer than
two, its input for the server's frame has been sent, and, as none was skipped, stored (`InTurn`, of the
inputs). This is so of every slot; then the condition to simulate the frame is true and the simulation
thread waits for it, which is the one cause not yet excluded (`FrameMissed`). So this proof needs all the
earlier invariants. `PlayGoesOn` is what is left when `Orderly` excludes the causes.

**The log.** `ReplicasFaithful` adds to the types that there is one state more than there are frames,
and that the frame of a replica lies between the one it joined in and the end.

**Only model-checked**, and why:

* `EveryFrameConfirmed` (liveness under fairness) and `WaitsForNoMore` (ENABLED) are beyond TLAPS.
  Of the first, the safety half is proved (`PlaysOn`); that steps which can be taken are, and that they
  lead to the last frame, is what TLC checks.
* The six properties of section 4, which do not hold.

## 6. What is not modelled

* Rendering and the window, logging, the build scripts, raylib: nothing the protocol
  reads. The vendored headers of raylib (`libs/raylib/include`) are almost nine in ten lines of
  `src/`; of the program's own code, nearly every line that changes state is mapped.
* The error paths of `game_server_init` and `game_client_init` that end the program
  before it has a second thread: all but the one of `gameserver.c:74` to `80`, when the accept
  thread runs already (section 2).
* The signal handlers themselves. A signal between the test of `to_shutdown_app` and
  `pause()` (`server/main.c:50`) is one that is never delivered to the model.
* Frame numbers are naturals: an `int` overflows after 2^31 frames.
* Bytes (section 2, Abstractions).

## 7. Plan

Done: every component with state is modelled: `Game`, `Network` with its stream of
messages, `GameServer`, `ServerMain`, `GameClient`, and their compositions; the
abstract specification; the runs and theorems above.

Every safety property the runs check is a theorem, but for `WaitsForNoMore`, which is about ENABLED.
What stays with TLC is that one, the liveness half of progress, and the six runs of section 4.
