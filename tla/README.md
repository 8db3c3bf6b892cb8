# A verification of Tidal's stream, its clock and the Link session behind it

Tidal is a language for live coding musical patterns. A performer evaluates
patterns in an interpreter; a running *stream* queries the patterns that play,
tick by tick, and sends the events as OSC messages to a synthesiser, in time with
an Ableton Link session. This directory holds TLA+ models of the concurrent core
of that program - the stream, the clock, Link's controller, sessions and discovery,
the network front end - what TLC checks about them and what TLAPS proves about them.

Paths are relative to the repository (`src/` is its root): `src/src/Sound/Tidal`
is the library, `src/tidal-link` the clock with the vendored Ableton Link,
`src/tidal-listener` a network front end.

## 1. Inventory

| Component | Code | State | Operations |
|---|---|---|---|
| Stream state | `Stream/Types.hs`, `Stream/UI.hs`, `Stream/Process.hs`, `Transition.hs` | `sPMapMV` (the PlayMap: pattern, mute, solo, history of each id), `sStateMV` (the ValueMap: controller values and the counters of stateful patterns), `sGlobalFMV` | `streamReplace`, `streamOnce`, mute/unmute/solo/unsolo and their *All* forms, `streamSilence`, `streamHush`, `streamAll`, `streamSet`, `transition` |
| Tick processing | `Stream/Process.hs` `doTick` | none of its own | query the stacked patterns, resolve state, convert to OSC, send; roll back on an exception |
| OSC listener | `Stream/Listen.hs` `ctrlResponder` | `sBusses` | commands from controllers, `/ctrl`, the handshake with SuperDirt |
| Clock thread | `tidal-link/.../Clock.hs` | `ClockState` (ticks, start, nowArc, nudged), the mailbox `TVar ClockAction` | `clockCheck`, `clockProcess`, `tick`, `processAction`; `setClock`, `setBPM`, `setNudge` from outside |
| Single ticks | `Clock.hs` `getZeroedLinkOperations`, `Process.hs` `onSingleTick` | two Link session states | a query of cycle 0..1 with link operations of its own |
| Link API | `Link.ipp`, `abl_link.cpp`, `Link.hsc` | session states on the C++ heap | capture, setTempo, requestBeatAtTime, commit, destroy |
| Link controller | `link/Controller.hpp`, `TripleBuffer.hpp`, `LockFreeCallbackDispatcher.hpp` | client state, session state, start/stop state; what the audio thread caches and pushes | commits from two threads, enabling and disabling, updates from the network, joining a session |
| Link timelines | `Timeline.hpp`, `Phase.hpp`, `ClientSessionTimelines.hpp`, `Beats.hpp`, `Tempo.hpp`, `GhostXForm.hpp`, `Link.ipp` | none: pure functions | beats and time, phases, client and session timelines |
| Link sessions | `Sessions.hpp`, `Peers.hpp`, `Measurement*.hpp`, `PingResponder.hpp` | sessions known, measurements under way, the cache of peers | hear, measure, join, forget, reset |
| Link discovery | `PeerGateway.hpp`, `PeerGateways.hpp`, `UdpMessenger.hpp`, `InterfaceScanner.hpp`, `Peers.hpp` | gateways, peers and their timeouts | alive, response, bye-bye, expiry, repair |
| tidal-listener | `Listener.hs`, `Hint.hs` | two MVars, the interpreter | `/eval`, `/type`, `/load`, `/ping`, `/cps` |
| Pattern algebra | `Pattern.hs`, `Core.hs`, `UI.hs`, `Control.hs`, `Stepwise.hs`, `Bjorklund.hs` | none: pure functions | queries, combinators |
| Parser, parameters, tables, boot, safe wrapper | `ParseBP.hs`, `Params.hs`, `Chords.hs`, `Scales.hs`, `Safe/*` | none | |

How they interact:

- `startStream` creates the MVars, starts the clock thread with `doTick` as its
  tick action, and a thread for `ctrlResponder`. The performer's interpreter is a
  third thread. All three work on the same MVars.
- The clock calls `doTick` with an arc of cycles and *link operations* bound to a
  session state it captured; `doTick` may set the tempo through them; the clock
  commits the session state afterwards.
- `setClock`, `setBPM` and `setNudge` leave a command in a mailbox that holds one.
- `streamOnce` runs `doTick` in the caller's thread, on a play map made up for the
  occasion but on the shared ValueMap.
- The Link library keeps the timeline, which peers on the network change too: commits
  of the clock go through the controller to the node state that the discovery service
  multicasts; what it receives goes through the cache of peers to the sessions, and from
  them to the controller and the clients' timelines.

Where it is hard: three threads and four MVars taken in different orders; a read
and a swap that are not one step (`transition`); exceptions from lazily evaluated
user patterns at several places; a rollback that trusts the history; a clock that
must follow a timeline others change, sleep, catch up after a pause and lose or
repeat no cycle; C++ objects with manual lifetime behind Haskell closures; an audio
thread that may never block beside a Link thread that merges what everybody says;
nodes that agree on a session without a leader, over a network that loses, delays and
repeats, with timers, failing sends and interfaces that come and go. The
hazards are listed one by one, with their lines, in `PROJECT.json`.

What correctness means, by component:

- *Stream state*: operations are atomic and none is lost; the MVars are always
  given back; a rollback undoes; what cannot be evaluated does not play; calls return.
- *Clock*: arcs are processed neither too early nor too late, each cycle once, in
  order; the clock catches up after a pause; commands are taken.
- *Single ticks*: a tempo set by an event is applied.
- *Listener*: each request is answered in its turn, with its own answer; the loop never
  gets stuck.
- *Link controller*: what the audio thread committed is not taken back from it while it is under way, client
  and session agree once nothing is, beats never jump on their own, the peers get the state the
  node is in, and what the audio thread pushes is read whole and in the end.
- *Link sessions*: nothing that was heard is missed, the peers of the session are counted, the
  nodes end in one session with one timeline.
- *Link discovery*: whoever broadcasts is seen, whoever left is forgotten, a failing send does
  not leave a node deaf, nobody is overdue whose broadcasts are neither lost nor postponed.

## 2. Modules

| Module | Models |
|---|---|
| `PlayMapOps` | the data: the two maps, and each operation on them as a function |
| `PlayMap` | the abstract specification: every operation one atomic step |
| `Stream` | the implementation: threads and MVars, one action per MVar operation |
| `Clock` | the clock thread, its mailbox, time, the Link timeline, peers |
| `SingleTick` | the session states behind `streamOnce` |
| `Service` | the abstract specification of tidal-listener: its request and reply protocol |
| `Listener` | tidal-listener: the OSC loop, the interpreter thread, the two MVars between them |
| `Register` | the abstract specification of a triple buffer: a register with a freshness flag |
| `TripleBuffer` | `TripleBuffer.hpp` and the dispatcher thread, slot by slot |
| `Timelines` | Link's arithmetic: beats, times, phases, client and session timelines |
| `LinkController` | application, audio and Link thread of one node |
| `LinkSessions` | the sessions of a network of nodes: `Sessions`, `Peers`, the session part of `Controller` composed per node |
| `LinkDiscovery` | gateways, messenger, peer timeouts and the network between nodes |
| `MCStream`, `MCClock`, `MCListener`, `MCTripleBuffer`, `MCLink`, `MCSessions`, `MCDiscovery` | instances for TLC |
| `TimelinesProofs` | theorems about Link's arithmetic, used by `LinkControllerProofs` |
| `StreamProofs`, `ClockProofs`, `ListenerProofs`, `TripleBufferProofs`, `LinkControllerProofs`, `LinkSessionsProofs`, `LinkDiscoveryProofs` | theorems about the components |

Definitions named *mutant of X* stand for plausible mistakes in X; no specification uses them.
Each property of a run fails when one of them replaces its original, which shows that the
property depends on the code.

### Stream

`playMV`, `stateMV` are records of a flag *full* and the value held (last); a
`takeMVar` waits for full and clears it, a `putMVar` waits for empty. `globalMV` is
only swapped and read. `pc[t]` is where thread `t` is in its call, `call[t]` the call,
`pMap[t]` and `sMap[t]` the values it took or read.

| Code | Actions |
|---|---|
| `streamReplace`: evaluate, take, put (`UI.hs:62-68`, `Process.hs:308-314`) | `Eval`, `TakePlay`, `PutPlay`; a failed evaluation turns the call into a rollback |
| mute, solo, silence and their *All* forms, rollback | `TakePlay`, `PutPlay` with `result` |
| `transition` (`Transition.hs:46-64`) | `ReadPlay`, `SwapPlay` |
| `streamAll` | `SwapGlobal` |
| `streamSet`, `/ctrl` | `TakeState`, `PutState` |
| `doTick` (`Process.hs:83-125`) by the clock and by `streamOnce` | `TakeState`, `TickRead`, `TickQuery` or `TickThrow`, `PutState` |

`Begin` starts a call. The clock thread always starts a tick; a client starts any
call of its `Requests`. When a tick is due is left to `Clock`.

Abstractions. A pattern is the set of source patterns it is made of: what the models
need to know is which patterns play, which of them throw, and whether they carry the tags
`_id_` and `_t_pattern` that `updatePattern` adds: it plays the tagged pattern, and pushes the
tagged one as an id's first history entry and the bare one later. That the tag `_t_pattern` is a
time, different for each evaluation, is left out. A transition's mapper stacks the *n* newest patterns,
for any *n* (none is silence). The ValueMap has one controller key and one key that stateful events may count
in. Sending is left out: its exceptions are caught message by message. An exception of
the query is a choice (`TickThrow`), because a pattern may throw in one arc and not in
another; an exception of `queryArc pat (Arc 0 0)` is not. Asynchronous exceptions (the
performer interrupting a call) are left out. GHC can wake a thread that waits on an
MVar no other thread can reach with `BlockedIndefinitelyOnMVar`; the MVars of a stream
are reachable as long as the interpreter holds the stream, so this is left out too.

### Clock

Time advances one unit at a time (`Elapse`). The thread's place is `pc`; `ss` is the
session state it captured. `Post` is any of `setClock`, `setBPM`, `setNudge` from
another thread.

| Code (`Clock.hs`) | Actions |
|---|---|
| `swapTVar` of `clockCheck`, `processAction` of nothing and of `SetNudge` | `TakeAction` |
| `processAction (SetTempo _)`, `(SetCycle _)` | `Capture`, then `SetTempo` or `SetCycle` |
| `arcStartTime < logicalEnd` | `Compare` |
| `clockProcess` up to the tick action | `Process` |
| the tick action, and the commit after it | `Act` |
| `tick` | `Tick`, and `Wake` when the delay ends |

The Link timeline is a line, cycle = zero + rate * time, with integer rates. That keeps
all of the clock's control, which depends on comparisons of cycles and times, and drops
the rounding of beats and microseconds. `cyclesToTime c < t` is checked as
`c < timeToCycles t`, which is the same on a line that rises. A commit changes the
timeline only if the session state was changed since its capture, as
`toIncomingClientState` does. Peers may join the session at any moment and change its tempo and phase from then on
(`PeerChange`; `peers` says that some have joined); with peers, `requestBeatAtTime` may wait for the phase.

### SingleTick

`getZeroedLinkOperations` step by step, then the events of the pattern. A session
state is a heap block, so that a write after the block was freed can land in a
session state another thread captured there.

### Listener

| Code (`Listener.hs`, `Hint.hs`) | Actions |
|---|---|
| `recvMessage` and the choice of `act`'s equation | `Recv` |
| `/ping`, `/cps`, messages it does not know | `Direct` |
| `putMVar (sIn st)`, `takeMVar (sOut st)` and the reply | `PutIn`, `TakeOut` |
| `staticInterpreter`, and `hintJob`'s answer when it throws | `Boot`, `BootFails` |
| `takeMVar mMV`, the interpretation, `putMVar rMV` | `TakeIn`, `Interpret`, `PutOut` |

A request is a kind and a text (a model value). A response carries the request it was
computed from, which the code's does not: that is what the properties look at. How a
statement ends is a choice among what `interpretStatement`, `interpretType` and
`interpretFile` may put, their exception handlers included. `Spec` has an interpreter that
boots; `FailingSpec` adds `BootFails`. In a deadlock of the two threads GHC may throw
`BlockedIndefinitelyOnMVar` and end the program; either way no request is answered any more.
Requests the network drops are not requests.

### TripleBuffer

| Code | Actions |
|---|---|
| `TripleBuffer::write` | `BeginWrite`, `EndWrite` (the copy into the slot), `ExchangeWrite` |
| `invoke` of `LockFreeCallbackDispatcher` (notification without a lock) | `Invoke` |
| its `run` (`wait_for`, the callback) | `Dispatch`, `Wait` |
| `readNew` | `Load`, `ExchangeRead`, `Copy` |

A slot is `Torn` while it is copied into, so that a reader that shares a slot with the writer
is seen to. `mState` is an atomic whose every operation acquires and releases: its steps
interleave. A notification counts only while the dispatcher waits; the timeout makes
`Dispatch` possible at any time.

### Timelines

Beats are integers in parts of a beat, times integers in clock ticks, tempos ticks per beat, as
in the code, where they are millionths of a beat and microseconds; `llround` and its halves away
from zero are modelled, because properties of the controller depend on them (a round trip between
beats and times that goes wrong by one part). The scale is a constant: an instance has a coarser
unit, for which roundings are larger. A `GhostXForm` has slope 1, as every one that
`MeasurementService` and `initXForm` make.

### LinkController

| Code (`Controller.hpp`) | Actions |
|---|---|
| `clientState` for an application, `Link.ipp` `captureAppSessionState` | `captureAppSessionState` |
| `setClientState`: under the mutex, then the post | `setClientState`, `postClientState` |
| `enable` | `enable` |
| `clientStateRtSafe` | `clientStateRtSafe` |
| `setClientStateRtSafe`: the timeline's push, then the rest | `setClientStateRtSafe`, `pushStartStopState` |
| the dispatcher's callback | `dispatch` |
| `processPendingClientStates`, `handleRtClientState` | `processPendingClientStates`, `readStartStop`, `handleRtClientState` |
| `handleClientState` | `handleClientState`, `handleClientStartStop`, `invokeStartStopStateCallbackIfChanged` |
| `resetState`; `enable`'s posted handler | `resetState`, `disableDiscovery` |
| `Sessions::sawSessionTimeline` for its own and another session, `handleTimelineFromSession`, `handleStartStopStateFromSession` | `sawSession`, `sawOtherSession`, `handleStartStopStateFromSession` |
| `joinSession`, `updateSessionTiming` | `joinSession`, `joinedSession` |
| the last peer leaving | `peersGone`, `disableDiscovery` |

Whatever the code does under one mutex is one action. The Link thread takes one handler after
the other (`io`), and is interrupted between its steps. Time passes in instants that are longer
than the grace period of 1000 ms (`kLocalModGracePeriod`), and what the audio thread pushed is handled within its instant,
because the dispatcher's timeout is half the grace period; a Link thread that does not run for
that long is outside the model. Some steps of the code that nothing can tell apart are merged: a
handler is taken from the queue with its first step; the callback and the clearing of the flag
`mHasPendingRtClientStates`; the raising of that flag and the push of the timeline; the posting
and setting up of the dispatcher. `updateDiscovery` is modelled where the state changes. The beat
of a start/stop state is left out (its timestamp decides everything), `Sync` is a constant, and
applications are interchangeable.

### LinkSessions

| Code | Actions |
|---|---|
| `Peers::sawPeerOnGateway` with its callbacks into `Sessions` and the peer counter | `Hear`, `HearLate` |
| `peerLeftGateway` (bye-bye or time-out) | `Expire`, `TimeOut` |
| `Sessions::handleSuccessfulMeasurement`, `handleFailedMeasurement`, `joinSession` | `Measured`, `Unanswered` |
| `scheduleRemeasurement` and its timer | `Remeasure` |
| a commit that sets a timeline of the session, `setSessionTimeline` | `Commit` |
| `Controller::resetState` | `resetState` |
| the network | `Delay`, `Drop` |

A timeline is its beat origin, which alone decides between two of a session; a session has an
age, the difference of the ghost times that a measurement gives. The measurement itself (pings
and their median) is taken as exact. Node ids are random in the code: here a finite supply, and
a behaviour ends (`exhausted`) when a node needs another one. At most `MaxResets` resets wait
while the node does other things. `MaxRare` bounds what may happen at any time but does not keep
on happening: states that arrive late, peers unheard for too long, measurements unanswered and
repeated. `lost` records the sessions whose measurement was dropped for another one.

### LinkDiscovery

| Code | Actions |
|---|---|
| `UdpMessenger::broadcastState` on its timer | `broadcastState`; its rate limit is `recent` and `scheduled` |
| `updateState` | `updateState` |
| the receive handler, its answer, `PeerGateway`'s handlers | `Receive` |
| the same for states of nodes other than `Nodes` | `answerOthers` |
| `PeerGateway::pruneExpiredPeers`, `scheduleNextPruning` | `pruneExpiredPeers` |
| `PeerGateways`: `enable`, the scanner's result, `repairGateway` | `enable`, `scan`, `repairGateway` |
| the Controller's purges of the cache | `Purge` |
| interfaces and the network | `Plug`, `Lose` |

Time passes (`Tick`) in units of `minBroadcastPeriod`, 50 ms, to which timers are rounded; messages, posted handlers and
timers that are due are dealt with within a unit, in any order (`calm`). A node that sent anything in
a unit, an answer too, is `recent` until the unit ends, and a broadcast that is due then is put off to
the next unit, where the same may happen to it: nothing bounds how long. There may be any other nodes on the network. All that matters of them
here is that the nodes answer them, at any time and as often as they like, that such an answer renews the time of the last one sent, and
that it may throw: `answerOthers`. `postponed` counts, for each pair of
nodes, how often that happened to the one since the other last heard it. A node has one interface, keeps its id,
and messages are not duplicated (a repeated state changes nothing but the time to live). Messages may overtake each
other: `net` is a set. A send throws when the interface is gone and, as a fault, at any time.

## 3. Runs

| Run | Instance | Shows |
|---|---|---|
| `stream_atomic` | clock, OSC thread and interpreter; 2 ids, 1 pattern, 2 values, histories up to 2, counter modulo 2; mute, unmute, silence, replace, set by two threads, once (172,934 states) | `TypeOK`, `StateOwned`, `UndoRestores`, `RollbacksEndInSilence`; `OperationsAtomic`: the threads implement `PlayMap`; `TicksGoOn`, `CallsReturn`; no deadlock |
| `stream_throw` | 1 id; a pattern that cannot be evaluated, one that throws in ticks, a global function that throws, transitions on and off the history to a third, which cannot be evaluated either (131,004 states) | `PlayOwned`, `ReplacementsEvaluated`, `PlayCallsReturn`, `FlagsStay`, `OnlyTransitionsLose` |
| `stream_throw_continues` | violation; a pattern that throws in ticks | `ContinuesAfterThrow` |
| `stream_transition` | violation; a replacement and a transition to patterns that cannot be evaluated | `OnlyEvaluatedPlay` |
| `clock` | frame 4, 12 ahead, skip 1, tempos 1 and 2, tempo and cycle and nudge commands, tempos set by events, delays of 1 per round, peers that join at any moment and keep the session within one cycle of cycle 0, until time 8 (1,382,525 states) | `EarlyEnough`, `NotTooEarly`, `ArcsForward`, `CaughtUp`, `CommandsTaken` |
| `single_tick` | violation; 3 blocks, 2 tempos | `TempoApplied` |
| `listener` | six kinds of requests with 2 texts, 2 datagrams waiting | `InStep`, `Responsive`; `AnsweredInTurn`: the listener implements `Service`; no deadlock |
| `listener_boot` | violation; an interpreter that may fail to boot | `Responsive` |
| `link_buffer` | 2 values, any number of writes (6,912 states) | `Distinct`, `WritesTaken`; `ImplementsRegister`: the buffer implements `Register`; no deadlock |
| `link_controller` | 2 applications, the audio and the Link thread, 2 instants; beats of 40 parts and tempos of 15 to 30 ticks per beat; 2 commits, 1 network event, 2 calls of enable, at most 4 of them together (2,498,648 states) | `TypeOK`, `Settled`, `StartStopSettled`, `Advertised`, `ForcedBeatKept`, `Continuous`, `RtKeepsCommit`; no deadlock |
| `link_sessions` | 2 nodes founded within `SESSION_EPS`, 1 id for a reset, 1 commit, 3 rare events (422,542 states) | `TypeOK`, `NothingMissed`, `EveryPeerCounts`, `Converges` |
| `link_discovery` | 2 nodes among others that are not followed, a period of 2 units, time to live 4, padding 1, 1 new state of a node, 2 faults or other events (1,024,146 states) | `TypeOK`, `NobodyStays`, `DeafRepaired`, `NotOverdue`, `Seen`, `Forgotten`; no deadlock |

### Bounds

*Stream.* Two clients and the clock are the threads a stream has. Two ids are enough for
one operation to disturb another's entry (a rollback moves all of them). A history of
two entries has a head, a previous entry, and, after a rollback, none; a rollback
that failed to move back is seen on it. `MaxHistory` only keeps a client from starting
another call that pushes. The counter is cyclic (`Wrap`), so that no bound on ticks is
needed. `stream_throw` does not check deadlock because the stream does stop there (section 5).

*Clock.* The process-ahead time is three frames and the clock skips when it is
more than one tick off, so that it skips at its start and after every `setClock`, as the
real clock would if its process-ahead time were longer than the ticks it tolerates; the
horizon covers several ticks, with commands at every place of the thread. Both branches
of `tick` are taken. The frame is four units long, so that the delays of two rounds at the
faster tempo fit into a frame at the slower one, as `AlwaysEarlyEnough` asks (section 4). The
other theorems about the clock have no horizon and no bound on delays.
`EarlyEnough` and `ArcsForward` speak of behaviours as long as no peer has joined: the phase of a
network may jump over what was processed, or back. The instance does not check deadlock: it ends at the horizon.

*Listener.* Two texts and two waiting datagrams make three requests of the same kind that can
be confused: the one worked on and two more.

*TripleBuffer.* Two values tell the last one from the one before; nothing bounds the writes.

*LinkController.* An instant of 10 ticks is a third to two thirds of a beat and, but for the
first tempo, no whole number of parts of a beat, so that conversions round. Two commits are enough for one to overtake the other, with
a third party (the network, a session joined, enabling) between their two halves; two
applications and the audio thread make every pair of committers. Applications are symmetric.

*LinkSessions.* Two nodes of nearly the same age make the tie that `SESSION_EPS` breaks by id;
the third id is that of a younger session, as any reset founds. Three rare events are enough for a late
state to bring back what was forgotten and for a measurement to replace another. Deadlock is not checked:
a behaviour ends when all is quiet, or the ids run out.

*LinkDiscovery.* A time to live of two broadcasts survives one fault and not two, which is what
`NotOverdue` says when nothing is postponed; a period of two units is the shortest in which a broadcast is postponed by less than a
period. Two events make every pair of lost messages, failed sends, purges, new states,
nodes disabled and interfaces that come or go. `age` counts the units in which a gateway is open on
a connected interface, not those in which it is open on one that is gone, in which it hears nobody without any fault:
`NotOverdue` is false otherwise. Two nodes alone never postpone a broadcast for long without being heard: the answer that
postpones it goes to the only node that waits for it. `answerOthers` is the case with three and more nodes: no event is spent on it, so that the others
may have new states for ever, and the two may starve each other of multicasts until they are overdue with each other (section 5).
`Seen` is false of a node that is starved again and again, and excuses it (`starved`).

### Properties that depend on each other

`OnlyTransitionsLose` and `OperationsAtomic` are two halves of one statement: without
transitions every step is an atomic operation, with them every step is one or is the
swap of an outdated snapshot. `ReplacementsEvaluated` is what remains of `OnlyEvaluatedPlay`, which
transitions break: replacements install nothing that throws when evaluated. `UndoRestores` says of
patterns what sounds, not their tags, which a rollback does not bring back (section 5). `Settled`, `StartStopSettled` and `Advertised` speak of instants in which nothing is
under way; `RtKeepsCommit` speaks of the others. The distance `Settled` allows between the phases of
client and session, a tick's worth and one part of a beat, is what two roundings make.
`RollbacksEndInSilence` speaks of the number of rollbacks that the longest history has entries, which no bound of the model limits. `Seen` and `Forgotten` are what
`LinkSessions` takes from `LinkDiscovery`: that a node's state is heard again and again, and that a
node that is not heard expires.

### Fairness

- *Stream* (`LiveSpec`): the clock thread never stops starting ticks (weak
  fairness of `Begin(clock)`: `clockCheck` and `tick` call each other for ever), and a
  thread whose next step is possible again and again takes it (strong fairness of
  `Step(t)`): GHC's scheduler is preemptive and round-robin, and its MVars are FIFO and
  single-wakeup, so that a thread waiting on an MVar that is refilled again and again is
  served. Clients are never obliged to call.
- *Clock*: its thread runs, and time passes.
- *Listener*: neither of its two threads is starved; a client is never obliged to send.
- *TripleBuffer*: a `write` that began ends, the dispatcher's timeout fires, and the io context runs what is posted. Nobody is obliged to write.
- *LinkSessions*: what a node broadcasts is heard (the discovery service repeats it for ever; a third node that starves
  the broadcasts of others, section 5, is left out),
  what is not heard expires (the prune timer), a measurement that is asked for ends, a
  posted reset runs, and a late state is dropped in the end. Rare events and commits are never obliged.
- *LinkDiscovery*: timers fire (`broadcastState`, `pruneExpiredPeers`), posted repairs run, the interfaces
  are scanned again (every five seconds), a message is received or lost, and time passes.
  Losing is bounded by the number of events, so that a message that is repeated arrives in the end.

## 4. Proofs

All theorems are checked by TLAPS for every value of the constants. The assumptions on constants
are the named ones of the modules, which TLC evaluates too: `PlayMapAssumption`,
`StreamAssumption`, `ClockAssumption`, `ListenerAssumption`, `UnitAssumption`, `TempoAssumption`,
`ControllerAssumption`, `TornAssumption`, `SessionsAssumption` and `DiscoveryAssumption`. They give types;
beyond that the clock is not a client, a pattern that fails its evaluation may fail in a tick,
a torn slot is no value, and no two sessions are exactly `SESSION_EPS` apart. Some theorems have a hypothesis of their
own, each about the configuration only: `NoTransitions`, `HeldUpLittle`, `LongQuanta`.

`StreamProofs`:

- `TypeCorrect`: the type invariant. It is inductive because it says, for each place of a
  thread, which call it may be in and which locals it has (`calling`).
- `PlayMapOwned`, `ValueMapOwned`: from `Owned == PlayOwned /\ StateOwned`, inductive with
  the type. The thread between its take and its put works on the value the MVar held last,
  so that nothing changes under it. Exceptions are included.
- `OnlySwapsLose` and `NoLostUpdate`: the refinement maps each MVar to the value it held last. The
  steps that change it are the puts and the swaps; by `Owned` a put applies its operation
  to the map's present value, and a swap does so if the map it read is still the present one.
  Every other swap is `staleSwap`, and there is none if no client requests a transition:
  then `StreamSpec => OperationsAtomic`.
- `FlagsStayPut`: each operation of `PlayMap` keeps the ids, and the flags of an id whose pattern
  or history it changes (`keepsFlags`); with `OnlySwapsLose` that is all that happens.
- `UndoWorks`: without transitions, what plays is made of the patterns at the head of the history (`HeadPlays`,
  the invariant `UndoRestores` needs; kept by replacement, silence and rollback), and
  therefore a rollback after a replacement restores the flags, the history and what patterns play. It does not restore
  their tags (section 5).
- `OnlyEvaluated` (`ReplacementsEvaluated`): from `AllEvaluated`, which extends the property to all entries of the histories
  (a rollback plays one of them) and to what threads are about to install. It has no hypothesis: what plays and cannot be
  evaluated is among the patterns that clients ask transitions to.
- `SilenceInTheEnd` (`RollbacksEndInSilence`): from `Storied`, by which every id has a history in every play map a thread works on (a
  rollback of an id without one would leave its pattern playing). What `n` rollbacks make of a map is an induction over
  `n`. The library's induction theorems take an operator, which the provers cannot instantiate; `SetInduction`
  has a set instead, and is proved from the least element that a set of numbers has. It is used for the recursive function
  of rollbacks (`RollbackFunction`) and for what they leave (`RolledBack`).

`ClockProofs`:

- `ClockTypeCorrect`: the type invariant.
- `NeverTooEarly` and `TicksCatchUp`: from `Margin`, which bounds the end of the current
  tick by a frame beyond the time to process, measured at the present while the thread is
  awake and at its wake-up time while it sleeps. `NotTooEarly` alone is not inductive: it
  says nothing of the sleeping thread, and the sleep is what pays for being early.
- `ArcsGoForward` (as long as no peer has joined): from `Remaining` (what `clockCheck` found to process is
  still there in `clockProcess`).
- `AlwaysEarlyEnough` (`EarlyEnough`, as long as no peer has joined): from two invariants, which hold as long. `Paced` says that a round starts a frame or more before its
  tick ends, and that what the thread captured is still the timeline. `Led` bounds the *lead*, the cycles between
  the speaker and what was processed last, from below: by what the thread may still be held up for at the fastest tempo, and
  between a tick and the next sleep by what is left of the tick at the slowest. `EarlyEnough` is not inductive without them: a
  tempo that rises leaves the cycles processed ahead less time, so that the lead that was enough is not.
  For the same reason it needs `HeldUpLittle(slow, fast)`: the delays of two rounds at the fastest tempo fit into a frame at the
  slowest, and those delays and a frame into the process-ahead time. The default configuration (1/20 s and 3/10 s) meets it for tempos of a
  ratio up to 6 if nothing delays the thread and up to 5 with 5 ms per round; `clock` meets it with `slow = 1`, `fast = 2`.

`ListenerProofs`:

- `ListenerTypeCorrect` and `NeverOutOfStep`: `TypeOK /\ InStep` is inductive. `InStep` says
  where the one request under way is; it is what makes the response taken the right one.
- `ImplementsProtocol`: `Spec => AnsweredInTurn`. `Recv` is `Accept`, `Direct` and `TakeOut` are
  `Answer`, the interpreter's own steps stutter.

`TripleBufferProofs`:

- `BufferTypeCorrect` and `OneOwner`: the type is inductive only with `Distinct` and with the
  fact that the one slot that may be torn is the writer's during a write; then what the reader copies is never torn.
- `BufferImplementsRegister`: the register is the slot behind `mState` while that is new and the
  reader's own slot otherwise; `ExchangeWrite` is `Write`, `ExchangeRead` is `ReadNew`, every other step stutters.

`TimelinesProofs`, all from what a division leaves and `Nearest` (a rounding is off by half a unit at most):

- `ClosestMatch`: what `closestPhaseMatch` returns has the phase of the target and is half a quantum away at most. "The same phase" is
  congruence (`sameOn`), an equivalence that sums respect (`SamePlaces`); a match is the only
  such beat within a quantum (`NextMatch`, `OnePlace`).
- `PhaseEncoded`: phase encoded beats have the phase of the beats since the timeline's origin, so that they agree
  between clients whose beats count differently.
- `BeatForced`: `forceBeatAtTime` leaves no later beat at the time than was asked for. The first try may leave one that is off by a tick's worth and a part of a beat
  (`ForcedNear`). The second one is for the next tick: it moves the timeline back by what that is too much, and a
  number that is moved back before it is rounded is not greater than one moved back after it (`RoundedDown`; forward it may be, for halves
  are rounded away from zero). That the second try moves back, and not on to the next match, is where the quantum must be longer than four such roundings.

`LinkControllerProofs`:

- `ControllerTypeCorrect`: the type invariant of all variables. The arithmetic is what makes it
  interesting: every timeline of a client or of the session state has a tempo in range, whatever peers and applications ask for.
- `BeatsGoOn` (`Continuous`): the client timeline made for a changed session passes through the beat the old one had
  at that instant. It is anchored at the session's beat zero, not at the present, so the beat is computed there and back;
  the two roundings cancel because `llround` is odd.
- `ForcedBeatStays` (`ForcedBeatKept`): the timeline that is committed is the one that was edited (its tempo is in range,
  so that clamping does nothing), and `BeatForced` is about that. `LongQuanta`: a beat that is forced has no quantum or one of 4 roundings
  at the fastest tempo, about 70 millionths of a beat; Tidal's default is four beats.
- `AlwaysSettled` (`Settled`): from `Follows`. The client's timeline is *anchored* in the session (same tempo, its beats those
  of the session at the session's beat zero), or it is in a commit that is still to be handled: in the hands of an application, in the queue or being
  handled. That its handler is posted after the mutex was released is why the commit has to be looked for in three places, and that a second
  commit takes the first one's place in the client state is why it is enough that *one* of them holds the
  client's present timeline. An anchored timeline is in phase (`InPhase`, from `PhaseEncoded` and
  `SpansAddUp`), but for the two roundings that `Settled` allows.
- `AlwaysStartStopSettled` (`StartStopSettled`): from `SameStartStop` and `Told`, alike: a client state that is not the session's is newer
  and still to be handled; an application that was not told will be by a handler under way.
- `AlwaysAdvertised`: from `Announced`, by which only the handler that joins a session may differ from what is announced.
- `CommitReadBack` (`RtKeepsCommit`): from `Fresh`, by which a timeline that was pushed and not yet handled was cached with the
  present instant as its timestamp (or with none, Link being disabled, or its push is not finished). The assumption that time passes only when
  it has been handled (section 2) is used here.

`LinkSessionsProofs`:

- `SessionsTypeCorrect`: the type invariant, with the session a node is in known to it.
- `NothingIsMissed`, `NoPeerUncounted`: each inductive with the type. The first needs that a session is forgotten together
  with its cached peers and a reset empties the cache; the second that the count is taken at every change of membership
  and that nothing between two counts adds a peer to the node's own session.

`LinkDiscoveryProofs`:

- `DiscoveryTypeCorrect`, `NobodyStaysForEver`, `DeafIsRepaired`: from one invariant per node (`NodeOK`): the prune timer is
  set in time for everybody listed, who is cached is listed, and a gateway that is deaf is open with its repair posted. That the
  next peer to expire exists (`scheduleNextPruning` takes a minimum over the nodes) is proved for any set of nodes, since
  the segments of numbers up to a timeout are finite sets, which strict inclusion orders well.
- `OverdueExcused` (`NotOverdue`): from `Excused`, a balance of time for each pair of nodes. The units for which both have been connected and one has
  not heard the other, plus the time until the other broadcasts next (`due`; none while a broadcast is on its way, or lost on a
  gateway that is deaf and about to be repaired), are no more than a period for each fault and one more, and a unit for each
  postponement. A tick adds a unit to the first and takes one from the second; a broadcast that is sent adds a period to the
  second, and what becomes of it is that it is heard, which clears the first, or a fault; a postponement adds a unit to both sides. Nothing is
  assumed of how long broadcasts are put off, nor of the number of nodes.

The type invariants of `Clock`, `Listener` and `TripleBuffer` are proved and not run.

Every invariant and every action property that a run checks is stated by a theorem. Model-checked only: the liveness properties
(`TicksGoOn`, `CallsReturn`, `PlayCallsReturn`, `CommandsTaken`, `Responsive`, `WritesTaken`, `Converges`, `Seen`, `Forgotten`),
since TLAPS does neither fairness nor `ENABLED`; and the runs that expect a violation.

## 5. Where code and documentation disagree

1. `stream_throw_continues`. `doTick`'s comment says that after an exception it returns to
   the previous pattern "and continues". It takes the ValueMap at `Process.hs:98` and
   puts it back at line 125 only; the handler does not. The next tick waits for ever.
2. `single_tick`. "Tempo changes will be applied", says `onSingleTick`; the session states are
   committed and destroyed before they are used.
3. `listener_boot`. "Ask the interpreter to execute a statment", says `act`; an interpreter that
   fails to boot answers nobody's request, and the loop blocks on the second. At this commit
   booting always fails: `bootTidal` names `streamGetcps` and `streamGetnow`, which the library
   calls `streamGetCPS` and `streamGetNow`.
4. `stream_transition`. "Evaluation of pat is forced so exceptions are picked up here, before replacing the existing
   pattern", says `transition`'s comment (`Transition.hs:44`). The bang (line 47) forces the record of the pattern, not its query.

Not checked as a disagreement but worth knowing, and excluded by the hypothesis or the wording of a
property:

- A rollback does not bring back all of the previous pattern. What plays is the
  pattern with the tags `_id_` and `_t_pattern`; what is pushed for an id that exists is the pattern
  without them (`Process.hs:314-318`). A rollback plays it untagged, which its OSC messages (`Process.hs:223`) and `trigger`
  (`Control.hs:566-570`) show, although `doTick`'s comment (lines 79-80) promises the previous pattern. `UndoRestores` is about the
  flags, the history and which patterns play.
- A broadcast that is due after an answer is put off by 50 ms, and every
  answer counts (`UdpMessenger.hpp:208-229`, 248): a node whose state changes all the time can keep two others from multicasting
  until they are overdue with each other, although `broadcastState` means "to keep trying at our interval"
  (lines 216-219). `NotOverdue` says how much of the time to live that takes, and `Seen` excuses a node that is starved again and again.
- A transition off the history leaves the
  replaced pattern at the head of the history, where a rollback drops it. An overlay that
  throws gives way to the entry before the pattern it was laid over. `UndoRestores` is
  therefore stated and proved without transitions.
- `joinSession` first sets the new session id and then handles what the audio thread had pushed
  (`Controller.hpp:512-515`): a commit made for the old session is applied under the id of the new one, and then replaced by its timeline.
- The handler clears `mHasPendingRtClientStates` (line 504) although the audio thread may have pushed again since it
  read the buffers; with Link disabled the cached timestamp is 0 and does not protect that push either. `RtKeepsCommit` is about an enabled Link.
- A reset empties the cache of peers without counting: the count may stay above the peers there are, and the next
  change of membership posts another reset. `EveryPeerCounts` is therefore an inequality.
- A measurement of a peer replaces the one in progress, whose handler is then never called
  (`MeasurementService.hpp:73-85`, whose comment promises that it is): the session it was for stays known and unmeasured, and two nodes can then stay
  in different sessions for ever. `Converges` excuses it (`lost`).
- A measurement that fails at once calls its handler before the session is inserted (`Sessions.hpp:100`).
- Sessions founded exactly `SESSION_EPS` apart prefer neither, and within it the preference by id is not transitive (`Sessions.hpp:162`).

## 6. Not modelled, and why

- *Handshake with SuperDirt.* The busses only decide the port bus messages go to, and doTick's messages are not modelled.
  Its hazard (a handshake repeated only after two seconds of silence) is listed.
- *Pattern algebra, transitions' mappers over time, `Bjorklund`.* Pure functions on rational time; the test suite checks their laws.
  A model on a bounded grid of cycles would repeat unit tests.
- *Parser, parameters and tables, formatting, file splitting.* Sequential functions over strings.
- *Composition of `Clock` with `Stream`.* A tick that blocks delays the clock, which `Clock` has as a delay of any length
  in its proofs; the product adds no further interaction, because the clock calls `doTick` and waits.
- *Composition of `LinkSessions` with `LinkDiscovery` and `LinkController`.* Each is checked against what the others promise (section 3); the
  product is out of TLC's reach.
- *Measurements.* The pings, their median and the time-outs of a measurement are one exact or failed answer; the statistics of round trips are not a matter of states.
- *Several network interfaces, duplicated messages, changes of a node's id in `LinkDiscovery`.* A second interface
  adds an entry of its own for each peer and changes no handler; ids change in `LinkSessions`.
- *Floating point.* Tempos are the integers they are rounded to.
- *Platform code, sockets, clocks, encodings.* I/O.
- *Vendored code* (asio, the examples of Link), generated tables and superseded sources make up nearly all
  lines of the repository; the lines modelled are those of Tidal's and Link's own control.
