------------------------ MODULE LinkControllerProofs ------------------------
(***************************************************************************)
(* Proofs about LinkController, for any resolution of beats, tempos,       *)
(* applications and peers.  TimelinesProofs has the arithmetic.            *)
(***************************************************************************)
EXTENDS LinkController, TimelinesProofs, SequenceTheorems

-----------------------------------------------------------------------------
(***************************************************************************)
(* Timelines with a tempo in range.                                        *)
(***************************************************************************)
\* A tempo is put into its range, and nothing else is changed.
LEMMA Clamped ==
  ASSUME NEW tl \in Timeline
  PROVE  clampTempo(tl) \in InRange
<1>1. tl = timeline(tl.tempo, tl.beatOrigin, tl.timeOrigin) /\ tl.tempo \in Nat \ {0}
  BY DEF Timeline, timeline
<1> QED BY <1>1, TempoAssumption DEF clampTempo, Timeline, InRange

\* A timeline with a tempo in range is a timeline.
LEMMA Ranged == InRange \subseteq Timeline
BY TempoAssumption DEF InRange, Timeline

\* Timelines are made of a tempo, a beat and a time.
LEMMA MadeTimeline ==
  ASSUME NEW m, NEW b \in Int, NEW t \in Int
  PROVE  /\ m \in Nat \ {0} => timeline(m, b, t) \in Timeline
         /\ m \in Fastest .. Slowest => timeline(m, b, t) \in InRange
BY DEF timeline, Timeline, InRange

\* What an application does to a timeline keeps it in range.
LEMMA TempoSet ==
  ASSUME NEW tl \in InRange, NEW m \in Positive, NEW t \in Int
  PROVE  setTempo(tl, m, t) \in InRange
<1> DEFINE desired == clampTempo(timeline(m, toBeats(tl, t), t))
<1>1. tl \in Timeline BY Ranged
<1>2. desired \in InRange BY <1>1, OnTimeline, MadeTimeline, Clamped DEF Positive
<1>3. fromBeats(desired, tl.beatOrigin) \in Int BY <1>1, <1>2, Ranged, OnTimeline DEF Timeline
<1> HIDE DEF desired
<1>4. [tl EXCEPT !.tempo = desired.tempo, !.timeOrigin = fromBeats(desired, tl.beatOrigin)] \in InRange
  BY <1>2, <1>3 DEF InRange
<1> QED BY <1>4 DEF setTempo, desired

\* Shifting a timeline leaves its tempo alone.
LEMMA ForcedOnce ==
  ASSUME NEW tl \in InRange, NEW b \in Int, NEW t \in Int, NEW q \in Nat
  PROVE  forceBeatAtTimeImpl(tl, b, t, q) \in InRange
<1> DEFINE current == toPhaseEncodedBeats(tl, t, q)
           closestInPhase == closestPhaseMatch(current, b, q)
           shifted == shiftClientTimeline(tl, closestInPhase - current)
<1>1. current \in Int BY Ranged, Encoded
<1>2. closestInPhase \in Int BY <1>1, Matches
<1> HIDE DEF current, closestInPhase
<1>3. closestInPhase - current \in Int /\ 0 \in Int BY <1>1, <1>2
<1>4. fromBeats(tl, closestInPhase - current) \in Int /\ fromBeats(tl, 0) \in Int BY <1>3, Ranged, OnTimeline
<1>5. shifted \in InRange BY <1>4 DEF shiftClientTimeline, InRange
<1> HIDE DEF shifted
<1>6. [shifted EXCEPT !.beatOrigin = @ + b - closestInPhase] \in InRange BY <1>2, <1>5 DEF InRange
<1> QED BY <1>6 DEF forceBeatAtTimeImpl, shifted, closestInPhase, current

\* Putting a beat at a time leaves the tempo in range.
LEMMA Forced ==
  ASSUME NEW tl \in InRange, NEW b \in Int, NEW t \in Int, NEW q \in Nat
  PROVE  forceBeatAtTime(tl, b, t, q) \in InRange
<1>1. t + 1 \in Int /\ forceBeatAtTimeImpl(tl, b, t, q) \in InRange BY ForcedOnce
<1>2. forceBeatAtTimeImpl(forceBeatAtTimeImpl(tl, b, t, q), b, t + 1, q) \in InRange BY <1>1, ForcedOnce
<1> QED BY <1>1, <1>2 DEF forceBeatAtTime

\* So does requesting a beat, with peers or without.
LEMMA Requested ==
  ASSUME NEW tl \in InRange, NEW b \in Int, NEW t \in Int, NEW q \in Nat, NEW connected \in BOOLEAN
  PROVE  requestBeatAtTime(tl, b, t, q, connected) \in InRange
<1>1. nextPhaseMatch(toPhaseEncodedBeats(tl, t, q), b, q) \in Int BY Ranged, Encoded, Matches
<1>2. fromPhaseEncodedBeats(tl, nextPhaseMatch(toPhaseEncodedBeats(tl, t, q), b, q), q) \in Int
  BY <1>1, Ranged, Encoded
<1> QED BY <1>2, Forced DEF requestBeatAtTime

\* The client's timeline is replaced by one that is in the session's tempo and goes through the same
\* beat at the same time: the beats from there to the session's beat zero and back cancel out.
LEMMA ClientFollows ==
  ASSUME NEW client \in Timeline, NEW s \in InRange, NEW t \in Int, NEW x \in Int
  PROVE  LET new == updateClientTimelineFromSession(client, s, t, x)
         IN  new \in InRange /\ toBeats(new, t) = toBeats(client, t)
<1> DEFINE b == toBeats(client, t)
           z == ghostToHost(x, fromBeats(s, 0))
           temp == timeline(s.tempo, b, t)
           m == s.tempo
<1>1. b \in Int BY OnTimeline
<1>2. z \in Int
  <2>1. s \in Timeline /\ 0 \in Int BY Ranged
  <2>2. fromBeats(s, 0) \in Int BY <2>1, OnTimeline
  <2> QED BY <2>2 DEF ghostToHost
<1>3. m \in Positive /\ m \in Fastest .. Slowest BY TempoAssumption DEF InRange, Positive
<1> HIDE DEF b, z, m
<1>4. toBeats(temp, z) = b + microsToBeats(m, z - t) BY DEF toBeats, timeline, m
<1>5. z - t \in Int /\ t - z = -(z - t) BY <1>2
<1>6. microsToBeats(m, z - t) \in Int /\ microsToBeats(m, t - z) = -microsToBeats(m, z - t)
  BY <1>3, <1>5, Beats
<1>7. updateClientTimelineFromSession(client, s, t, x) = timeline(m, b + microsToBeats(m, z - t), z)
  <2>1. timeline(s.tempo, toBeats(client, t), t) = temp /\ temp.tempo = m BY DEF timeline, b, m
  <2> QED BY <1>4, <2>1 DEF updateClientTimelineFromSession, z
<1>8. timeline(m, b + microsToBeats(m, z - t), z) \in InRange BY <1>1, <1>2, <1>3, <1>6, MadeTimeline
<1>9. toBeats(timeline(m, b + microsToBeats(m, z - t), z), t)
        = (b + microsToBeats(m, z - t)) + microsToBeats(m, t - z)
  BY DEF toBeats, timeline
<1>10. (b + microsToBeats(m, z - t)) + microsToBeats(m, t - z) = b BY <1>1, <1>6
<1> QED BY <1>7, <1>8, <1>9, <1>10 DEF b

\* The session's timeline made from a client's is a timeline, whatever its tempo was before.
LEMMA SessionFollows ==
  ASSUME NEW s \in Timeline, NEW client \in InRange, NEW t \in Int, NEW x \in Int
  PROVE  updateSessionTimelineFromClient(s, client, t, x) \in Timeline
<1> DEFINE ghostBeat0 == hostToGhost(x, client.timeOrigin)
           beat == toBeats(s, hostToGhost(x, t))
           origin == IF beat > s.beatOrigin THEN beat ELSE s.beatOrigin + 1
<1>1. ghostBeat0 \in Int /\ hostToGhost(x, t) \in Int /\ client.tempo \in Nat \ {0}
  BY TempoAssumption DEF InRange, hostToGhost
<1>2. origin \in Int
  <2>1. beat \in Int BY <1>1, OnTimeline
  <2> QED BY <2>1 DEF Timeline
<1> HIDE DEF ghostBeat0, origin
<1>3. timeline(client.tempo, 0, ghostBeat0) \in Timeline BY <1>1, MadeTimeline
<1>4. fromBeats(timeline(client.tempo, 0, ghostBeat0), origin) \in Int BY <1>2, <1>3, OnTimeline
<1>5. timeline(client.tempo, origin, fromBeats(timeline(client.tempo, 0, ghostBeat0), origin)) \in Timeline
  BY <1>1, <1>2, <1>4, MadeTimeline
<1> QED BY <1>5 DEF updateSessionTimelineFromClient, ghostBeat0, origin
-----------------------------------------------------------------------------
(***************************************************************************)
(* What is committed.                                                      *)
(***************************************************************************)
LEMMA TheOne == ASSUME NEW s, s # none PROVE the(s) \in s
BY DEF the, none

\* An application cannot edit the state it captured out of range (setTempo clamps).
LEMMA Edited ==
  ASSUME NEW e \in Edit, NEW state \in ClientState, NEW t \in Nat, NEW connected \in BOOLEAN
  PROVE  edit(e, state, t, connected) \in ClientState
<1> DEFINE tl == IF e.tempo = none THEN state.timeline ELSE setTempo(state.timeline, the(e.tempo), t)
           new == IF e.beat = none THEN tl
                  ELSE IF e.force THEN forceBeatAtTime(tl, the(e.beat), t, e.quantum)
                  ELSE requestBeatAtTime(tl, the(e.beat), t, e.quantum, connected)
           ss == IF e.play = none THEN state.startStopState ELSE [isPlaying |-> the(e.play), timestamp |-> t]
<1>1. state.timeline \in InRange /\ state.startStopState \in StartStop /\ t \in Int BY DEF ClientState
<1>2. e.tempo # none => the(e.tempo) \in Positive BY TheOne DEF Edit, Positive
<1>3. tl \in InRange BY <1>1, <1>2, TempoSet
<1>4. e.beat # none => the(e.beat) \in Int BY TheOne DEF Edit
<1>5. e.quantum \in Nat BY DEF Edit
<1> HIDE DEF tl
<1>6. new \in InRange BY <1>1, <1>3, <1>4, <1>5, Forced, Requested
<1>7. e.play # none => the(e.play) \in BOOLEAN BY TheOne DEF Edit
<1>8. ss \in StartStop BY <1>1, <1>7 DEF StartStop
<1> HIDE DEF new, ss
<1>9. [timeline |-> new, startStopState |-> ss] \in ClientState BY <1>6, <1>8 DEF ClientState
<1> QED BY <1>9 DEF edit, new, tl, ss

\* A commit may change nothing.
LEMMA Nothing == nothing \in Change
BY DEF nothing, change, none, Change

\* What is committed is what was edited.
LEMMA Incoming ==
  ASSUME NEW new \in ClientState, NEW old \in ClientState, NEW t \in Nat
  PROVE  toIncomingClientState(new, old, t) \in Change
<1>1. new.timeline \in InRange /\ [new.startStopState EXCEPT !.timestamp = t] \in StartStop
  BY DEF ClientState, StartStop
<1> QED BY <1>1 DEF toIncomingClientState, change, none, Change

\* Preferring a start/stop state leaves the timeline of a change alone.
LEMMA Preferred ==
  ASSUME NEW c \in Change, NEW current \in StartStop
  PROVE  /\ preferred(current, c) \in Change /\ preferred(current, c).timeline = c.timeline
         /\ preferred(current, c).timelineTimestamp = c.timelineTimestamp
<1>1. \A s \in c.startStopState : selectPreferredStartStopState(current, s) \in StartStop
  BY DEF selectPreferredStartStopState, Change
<1> QED BY <1>1 DEF preferred, Change

\* Clamping keeps a change one.
LEMMA ClampedChange == ASSUME NEW c \in Change PROVE clamped(c) \in Change
<1>1. \A tl \in c.timeline : clampTempo(tl) \in InRange BY Ranged, Clamped DEF Change
<1> QED BY <1>1 DEF clamped, Change

\* A change can be applied to a client state; one without a timeline leaves the timeline alone.
LEMMA Applied ==
  ASSUME NEW state \in ClientState, NEW c \in Change
  PROVE  /\ applied(state, c) \in ClientState
         /\ c.timeline = none => applied(state, c).timeline = state.timeline
<1>1. c.timeline # none => the(c.timeline) \in InRange BY TheOne DEF Change
<1>2. c.startStopState # none => the(c.startStopState) \in StartStop BY TheOne DEF Change
<1> QED BY <1>1, <1>2 DEF applied, ClientState
-----------------------------------------------------------------------------
(***************************************************************************)
(* What the actions are made of.                                           *)
(***************************************************************************)
Handlers == [task : {"client", "enable", "disable", "pending", "reset"}, arg : Change]
DiscoveryState == [on : BOOLEAN, id : {Own, Joined}, state : SessionState]

\* A node state is made of its session.
LEMMA MadeState ==
  ASSUME NEW on \in BOOLEAN, NEW id \in {Own, Joined}, NEW s \in SessionState
  PROVE  nodeState(on, id, s) \in DiscoveryState
BY DEF nodeState, DiscoveryState

\* What updateDiscovery pushes is the session and its state after the step.
LEMMA Discovered ==
  ASSUME SessionType, mSessionState' \in SessionState, NEW id \in {Own, Joined}, updateDiscovery(id)
  PROVE  mDiscovery' \in DiscoveryState /\ mDiscovery'.id = id /\ mDiscovery'.state = mSessionState'
<1>1. mDiscovery.on \in BOOLEAN BY DEF SessionType
<1>2. mDiscovery' \in DiscoveryState BY <1>1, MadeState DEF updateDiscovery
<1> QED BY <1>2 DEF updateDiscovery, nodeState

\* Start/stop states are translated between clocks.
LEMMA Mapped ==
  ASSUME NEW ss \in StartStop, NEW x \in Int
  PROVE  mapToClient(ss, x) \in StartStop /\ mapToSession(ss, x) \in StartStop
BY DEF mapToClient, mapToSession, ghostToHost, hostToGhost, StartStop

\* StartStopState{} is a start/stop state.
LEMMA StoppedType == stopped \in StartStop
BY DEF stopped, StartStop

\* A session whose timing changes: the client follows, and its beats do not jump.
LEMMA Timed ==
  ASSUME mClientState \in ClientState, now \in Nat,
         NEW s \in SessionState, NEW tl \in Timeline, NEW x \in Int, updateSessionTiming(s, tl, x)
  PROVE  /\ mSessionState' \in SessionState /\ mClientState' \in ClientState
         /\ toBeats(mClientState'.timeline, now) = toBeats(mClientState.timeline, now)
<1> DEFINE new == timed(s, tl, x)
<1>1. new \in SessionState BY Clamped DEF timed, SessionState
<1>2. new.timeline \in InRange /\ new.xform \in Int /\ new.startStopState \in StartStop
  BY <1>1 DEF SessionState
<1>3. mClientState.timeline \in Timeline BY Ranged DEF ClientState
<1>4. now \in Int OBVIOUS
<1>5. LET u == updateClientTimelineFromSession(mClientState.timeline, new.timeline, now, new.xform)
      IN  u \in InRange /\ toBeats(u, now) = toBeats(mClientState.timeline, now)
  BY <1>2, <1>3, <1>4, ClientFollows
<1>6. mapToClient(new.startStopState, new.xform) \in StartStop BY <1>2, Mapped
<1>7. mSessionState' = new /\ mClientState' = clientTimed(mClientState, s, new)
  BY DEF updateSessionTiming
<1> HIDE DEF new
<1> QED BY <1>1, <1>5, <1>6, <1>7 DEF clientTimed, ClientState

\* Counting peers keeps the count and the queue.
LEMMA Counted ==
  ASSUME SessionType, NEW n \in {0, 1}, NEW queue \in Seq(Handlers), countPeers(n, queue)
  PROVE  mSessionPeerCount' \in {0, 1} /\ io' \in Seq(Handlers)
<1>1. [task |-> "reset", arg |-> nothing] \in Handlers BY Nothing DEF Handlers
<1> QED BY <1>1 DEF countPeers

\* Taking a handler leaves a queue of handlers.
LEMMA Taken ==
  ASSUME LinkType, NEW task, takes(task)
  PROVE  io' \in Seq(Handlers) /\ Head(io).arg \in Change
<1>1. io \in Seq(Handlers) /\ io # <<>> BY DEF LinkType, Handlers, takes
<1>2. Head(io) \in Handlers /\ Tail(io) \in Seq(Handlers) BY <1>1, HeadTailProperties
<1> QED BY <1>2 DEF Handlers, takes

\* What the Link thread does not touch keeps its type.
LEMMA Outside ==
  ASSUME TypeOK, UNCHANGED outside
  PROVE  /\ ThreadsType' /\ now' \in Nat /\ commits' \in Nat /\ enables' \in Nat /\ mEnabled' \in BOOLEAN
         /\ mRtClientState' \in [state : ClientState, timelineTimestamp : Nat, startStopStateTimestamp : Nat]
BY DEF TypeOK, ThreadsType, RestType, ClientType, outside

\* The handler of what the audio thread pushed reads the first buffer.
LEMMA ReadTimeline ==
  ASSUME ClientType, readTimeline
  PROVE  linkState' \in Change /\ mTimelineBuffer' \in [val : Nat \X InRange, new : BOOLEAN]
<1>1. mTimelineBuffer.val[1] \in Nat /\ mTimelineBuffer.val[2] \in InRange BY DEF ClientType
<1>2. change({mTimelineBuffer.val[2]}, none, mTimelineBuffer.val[1]) \in Change
  BY <1>1 DEF change, none, Change
<1> QED BY <1>2, Nothing DEF readTimeline, ClientType
-----------------------------------------------------------------------------
(***************************************************************************)
(* The type invariant: applications and the audio thread.                  *)
(***************************************************************************)
LEMMA ControllerTypeInit == Init => TypeOK
<1> SUFFICES ASSUME Init PROVE TypeOK OBVIOUS
<1>1. now \in Nat /\ 0 \in Int /\ -now \in Int BY ControllerAssumption DEF Init
<1>2. /\ clampTempo(timeline(FirstTempo, 0, 0)) \in InRange
      /\ clampTempo(timeline(FirstTempo, 0, now)) \in InRange
  BY <1>1, ControllerAssumption, MadeTimeline, Clamped
<1>3. [stopped EXCEPT !.timestamp = now] \in StartStop
  <2>1. now \in Int BY <1>1
  <2> QED BY <2>1, StoppedType DEF StartStop
<1>4. mClientState \in ClientState
  <2> DEFINE tl == clampTempo(timeline(FirstTempo, 0, now))
             ss == [stopped EXCEPT !.timestamp = now]
  <2>1. mClientState = [timeline |-> tl, startStopState |-> ss] BY DEF Init
  <2>2. tl \in InRange /\ ss \in StartStop BY <1>2, <1>3
  <2> HIDE DEF tl, ss
  <2> QED BY <2>1, <2>2 DEF ClientState
<1>5. mSessionState \in SessionState BY <1>1, <1>2, StoppedType DEF Init, SessionState
<1>6. ClientType BY <1>4 DEF Init, ClientType, ClientState
<1>7. SessionType
  <2>1. mDiscovery \in DiscoveryState BY <1>5, MadeState DEF Init
  <2>2. mCurrent \in Timeline BY <1>5, Ranged DEF Init, SessionState
  <2> QED BY <1>5, <2>1, <2>2 DEF Init, SessionType, DiscoveryState
<1>8. ThreadsType BY Nothing DEF Init, ThreadsType
<1>9. LinkType BY Nothing DEF Init, LinkType, LinkPlaces, none
<1>10. RestType BY <1>1 DEF Init, RestType
<1> QED BY <1>6, <1>7, <1>8, <1>9, <1>10 DEF TypeOK

\* One lemma per action: an application captures, ...
LEMMA CaptureType == ASSUME TypeOK, NEW a \in Apps, captureAppSessionState(a) PROVE TypeOK'
<1>1. capture(mClientState) \in Captured BY DEF capture, Captured, TypeOK, ClientType, SessionType
<1>2. ThreadsType' BY <1>1 DEF captureAppSessionState, TypeOK, ThreadsType
<1> QED BY <1>2
    DEF captureAppSessionState, TypeOK, ClientType, SessionType, LinkType, RestType, session, rt, bounds

\* ... commits, ...
LEMMA SetClientType == ASSUME TypeOK, NEW a \in Apps, NEW e \in Edits, setClientState(a, e) PROVE TypeOK'
<1> DEFINE old == appState[a].state
           new == edit(e, old, now, appState[a].mbRespectQuantum)
           c == toIncomingClientState(new, old, now)
           p == preferred(mClientState.startStopState, clamped(c))
<1>1. appState[a] \in Captured BY DEF TypeOK, ThreadsType, setClientState
<1>2. old \in ClientState /\ appState[a].mbRespectQuantum \in BOOLEAN BY <1>1 DEF Captured
<1>3. now \in Nat /\ e \in Edit /\ mClientState \in ClientState /\ mClientState.startStopState \in StartStop
  BY ControllerAssumption DEF TypeOK, RestType, ClientType, ClientState
<1> HIDE DEF old
<1>4. new \in ClientState BY <1>2, <1>3, Edited
<1> HIDE DEF new
<1>5. c \in Change BY <1>2, <1>3, <1>4, Incoming
<1> HIDE DEF c
<1>6. p \in Change BY <1>3, <1>5, ClampedChange, Preferred
<1>7. mClientState' = applied(mClientState, p) /\ appState' = [appState EXCEPT ![a] = p]
  BY DEF setClientState, p, c, new, old
<1> HIDE DEF p
<1>8. mClientState' \in ClientState BY <1>3, <1>6, <1>7, Applied
<1>9. ThreadsType' BY <1>6, <1>7 DEF setClientState, TypeOK, ThreadsType
<1> QED BY <1>8, <1>9
    DEF setClientState, TypeOK, ClientType, SessionType, LinkType, RestType, session, rt

\* ... posts the handler of its commit, ...
LEMMA PostType == ASSUME TypeOK, NEW a \in Apps, postClientState(a) PROVE TypeOK'
<1>1. appState[a] \in Change BY DEF TypeOK, ThreadsType, postClientState
<1>2. [task |-> "client", arg |-> appState[a]] \in Handlers BY <1>1 DEF Handlers
<1>3. io' \in Seq(Handlers)
  <2>1. io \in Seq(Handlers) BY DEF TypeOK, LinkType, Handlers
  <2> QED BY <1>2, <2>1 DEF postClientState
<1>4. LinkType' BY <1>3 DEF postClientState, TypeOK, LinkType, Handlers
<1>5. ThreadsType' BY Nothing DEF postClientState, TypeOK, ThreadsType
<1> QED BY <1>4, <1>5
    DEF postClientState, TypeOK, ClientType, SessionType, RestType, session, rt, bounds

\* ... enables Link or disables it; ...
LEMMA EnableType == ASSUME TypeOK, NEW b \in BOOLEAN, enable(b) PROVE TypeOK'
<1>1. [task |-> IF b THEN "enable" ELSE "disable", arg |-> nothing] \in Handlers BY Nothing DEF Handlers
<1>2. io' \in Seq(Handlers)
  <2>1. io \in Seq(Handlers) BY DEF TypeOK, LinkType, Handlers
  <2> QED BY <1>1, <2>1 DEF enable
<1>3. LinkType' BY <1>2 DEF enable, TypeOK, LinkType, Handlers, threads
<1> QED BY <1>3
    DEF enable, TypeOK, ClientType, SessionType, ThreadsType, RestType, session, rt, threads

\* ... the audio thread reads back, ...
LEMMA RtReadType == ASSUME TypeOK, clientStateRtSafe PROVE TypeOK'
<1>1. mClientState \in ClientState /\ mRtClientState.state \in ClientState BY DEF TypeOK, ClientType
<1>2. mRtClientState' \in [state : ClientState, timelineTimestamp : Nat, startStopStateTimestamp : Nat]
  BY <1>1 DEF clientStateRtSafe, TypeOK, ClientType, ClientState
<1> QED BY <1>2
    DEF clientStateRtSafe, TypeOK, ClientType, SessionType, ThreadsType, LinkType, RestType, session,
        threads, bounds

\* ... pushes a timeline, ...
LEMMA RtSetType == ASSUME TypeOK, NEW e \in AudioEdits, setClientStateRtSafe(e) PROVE TypeOK'
<1> DEFINE old == mRtClientState.state
           new == edit(e, old, now, mSessionPeerCount > 0)
           c == preferred(old.startStopState, clamped(toIncomingClientState(new, old, now)))
<1>1. old \in ClientState /\ now \in Nat /\ e \in Edit /\ (mSessionPeerCount > 0) \in BOOLEAN
  BY ControllerAssumption DEF TypeOK, RestType, ClientType, SessionType
<1> HIDE DEF old
<1>2. new \in ClientState BY <1>1, Edited
<1> HIDE DEF new
<1>3. old.startStopState \in StartStop BY <1>1 DEF ClientState
<1>4. c \in Change BY <1>1, <1>2, <1>3, Incoming, ClampedChange, Preferred
<1>5. /\ audioState' = c
      /\ mTimelineBuffer' = IF c.timeline = none THEN mTimelineBuffer
                            ELSE [val |-> <<c.timelineTimestamp, the(c.timeline)>>, new |-> TRUE]
  BY DEF setClientStateRtSafe, c, new, old
<1> HIDE DEF c
<1>6. c.timelineTimestamp \in Nat /\ (c.timeline # none => the(c.timeline) \in InRange)
  BY <1>4, TheOne DEF Change
<1>7. mTimelineBuffer' \in [val : Nat \X InRange, new : BOOLEAN]
  BY <1>5, <1>6 DEF TypeOK, ClientType
<1>8. ClientType' BY <1>7 DEF setClientStateRtSafe, TypeOK, ClientType
<1>9. ThreadsType' BY <1>4, <1>5 DEF setClientStateRtSafe, TypeOK, ThreadsType
<1> QED BY <1>8, <1>9 DEF setClientStateRtSafe, TypeOK, SessionType, LinkType, RestType, session

\* ... pushes a start/stop state and caches both; ...
LEMMA PushType == ASSUME TypeOK, pushStartStopState PROVE TypeOK'
<1> DEFINE stamp == IF mEnabled THEN now ELSE 0
<1>1. audioState \in Change /\ mRtClientState.state \in ClientState /\ stamp \in Nat
  BY DEF TypeOK, ThreadsType, ClientType, RestType
<1>2. applied(mRtClientState.state, audioState) \in ClientState BY <1>1, Applied
<1>3. audioState.startStopState # none => the(audioState.startStopState) \in StartStop
  BY <1>1, TheOne DEF Change
<1>4. mStartStopStateBuffer' \in [val : StartStop, new : BOOLEAN]
  BY <1>3 DEF pushStartStopState, TypeOK, ClientType
<1>5. mRtClientState' \in [state : ClientState, timelineTimestamp : Nat, startStopStateTimestamp : Nat]
  BY <1>1, <1>2 DEF pushStartStopState, TypeOK, ClientType
<1>6. ClientType' BY <1>4, <1>5 DEF pushStartStopState, TypeOK, ClientType
<1>7. ThreadsType' BY Nothing DEF pushStartStopState, TypeOK, ThreadsType
<1> QED BY <1>6, <1>7 DEF pushStartStopState, TypeOK, SessionType, LinkType, RestType, session, bounds

\* ... the dispatcher posts a handler, ...
LEMMA DispatchType == ASSUME TypeOK, dispatch PROVE TypeOK'
<1>1. pending \in Handlers BY Nothing DEF pending, Handlers
<1>2. LinkType' BY <1>1 DEF dispatch, TypeOK, LinkType, Handlers, threads
<1> QED BY <1>2
    DEF dispatch, TypeOK, ClientType, SessionType, ThreadsType, RestType, session, rt, threads, bounds

\* ... and time passes.
LEMMA TickType == ASSUME TypeOK, tick PROVE TypeOK'
<1>1. now' \in Nat BY ControllerAssumption DEF tick, TypeOK, RestType
<1> QED BY <1>1
    DEF tick, TypeOK, ClientType, SessionType, ThreadsType, LinkType, RestType, session, rt, threads, bounds
-----------------------------------------------------------------------------
(***************************************************************************)
(* The type invariant: the handlers of the Link thread.  None but the one  *)
(* that applies what the audio thread set makes the client's beats jump.   *)
(***************************************************************************)
Steady == toBeats(mClientState'.timeline, now) = toBeats(mClientState.timeline, now)

\* The Link thread reads the timeline buffer, ...
LEMMA PendingType ==
  ASSUME TypeOK, NEW task \in {"pending", "enable"}, processPendingClientStates(task)
  PROVE  TypeOK' /\ Steady
<1>1. linkState' \in Change /\ mTimelineBuffer' \in [val : Nat \X InRange, new : BOOLEAN]
  BY ReadTimeline DEF TypeOK, processPendingClientStates
<1>2. io' \in Seq(Handlers) BY Taken DEF TypeOK, processPendingClientStates
<1>3. linkPc' = "readStartStop" BY DEF processPendingClientStates, readTimeline
<1>4. LinkType' BY <1>1, <1>2, <1>3 DEF TypeOK, LinkType, processPendingClientStates, LinkPlaces, Handlers
<1>5. ClientType' BY <1>1, Outside DEF TypeOK, ClientType, processPendingClientStates
<1>6. SessionType' BY DEF TypeOK, SessionType, processPendingClientStates, session
<1> QED BY <1>4, <1>5, <1>6, Outside DEF TypeOK, RestType, processPendingClientStates, Steady

\* ... the other buffer, ...
LEMMA ReadStartStopType == ASSUME TypeOK, readStartStop PROVE TypeOK' /\ Steady
<1>1. linkState' \in Change BY DEF TypeOK, ClientType, LinkType, readStartStop, Change
<1>2. UNCHANGED outside /\ linkPc' = "handleRt" /\ UNCHANGED <<joining, nets>> BY DEF readStartStop, goto
<1>3. LinkType' BY <1>1, <1>2 DEF TypeOK, LinkType, readStartStop, LinkPlaces
<1>4. ClientType' BY <1>2, Outside DEF TypeOK, ClientType, readStartStop
<1>5. SessionType' BY DEF TypeOK, SessionType, readStartStop, session
<1> QED BY <1>2, <1>3, <1>4, <1>5, Outside DEF TypeOK, RestType, readStartStop, Steady

\* ... and applies what it read: the one step that may move the client's beats.
LEMMA HandleRtType == ASSUME TypeOK, handleRtClientState PROVE TypeOK'
<1> DEFINE p == preferred(mClientState.startStopState, linkState)
<1>1. mClientState \in ClientState /\ mClientState.startStopState \in StartStop /\ linkState \in Change
  BY DEF TypeOK, ClientType, ClientState, LinkType
<1>2. p \in Change BY <1>1, Preferred
<1>3. mClientState' = applied(mClientState, p) /\ linkState' = p BY DEF handleRtClientState
<1> HIDE DEF p
<1>4. mClientState' \in ClientState BY <1>1, <1>2, <1>3, Applied
<1>5. UNCHANGED outside /\ linkPc' = "timeline" /\ UNCHANGED <<joining, nets>> BY DEF handleRtClientState, goto
<1>6. LinkType' BY <1>2, <1>3, <1>5 DEF TypeOK, LinkType, handleRtClientState, LinkPlaces
<1>7. ClientType' BY <1>4, <1>5, Outside DEF TypeOK, ClientType, handleRtClientState, buffers
<1>8. SessionType' BY DEF TypeOK, SessionType, handleRtClientState, session
<1> QED BY <1>5, <1>6, <1>7, <1>8, Outside DEF TypeOK, RestType, handleRtClientState

\* A change of timing by a handler that stays in the session.
LEMMA SessionTimed ==
  ASSUME TypeOK, NEW s \in SessionState, NEW tl \in Timeline, NEW x \in Int, NEW id \in {Own, Joined},
         updateSessionTiming(s, tl, x), updateDiscovery(id), mSessionId' \in {Own, Joined},
         mCurrent' \in Timeline, mSessionPeerCount' \in {0, 1}
  PROVE  SessionType' /\ mClientState' \in ClientState /\ Steady
<1>1. mSessionState' \in SessionState /\ mClientState' \in ClientState /\ Steady
  BY Timed DEF TypeOK, ClientType, RestType, Steady
<1>2. mDiscovery' \in DiscoveryState BY <1>1, Discovered DEF TypeOK
<1> QED BY <1>1, <1>2 DEF SessionType, DiscoveryState

\* A timeline that a client set reaches the session, and comes back to the client without a jump.
LEMMA HandleTimeline ==
  ASSUME TypeOK, NEW c \in Change, handleTimeline(c)
  PROVE  SessionType' /\ mClientState' \in ClientState /\ Steady
<1>1. CASE c.timeline = none
  BY <1>1 DEF handleTimeline, TypeOK, SessionType, ClientType, session, Steady
<1>2. CASE c.timeline # none
  <2> DEFINE tl == updateSessionTimelineFromClient(mSessionState.timeline, the(c.timeline),
                     c.timelineTimestamp, mSessionState.xform)
  <2>1. mSessionState \in SessionState /\ mSessionState.timeline \in Timeline /\ mSessionState.xform \in Int
    BY Ranged DEF TypeOK, SessionType, SessionState
  <2>2. the(c.timeline) \in InRange /\ c.timelineTimestamp \in Int BY <1>2, TheOne DEF Change
  <2>3. tl \in Timeline BY <2>1, <2>2, SessionFollows
  <2>4. /\ mCurrent' = tl /\ updateSessionTiming(mSessionState, tl, mSessionState.xform)
        /\ updateDiscovery(mSessionId) /\ UNCHANGED <<mSessionId, mSessionPeerCount>>
    BY <1>2 DEF handleTimeline
  <2> HIDE DEF tl
  <2>5. mSessionId \in {Own, Joined} /\ mSessionPeerCount \in {0, 1} BY DEF TypeOK, SessionType
  <2> QED BY <2>1, <2>3, <2>4, <2>5, SessionTimed
<1> QED BY <1>1, <1>2

\* handleClientState begins with the timeline, ...
LEMMA HandleClientType == ASSUME TypeOK, handleClientState PROVE TypeOK' /\ Steady
<1>1. linkState' \in Change /\ io' \in Seq(Handlers) /\ linkTask' \in {"client", linkTask}
  <2>1. CASE takes("client") /\ linkTask' = "client" /\ linkState' = Head(io).arg
    BY <2>1, Taken DEF TypeOK
  <2>2. CASE linkPc = "timeline" /\ UNCHANGED <<io, linkTask, linkState>>
    BY <2>2 DEF TypeOK, LinkType, Handlers
  <2> QED BY <2>1, <2>2 DEF handleClientState
<1>2. SessionType' /\ mClientState' \in ClientState /\ Steady
  BY <1>1, HandleTimeline DEF handleClientState
<1>3. UNCHANGED outside /\ linkPc' = "startStop" /\ UNCHANGED <<joining, nets>> BY DEF handleClientState, goto
<1>4. LinkType' BY <1>1, <1>3 DEF TypeOK, LinkType, LinkPlaces, Handlers
<1>5. ClientType' BY <1>2, <1>3, Outside DEF TypeOK, ClientType, handleClientState, buffers
<1> QED BY <1>2, <1>3, <1>4, <1>5, Outside DEF TypeOK, RestType, handleClientState

\* ... goes on with the start/stop state, ...
LEMMA StartStopType == ASSUME TypeOK, handleClientStartStop PROVE TypeOK' /\ Steady
<1>1. UNCHANGED outside /\ linkPc' = "callback" /\ UNCHANGED <<joining, nets>>
  BY DEF handleClientStartStop, goto
<1>2. SessionType' /\ mClientState' \in ClientState /\ mClientState'.timeline = mClientState.timeline
  <2>1. CASE UNCHANGED <<session, mClientState>> BY <2>1 DEF TypeOK, SessionType, ClientType, session
  <2>2. ASSUME NEW ss \in StartStop,
               mSessionState' = [mSessionState EXCEPT !.startStopState = mapToSession(ss, mSessionState.xform)],
               mClientState' = [mClientState EXCEPT !.startStopState = ss],
               updateDiscovery(mSessionId), UNCHANGED <<mSessionId, mCurrent, mSessionPeerCount>>
        PROVE  SessionType' /\ mClientState' \in ClientState /\ mClientState'.timeline = mClientState.timeline
    <3>1. mClientState' \in ClientState /\ mClientState'.timeline = mClientState.timeline
      BY <2>2 DEF TypeOK, ClientType, ClientState
    <3>2. mSessionState.xform \in Int BY DEF TypeOK, SessionType, SessionState
    <3>3. mapToSession(ss, mSessionState.xform) \in StartStop BY <3>2, Mapped
    <3>4. mSessionState' \in SessionState BY <2>2, <3>3 DEF TypeOK, SessionType, SessionState
    <3>5. mSessionId \in {Own, Joined} BY DEF TypeOK, SessionType
    <3>6. mDiscovery' \in DiscoveryState BY <2>2, <3>4, <3>5, Discovered DEF TypeOK
    <3> QED BY <2>2, <3>1, <3>4, <3>6 DEF TypeOK, SessionType, DiscoveryState
  <2>3. linkState.startStopState # none => the(linkState.startStopState) \in StartStop
    BY TheOne DEF TypeOK, LinkType, Change
  <2>4. linkState.startStopState # none
          \/ ~(Sync /\ \E ss \in linkState.startStopState : newer(ss, mSessionState.xform))
    BY DEF none
  <2> QED BY <2>1, <2>2, <2>3, <2>4 DEF handleClientStartStop
<1>3. LinkType' BY <1>1 DEF TypeOK, LinkType, LinkPlaces, handleClientStartStop
<1>4. ClientType' BY <1>1, <1>2, Outside DEF TypeOK, ClientType, handleClientStartStop, buffers
<1> QED BY <1>1, <1>2, <1>3, <1>4, Outside DEF TypeOK, RestType, handleClientStartStop, Steady

\* ... and tells the application.
LEMMA CallbackType == ASSUME TypeOK, invokeStartStopStateCallbackIfChanged PROVE TypeOK' /\ Steady
<1>1. UNCHANGED outside /\ UNCHANGED nets
  BY DEF invokeStartStopStateCallbackIfChanged, goto, finish
<1>2. LinkType'
  <2>1. CASE linkTask \in {"enable", "join"} /\ goto(linkTask) /\ UNCHANGED <<linkTask, linkState>>
    BY <2>1 DEF TypeOK, LinkType, LinkPlaces, goto, invokeStartStopStateCallbackIfChanged
  <2>2. CASE finish
    BY <2>2, Nothing DEF TypeOK, LinkType, LinkPlaces, finish, none, invokeStartStopStateCallbackIfChanged
  <2> QED BY <2>1, <2>2 DEF invokeStartStopStateCallbackIfChanged
<1>3. ClientType' BY <1>1, Outside DEF TypeOK, ClientType, invokeStartStopStateCallbackIfChanged, buffers
<1>4. SessionType' BY DEF TypeOK, SessionType, invokeStartStopStateCallbackIfChanged, session
<1>5. mIsPlayingTold' \in BOOLEAN /\ mHasPendingRtClientStates' \in BOOLEAN
  BY DEF TypeOK, ClientType, ClientState, StartStop, RestType, invokeStartStopStateCallbackIfChanged
<1> QED BY <1>1, <1>2, <1>3, <1>4, <1>5, Outside
    DEF TypeOK, RestType, invokeStartStopStateCallbackIfChanged, Steady
-----------------------------------------------------------------------------
(***************************************************************************)
(* The type invariant: founding a session, and the network.                *)
(***************************************************************************)
LEMMA Finished == ASSUME finish PROVE linkPc' = "idle" /\ linkTask' = "none" /\ linkState' \in Change
                                      /\ joining' = {} /\ UNCHANGED outside /\ UNCHANGED nets
BY Nothing DEF finish, none

\* What the type invariant says of the session.
LEMMA SessionTypes ==
  ASSUME TypeOK
  PROVE  /\ mSessionState \in SessionState /\ mSessionState.xform \in Int
         /\ mSessionState.timeline \in InRange /\ mSessionState.timeline \in Timeline
         /\ [mSessionState EXCEPT !.startStopState = stopped] \in SessionState
         /\ mSessionId \in {Own, Joined} /\ mSessionPeerCount \in {0, 1} /\ mCurrent \in Timeline
BY Ranged, StoppedType DEF TypeOK, SessionType, SessionState

\* What a session is founded with.
LEMMA Founded == ASSUME TypeOK PROVE resetTimelineNow \in Timeline /\ initXForm \in Int
<1>1. now \in Nat /\ mSessionState.timeline.tempo \in Nat \ {0}
  BY SessionTypes DEF TypeOK, RestType, Timeline
<1>2. hostToGhost(mSessionState.xform, now) \in Int BY <1>1, SessionTypes DEF hostToGhost
<1>3. toBeats(mSessionState.timeline, hostToGhost(mSessionState.xform, now)) \in Int
  BY <1>2, SessionTypes, OnTimeline
<1>4. resetTimelineNow \in Timeline
  <2>1. 0 \in Int OBVIOUS
  <2> QED BY <1>1, <1>3, <2>1, MadeTimeline DEF resetTimelineNow
<1> QED BY <1>1, <1>4 DEF initXForm

\* The node founds a session again.
LEMMA ResetType == ASSUME TypeOK, resetState PROVE TypeOK' /\ Steady
<1>1. now \in Nat BY DEF TypeOK, RestType
<1>2. resetTimelineNow \in Timeline BY Founded
<1>3. initXForm \in Int BY Founded
<1>4. mSessionState' \in SessionState /\ mClientState' \in ClientState /\ Steady
  BY <1>1, <1>2, <1>3, SessionTypes, Timed DEF TypeOK, ClientType, resetState, Steady
<1>5. mDiscovery' \in DiscoveryState
  <2>1. (mDiscovery.on \/ linkPc = "enable") \in BOOLEAN BY DEF TypeOK, SessionType
  <2> QED BY <1>4, <2>1, MadeState DEF resetState
<1>6. SessionType' BY <1>2, <1>4, <1>5 DEF TypeOK, SessionType, DiscoveryState, resetState
<1>7. io' \in Seq(Handlers) BY Taken DEF TypeOK, LinkType, Handlers, resetState
<1>8. LinkType' BY <1>7, Finished DEF LinkType, LinkPlaces, Handlers, resetState
<1>9. ClientType' BY <1>4, Finished, Outside DEF TypeOK, ClientType, resetState, buffers
<1> QED BY <1>4, <1>6, <1>8, <1>9, Finished, Outside DEF TypeOK, RestType, resetState

\* The gateways are closed.
LEMMA DisableType == ASSUME TypeOK, disableDiscovery PROVE TypeOK' /\ Steady
<1>1. io \in Seq(Handlers) /\ io # <<>> BY DEF TypeOK, LinkType, Handlers, disableDiscovery
<1>2. Tail(io) \in Seq(Handlers) BY <1>1
<1>3. mSessionPeerCount' \in {0, 1} /\ io' \in Seq(Handlers)
  BY <1>2, Counted DEF TypeOK, disableDiscovery
<1>4. SessionType' BY <1>3 DEF TypeOK, SessionType, disableDiscovery
<1>5. LinkType' BY <1>3, Finished DEF LinkType, LinkPlaces, Handlers, disableDiscovery
<1>6. ClientType' BY Finished, Outside DEF TypeOK, ClientType, disableDiscovery, buffers
<1> QED BY <1>4, <1>5, <1>6, Finished, Outside DEF TypeOK, RestType, disableDiscovery, Steady

\* A session is joined with its timeline.
LEMMA JoinedType == ASSUME TypeOK, joinedSession PROVE TypeOK' /\ Steady
<1>1. PICK j \in joining :
        updateSessionTiming([mSessionState EXCEPT !.startStopState = stopped], j.timeline, j.xform)
  BY DEF joinedSession
<1>2. j.timeline \in Timeline /\ j.xform \in Int BY DEF TypeOK, LinkType
<1>3. mSessionPeerCount' \in {0, 1} /\ io' \in Seq(Handlers)
  BY Counted DEF TypeOK, LinkType, Handlers, joinedSession
<1>4. SessionType' /\ mClientState' \in ClientState /\ Steady
  BY <1>1, <1>2, <1>3, SessionTypes, SessionTimed DEF joinedSession
<1>5. LinkType' BY <1>3, Finished DEF LinkType, LinkPlaces, Handlers, joinedSession
<1>6. ClientType' BY <1>4, Finished, Outside DEF TypeOK, ClientType, joinedSession, buffers
<1> QED BY <1>4, <1>5, <1>6, Finished, Outside DEF TypeOK, RestType, joinedSession

\* What the Link thread hears leaves the other threads alone.
LEMMA Hearing ==
  ASSUME TypeOK, hearing \/ heard
  PROVE  /\ UNCHANGED <<outside, mHasPendingRtClientStates, mStartStopStateBuffer>>
         /\ heard => nets' \in Nat
         /\ linkPc = "idle"
BY DEF TypeOK, RestType, heard, hearing, linkIdle

\* A timeline from the network reaches the session and the client.
LEMMA FromSession ==
  ASSUME TypeOK, NEW tl \in Timeline, handleTimelineFromSession(tl), mSessionPeerCount' \in {0, 1}
  PROVE  SessionType' /\ mClientState' \in ClientState /\ Steady
<1>1. mCurrent' \in Timeline /\ mSessionId' \in {Own, Joined}
  BY SessionTypes DEF handleTimelineFromSession
<1> QED BY <1>1, SessionTypes, SessionTimed DEF handleTimelineFromSession

\* A peer of the session announces its timeline, ...
LEMMA SawType == ASSUME TypeOK, NEW tl \in NetTimelines, sawSession(tl) PROVE TypeOK' /\ Steady
<1>1. greater(tl, mCurrent) \in Timeline BY ControllerAssumption, SessionTypes DEF greater
<1>2. SessionType' /\ mClientState' \in ClientState /\ Steady BY <1>1, FromSession DEF sawSession
<1>3. LinkType' BY DEF TypeOK, LinkType, sawSession, handleTimelineFromSession
<1>4. UNCHANGED <<outside, mHasPendingRtClientStates, mStartStopStateBuffer>> /\ nets' \in Nat
  BY Hearing DEF sawSession
<1>5. ClientType' BY <1>2, <1>4, Outside DEF TypeOK, ClientType, sawSession, handleTimelineFromSession
<1> QED BY <1>2, <1>3, <1>4, <1>5, Outside DEF TypeOK, RestType, sawSession, handleTimelineFromSession

\* ... one of another session is heard, ...
LEMMA SawOtherType == ASSUME TypeOK, sawOtherSession PROVE TypeOK' /\ Steady
<1>1. SessionType' /\ mClientState' \in ClientState /\ Steady
  BY SessionTypes, FromSession DEF sawOtherSession
<1>2. LinkType' BY DEF TypeOK, LinkType, sawOtherSession, handleTimelineFromSession
<1>3. UNCHANGED <<outside, mHasPendingRtClientStates, mStartStopStateBuffer>>
  BY Hearing DEF sawOtherSession
<1>4. ClientType' BY <1>1, <1>3, Outside DEF TypeOK, ClientType, sawOtherSession, handleTimelineFromSession
<1> QED BY <1>1, <1>2, <1>3, <1>4, Outside
    DEF TypeOK, RestType, sawOtherSession, handleTimelineFromSession

\* ... a start/stop state arrives, ...
LEMMA NetStartStopType ==
  ASSUME TypeOK, NEW ss \in NetStartStops, handleStartStopStateFromSession(ss)
  PROVE  TypeOK' /\ Steady
<1>1. UNCHANGED <<outside, mHasPendingRtClientStates, mStartStopStateBuffer>> /\ nets' \in Nat
  BY Hearing DEF handleStartStopStateFromSession
<1>2. ss \in StartStop /\ mapToClient(ss, mSessionState.xform) \in StartStop
  BY ControllerAssumption, SessionTypes, Mapped
<1>3. mClientState' \in ClientState /\ mClientState'.timeline = mClientState.timeline
  BY <1>2 DEF TypeOK, ClientType, ClientState, handleStartStopStateFromSession
<1>4. mSessionState' \in SessionState
  BY <1>2, SessionTypes DEF SessionState, handleStartStopStateFromSession
<1>5. mDiscovery' \in DiscoveryState
  BY <1>4, SessionTypes, Discovered DEF TypeOK, handleStartStopStateFromSession
<1>6. SessionType' BY <1>4, <1>5 DEF TypeOK, SessionType, DiscoveryState, handleStartStopStateFromSession
<1>7. LinkType' BY DEF TypeOK, LinkType, LinkPlaces, handleStartStopStateFromSession
<1>8. ClientType' BY <1>1, <1>3, Outside DEF TypeOK, ClientType, handleStartStopStateFromSession
<1> QED BY <1>1, <1>3, <1>6, <1>7, <1>8, Outside
    DEF TypeOK, RestType, handleStartStopStateFromSession, Steady

\* ... a measurement ends, ...
LEMMA JoinType ==
  ASSUME TypeOK, NEW tl \in NetTimelines, NEW x \in NetXForms, joinSession(tl, x)
  PROVE  TypeOK' /\ Steady
<1>1. UNCHANGED <<outside, mHasPendingRtClientStates, mStartStopStateBuffer>> /\ nets' \in Nat
  BY Hearing DEF joinSession
<1>2. tl \in Timeline /\ x \in Int BY ControllerAssumption
<1>3. CASE mSessionId = Joined
  <2>1. /\ mCurrent' = mCurrent /\ updateSessionTiming(mSessionState, mCurrent, x) /\ updateDiscovery(Joined)
        /\ UNCHANGED <<linkPc, linkTask, linkState, joining, mTimelineBuffer>>
        /\ mSessionId' = Joined /\ UNCHANGED <<mSessionPeerCount, mIsPlayingTold, io>>
    BY <1>3 DEF joinSession
  <2>2. SessionType' /\ mClientState' \in ClientState /\ Steady
    BY <1>2, <2>1, SessionTypes, SessionTimed
  <2>3. LinkType' BY <2>1 DEF TypeOK, LinkType
  <2>4. ClientType' BY <1>1, <2>1, <2>2, Outside DEF TypeOK, ClientType
  <2> QED BY <1>1, <2>1, <2>2, <2>3, <2>4, Outside DEF TypeOK, RestType
<1>4. CASE mSessionId # Joined
  <2>1. /\ mCurrent' = tl /\ readTimeline /\ linkTask' = "join" /\ joining' = {[timeline |-> tl, xform |-> x]}
        /\ UNCHANGED <<mSessionState, mClientState, mDiscovery>>
        /\ mSessionId' = Joined /\ UNCHANGED <<mSessionPeerCount, mIsPlayingTold, io>>
    BY <1>4 DEF joinSession
  <2>2. linkState' \in Change /\ mTimelineBuffer' \in [val : Nat \X InRange, new : BOOLEAN]
        /\ linkPc' = "readStartStop"
    BY <2>1, ReadTimeline DEF TypeOK, readTimeline
  <2>3. LinkType' BY <1>2, <2>1, <2>2 DEF TypeOK, LinkType, LinkPlaces
  <2>4. ClientType' BY <1>1, <2>1, <2>2, Outside DEF TypeOK, ClientType
  <2>5. SessionType' BY <1>2, <2>1 DEF TypeOK, SessionType
  <2> QED BY <1>1, <2>1, <2>3, <2>4, <2>5, Outside DEF TypeOK, RestType, Steady
<1> QED BY <1>3, <1>4

\* ... or the last peer leaves.
LEMMA PeersGoneType == ASSUME TypeOK, peersGone PROVE TypeOK' /\ Steady
<1>1. UNCHANGED <<outside, mHasPendingRtClientStates, mStartStopStateBuffer>> BY Hearing DEF peersGone
<1>2. mSessionPeerCount' \in {0, 1} /\ io' \in Seq(Handlers)
  BY Counted DEF TypeOK, LinkType, Handlers, peersGone
<1>3. SessionType' BY <1>2 DEF TypeOK, SessionType, peersGone
<1>4. LinkType' BY <1>2 DEF TypeOK, LinkType, Handlers, peersGone
<1>5. ClientType' BY <1>1, Outside DEF TypeOK, ClientType, peersGone
<1> QED BY <1>1, <1>3, <1>4, <1>5, Outside DEF TypeOK, RestType, peersGone, Steady

\* A stuttering step keeps the types.
LEMMA UnchangedType == ASSUME TypeOK, UNCHANGED cvars PROVE TypeOK'
BY DEF cvars, session, rt, threads, bounds, TypeOK, ClientType, SessionType, ThreadsType, LinkType, RestType

\* Whatever the Link thread does but applying what the audio thread set.
LEMMA LinkStep ==
  ASSUME TypeOK, (handling /\ ~handleRtClientState) \/ networkNext
  PROVE  TypeOK' /\ Steady
BY PendingType, ReadStartStopType, HandleClientType, StartStopType, CallbackType, ResetType, DisableType,
   JoinedType, SawType, SawOtherType, NetStartStopType, JoinType, PeersGoneType
   DEF handling, networkNext

\* Every step keeps the types.
LEMMA ControllerTypeStep == ASSUME TypeOK, [Next]_cvars PROVE TypeOK'
<1>1. CASE appNext BY <1>1, CaptureType, SetClientType, PostType, EnableType DEF appNext
<1>2. CASE audioNext BY <1>2, RtReadType, RtSetType, PushType DEF audioNext
<1>3. CASE dispatch \/ tick BY <1>3, DispatchType, TickType
<1>4. CASE handling BY <1>4, HandleRtType, LinkStep
<1>5. CASE networkNext BY <1>5, LinkStep
<1>6. CASE UNCHANGED cvars BY <1>6, UnchangedType
<1> QED BY <1>1, <1>2, <1>3, <1>4, <1>5, <1>6 DEF Next

\* Every timeline but the one of Sessions has a tempo in range, whatever peers and applications ask for
\* (clampTempo at every place where one is taken over), and every variable has a value of its type.
THEOREM ControllerTypeCorrect == Spec => []TypeOK
<1>1. TypeOK /\ [Next]_cvars => TypeOK' BY ControllerTypeStep
<1> QED BY <1>1, ControllerTypeInit, PTL DEF Spec
-----------------------------------------------------------------------------
(***************************************************************************)
(* The beats of the client.                                                *)
(***************************************************************************)
\* The beat of the client timeline at the present instant goes on unless somebody commits.
Continues ==
  mClientState'.timeline # mClientState.timeline /\ commits' = commits /\ linkPc # "handleRt"
    => toBeats(mClientState'.timeline, now) = toBeats(mClientState.timeline, now)

\* Applications' steps commit or leave the timeline alone, and so do the audio thread's; LinkStep has the others.
LEMMA ContinuesStep == ASSUME TypeOK, [Next]_cvars PROVE Continues
<1>1. CASE appNext
  <2>1. ASSUME NEW a \in Apps, NEW e \in Edits, setClientState(a, e) PROVE commits' # commits
    BY <2>1 DEF setClientState, TypeOK, RestType
  <2> QED BY <1>1, <2>1 DEF appNext, captureAppSessionState, postClientState, enable, Continues
<1>2. CASE audioNext \/ dispatch \/ tick
  BY <1>2 DEF audioNext, clientStateRtSafe, setClientStateRtSafe, pushStartStopState, dispatch, tick, Continues
<1>3. CASE handling \/ networkNext BY <1>3, LinkStep DEF handleRtClientState, Continues, Steady
<1>4. CASE UNCHANGED cvars BY <1>4 DEF cvars, Continues
<1> QED BY <1>1, <1>2, <1>3, <1>4 DEF Next

\* However the session changes - another tempo, another grid, another clock, another session - the
\* client's timeline goes on from the beat it is at (updateClientTimelineFromSession).
THEOREM BeatsGoOn == Spec => Continuous
<1>1. TypeOK /\ [Next]_cvars => TypeOK' BY ControllerTypeStep
<1>2. TypeOK /\ [Next]_cvars => [Continues]_cvars BY ContinuesStep
<1> QED BY <1>1, <1>2, ControllerTypeInit, PTL DEF Spec, Continuous, Continues

\* Who forces a beat gives one, and a quantum that is long enough at any tempo (that of a beat is, by far), or none.
LongQuanta ==
  \A e \in Edits : e.force => /\ e.beat # none
                              /\ e.quantum = 0 \/ 4 * (Unit + Fastest) <= Fastest * e.quantum

\* A quantum that is long enough at the fastest tempo is so at any other.
LEMMA LongAtAny ==
  ASSUME NEW m \in Fastest .. Slowest, NEW q \in Nat, 4 * (Unit + Fastest) <= Fastest * q
  PROVE  4 * (Unit + m) <= m * q
<1>1. Fastest \in Positive /\ Unit \in Positive /\ Slowest \in Nat
  BY TempoAssumption, UnitAssumption DEF Positive
<1>2. PICK j \in Nat : m = Fastest + j
  <2>1. m - Fastest \in Nat /\ m = Fastest + (m - Fastest) BY <1>1 DEF Positive
  <2> QED BY <2>1
<1>3. PICK i \in Nat : q = 4 + i
  <2>1. Fastest * 4 < Fastest * q
    <3>1. Fastest * 4 = 4 * Fastest /\ Fastest * q \in Int BY <1>1 DEF Positive
    <3> QED BY <1>1, <3>1 DEF Positive
  <2>2. 4 < q BY <1>1, <2>1, Fewer
  <2>3. q - 4 \in Nat /\ q = 4 + (q - 4) BY <2>2
  <2> QED BY <2>3
<1>4. m * q = Fastest * q + j * q /\ j * q = 4 * j + j * i BY <1>1, <1>2, <1>3 DEF Positive
<1>5. Fastest * q \in Nat /\ j * i \in Nat BY <1>1, <1>2, <1>3 DEF Positive
<1> QED BY <1>1, <1>2, <1>4, <1>5 DEF Positive

\* A commit that forces a beat puts it where it belongs or earlier.
KeepsForced ==
  \A a \in Apps, e \in Edits : e.force /\ appPc[a] = "captured" /\ setClientState(a, e)
       /\ mClientState'.timeline # mClientState.timeline
       => toPhaseEncodedBeats(mClientState'.timeline, now, e.quantum) <= the(e.beat)

\* The timeline that is committed is the one the application forced the beat on: its tempo was set in range,
\* so that clamping changes nothing.
LEMMA KeepsForcedStep == ASSUME TypeOK, LongQuanta PROVE KeepsForced
<1> SUFFICES ASSUME NEW a \in Apps, NEW e \in Edits, e.force, setClientState(a, e),
                    mClientState'.timeline # mClientState.timeline
             PROVE  toPhaseEncodedBeats(mClientState'.timeline, now, e.quantum) <= the(e.beat)
  BY DEF KeepsForced
<1> DEFINE old == appState[a].state
           connected == appState[a].mbRespectQuantum
           tl == IF e.tempo = none THEN old.timeline ELSE setTempo(old.timeline, the(e.tempo), now)
           b == the(e.beat)
           q == e.quantum
           forced == forceBeatAtTime(tl, b, now, q)
           new == edit(e, old, now, connected)
           c == toIncomingClientState(new, old, now)
           p == preferred(mClientState.startStopState, clamped(c))
<1>1. appState[a] \in Captured BY DEF TypeOK, ThreadsType, setClientState
<1>2. old \in ClientState /\ connected \in BOOLEAN /\ old.timeline \in InRange BY <1>1 DEF Captured, ClientState
<1>3. now \in Nat /\ now \in Int /\ e \in Edit /\ mClientState \in ClientState
      /\ mClientState.startStopState \in StartStop
  BY ControllerAssumption DEF TypeOK, RestType, ClientType, ClientState
<1>4. q \in Nat /\ e.beat # none /\ b \in Int BY <1>3, TheOne DEF LongQuanta, Edit
<1>5. e.tempo # none => the(e.tempo) \in Positive BY <1>3, TheOne DEF Edit, Positive
<1>6. new \in ClientState BY <1>2, <1>3, Edited
<1>7. new.timeline = forced BY <1>4 DEF edit
<1> HIDE DEF old, connected
<1>8. tl \in InRange BY <1>2, <1>3, <1>5, TempoSet
<1> HIDE DEF tl, b, q
<1>9. forced \in InRange BY <1>3, <1>4, <1>8, Forced
<1>10. clampTempo(forced) = forced
  <2> HIDE DEF forced
  <2>1. forced.tempo \in Fastest .. Slowest BY <1>9 DEF InRange
  <2>2. ~(forced.tempo < Fastest) /\ ~(forced.tempo > Slowest) BY <2>1, TempoAssumption
  <2> QED BY <1>9, <2>2 DEF clampTempo, InRange
<1>11. mClientState' = applied(mClientState, p) BY DEF setClientState, p, c, new, old, connected
<1> HIDE DEF new, forced
<1>12. c \in Change /\ (c.timeline = none \/ c.timeline = {forced})
  BY <1>2, <1>3, <1>6, <1>7, Incoming DEF toIncomingClientState, change
<1> HIDE DEF c
<1>13. p \in Change /\ p.timeline = clamped(c).timeline BY <1>3, <1>12, ClampedChange, Preferred
<1>14. clamped(c).timeline = {clampTempo(l) : l \in c.timeline} BY <1>12 DEF clamped, Change
<1> HIDE DEF p
<1>15. p.timeline # none BY <1>3, <1>11, <1>13, Applied
<1>16. p.timeline = {forced} BY <1>10, <1>12, <1>13, <1>14, <1>15 DEF none
<1>17. mClientState'.timeline = forced
  <2>1. mClientState'.timeline = the(p.timeline) BY <1>11, <1>15 DEF applied
  <2>2. the(p.timeline) \in p.timeline BY <1>15, TheOne
  <2> QED BY <1>16, <2>1, <2>2
<1>18. toPhaseEncodedBeats(forced, now, q) <= b
  <2>1. tl \in Timeline /\ tl.tempo \in Fastest .. Slowest BY <1>8, Ranged DEF InRange
  <2>2. q = 0 \/ 4 * (Unit + Fastest) <= Fastest * q BY DEF LongQuanta, q
  <2>3. q = 0 \/ 4 * (Unit + tl.tempo) <= tl.tempo * q BY <1>4, <2>1, <2>2, LongAtAny
  <2> QED BY <1>3, <1>4, <2>1, <2>3, BeatForced DEF forced
<1> QED BY <1>17, <1>18 DEF q, b

\* Nobody waits in vain for a beat that was forced to a time, for any tempos, applications and peers, as
\* long as quanta are not of the size of roundings: whatever else is committed between its capture and
\* its commit, the client timeline is then the one that was forced.
THEOREM ForcedBeatStays == ASSUME LongQuanta PROVE Spec => ForcedBeatKept
<1>1. TypeOK /\ [Next]_cvars => TypeOK' BY ControllerTypeStep
<1>2. TypeOK => KeepsForced BY KeepsForcedStep
<1> QED BY <1>1, <1>2, ControllerTypeInit, PTL DEF Spec, ForcedBeatKept, KeepsForced
-----------------------------------------------------------------------------
(***************************************************************************)
(* The state that is announced.                                            *)
(***************************************************************************)
\* Only in the middle of joining a session may the announced state not be the node's.
Announced ==
  /\ linkTask # "join" => mDiscovery.id = mSessionId /\ mDiscovery.state = mSessionState
  /\ linkPc = "idle" => linkTask = "none"

\* What updateDiscovery pushes, without types.
LEMMA Pushed == ASSUME NEW id, updateDiscovery(id) PROVE mDiscovery'.id = id /\ mDiscovery'.state = mSessionState'
BY DEF updateDiscovery, nodeState

\* A step that leaves the session alone.
LEMMA AnnouncedOutside ==
  ASSUME Announced, UNCHANGED <<session, linkPc, linkTask>>
  PROVE  Announced'
BY DEF Announced, session

\* A handler pushes the state after every change of it, or is the one that joins.
LEMMA AnnouncedHandling == ASSUME TypeOK, Announced, handling PROVE Announced'
<1>1. ASSUME NEW task \in {"pending", "enable"}, processPendingClientStates(task) PROVE Announced'
  BY <1>1 DEF processPendingClientStates, takes, linkIdle, readTimeline, session, Announced
<1>2. CASE readStartStop BY <1>2 DEF readStartStop, goto, session, Announced
<1>3. CASE handleRtClientState BY <1>3 DEF handleRtClientState, goto, session, Announced
<1>4. CASE handleClientState
  <2>1. linkTask' # "join" => linkTask # "join" BY <1>4 DEF handleClientState, takes, linkIdle, Announced
  <2>2. linkPc' = "startStop" BY <1>4 DEF handleClientState, goto
  <2>3. CASE UNCHANGED session BY <2>1, <2>2, <2>3 DEF session, Announced
  <2>4. CASE updateDiscovery(mSessionId) /\ UNCHANGED mSessionId BY <2>2, <2>4, Pushed DEF Announced
  <2> QED BY <1>4, <2>3, <2>4 DEF handleClientState, handleTimeline
<1>5. CASE handleClientStartStop
  <2>1. linkPc' = "callback" /\ linkTask' = linkTask BY <1>5 DEF handleClientStartStop, goto
  <2>2. CASE UNCHANGED session BY <2>1, <2>2 DEF session, Announced
  <2>3. CASE updateDiscovery(mSessionId) /\ UNCHANGED mSessionId BY <2>1, <2>3, Pushed DEF Announced
  <2> QED BY <1>5, <2>2, <2>3 DEF handleClientStartStop
<1>6. CASE invokeStartStopStateCallbackIfChanged
  BY <1>6 DEF invokeStartStopStateCallbackIfChanged, goto, finish, session, Announced
<1>7. CASE resetState BY <1>7 DEF resetState, finish, nodeState, Announced
<1>8. CASE disableDiscovery
  BY <1>8 DEF disableDiscovery, finish, linkIdle, Announced, TypeOK, SessionType
<1>9. CASE joinedSession BY <1>9, Pushed DEF joinedSession, finish, Announced
<1> QED BY <1>1, <1>2, <1>3, <1>4, <1>5, <1>6, <1>7, <1>8, <1>9 DEF handling

\* So does what the network brings.
LEMMA AnnouncedNetwork == ASSUME Announced, networkNext PROVE Announced'
<1>1. ASSUME NEW tl, handleTimelineFromSession(tl) PROVE Announced'
  BY <1>1, Pushed DEF handleTimelineFromSession, Announced
<1>2. ASSUME NEW ss, handleStartStopStateFromSession(ss) PROVE Announced'
  BY <1>2, Pushed DEF handleStartStopStateFromSession, Announced
<1>3. ASSUME NEW tl, NEW x, joinSession(tl, x) PROVE Announced'
  BY <1>3, Pushed DEF joinSession, readTimeline, heard, hearing, linkIdle, Announced
<1>4. CASE peersGone BY <1>4 DEF peersGone, Announced
<1> QED BY <1>1, <1>2, <1>3, <1>4 DEF networkNext, sawSession, sawOtherSession

\* Every step keeps the node state announced.
LEMMA AnnouncedStep == ASSUME TypeOK, Announced, [Next]_cvars PROVE Announced'
<1>1. CASE appNext \/ audioNext \/ dispatch \/ tick \/ UNCHANGED cvars
  <2>1. UNCHANGED <<session, linkPc, linkTask>>
    BY <1>1 DEF appNext, captureAppSessionState, setClientState, postClientState, enable, audioNext,
                clientStateRtSafe, setClientStateRtSafe, pushStartStopState, dispatch, tick, threads, cvars
  <2> QED BY <2>1, AnnouncedOutside
<1>2. CASE handling BY <1>2, AnnouncedHandling
<1>3. CASE networkNext BY <1>3, AnnouncedNetwork
<1> QED BY <1>1, <1>2, <1>3 DEF Next

\* Between two handlers the discovery service has the node's session and its state (updateDiscovery
\* after every change of them).
THEOREM AlwaysAdvertised == Spec => []Advertised
<1>1. Init => Announced BY DEF Init, nodeState, Announced
<1>2. TypeOK /\ Announced /\ [Next]_cvars => TypeOK' /\ Announced' BY ControllerTypeStep, AnnouncedStep
<1>3. Announced => Advertised BY DEF Announced, Advertised, linkIdle
<1> QED BY <1>1, <1>2, <1>3, ControllerTypeInit, PTL DEF Spec
-----------------------------------------------------------------------------
(***************************************************************************)
(* What the audio thread reads back.                                       *)
(***************************************************************************)
\* A timeline the audio thread pushed is unread, or read and about to be applied to the client state.
Unhandled ==
  mTimelineBuffer.new \/ (linkPc \in {"readStartStop", "handleRt"} /\ linkState.timeline # none)

\* It was pushed at this very instant, or while Link was disabled, or the push is not finished.
Fresh ==
  Unhandled => \/ mRtClientState.timelineTimestamp \in {0, now}
               \/ audioPc = "startStop" /\ audioState.timeline # none

\* A step that leaves the pushed and the cached timeline alone.
LEMMA FreshKept ==
  ASSUME Fresh, Unhandled' => Unhandled, UNCHANGED <<now, mRtClientState, audioPc, audioState>>
  PROVE  Fresh'
BY DEF Fresh

\* The audio thread stamps what it pushed before it does anything else.
LEMMA FreshAudio == ASSUME TypeOK, Fresh, audioNext PROVE Fresh'
<1>1. CASE clientStateRtSafe
  BY <1>1 DEF clientStateRtSafe, threads, Fresh, Unhandled, TypeOK, ClientType
<1>2. ASSUME NEW e \in AudioEdits, setClientStateRtSafe(e) PROVE Fresh'
  <2>1. /\ audioPc = "idle" /\ audioPc' = "startStop"
        /\ UNCHANGED <<now, mRtClientState, linkPc, linkState>>
        /\ audioState'.timeline = none => mTimelineBuffer' = mTimelineBuffer
    BY <1>2 DEF setClientStateRtSafe
  <2> QED BY <2>1 DEF Fresh, Unhandled
<1>3. CASE pushStartStopState
  BY <1>3 DEF pushStartStopState, Fresh, Unhandled
<1> QED BY <1>1, <1>2, <1>3 DEF audioNext

\* The Link thread only handles what was pushed.
LEMMA FreshLink == ASSUME TypeOK, Fresh, handling \/ networkNext PROVE Fresh'
<1>1. UNCHANGED <<now, mRtClientState, audioPc, audioState>>
  BY DEF handling, processPendingClientStates, readStartStop, handleRtClientState, handleClientState,
         handleClientStartStop, invokeStartStopStateCallbackIfChanged, resetState, disableDiscovery, joinedSession,
         networkNext, sawSession, sawOtherSession, handleStartStopStateFromSession, joinSession, peersGone,
         heard, hearing, goto, finish, outside
<1>2. ASSUME readTimeline PROVE Unhandled' => Unhandled
  BY <1>2 DEF readTimeline, Unhandled, TypeOK, ClientType, nothing, change, none
<1>3. ASSUME NEW task, processPendingClientStates(task) PROVE Unhandled' => Unhandled
  BY <1>2, <1>3 DEF processPendingClientStates
<1>4. ASSUME readStartStop PROVE Unhandled' => Unhandled
  <2>1. linkState'.timeline = linkState.timeline BY <1>4 DEF readStartStop, TypeOK, LinkType, Change
  <2> QED BY <1>4, <2>1 DEF readStartStop, Unhandled
<1>5. ASSUME linkPc' \notin {"readStartStop", "handleRt"}, UNCHANGED mTimelineBuffer
      PROVE  Unhandled' => Unhandled
  BY <1>5 DEF Unhandled
<1>6. ASSUME handling, ~readStartStop, \A task : ~processPendingClientStates(task)
      PROVE  linkPc' \notin {"readStartStop", "handleRt"} /\ UNCHANGED mTimelineBuffer
  BY <1>6
     DEF handling, handleRtClientState, handleClientState, handleClientStartStop,
         invokeStartStopStateCallbackIfChanged, resetState, disableDiscovery, joinedSession, goto, finish, buffers
<1>7. CASE networkNext
  <2>1. ASSUME UNCHANGED <<mTimelineBuffer, linkPc, linkState>> PROVE Unhandled' => Unhandled
    BY <2>1 DEF Unhandled
  <2>2. ASSUME NEW tl, NEW x, joinSession(tl, x) PROVE Unhandled' => Unhandled
    BY <1>2, <2>1, <2>2 DEF joinSession
  <2>3. ASSUME NEW ss, handleStartStopStateFromSession(ss) PROVE Unhandled' => Unhandled
    BY <1>5, <2>3 DEF handleStartStopStateFromSession
  <2> QED BY <1>1, <1>7, <2>1, <2>2, <2>3, FreshKept
      DEF networkNext, sawSession, sawOtherSession, handleTimelineFromSession, peersGone
<1> QED BY <1>1, <1>3, <1>4, <1>5, <1>6, <1>7, FreshKept

\* Time does not pass over an unhandled push.
LEMMA FreshStep == ASSUME TypeOK, Fresh, [Next]_cvars PROVE Fresh'
<1>1. CASE appNext \/ dispatch \/ UNCHANGED cvars
  <2>1. UNCHANGED <<now, mRtClientState, audioPc, audioState, mTimelineBuffer, linkPc, linkState>>
    BY <1>1 DEF appNext, captureAppSessionState, setClientState, postClientState, enable, dispatch, rt,
                threads, cvars
  <2>2. Unhandled' => Unhandled BY <2>1 DEF Unhandled
  <2> QED BY <2>1, <2>2, FreshKept
<1>2. CASE tick BY <1>2 DEF tick, unread, linkIdle, rt, threads, Fresh, Unhandled
<1>3. CASE audioNext BY <1>3, FreshAudio
<1>4. CASE handling \/ networkNext BY <1>4, FreshLink
<1> QED BY <1>1, <1>2, <1>3, <1>4 DEF Next

ReadsBack ==
  audioPc = "idle" /\ mRtClientState'.state.timeline # mRtClientState.state.timeline
    /\ mRtClientState.timelineTimestamp # 0 /\ audioPc' = "idle"
    => ~mTimelineBuffer.new
       /\ (linkPc \in {"readStartStop", "handleRt"} => linkState.timeline = none)

\* With a fresh timestamp the grace period is not over, so that clientStateRtSafe leaves the timeline.
LEMMA ReadsBackStep == ASSUME TypeOK, Fresh, [Next]_cvars PROVE ReadsBack
<1>1. CASE clientStateRtSafe
  <2> SUFFICES ASSUME audioPc = "idle", mRtClientState'.state.timeline # mRtClientState.state.timeline,
                      mRtClientState.timelineTimestamp # 0, Unhandled
               PROVE  FALSE
    BY DEF ReadsBack, Unhandled
  <2>1. mRtClientState.timelineTimestamp = now BY DEF Fresh
  <2>2. ~timelineGraceOver
    <3>1. now - now = 0 /\ Step \div 2 >= 0 BY ControllerAssumption DEF TypeOK, RestType
    <3> QED BY <2>1, <3>1, ControllerAssumption DEF timelineGraceOver, GracePeriod
  <2>3. mRtClientState'.state.timeline = mRtClientState.state.timeline
    BY <1>1, <2>2 DEF clientStateRtSafe, TypeOK, ClientType, ClientState
  <2> QED BY <2>3
<1>2. CASE ~clientStateRtSafe
  <2> SUFFICES mRtClientState' = mRtClientState \/ audioPc # "idle" BY DEF ReadsBack
  <2>1. CASE appNext \/ dispatch \/ tick \/ UNCHANGED cvars
    BY <2>1 DEF appNext, captureAppSessionState, setClientState, postClientState, enable, dispatch, tick, rt, cvars
  <2>2. CASE audioNext BY <1>2, <2>2 DEF audioNext, setClientStateRtSafe, pushStartStopState
  <2>3. CASE handling \/ networkNext
    BY <2>3
       DEF handling, processPendingClientStates, readStartStop, handleRtClientState, handleClientState,
           handleClientStartStop, invokeStartStopStateCallbackIfChanged, resetState, disableDiscovery,
           joinedSession, networkNext, sawSession, sawOtherSession, handleStartStopStateFromSession, joinSession,
           peersGone, heard, hearing, goto, finish, outside
  <2> QED BY <2>1, <2>2, <2>3 DEF Next
<1> QED BY <1>1, <1>2

\* The grace period covers the time between the push and the handler, also when the flag of pending states
\* is cleared too early (clientStateRtSafe, processPendingClientStates).
THEOREM CommitReadBack == Spec => RtKeepsCommit
<1>1. Init => Fresh BY DEF Init, Fresh, Unhandled, none
<1>2. TypeOK /\ Fresh /\ [Next]_cvars => TypeOK' /\ Fresh' BY ControllerTypeStep, FreshStep
<1>3. TypeOK /\ Fresh /\ [Next]_cvars => [ReadsBack]_cvars BY ReadsBackStep
<1> QED BY <1>1, <1>2, <1>3, ControllerTypeInit, PTL DEF Spec, RtKeepsCommit, ReadsBack
-----------------------------------------------------------------------------
(***************************************************************************)
(* What is still to be handled: the commits of applications, ...           *)
(***************************************************************************)
posted == {appState[a] : a \in {b \in Apps : appPc[b] = "post"}}
commitsIn(queue) == {queue[i].arg : i \in {j \in DOMAIN queue : queue[j].task = "client"}}
underway == posted \union commitsIn(io)

\* ... and the one the Link thread is working on.
Busy == {"readStartStop", "handleRt", "timeline", "startStop", "callback"}

\* A handler that is posted waits behind the others.
LEMMA Appended ==
  ASSUME NEW queue \in Seq(Handlers), NEW h \in Handlers
  PROVE  /\ Append(queue, h) \in Seq(Handlers)
         /\ commitsIn(queue) \subseteq commitsIn(Append(queue, h))
         /\ h.task = "client" => h.arg \in commitsIn(Append(queue, h))
<1> DEFINE longer == Append(queue, h)
<1>1. /\ longer \in Seq(Handlers) /\ Len(queue) \in Nat
      /\ DOMAIN longer = 1 .. Len(queue) + 1 /\ DOMAIN queue = 1 .. Len(queue)
      /\ \A i \in DOMAIN queue : longer[i] = queue[i]
      /\ longer[Len(queue) + 1] = h
  OBVIOUS
<1> HIDE DEF longer
<1>2. DOMAIN queue \subseteq DOMAIN longer /\ Len(queue) + 1 \in DOMAIN longer BY <1>1
<1>3. commitsIn(queue) \subseteq commitsIn(longer) /\ (h.task = "client" => h.arg \in commitsIn(longer))
  BY <1>1, <1>2 DEF commitsIn
<1> QED BY <1>1, <1>3 DEF longer

\* The one taken from the queue is no longer in it, the others are.
LEMMA TailQueued ==
  ASSUME NEW queue \in Seq(Handlers), queue # <<>>
  PROVE  /\ Tail(queue) \in Seq(Handlers)
         /\ commitsIn(queue) \subseteq commitsIn(Tail(queue)) \union {Head(queue).arg}
         /\ Head(queue).task = "client" => Head(queue).arg \in commitsIn(queue)
         /\ Head(queue).task # "client" => commitsIn(queue) \subseteq commitsIn(Tail(queue))
<1> DEFINE rest == Tail(queue)
<1>1. /\ rest \in Seq(Handlers) /\ Len(queue) \in Nat \ {0} /\ DOMAIN queue = 1 .. Len(queue)
      /\ DOMAIN rest = 1 .. Len(queue) - 1
      /\ Head(queue) = queue[1] /\ \A i \in 1 .. Len(queue) - 1 : rest[i] = queue[i + 1]
  OBVIOUS
<1> HIDE DEF rest
<1>2. ASSUME NEW i \in DOMAIN queue, i # 1 PROVE i - 1 \in DOMAIN rest /\ rest[i - 1] = queue[i]
  BY <1>1, <1>2
<1>3. ASSUME NEW i \in DOMAIN queue, queue[i].task = "client", i # 1 PROVE queue[i].arg \in commitsIn(rest)
  BY <1>2, <1>3 DEF commitsIn
<1>4. 1 \in DOMAIN queue BY <1>1
<1>5. \A c \in commitsIn(queue) : \E i \in DOMAIN queue : queue[i].task = "client" /\ c = queue[i].arg
  BY DEF commitsIn
<1>6. \A c \in commitsIn(queue) : c \in commitsIn(rest) \/ (queue[1].task = "client" /\ c = queue[1].arg)
  BY <1>3, <1>5
<1>7. queue[1].task = "client" => queue[1].arg \in commitsIn(queue) BY <1>4 DEF commitsIn
<1> QED BY <1>1, <1>6, <1>7 DEF rest

\* A handler that is not an application's commit takes none away, ...
LEMMA TakenOther ==
  ASSUME LinkType, NEW task, task # "client", takes(task)
  PROVE  commitsIn(io) \subseteq commitsIn(io')
<1>1. io \in Seq(Handlers) /\ io # <<>> /\ io' = Tail(io) /\ Head(io).task = task
  BY DEF LinkType, Handlers, takes
<1> QED BY <1>1, TailQueued

\* ... nor does a count of peers that posts a reset.
LEMMA CountedQueued ==
  ASSUME NEW n, NEW queue \in Seq(Handlers), countPeers(n, queue)
  PROVE  commitsIn(queue) \subseteq commitsIn(io')
<1>1. [task |-> "reset", arg |-> nothing] \in Handlers BY Nothing DEF Handlers
<1>2. io' = queue \/ io' = Append(queue, [task |-> "reset", arg |-> nothing]) BY DEF countPeers
<1> QED BY <1>1, <1>2, Appended
-----------------------------------------------------------------------------
(***************************************************************************)
(* When nothing is under way, client and session agree.                    *)
(***************************************************************************)
\* A client timeline that has the session's tempo and begins at its beat zero, but for a tick.
anchored(tl, s) ==
  /\ tl.tempo = s.timeline.tempo
  /\ LET off == toBeats(s.timeline, hostToGhost(s.xform, tl.timeOrigin))
     IN  -microsToBeats(tl.tempo, 1) <= off /\ off <= microsToBeats(tl.tempo, 1)

has(c, tl) == c.timeline # none /\ tl = the(c.timeline)
hasStartStop(c, ss) == c.startStopState # none /\ ss = the(c.startStopState)

\* Unless it is still to be handled, the client's timeline is anchored in the session.
Follows ==
  \/ anchored(mClientState.timeline, mSessionState)
  \/ \E c \in underway : has(c, mClientState.timeline)
  \/ linkPc = "timeline" /\ has(linkState, mClientState.timeline)

\* Unless it is newer and still to be handled, the client's start/stop state is the session's.
SameStartStop ==
  Sync /\ mSessionState.startStopState # stopped =>
    \/ mClientState.startStopState = mapToClient(mSessionState.startStopState, mSessionState.xform)
    \/ /\ newer(mClientState.startStopState, mSessionState.xform)
       /\ \/ \E c \in underway : hasStartStop(c, mClientState.startStopState)
          \/ linkPc \in {"timeline", "startStop"} /\ hasStartStop(linkState, mClientState.startStopState)

\* Unless a handler is still to tell it, the application was told whether it plays.
Told ==
  \/ mIsPlayingTold = mClientState.startStopState.isPlaying
  \/ underway # {} \/ linkPc \in Busy

Agreed == Follows /\ SameStartStop /\ Told

\* A timeline the client gets from the session is anchored there.
LEMMA ClientAnchored ==
  ASSUME NEW client, NEW t, NEW s \in SessionState
  PROVE  anchored(updateClientTimelineFromSession(client, s.timeline, t, s.xform), s)
<1> DEFINE m == s.timeline.tempo
           b == s.timeline.beatOrigin
           r == beatsToMicros(m, -b)
           z == ghostToHost(s.xform, fromBeats(s.timeline, 0))
           new == updateClientTimelineFromSession(client, s.timeline, t, s.xform)
<1>1. m \in Positive /\ b \in Int /\ s.timeline.timeOrigin \in Int /\ s.xform \in Int
  BY Ranged DEF SessionState, Timeline, Positive
<1>2. new.tempo = m /\ new.timeOrigin = z BY DEF updateClientTimelineFromSession, timeline
<1>3. -b \in Int /\ 0 - b = -b /\ r \in Int BY <1>1, Micros
<1>4. fromBeats(s.timeline, 0) = s.timeline.timeOrigin + r BY <1>3 DEF fromBeats
<1>5. hostToGhost(s.xform, z) = s.timeline.timeOrigin + r BY <1>1, <1>3, <1>4 DEF hostToGhost, ghostToHost
<1>6. (s.timeline.timeOrigin + r) - s.timeline.timeOrigin = r BY <1>1, <1>3
<1>7. toBeats(s.timeline, hostToGhost(s.xform, z)) = b + microsToBeats(m, r) BY <1>5, <1>6 DEF toBeats
<1> HIDE DEF m, b, r, z, new
<1>8. /\ -microsToBeats(m, 1) <= microsToBeats(m, r) - (-b) /\ microsToBeats(m, r) - (-b) <= microsToBeats(m, 1)
      /\ microsToBeats(m, r) \in Int
  BY <1>1, <1>3, ThereAndBack, Beats DEF r
<1>9. microsToBeats(m, r) - (-b) = b + microsToBeats(m, r) BY <1>1, <1>8
<1> QED BY <1>2, <1>7, <1>8, <1>9 DEF anchored, m, new

\* Between zero and a quantum, less than half of it from either end.
LEMMA OnCircle ==
  ASSUME NEW q \in Positive, NEW d \in Int, NEW e \in Int, NEW most \in Int, sameOn(q, d, e),
         -most <= e, e <= most
  PROVE  LET p == modulo(d, q) IN (IF p < q - p THEN p ELSE q - p) <= most
<1> DEFINE p == modulo(d, q)
<1>1. p \in 0 .. q - 1 /\ p = d % q BY PhaseOf DEF modulo, Positive
<1>2. PICK k \in Int : d = e + q * k BY DEF sameOn
<1> HIDE DEF p
<1>3. most >= q => (IF p < q - p THEN p ELSE q - p) <= most BY <1>1 DEF Positive
<1>4. ASSUME most < q, e >= 0 PROVE (IF p < q - p THEN p ELSE q - p) <= most
  <2>1. e \in 0 .. q - 1 BY <1>4 DEF Positive
  <2>2. p = e BY <1>1, <1>2, <2>1, OneRemainder
  <2> QED BY <1>4, <2>1, <2>2 DEF Positive
<1>5. ASSUME most < q, e < 0 PROVE (IF p < q - p THEN p ELSE q - p) <= most
  <2>1. e + q \in 0 .. q - 1 BY <1>5 DEF Positive
  <2>2. q * (k + (-1)) = q * k - q /\ q * k \in Int BY <1>2 DEF Positive
  <2>3. d = (e + q) + q * (k + (-1)) /\ k + (-1) \in Int BY <1>2, <2>2 DEF Positive
  <2>4. p = e + q BY <1>1, <2>1, <2>3, OneRemainder
  <2> QED BY <1>5, <2>1, <2>4 DEF Positive
<1>6. (IF p < q - p THEN p ELSE q - p) <= most
  <2>1. most < q \/ most >= q BY DEF Positive
  <2>2. e >= 0 \/ e < 0 OBVIOUS
  <2> QED BY <1>3, <1>4, <1>5, <2>1, <2>2
<1> QED BY <1>6 DEF p

\* A client whose timeline is anchored in the session sees its phase, at any time and for any quantum.
LEMMA InPhase ==
  ASSUME NEW tl \in InRange, NEW s \in SessionState, anchored(tl, s), NEW t \in Int, NEW q \in Positive
  PROVE  apart(toPhaseEncodedBeats(tl, t, q), toBeats(s.timeline, hostToGhost(s.xform, t)), q)
           <= 1 + microsToBeats(s.timeline.tempo, 1)
<1> DEFINE m == s.timeline.tempo
           b == toPhaseEncodedBeats(tl, t, q)
           c == toBeats(s.timeline, hostToGhost(s.xform, t))
           u == t - tl.timeOrigin
           v == hostToGhost(s.xform, tl.timeOrigin) - s.timeline.timeOrigin
           f == microsToBeats(m, u)
           g == microsToBeats(m, v)
           h == microsToBeats(m, u + v)
           o == s.timeline.beatOrigin
           l == microsToBeats(m, 1)
<1>1. /\ m \in Positive /\ o \in Int /\ s.timeline.timeOrigin \in Int /\ s.xform \in Int
      /\ tl \in Timeline /\ tl.timeOrigin \in Int /\ tl.tempo = m
  BY Ranged DEF SessionState, Timeline, Positive, anchored
<1>2. u \in Int /\ v \in Int /\ hostToGhost(s.xform, t) - s.timeline.timeOrigin = u + v
  BY <1>1 DEF hostToGhost
<1>3. f \in Int /\ g \in Int /\ h \in Int /\ l \in Int BY <1>1, <1>2, Beats
<1>4. c = o + h BY <1>2 DEF toBeats
<1>5. sameOn(q, b, f) /\ b \in Int
  <2>1. q \in Nat BY DEF Positive
  <2> QED BY <1>1, <2>1, PhaseEncoded, Encoded
<1>6. -l <= o + g /\ o + g <= l BY <1>1 DEF anchored, toBeats
<1>7. -1 <= f + g - h /\ f + g - h <= 1
  <2> HIDE DEF u, v
  <2> QED BY <1>1, <1>2, SpansAddUp
<1> HIDE DEF b, c, f, g, h, o, l
<1>8. b - c \in Int /\ f - c \in Int /\ sameOn(q, b - c, f - c)
  <2>1. c \in Int /\ -c \in Int BY <1>1, <1>3, <1>4
  <2>2. sameOn(q, b + (-c), f + (-c)) BY <1>3, <1>5, <2>1, SamePlaces
  <2>3. b + (-c) = b - c /\ f + (-c) = f - c BY <1>3, <1>5, <2>1
  <2> QED BY <1>3, <1>5, <2>1, <2>2, <2>3
<1>9. -(1 + l) <= f - c /\ f - c <= 1 + l /\ 1 + l \in Int BY <1>1, <1>3, <1>4, <1>6, <1>7
<1>10. apart(b, c, q) <= 1 + l BY <1>8, <1>9, OnCircle DEF apart
<1> QED BY <1>10 DEF b, c, l
-----------------------------------------------------------------------------
\* A tick is worth something, or nothing.
LEMMA TickWorth == ASSUME NEW m \in Positive PROVE microsToBeats(m, 1) \in Int /\ microsToBeats(m, 1) >= 0
<1> DEFINE off == microsToBeats(m, beatsToMicros(m, 0)) - 0
           l == microsToBeats(m, 1)
<1>1. l \in Int /\ off \in Int BY Micros, Beats
<1>2. -l <= off /\ off <= l BY ThereAndBack
<1> HIDE DEF off, l
<1>3. l >= 0 BY <1>1, <1>2
<1> QED BY <1>1, <1>3 DEF l

\* Only a client timeline with the session's tempo and beat zero leaves the session as it is: any other
\* gets a greater beat origin.
LEMMA SessionUnmoved ==
  ASSUME NEW tl \in InRange, NEW s \in SessionState, NEW t \in Int,
         clampTempo(updateSessionTimelineFromClient(s.timeline, tl, t, s.xform)) = s.timeline
  PROVE  anchored(tl, s)
<1> DEFINE beat == toBeats(s.timeline, hostToGhost(s.xform, t))
           origin == IF beat > s.timeline.beatOrigin THEN beat ELSE s.timeline.beatOrigin + 1
           same == toBeats(s.timeline, hostToGhost(s.xform, tl.timeOrigin)) = 0 /\ tl.tempo = s.timeline.tempo
           new == updateSessionTimelineFromClient(s.timeline, tl, t, s.xform)
<1>1. s.timeline \in Timeline /\ s.timeline.beatOrigin \in Int /\ s.xform \in Int /\ tl.tempo \in Positive
  BY Ranged DEF SessionState, Timeline, Positive
<1>2. beat \in Int BY <1>1, OnTimeline DEF hostToGhost
<1> HIDE DEF beat
<1>3. origin # s.timeline.beatOrigin BY <1>1, <1>2
<1>4. new \in Timeline BY <1>1, SessionFollows
<1>5. clampTempo(new).beatOrigin = new.beatOrigin BY <1>4 DEF clampTempo, Timeline
<1>6. ~same => new.beatOrigin = origin
  BY DEF updateSessionTimelineFromClient, timeline, origin, beat, same
<1> HIDE DEF origin, same, new
<1>7. same BY <1>3, <1>5, <1>6 DEF new
<1>8. -microsToBeats(tl.tempo, 1) <= 0 /\ 0 <= microsToBeats(tl.tempo, 1) BY <1>1, TickWorth
<1> QED BY <1>7, <1>8 DEF anchored, same

\* Whenever the session's timing is set it stays what it was, or the client is anchored there again.
LEMMA Retimed ==
  ASSUME TypeOK, NEW s \in SessionState, s.timeline = mSessionState.timeline, s.xform = mSessionState.xform,
         NEW tl \in Timeline, NEW x \in Int, updateSessionTiming(s, tl, x)
  PROVE  /\ mSessionState' \in SessionState
         /\ mSessionState'.startStopState = s.startStopState
         /\ mSessionState'.timeline = clampTempo(tl) /\ mSessionState'.xform = x
         /\ \/ /\ mClientState' = mClientState
               /\ mSessionState'.timeline = mSessionState.timeline /\ mSessionState'.xform = mSessionState.xform
            \/ /\ anchored(mClientState'.timeline, mSessionState')
               /\ mClientState'.startStopState =
                    IF Sync /\ s.startStopState # stopped
                    THEN mapToClient(s.startStopState, mSessionState'.xform)
                    ELSE mClientState.startStopState
<1> DEFINE new == timed(s, tl, x)
<1>1. new \in SessionState BY Clamped DEF timed, SessionState
<1>2. /\ new.startStopState = s.startStopState /\ new.timeline = clampTempo(tl) /\ new.xform = x
  BY DEF timed, SessionState
<1>3. mSessionState' = new /\ mClientState' = clientTimed(mClientState, s, new) BY DEF updateSessionTiming
<1> HIDE DEF new
<1>4. CASE s.timeline = new.timeline /\ s.xform = new.xform
  <2>1. mClientState' = mClientState BY <1>3, <1>4 DEF clientTimed
  <2> QED BY <1>1, <1>2, <1>3, <1>4, <2>1
<1>5. CASE ~(s.timeline = new.timeline /\ s.xform = new.xform)
  <2>1. /\ mClientState'.timeline
             = updateClientTimelineFromSession(mClientState.timeline, new.timeline, now, new.xform)
        /\ mClientState'.startStopState = IF Sync /\ new.startStopState # stopped
                                          THEN mapToClient(new.startStopState, new.xform)
                                          ELSE mClientState.startStopState
    BY <1>3, <1>5 DEF clientTimed
  <2>2. anchored(mClientState'.timeline, new) BY <1>1, <2>1, ClientAnchored
  <2> QED BY <1>1, <1>2, <1>3, <2>1, <2>2
<1> QED BY <1>4, <1>5
-----------------------------------------------------------------------------
\* Follows holds on while neither timeline moves and what is underway stays so.
LEMMA FollowsKept ==
  ASSUME Follows, underway \subseteq underway', mClientState'.timeline = mClientState.timeline,
         mSessionState'.timeline = mSessionState.timeline, mSessionState'.xform = mSessionState.xform,
         linkPc = "timeline" => linkPc' = "timeline" /\ linkState' = linkState
  PROVE  Follows'
<1>1. CASE anchored(mClientState.timeline, mSessionState)
  BY <1>1 DEF Follows, anchored
<1>2. CASE \E c \in underway : has(c, mClientState.timeline)
  BY <1>2 DEF Follows, has
<1>3. CASE linkPc = "timeline" /\ has(linkState, mClientState.timeline)
  BY <1>3 DEF Follows, has
<1> QED BY <1>1, <1>2, <1>3 DEF Follows

\* The same of the start/stop state, ...
LEMMA SameStartStopKept ==
  ASSUME SameStartStop, underway \subseteq underway', mClientState'.startStopState = mClientState.startStopState,
         mSessionState'.startStopState = mSessionState.startStopState, mSessionState'.xform = mSessionState.xform,
         linkPc \in {"timeline", "startStop"} => linkPc' \in {"timeline", "startStop"} /\ linkState' = linkState
  PROVE  SameStartStop'
<1>1. CASE mClientState.startStopState = mapToClient(mSessionState.startStopState, mSessionState.xform)
  BY <1>1 DEF SameStartStop
<1>2. CASE /\ newer(mClientState.startStopState, mSessionState.xform)
           /\ \/ \E c \in underway : hasStartStop(c, mClientState.startStopState)
              \/ linkPc \in {"timeline", "startStop"} /\ hasStartStop(linkState, mClientState.startStopState)
  <2>1. newer(mClientState.startStopState, mSessionState.xform)' BY <1>2 DEF newer
  <2>2. CASE \E c \in underway : hasStartStop(c, mClientState.startStopState)
    BY <2>1, <2>2 DEF SameStartStop, hasStartStop
  <2>3. CASE linkPc \in {"timeline", "startStop"} /\ hasStartStop(linkState, mClientState.startStopState)
    BY <2>1, <2>3 DEF SameStartStop, hasStartStop
  <2> QED BY <1>2, <2>2, <2>3
<1>3. CASE ~(Sync /\ mSessionState.startStopState # stopped) BY <1>3 DEF SameStartStop
<1> QED BY <1>1, <1>2, <1>3 DEF SameStartStop

\* ... and of what the application was told.
LEMMA ToldKept ==
  ASSUME Told, underway \subseteq underway', mIsPlayingTold' = mIsPlayingTold,
         mClientState'.startStopState.isPlaying = mClientState.startStopState.isPlaying,
         linkPc \in Busy => linkPc' \in Busy
  PROVE  Told'
BY DEF Told

\* A step aside of what is kept in agreement.
LEMMA AsideKeeps ==
  ASSUME Agreed, underway \subseteq underway', UNCHANGED <<mClientState, mSessionState, mIsPlayingTold>>,
         linkPc \in Busy => linkPc' \in Busy,
         linkPc \in {"timeline", "startStop"} => UNCHANGED <<linkPc, linkState>>
  PROVE  Agreed'
BY FollowsKept, SameStartStopKept, ToldKept DEF Agreed

\* What is applied to the client is the client's own, or in the change that goes on; a start/stop state
\* replaces the client's if it is newer.
LEMMA AppliedChange ==
  ASSUME NEW client \in ClientState, NEW c \in Change
  PROVE  LET p == preferred(client.startStopState, c)
             new == applied(client, p)
         IN  /\ new.timeline = client.timeline \/ has(p, new.timeline)
             /\ \/ new.startStopState = client.startStopState
                \/ /\ hasStartStop(p, new.startStopState)
                   /\ new.startStopState.timestamp > client.startStopState.timestamp
<1> DEFINE p == preferred(client.startStopState, c)
           new == applied(client, p)
<1>1. p.startStopState = {selectPreferredStartStopState(client.startStopState, ss) : ss \in c.startStopState}
  BY DEF preferred, Change
<1>2. new.timeline = client.timeline \/ has(p, new.timeline) BY DEF applied, has
<1>3. CASE p.startStopState = none BY <1>2, <1>3 DEF applied
<1>4. CASE p.startStopState # none
  <2>1. new.startStopState = the(p.startStopState) /\ the(p.startStopState) \in p.startStopState
    BY <1>4, TheOne DEF applied
  <2>2. PICK ss \in c.startStopState :
          new.startStopState = selectPreferredStartStopState(client.startStopState, ss)
    BY <1>1, <2>1
  <2>3. hasStartStop(p, new.startStopState) BY <1>4, <2>1 DEF hasStartStop
  <2> HIDE DEF p, new
  <2>4. \/ new.startStopState = client.startStopState
        \/ new.startStopState.timestamp > client.startStopState.timestamp
    BY <2>2 DEF selectPreferredStartStopState
  <2> QED BY <1>2, <2>3, <2>4 DEF p, new
<1> QED BY <1>3, <1>4

\* A start/stop state that is later than the client's is newer than the session's.
LEMMA NewerThanSession ==
  ASSUME TypeOK, SameStartStop, Sync, mSessionState.startStopState # stopped,
         NEW ss \in StartStop, ss.timestamp > mClientState.startStopState.timestamp
  PROVE  newer(ss, mSessionState.xform)
<1>1. /\ mClientState.startStopState \in StartStop /\ mSessionState.startStopState \in StartStop
      /\ mSessionState.xform \in Int
  BY DEF TypeOK, ClientType, SessionType, ClientState, SessionState
<1>2. CASE newer(mClientState.startStopState, mSessionState.xform)
  BY <1>1, <1>2 DEF newer, hostToGhost, StartStop
<1>3. CASE mClientState.startStopState = mapToClient(mSessionState.startStopState, mSessionState.xform)
  <2>1. mClientState.startStopState.timestamp = mSessionState.startStopState.timestamp - mSessionState.xform
    BY <1>1, <1>3 DEF mapToClient, ghostToHost, StartStop
  <2> QED BY <1>1, <2>1 DEF newer, hostToGhost, StartStop
<1> QED BY <1>2, <1>3 DEF SameStartStop
-----------------------------------------------------------------------------
(***************************************************************************)
(* Every step keeps the agreement: steps aside, ...                        *)
(***************************************************************************)
\* what is posted and queued stays so
LEMMA StaysUnderway ==
  ASSUME UNCHANGED <<appPc, appState>>, commitsIn(io) \subseteq commitsIn(io')
  PROVE  underway \subseteq underway'
BY DEF underway, posted

\* Application threads that capture, or post what they committed.
LEMMA AgreedApp ==
  ASSUME TypeOK, Agreed,
         \/ \E a \in Apps : captureAppSessionState(a) \/ postClientState(a)
         \/ \E b \in BOOLEAN : enable(b)
  PROVE  Agreed'
<1>1. io \in Seq(Handlers) BY DEF TypeOK, LinkType, Handlers
<1>2. /\ appPc \in [Apps -> {"idle", "captured", "post"}] /\ appState \in [Apps -> Captured \union Change]
      /\ \A a \in Apps : appPc[a] = "post" => appState[a] \in Change
  BY DEF TypeOK, ThreadsType
<1>3. ASSUME NEW a \in Apps, captureAppSessionState(a) PROVE Agreed'
  <2>1. appPc[a] = "idle" /\ appPc' = [appPc EXCEPT ![a] = "captured"] /\ UNCHANGED io
    BY <1>3 DEF captureAppSessionState
  <2>2. \A b \in Apps : b # a => appState'[b] = appState[b] /\ appPc'[b] = appPc[b]
    BY <1>2, <1>3 DEF captureAppSessionState
  <2>3. underway \subseteq underway' BY <1>2, <2>1, <2>2 DEF underway, posted
  <2>4. UNCHANGED <<mClientState, mSessionState, mIsPlayingTold, linkPc, linkState>>
    BY <1>3 DEF captureAppSessionState, session
  <2> QED BY <2>3, <2>4, AsideKeeps
<1>4. ASSUME NEW a \in Apps, postClientState(a) PROVE Agreed'
  <2> DEFINE h == [task |-> "client", arg |-> appState[a]]
  <2>1. appPc[a] = "post" /\ io' = Append(io, h) BY <1>4 DEF postClientState
  <2>2. h \in Handlers /\ h.task = "client" /\ h.arg = appState[a] BY <1>2, <2>1 DEF Handlers
  <2> HIDE DEF h
  <2>3. commitsIn(io) \subseteq commitsIn(io') /\ appState[a] \in commitsIn(io')
    BY <1>1, <2>1, <2>2, Appended
  <2>4. \A b \in Apps : b # a => appState'[b] = appState[b] /\ appPc'[b] = appPc[b]
    BY <1>2, <1>4 DEF postClientState
  <2>5. posted \subseteq posted' \union {appState[a]} BY <1>2, <2>4 DEF posted
  <2>6. underway \subseteq underway' BY <2>3, <2>5 DEF underway
  <2>7. UNCHANGED <<mClientState, mSessionState, mIsPlayingTold, linkPc, linkState>>
    BY <1>4 DEF postClientState, session
  <2> QED BY <2>6, <2>7, AsideKeeps
<1>5. ASSUME NEW b \in BOOLEAN, enable(b) PROVE Agreed'
  <2>1. [task |-> IF b THEN "enable" ELSE "disable", arg |-> nothing] \in Handlers BY Nothing DEF Handlers
  <2>2. commitsIn(io) \subseteq commitsIn(io') BY <1>1, <1>5, <2>1, Appended DEF enable
  <2>3. UNCHANGED <<mClientState, mSessionState, mIsPlayingTold, linkPc, linkState, appPc, appState>>
    BY <1>5 DEF enable, session, threads
  <2> QED BY <2>2, <2>3, StaysUnderway, AsideKeeps
<1> QED BY <1>3, <1>4, <1>5

\* The audio thread, the dispatcher and the clock.
LEMMA AgreedAround ==
  ASSUME TypeOK, Agreed, audioNext \/ dispatch \/ tick \/ UNCHANGED cvars
  PROVE  Agreed'
<1>1. UNCHANGED <<mClientState, mSessionState, mIsPlayingTold, linkPc, linkState, appPc, appState>>
  BY DEF audioNext, clientStateRtSafe, setClientStateRtSafe, pushStartStopState, dispatch, tick, session,
         threads, cvars
<1>2. commitsIn(io) \subseteq commitsIn(io')
  <2>1. CASE dispatch
    <3>1. io \in Seq(Handlers) /\ pending \in Handlers /\ io' = Append(io, pending)
      BY <2>1, Nothing DEF TypeOK, LinkType, Handlers, pending, dispatch
    <3> QED BY <3>1, Appended
  <2>2. CASE audioNext \/ tick \/ UNCHANGED cvars
    BY <2>2 DEF audioNext, clientStateRtSafe, setClientStateRtSafe, pushStartStopState, tick, cvars
  <2> QED BY <2>1, <2>2
<1> QED BY <1>1, <1>2, StaysUnderway, AsideKeeps

\* The Link thread reads the buffers, and closes the gateways.
LEMMA AgreedReading ==
  ASSUME TypeOK, Agreed,
         \/ \E task \in {"pending", "enable"} : processPendingClientStates(task)
         \/ readStartStop
         \/ disableDiscovery
         \/ peersGone
  PROVE  Agreed'
<1>1. io \in Seq(Handlers) /\ LinkType BY DEF TypeOK, LinkType, Handlers
<1>2. ASSUME NEW task \in {"pending", "enable"}, processPendingClientStates(task) PROVE Agreed'
  <2>1. commitsIn(io) \subseteq commitsIn(io') BY <1>1, <1>2, TakenOther DEF processPendingClientStates
  <2>2. /\ linkPc = "idle" /\ linkPc' = "readStartStop"
        /\ UNCHANGED <<mClientState, mSessionState, mIsPlayingTold, appPc, appState>>
    BY <1>2 DEF processPendingClientStates, takes, linkIdle, readTimeline, session, outside
  <2> QED BY <2>1, <2>2, StaysUnderway, AsideKeeps DEF Busy
<1>3. CASE readStartStop
  <2>1. /\ linkPc = "readStartStop" /\ linkPc' = "handleRt"
        /\ UNCHANGED <<mClientState, mSessionState, mIsPlayingTold, appPc, appState, io>>
    BY <1>3 DEF readStartStop, goto, session, outside
  <2> QED BY <2>1, StaysUnderway, AsideKeeps DEF Busy
<1>4. CASE disableDiscovery
  <2>1. io # <<>> /\ Head(io).task = "disable" /\ countPeers(0, Tail(io)) BY <1>4 DEF disableDiscovery
  <2>2. commitsIn(io) \subseteq commitsIn(io') BY <1>1, <2>1, TailQueued, CountedQueued
  <2>3. /\ linkPc = "idle"
        /\ UNCHANGED <<mClientState, mSessionState, mIsPlayingTold, appPc, appState>>
    BY <1>4 DEF disableDiscovery, linkIdle, finish, outside
  <2> QED BY <2>2, <2>3, StaysUnderway, AsideKeeps DEF Busy
<1>5. CASE peersGone
  <2>1. commitsIn(io) \subseteq commitsIn(io') BY <1>1, <1>5, CountedQueued DEF peersGone
  <2>2. /\ linkPc = "idle"
        /\ UNCHANGED <<mClientState, mSessionState, mIsPlayingTold, appPc, appState>>
    BY <1>5 DEF peersGone, hearing, linkIdle, outside
  <2> QED BY <2>1, <2>2, StaysUnderway, AsideKeeps DEF Busy
<1> QED BY <1>2, <1>3, <1>4, <1>5
-----------------------------------------------------------------------------
(***************************************************************************)
(* ... commits, ...                                                        *)
(***************************************************************************)
\* A change of the client goes on to the session: with the post that the application still owes, ...
LEMMA AgreedSet == ASSUME TypeOK, Agreed, NEW a \in Apps, NEW e \in Edits, setClientState(a, e) PROVE Agreed'
<1> DEFINE old == appState[a].state
           c == toIncomingClientState(edit(e, old, now, appState[a].mbRespectQuantum), old, now)
           p == preferred(mClientState.startStopState, clamped(c))
<1>1. appState[a] \in Captured /\ appPc[a] = "captured" BY DEF TypeOK, ThreadsType, setClientState
<1>2. old \in ClientState /\ appState[a].mbRespectQuantum \in BOOLEAN BY <1>1 DEF Captured
<1>3. now \in Nat /\ e \in Edit /\ mClientState \in ClientState /\ mClientState.startStopState \in StartStop
  BY ControllerAssumption DEF TypeOK, RestType, ClientType, ClientState
<1>4. clamped(c) \in Change
  <2>1. edit(e, old, now, appState[a].mbRespectQuantum) \in ClientState BY <1>2, <1>3, Edited
  <2>2. c \in Change BY <1>2, <1>3, <2>1, Incoming
  <2> QED BY <2>2, ClampedChange
<1>5. mClientState' = applied(mClientState, p) /\ appState' = [appState EXCEPT ![a] = p]
      /\ appPc' = [appPc EXCEPT ![a] = "post"]
  BY DEF setClientState
<1>6. /\ mClientState'.timeline = mClientState.timeline \/ has(p, mClientState'.timeline)
      /\ \/ mClientState'.startStopState = mClientState.startStopState
         \/ /\ hasStartStop(p, mClientState'.startStopState)
            /\ mClientState'.startStopState.timestamp > mClientState.startStopState.timestamp
  <2> HIDE DEF c
  <2> QED BY <1>3, <1>4, <1>5, AppliedChange
<1> HIDE DEF p
<1>7. underway \subseteq underway' /\ p \in underway'
  <2>1. appState'[a] = p /\ appPc'[a] = "post" /\ UNCHANGED io
    BY <1>5 DEF TypeOK, ThreadsType, setClientState
  <2>2. \A b \in Apps : b # a => appState'[b] = appState[b] /\ appPc'[b] = appPc[b]
    BY <1>5 DEF TypeOK, ThreadsType
  <2>3. posted \subseteq posted' BY <1>1, <2>2 DEF posted
  <2> QED BY <2>1, <2>3 DEF underway, posted
<1>8. UNCHANGED <<mSessionState, linkPc, linkState, mIsPlayingTold>> BY DEF setClientState, session
<1>9. Follows'
  <2>1. has(p, mClientState'.timeline) => Follows' BY <1>7 DEF Follows, has
  <2> QED BY <1>6, <1>7, <1>8, <2>1, FollowsKept DEF Agreed
<1>10. SameStartStop'
  <2>1. CASE mClientState'.startStopState = mClientState.startStopState
    BY <1>7, <1>8, <2>1, SameStartStopKept DEF Agreed
  <2>2. ASSUME Sync, mSessionState.startStopState # stopped, hasStartStop(p, mClientState'.startStopState),
               mClientState'.startStopState.timestamp > mClientState.startStopState.timestamp
        PROVE  SameStartStop'
    <3>1. mClientState'.startStopState \in StartStop
      BY SetClientType DEF TypeOK, ClientType, ClientState
    <3>2. newer(mClientState'.startStopState, mSessionState.xform)
      BY <2>2, <3>1, NewerThanSession DEF Agreed
    <3> QED BY <1>7, <1>8, <2>2, <3>2 DEF SameStartStop, hasStartStop, newer
  <2>3. CASE ~(Sync /\ mSessionState.startStopState # stopped) BY <1>8, <2>3 DEF SameStartStop
  <2> QED BY <1>6, <2>1, <2>2, <2>3
<1>11. Told' BY <1>7 DEF Told
<1> QED BY <1>9, <1>10, <1>11 DEF Agreed

\* ... or with the rest of the handler that applied what the audio thread pushed.
LEMMA AgreedHandleRt == ASSUME TypeOK, Agreed, handleRtClientState PROVE Agreed'
<1> DEFINE p == preferred(mClientState.startStopState, linkState)
<1>1. linkState \in Change /\ mClientState \in ClientState BY DEF TypeOK, LinkType, ClientType
<1>2. mClientState' = applied(mClientState, p) /\ linkState' = p /\ linkPc = "handleRt" /\ linkPc' = "timeline"
  BY DEF handleRtClientState, goto
<1>3. /\ mClientState'.timeline = mClientState.timeline \/ has(p, mClientState'.timeline)
      /\ \/ mClientState'.startStopState = mClientState.startStopState
         \/ /\ hasStartStop(p, mClientState'.startStopState)
            /\ mClientState'.startStopState.timestamp > mClientState.startStopState.timestamp
  BY <1>1, <1>2, AppliedChange
<1> HIDE DEF p
<1>4. UNCHANGED <<mSessionState, mIsPlayingTold, io, appPc, appState>>
  BY DEF handleRtClientState, session, goto, outside
<1>5. underway \subseteq underway' BY <1>4, StaysUnderway
<1>6. Follows'
  <2>1. has(p, mClientState'.timeline) => Follows' BY <1>2 DEF Follows, has
  <2> QED BY <1>2, <1>3, <1>4, <1>5, <2>1, FollowsKept DEF Agreed
<1>7. SameStartStop'
  <2>1. CASE mClientState'.startStopState = mClientState.startStopState
    BY <1>2, <1>4, <1>5, <2>1, SameStartStopKept DEF Agreed
  <2>2. ASSUME Sync, mSessionState.startStopState # stopped, hasStartStop(p, mClientState'.startStopState),
               mClientState'.startStopState.timestamp > mClientState.startStopState.timestamp
        PROVE  SameStartStop'
    <3>1. mClientState'.startStopState \in StartStop
      BY HandleRtType DEF TypeOK, ClientType, ClientState
    <3>2. newer(mClientState'.startStopState, mSessionState.xform)
      BY <2>2, <3>1, NewerThanSession DEF Agreed
    <3> QED BY <1>2, <1>4, <2>2, <3>2 DEF SameStartStop, hasStartStop, newer
  <2>3. CASE ~(Sync /\ mSessionState.startStopState # stopped) BY <1>4, <2>3 DEF SameStartStop
  <2> QED BY <1>3, <2>1, <2>2, <2>3
<1>8. Told' BY <1>2 DEF Told, Busy
<1> QED BY <1>6, <1>7, <1>8 DEF Agreed
-----------------------------------------------------------------------------
(***************************************************************************)
(* ... what is handed on to the session, ...                               *)
(***************************************************************************)
\* A timing of the session that keeps its start/stop state, and forgets nothing that is underway.
LEMMA AgreedTimed ==
  ASSUME TypeOK, Agreed, NEW tl \in Timeline, NEW x \in Int, updateSessionTiming(mSessionState, tl, x),
         underway \subseteq underway', UNCHANGED <<mIsPlayingTold, linkPc>>, linkPc = "idle"
  PROVE  Agreed'
<1>1. mSessionState \in SessionState /\ mClientState \in ClientState
      /\ mSessionState.startStopState \in StartStop /\ mSessionState.xform \in Int
  BY DEF TypeOK, SessionType, ClientType, SessionState
<1>2. mSessionState'.startStopState = mSessionState.startStopState BY <1>1, Retimed
<1>3. CASE /\ mClientState' = mClientState
           /\ mSessionState'.timeline = mSessionState.timeline /\ mSessionState'.xform = mSessionState.xform
  BY <1>2, <1>3, FollowsKept, SameStartStopKept, ToldKept DEF Agreed
<1>4. CASE /\ anchored(mClientState'.timeline, mSessionState')
           /\ mClientState'.startStopState =
                IF Sync /\ mSessionState.startStopState # stopped
                THEN mapToClient(mSessionState.startStopState, mSessionState'.xform)
                ELSE mClientState.startStopState
  <2>1. Follows' BY <1>4 DEF Follows
  <2>2. SameStartStop' BY <1>2, <1>4 DEF SameStartStop
  <2>3. Told'
    <3>1. CASE Sync /\ mSessionState.startStopState # stopped
      <4>1. mClientState'.startStopState.isPlaying = mSessionState.startStopState.isPlaying
        BY <1>1, <1>4, <3>1 DEF mapToClient, StartStop
      <4>2. CASE mClientState.startStopState = mapToClient(mSessionState.startStopState, mSessionState.xform)
        <5>1. mClientState.startStopState.isPlaying = mSessionState.startStopState.isPlaying
          BY <1>1, <4>2 DEF mapToClient, StartStop
        <5> QED BY <4>1, <5>1, ToldKept DEF Agreed
      <4>3. CASE underway # {} BY <4>3 DEF Told
      <4> QED BY <3>1, <4>2, <4>3 DEF Agreed, SameStartStop
    <3>2. CASE ~(Sync /\ mSessionState.startStopState # stopped)
      <4>1. mClientState'.startStopState = mClientState.startStopState BY <1>4, <3>2
      <4> QED BY <4>1, ToldKept DEF Agreed
    <3> QED BY <3>1, <3>2
  <2> QED BY <2>1, <2>2, <2>3 DEF Agreed
<1> QED BY <1>1, <1>3, <1>4, Retimed

\* The handler of a commit: the timeline goes to the session.  Whatever was put into the client state in
\* the meantime is still underway, or it is what is handled.
LEMMA AgreedHandle == ASSUME TypeOK, Agreed, handleClientState PROVE Agreed'
<1> DEFINE c == linkState'
<1>1. /\ mSessionState \in SessionState /\ mClientState \in ClientState
      /\ mSessionState.timeline \in Timeline /\ mSessionState.xform \in Int
  BY Ranged DEF TypeOK, SessionType, ClientType, SessionState
<1>2. c \in Change BY HandleClientType DEF TypeOK, LinkType
<1>3. /\ linkPc' = "startStop" /\ handleTimeline(c)
      /\ UNCHANGED <<mIsPlayingTold, appPc, appState>>
  BY DEF handleClientState, goto, outside
<1>4. \/ /\ linkPc = "idle" /\ underway \subseteq underway' \union {c}
      \/ /\ linkPc = "timeline" /\ underway \subseteq underway' /\ c = linkState
  <2>1. CASE takes("client") /\ linkTask' = "client" /\ c = Head(io).arg
    <3>1. io \in Seq(Handlers) /\ io # <<>> /\ io' = Tail(io) /\ linkPc = "idle"
      BY <2>1 DEF TypeOK, LinkType, Handlers, takes, linkIdle
    <3>2. commitsIn(io) \subseteq commitsIn(io') \union {c} BY <2>1, <3>1, TailQueued
    <3> QED BY <1>3, <3>1, <3>2 DEF underway, posted
  <2>2. CASE linkPc = "timeline" /\ UNCHANGED <<io, linkTask, linkState>>
    BY <1>3, <2>2, StaysUnderway
  <2> QED BY <2>1, <2>2 DEF handleClientState
<1> HIDE DEF c
<1>5. Told' BY <1>3 DEF Told, Busy
<1>6. c.timeline = none => UNCHANGED <<mClientState, mSessionState>> BY <1>3 DEF handleTimeline, session
<1> DEFINE tl == updateSessionTimelineFromClient(mSessionState.timeline, the(c.timeline), c.timelineTimestamp,
                   mSessionState.xform)
<1>7. ASSUME c.timeline # none
      PROVE  /\ the(c.timeline) \in InRange /\ c.timelineTimestamp \in Int /\ tl \in Timeline
             /\ updateSessionTiming(mSessionState, tl, mSessionState.xform)
  <2>1. the(c.timeline) \in InRange /\ c.timelineTimestamp \in Int BY <1>2, <1>7, TheOne DEF Change
  <2>2. tl \in Timeline BY <1>1, <2>1, SessionFollows
  <2> QED BY <1>3, <1>7, <2>1, <2>2 DEF handleTimeline
<1>8. ASSUME c.timeline # none
      PROVE  /\ mSessionState'.startStopState = mSessionState.startStopState
             /\ mSessionState'.timeline = clampTempo(tl) /\ mSessionState'.xform = mSessionState.xform
             /\ \/ /\ mClientState' = mClientState /\ mSessionState'.timeline = mSessionState.timeline
                \/ /\ anchored(mClientState'.timeline, mSessionState')
                   /\ mClientState'.startStopState =
                        IF Sync /\ mSessionState.startStopState # stopped
                        THEN mapToClient(mSessionState.startStopState, mSessionState'.xform)
                        ELSE mClientState.startStopState
  <2>1. tl \in Timeline /\ updateSessionTiming(mSessionState, tl, mSessionState.xform) BY <1>7, <1>8
  <2> HIDE DEF tl
  <2> QED BY <1>1, <2>1, Retimed
<1>9. Follows'
  <2>1. CASE mClientState'.timeline = mClientState.timeline /\ mSessionState'.timeline = mSessionState.timeline
             /\ mSessionState'.xform = mSessionState.xform
    <3>1. CASE anchored(mClientState.timeline, mSessionState) BY <2>1, <3>1 DEF Follows, anchored
    <3>2. CASE \E d \in underway : d # c /\ has(d, mClientState.timeline)
      <4>1. \E d \in underway' : has(d, mClientState.timeline) BY <1>4, <3>2
      <4> QED BY <2>1, <4>1 DEF Follows, has
    <3>3. CASE has(c, mClientState.timeline)
      <4>1. c.timeline # none /\ the(c.timeline) = mClientState.timeline BY <3>3 DEF has
      <4>2. clampTempo(tl) = mSessionState.timeline BY <1>8, <2>1, <4>1
      <4>3. anchored(mClientState.timeline, mSessionState)
        BY <1>1, <1>7, <4>1, <4>2, SessionUnmoved
      <4> QED BY <2>1, <4>3 DEF Follows, anchored
    <3> QED BY <1>4, <3>1, <3>2, <3>3 DEF Agreed, Follows
  <2>2. CASE anchored(mClientState'.timeline, mSessionState') BY <2>2 DEF Follows
  <2> QED BY <1>6, <1>8, <2>1, <2>2
<1>10. SameStartStop'
  <2>1. CASE mClientState'.startStopState = mClientState.startStopState
             /\ mSessionState'.startStopState = mSessionState.startStopState
             /\ mSessionState'.xform = mSessionState.xform
    <3> SUFFICES ASSUME Sync, mSessionState.startStopState # stopped,
                        newer(mClientState.startStopState, mSessionState.xform),
                        hasStartStop(c, mClientState.startStopState)
                          \/ \E d \in underway : d # c /\ hasStartStop(d, mClientState.startStopState)
                 PROVE  SameStartStop'
      <4>1. CASE mClientState.startStopState = mapToClient(mSessionState.startStopState, mSessionState.xform)
        BY <2>1, <4>1 DEF SameStartStop
      <4>2. CASE ~(Sync /\ mSessionState.startStopState # stopped) BY <2>1, <4>2 DEF SameStartStop
      <4> QED BY <1>4, <4>1, <4>2 DEF Agreed, SameStartStop
    <3>1. newer(mClientState.startStopState, mSessionState.xform)' BY <2>1 DEF newer
    <3>2. CASE hasStartStop(c, mClientState.startStopState)
      <4>1. hasStartStop(linkState, mClientState.startStopState)' BY <2>1, <3>2 DEF c, hasStartStop
      <4> QED BY <1>3, <3>1, <4>1 DEF SameStartStop
    <3>3. CASE \E d \in underway : d # c /\ hasStartStop(d, mClientState.startStopState)
      <4>1. \E d \in underway' : hasStartStop(d, mClientState'.startStopState)
        BY <1>4, <2>1, <3>3
      <4> QED BY <3>1, <4>1 DEF SameStartStop, hasStartStop
    <3> QED BY <3>2, <3>3
  <2>2. CASE mSessionState'.startStopState = mSessionState.startStopState
             /\ mClientState'.startStopState =
                  IF Sync /\ mSessionState.startStopState # stopped
                  THEN mapToClient(mSessionState.startStopState, mSessionState'.xform)
                  ELSE mClientState.startStopState
    BY <2>2 DEF SameStartStop
  <2> QED BY <1>6, <1>8, <2>1, <2>2
<1> QED BY <1>5, <1>9, <1>10 DEF Agreed

\* What is mapped to the session's clock and back is what it was.
LEMMA MappedBack ==
  ASSUME NEW ss \in StartStop, NEW x \in Int
  PROVE  mapToClient(mapToSession(ss, x), x) = ss
<1> DEFINE there == mapToSession(ss, x)
           back == mapToClient(there, x)
<1>1. there = [isPlaying |-> ss.isPlaying, timestamp |-> ss.timestamp + x]
  BY DEF mapToSession, hostToGhost, StartStop
<1>2. back = [isPlaying |-> ss.isPlaying, timestamp |-> (ss.timestamp + x) - x]
  BY <1>1 DEF mapToClient, ghostToHost
<1>3. (ss.timestamp + x) - x = ss.timestamp BY DEF StartStop
<1>4. ss = [isPlaying |-> ss.isPlaying, timestamp |-> ss.timestamp] BY DEF StartStop
<1> HIDE DEF there, back
<1> QED BY <1>2, <1>3, <1>4 DEF back, there

\* Its start/stop state: the client's own is either handed on or no longer newer than the session's.
LEMMA AgreedStartStop == ASSUME TypeOK, Agreed, handleClientStartStop PROVE Agreed'
<1>1. /\ mSessionState \in SessionState /\ mClientState \in ClientState /\ linkState \in Change
      /\ mSessionState.xform \in Int
  BY DEF TypeOK, SessionType, ClientType, LinkType, SessionState
<1>2. /\ linkPc = "startStop" /\ linkPc' = "callback"
      /\ UNCHANGED <<mIsPlayingTold, appPc, appState, io, linkState>>
  BY DEF handleClientStartStop, goto, outside
<1>3. underway \subseteq underway' BY <1>2, StaysUnderway
<1>4. Told' BY <1>2 DEF Told, Busy
<1> DEFINE ss == the(linkState.startStopState)
<1>5. CASE Sync /\ \E n \in linkState.startStopState : newer(n, mSessionState.xform)
  <2>1. /\ mSessionState' =
             [mSessionState EXCEPT !.startStopState = mapToSession(ss, mSessionState.xform)]
        /\ mClientState' = [mClientState EXCEPT !.startStopState = ss]
    BY <1>5 DEF handleClientStartStop
  <2>2. ss \in StartStop
    <3>1. linkState.startStopState # none BY <1>5 DEF none
    <3> QED BY <1>1, <3>1, TheOne DEF Change
  <2> HIDE DEF ss
  <2>3. /\ mClientState'.timeline = mClientState.timeline /\ mClientState'.startStopState = ss
        /\ mSessionState'.timeline = mSessionState.timeline /\ mSessionState'.xform = mSessionState.xform
        /\ mSessionState'.startStopState = mapToSession(ss, mSessionState.xform)
    BY <1>1, <2>1 DEF ClientState, SessionState
  <2>4. Follows' BY <1>2, <1>3, <2>3, FollowsKept DEF Agreed
  <2>5. SameStartStop' BY <1>1, <2>2, <2>3, MappedBack DEF SameStartStop
  <2> QED BY <1>4, <2>4, <2>5 DEF Agreed
<1>6. CASE ~(Sync /\ \E n \in linkState.startStopState : newer(n, mSessionState.xform))
  <2>1. UNCHANGED <<mSessionState, mClientState>> BY <1>6 DEF handleClientStartStop, session
  <2>2. Follows' BY <1>2, <1>3, <2>1, FollowsKept DEF Agreed
  <2>3. SameStartStop'
    <3>1. Sync => ~(newer(mClientState.startStopState, mSessionState.xform)
                      /\ hasStartStop(linkState, mClientState.startStopState))
      BY <1>6, TheOne DEF hasStartStop
    <3>2. CASE ~(Sync /\ mSessionState.startStopState # stopped) BY <2>1, <3>2 DEF SameStartStop
    <3>3. CASE mClientState.startStopState = mapToClient(mSessionState.startStopState, mSessionState.xform)
      BY <2>1, <3>3 DEF SameStartStop
    <3>4. CASE newer(mClientState.startStopState, mSessionState.xform)
                 /\ \E c \in underway : hasStartStop(c, mClientState.startStopState)
      BY <1>3, <2>1, <3>4 DEF SameStartStop, hasStartStop, newer
    <3> QED BY <3>1, <3>2, <3>3, <3>4 DEF Agreed, SameStartStop
  <2> QED BY <1>4, <2>2, <2>3 DEF Agreed
<1> QED BY <1>5, <1>6

\* Then the application is told.
LEMMA AgreedCallback == ASSUME TypeOK, Agreed, invokeStartStopStateCallbackIfChanged PROVE Agreed'
<1>1. /\ linkPc = "callback" /\ mIsPlayingTold' = mClientState.startStopState.isPlaying
      /\ UNCHANGED <<mSessionState, mClientState, io, appPc, appState>>
  BY DEF invokeStartStopStateCallbackIfChanged, session, goto, finish, outside
<1>2. underway \subseteq underway' BY <1>1, StaysUnderway
<1> QED BY <1>1, <1>2, FollowsKept, SameStartStopKept DEF Agreed, Told
-----------------------------------------------------------------------------
(***************************************************************************)
(* ... and sessions that are founded, joined and changed by others.        *)
(***************************************************************************)
\* A session that begins stopped leaves the client's start/stop state alone.
LEMMA AgreedStopped ==
  ASSUME TypeOK, Agreed, NEW tl \in Timeline, NEW x \in Int,
         updateSessionTiming([mSessionState EXCEPT !.startStopState = stopped], tl, x),
         underway \subseteq underway', UNCHANGED mIsPlayingTold, linkPc \notin Busy
  PROVE  Agreed'
<1> DEFINE s == [mSessionState EXCEPT !.startStopState = stopped]
<1>1. /\ s \in SessionState /\ s.timeline = mSessionState.timeline /\ s.xform = mSessionState.xform
      /\ s.startStopState = stopped
  BY StoppedType DEF TypeOK, SessionType, SessionState
<1>2. updateSessionTiming(s, tl, x) OBVIOUS
<1> HIDE DEF s
<1>3. /\ mSessionState'.startStopState = stopped
      /\ mClientState'.startStopState = mClientState.startStopState
      /\ \/ /\ mClientState'.timeline = mClientState.timeline
            /\ mSessionState'.timeline = mSessionState.timeline /\ mSessionState'.xform = mSessionState.xform
         \/ anchored(mClientState'.timeline, mSessionState')
  BY <1>1, <1>2, Retimed
<1>4. linkPc # "timeline" BY DEF Busy
<1>5. Follows' BY <1>3, <1>4, FollowsKept DEF Agreed, Follows
<1>6. SameStartStop' BY <1>3 DEF SameStartStop
<1>7. Told' BY <1>3, ToldKept DEF Agreed
<1> QED BY <1>5, <1>6, <1>7 DEF Agreed

\* Starting over.
LEMMA AgreedReset == ASSUME TypeOK, Agreed, resetState PROVE Agreed'
<1>1. resetTimelineNow \in Timeline /\ initXForm \in Int BY Founded
<1>2. commitsIn(io) \subseteq commitsIn(io') /\ linkPc \notin Busy
  BY TakenOther DEF resetState, takes, linkIdle, Busy, TypeOK
<1>3. UNCHANGED <<appPc, appState, mIsPlayingTold>> BY DEF resetState, finish, outside
<1>4. updateSessionTiming([mSessionState EXCEPT !.startStopState = stopped], resetTimelineNow, initXForm)
  BY DEF resetState
<1> QED BY <1>1, <1>2, <1>3, <1>4, StaysUnderway, AgreedStopped

\* Joining another session.
LEMMA AgreedJoined == ASSUME TypeOK, Agreed, joinedSession PROVE Agreed'
<1>1. PICK j \in joining :
        updateSessionTiming([mSessionState EXCEPT !.startStopState = stopped], j.timeline, j.xform)
  BY DEF joinedSession
<1>2. j.timeline \in Timeline /\ j.xform \in Int BY DEF TypeOK, LinkType
<1>3. commitsIn(io) \subseteq commitsIn(io')
  <2>1. io \in Seq(Handlers) /\ countPeers(1, io) BY DEF TypeOK, LinkType, Handlers, joinedSession
  <2> QED BY <2>1, CountedQueued
<1>4. linkPc \notin Busy /\ UNCHANGED <<appPc, appState, mIsPlayingTold>>
  BY DEF joinedSession, finish, outside, Busy
<1> QED BY <1>1, <1>2, <1>3, <1>4, StaysUnderway, AgreedStopped

\* What peers say of the session.
LEMMA AgreedSaw ==
  ASSUME TypeOK, Agreed, sawOtherSession \/ \E tl \in NetTimelines : sawSession(tl)
  PROVE  Agreed'
<1>1. PICK tl \in Timeline : handleTimelineFromSession(tl)
  <2>1. mCurrent \in Timeline /\ \A tl \in NetTimelines : greater(tl, mCurrent) \in Timeline
    BY ControllerAssumption DEF TypeOK, SessionType, greater
  <2> QED BY <2>1 DEF sawSession, sawOtherSession
<1>2. /\ linkPc = "idle" /\ updateSessionTiming(mSessionState, tl, mSessionState.xform)
      /\ UNCHANGED <<mIsPlayingTold, linkPc, io, appPc, appState>>
  BY <1>1 DEF handleTimelineFromSession, sawSession, sawOtherSession, heard, hearing, linkIdle, outside
<1>3. mSessionState.xform \in Int BY DEF TypeOK, SessionType, SessionState
<1> QED BY <1>2, <1>3, StaysUnderway, AgreedTimed

\* Somebody else starts or stops.
LEMMA AgreedNetStartStop ==
  ASSUME TypeOK, Agreed, NEW ss \in NetStartStops, handleStartStopStateFromSession(ss)
  PROVE  Agreed'
<1>1. mSessionState \in SessionState /\ mClientState \in ClientState
  BY DEF TypeOK, SessionType, ClientType
<1>2. /\ linkPc = "idle" /\ mSessionState' = [mSessionState EXCEPT !.startStopState = ss]
      /\ UNCHANGED <<mIsPlayingTold, io, appPc, appState>>
  BY DEF handleStartStopStateFromSession, heard, hearing, linkIdle, outside
<1>3. /\ mSessionState'.timeline = mSessionState.timeline /\ mSessionState'.xform = mSessionState.xform
      /\ mSessionState'.startStopState = ss
  BY <1>1, <1>2 DEF SessionState
<1>4. underway \subseteq underway' BY <1>2, StaysUnderway
<1>5. CASE Sync
  <2>1. /\ mClientState' = [mClientState EXCEPT !.startStopState = mapToClient(ss, mSessionState.xform)]
        /\ linkPc' = "callback"
    BY <1>5 DEF handleStartStopStateFromSession
  <2>2. /\ mClientState'.timeline = mClientState.timeline
        /\ mClientState'.startStopState = mapToClient(ss, mSessionState.xform)
    BY <1>1, <2>1 DEF ClientState
  <2>3. Follows' BY <1>2, <1>3, <1>4, <2>2, FollowsKept DEF Agreed
  <2>4. SameStartStop' BY <1>3, <2>2 DEF SameStartStop
  <2>5. Told' BY <2>1 DEF Told, Busy
  <2> QED BY <2>3, <2>4, <2>5 DEF Agreed
<1>6. CASE ~Sync
  <2>1. mClientState' = mClientState BY <1>6 DEF handleStartStopStateFromSession
  <2>2. Follows' BY <1>2, <1>3, <1>4, <2>1, FollowsKept DEF Agreed
  <2>3. SameStartStop' BY <1>6 DEF SameStartStop
  <2>4. Told' BY <1>2, <1>4, <2>1, ToldKept DEF Agreed, Busy
  <2> QED BY <2>2, <2>3, <2>4 DEF Agreed
<1> QED BY <1>5, <1>6

\* A measurement of the session the node is in, or of one it is about to join.
LEMMA AgreedJoin ==
  ASSUME TypeOK, Agreed, NEW tl \in NetTimelines, NEW x \in NetXForms, joinSession(tl, x)
  PROVE  Agreed'
<1>1. /\ linkPc = "idle" /\ UNCHANGED <<mIsPlayingTold, io, appPc, appState>>
  BY DEF joinSession, heard, hearing, linkIdle, outside
<1>2. underway \subseteq underway' BY <1>1, StaysUnderway
<1>3. CASE mSessionId = Joined
  <2>1. UNCHANGED linkPc /\ updateSessionTiming(mSessionState, mCurrent, x) BY <1>3 DEF joinSession
  <2>2. mCurrent \in Timeline /\ x \in Int BY ControllerAssumption DEF TypeOK, SessionType
  <2> QED BY <1>1, <1>2, <2>1, <2>2, AgreedTimed
<1>4. CASE mSessionId # Joined
  <2>1. linkPc' = "readStartStop" /\ UNCHANGED <<mSessionState, mClientState>>
    BY <1>4 DEF joinSession, readTimeline
  <2> QED BY <1>1, <1>2, <2>1, AsideKeeps DEF Busy
<1> QED BY <1>3, <1>4
-----------------------------------------------------------------------------
\* At first client and session have the same tempo, and beat zero of both is at the first instant.
LEMMA AgreedInit == Init => Agreed
<1> SUFFICES ASSUME Init PROVE Agreed OBVIOUS
<1> DEFINE m == clampTempo(timeline(FirstTempo, 0, 0)).tempo
           s == mSessionState
<1>1. now \in Nat /\ TypeOK BY ControllerTypeInit DEF TypeOK, RestType
<1>2. /\ mClientState.timeline.tempo = m /\ mClientState.timeline.timeOrigin = now
      /\ s.timeline.tempo = m /\ s.timeline.beatOrigin = 0 /\ s.timeline.timeOrigin = 0 /\ s.xform = -now
  BY DEF Init, clampTempo, timeline
<1>3. m \in Positive BY <1>1, <1>2, Ranged DEF TypeOK, SessionType, SessionState, Timeline, Positive
<1> HIDE DEF m
<1>4. hostToGhost(s.xform, now) - s.timeline.timeOrigin = 0 BY <1>1, <1>2 DEF hostToGhost
<1>5. toBeats(s.timeline, hostToGhost(s.xform, mClientState.timeline.timeOrigin)) = 0
  <2>1. microsToBeats(m, 0) = 0
    <3>1. ASSUME NEW t \in Int, t = 0 PROVE microsToBeats(m, t) = 0
      <4>1. microsToBeats(m, t) \in Int /\ microsToBeats(m, -t) = -microsToBeats(m, t) BY <1>3, Beats
      <4>2. \A z \in Int : z <= 0 /\ z >= 0 => -z = z OBVIOUS
      <4>3. t <= 0 /\ t >= 0 BY <3>1
      <4>4. -t = t BY <4>2, <4>3, Zenon
      <4> QED BY <4>1, <4>4
    <3> QED BY <3>1
  <2> QED BY <1>2, <1>4, <2>1 DEF toBeats
<1>6. -microsToBeats(m, 1) <= 0 /\ 0 <= microsToBeats(m, 1) BY <1>3, TickWorth
<1>7. Follows BY <1>2, <1>5, <1>6 DEF Follows, anchored
<1>8. SameStartStop BY DEF Init, SameStartStop
<1>9. Told BY DEF Init, Told, stopped
<1> QED BY <1>7, <1>8, <1>9 DEF Agreed

\* Client and session agree after every step.
LEMMA AgreedStep == ASSUME TypeOK, Agreed, [Next]_cvars PROVE Agreed'
<1>1. CASE appNext BY <1>1, AgreedApp, AgreedSet DEF appNext
<1>2. CASE audioNext \/ dispatch \/ tick \/ UNCHANGED cvars BY <1>2, AgreedAround
<1>3. CASE handling
  BY <1>3, AgreedReading, AgreedHandleRt, AgreedHandle, AgreedStartStop, AgreedCallback, AgreedReset,
     AgreedJoined
     DEF handling
<1>4. CASE networkNext
  BY <1>4, AgreedSaw, AgreedNetStartStop, AgreedJoin, AgreedReading DEF networkNext
<1> QED BY <1>1, <1>2, <1>3, <1>4 DEF Next

\* Whatever order commits, pushes and what the network brings are handled in, once nothing is under way
\* the client has the tempo and the phase of the session.
THEOREM AlwaysSettled == Spec => []Settled
<1>1. ASSUME TypeOK, Agreed PROVE Settled
  <2> SUFFICES ASSUME quiet
               PROVE  /\ mClientState.timeline.tempo = mSessionState.timeline.tempo
                      /\ \A q \in {Unit, 4 * Unit}, t \in {0, now} :
                           apart(toPhaseEncodedBeats(mClientState.timeline, t, q),
                                 toBeats(mSessionState.timeline, hostToGhost(mSessionState.xform, t)), q)
                             <= 1 + microsToBeats(mSessionState.timeline.tempo, 1)
    BY DEF Settled
  <2>1. underway = {} /\ linkPc = "idle" BY DEF quiet, underway, posted, commitsIn, linkIdle
  <2>2. anchored(mClientState.timeline, mSessionState) BY <1>1, <2>1 DEF Agreed, Follows
  <2>3. mClientState.timeline \in InRange /\ mSessionState \in SessionState /\ now \in Int
    BY <1>1 DEF TypeOK, ClientType, SessionType, RestType, ClientState
  <2>4. Unit \in Positive /\ 4 * Unit \in Positive /\ 0 \in Int BY UnitAssumption DEF Positive
  <2> QED BY <2>2, <2>3, <2>4, InPhase DEF anchored
<1>2. TypeOK /\ Agreed /\ [Next]_cvars => TypeOK' /\ Agreed' BY ControllerTypeStep, AgreedStep
<1> QED BY <1>1, <1>2, ControllerTypeInit, AgreedInit, PTL DEF Spec

\* With start/stop sync it then has the session's start/stop state, and the application was told of it.
THEOREM AlwaysStartStopSettled == Spec => []StartStopSettled
<1>1. ASSUME TypeOK, Agreed PROVE StartStopSettled
  <2> SUFFICES ASSUME quiet, Sync, mSessionState.startStopState # stopped
               PROVE  /\ mClientState.startStopState
                           = mapToClient(mSessionState.startStopState, mSessionState.xform)
                      /\ mIsPlayingTold = mClientState.startStopState.isPlaying
    BY DEF StartStopSettled
  <2>1. underway = {} /\ linkPc = "idle" BY DEF quiet, underway, posted, commitsIn, linkIdle
  <2> QED BY <1>1, <2>1 DEF Agreed, SameStartStop, Told, Busy
<1>2. TypeOK /\ Agreed /\ [Next]_cvars => TypeOK' /\ Agreed' BY ControllerTypeStep, AgreedStep
<1> QED BY <1>1, <1>2, ControllerTypeInit, AgreedInit, PTL DEF Spec
=============================================================================
