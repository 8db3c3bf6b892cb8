--------------------------- MODULE LinkController ---------------------------
(***************************************************************************)
(* Ableton Link's Controller on one machine: application threads and an    *)
(* audio thread capture and commit session states, and the Link thread     *)
(* (the io context) merges them with what the network says about the       *)
(* session.  An application commit updates the client state under its      *)
(* mutex and posts a handler; the audio thread never blocks: it pushes     *)
(* into two triple buffers, raises a flag and wakes a dispatcher thread,   *)
(* which posts the handler that reads them.  A triple buffer is the        *)
(* register Register describes and TripleBuffer implements.                *)
(*                                                                         *)
(* Lock-protected updates are one step; the Link thread is interrupted     *)
(* between two of them.  Starting and stopping carries its timestamp; the  *)
(* beat at which it happens is left out.                                   *)
(***************************************************************************)
EXTENDS Timelines, Sequences, FiniteSets

CONSTANTS Apps,        \* application threads
          Edits,       \* what is done to a captured state before it is committed
          AudioEdits,  \* the same on the audio thread
          Sync,        \* enableStartStopSync was called
          Own,         \* the session this node founds whenever it starts over
          Joined,      \* a session it finds
          NetTimelines, NetStartStops, \* what peers say of either session
          NetXForms,   \* what a measurement of Joined gives
          FirstTempo,  \* the tempo the application starts with
          Step,        \* ticks between the instants at which anything happens
          Horizon,     \* the last instant
          MaxCommits, MaxNet, MaxEnables, \* bounds on commits, network events and calls of enable
          MaxEvents    \* ... and on all of them together

StartStop == [isPlaying : BOOLEAN, timestamp : Int]
Edit == [tempo : SUBSET (Nat \ {0}), beat : SUBSET Int, force : BOOLEAN, quantum : Nat, play : SUBSET BOOLEAN]

ASSUME ControllerAssumption ==
  /\ Edits \subseteq Edit /\ AudioEdits \subseteq Edit /\ Sync \in BOOLEAN
  /\ NetTimelines \subseteq Timeline /\ NetStartStops \subseteq StartStop /\ NetXForms \subseteq Int
  /\ FirstTempo \in Nat \ {0} /\ Step \in Nat

VARIABLES now, mEnabled, mSessionId, mSessionState, mClientState, mIsPlayingTold,
          mRtClientState, mHasPendingRtClientStates, mTimelineBuffer, mStartStopStateBuffer,
          mCurrent,     \* Sessions' timeline of the current session
          mSessionPeerCount, \* whether anybody else is in the session
          mDiscovery,   \* the node state given to the discovery service
          io,           \* the handlers posted to the Link thread
          appPc, appState, audioPc, audioState, linkPc, linkState, linkTask, joining,
          commits, nets, enables

threads == <<appPc, appState, audioPc, audioState, linkPc, linkState, linkTask, joining>>
bounds == <<commits, nets, enables>>
more == commits + nets + enables < MaxEvents
rt == <<mRtClientState, mHasPendingRtClientStates, mTimelineBuffer, mStartStopStateBuffer>>
session == <<mSessionId, mSessionState, mCurrent, mSessionPeerCount, mDiscovery>>
cvars == <<now, mEnabled, session, mClientState, mIsPlayingTold, rt, io,
           threads, bounds>>

GracePeriod == Step \div 2     \* kLocalModGracePeriod, over at the next instant

stopped == [isPlaying |-> FALSE, timestamp |-> 0]  \* StartStopState{}
none == {}                     \* an empty Optional
the(s) == CHOOSE x \in s : TRUE
change(tl, ss, t) == [timeline |-> tl, startStopState |-> ss, timelineTimestamp |-> t]
nothing == change(none, none, 0)

\* mutant of selectPreferredStartStopState: the last to arrive
selectLastStartStopState(current, new) == new

selectPreferredStartStopState(current, new) ==
  IF new.timestamp > current.timestamp THEN new ELSE current
mapToClient(ss, x) == [ss EXCEPT !.timestamp = ghostToHost(x, @)]
mapToSession(ss, x) == [ss EXCEPT !.timestamp = hostToGhost(x, @)]

\* An application edits the state it captured: the tempo, the beat at this time, exactly or with the
\* phase of the others in the session, and whether it plays.
edit(e, state, t, mbRespectQuantum) ==
  LET tl == IF e.tempo = none THEN state.timeline ELSE setTempo(state.timeline, the(e.tempo), t)
  IN  [timeline |->
         IF e.beat = none THEN tl
         ELSE IF e.force THEN forceBeatAtTime(tl, the(e.beat), t, e.quantum)
         ELSE requestBeatAtTime(tl, the(e.beat), t, e.quantum, mbRespectQuantum),
       startStopState |->
         IF e.play = none THEN state.startStopState ELSE [isPlaying |-> the(e.play), timestamp |-> t]]

\* only what was edited is committed
toIncomingClientState(new, original, t) ==
  change(IF new.timeline = original.timeline THEN none ELSE {new.timeline},
         IF new.startStopState = original.startStopState THEN none
         ELSE {[new.startStopState EXCEPT !.timestamp = t]}, t)

\* an outdated start/stop state is not preferred, and the change goes on with the preferred one
preferred(current, c) ==
  [c EXCEPT !.startStopState = {selectPreferredStartStopState(current, s) : s \in @}]
clamped(c) == [c EXCEPT !.timeline = {clampTempo(tl) : tl \in @}]
applied(state, c) ==
  [timeline |-> IF c.timeline = none THEN state.timeline ELSE the(c.timeline),
   startStopState |-> IF c.startStopState = none THEN state.startStopState
                      ELSE the(c.startStopState)]
-----------------------------------------------------------------------------
nodeState(on, id, s) == [on |-> on, id |-> id, state |-> s]
capture(state) == [state |-> state, mbRespectQuantum |-> mSessionPeerCount > 0]

Init ==
  /\ now = Step
  /\ mEnabled = FALSE
  /\ mSessionId = Own
  /\ mSessionState =
       [timeline |-> clampTempo(timeline(FirstTempo, 0, 0)), startStopState |-> stopped, xform |-> -now]
  /\ mClientState =
       [timeline |-> clampTempo(timeline(FirstTempo, 0, now)),
        startStopState |-> [stopped EXCEPT !.timestamp = now]]
  /\ mIsPlayingTold = FALSE
  /\ mRtClientState = [state |-> mClientState, timelineTimestamp |-> 0, startStopStateTimestamp |-> 0]
  /\ mHasPendingRtClientStates = FALSE
  /\ mTimelineBuffer = [val |-> <<0, mClientState.timeline>>, new |-> FALSE]
  /\ mStartStopStateBuffer = [val |-> mClientState.startStopState, new |-> FALSE]
  /\ mCurrent = mSessionState.timeline
  /\ mSessionPeerCount = 0
  /\ mDiscovery = nodeState(FALSE, Own, mSessionState)
  /\ io = <<>>
  /\ appPc = [a \in Apps |-> "idle"] /\ appState = [a \in Apps |-> nothing]
  /\ audioPc = "idle" /\ audioState = nothing
  /\ linkPc = "idle" /\ linkState = nothing /\ linkTask = "none" /\ joining = none
  /\ commits = 0 /\ nets = 0 /\ enables = 0
-----------------------------------------------------------------------------
(***************************************************************************)
(* Application threads: capture, edit, commit.                             *)
(***************************************************************************)
captureAppSessionState(a) ==
  /\ appPc[a] = "idle" /\ more /\ commits < MaxCommits
  /\ appPc' = [appPc EXCEPT ![a] = "captured"]
  /\ appState' = [appState EXCEPT ![a] = capture(mClientState)]
  /\ UNCHANGED <<now, mEnabled, session, mClientState, mIsPlayingTold, rt, io,
                 audioPc, audioState, linkPc, linkState, linkTask, joining, bounds>>

\* the first half of setClientState, under the mutex of the client state
setClientState(a, e) ==
  /\ appPc[a] = "captured" /\ more /\ commits < MaxCommits
  /\ LET old == appState[a].state
         c == toIncomingClientState(edit(e, old, now, appState[a].mbRespectQuantum), old, now)
         p == preferred(mClientState.startStopState, clamped(c))
     IN  /\ mClientState' = applied(mClientState, p)
         /\ appState' = [appState EXCEPT ![a] = p]
  /\ appPc' = [appPc EXCEPT ![a] = "post"]
  /\ commits' = commits + 1
  /\ UNCHANGED <<now, mEnabled, session, mIsPlayingTold, rt, io,
                 audioPc, audioState, linkPc, linkState, linkTask, joining, nets, enables>>

\* the second half: the handler is posted after the mutex is released
postClientState(a) ==
  /\ appPc[a] = "post"
  /\ io' = Append(io, [task |-> "client", arg |-> appState[a]])
  /\ appPc' = [appPc EXCEPT ![a] = "idle"]
  /\ appState' = [appState EXCEPT ![a] = nothing]
  /\ UNCHANGED <<now, mEnabled, session, mClientState, mIsPlayingTold, rt,
                 audioPc, audioState, linkPc, linkState, linkTask, joining, bounds>>

enable(b) ==
  /\ mEnabled # b /\ more /\ enables < MaxEnables
  /\ mEnabled' = b
  /\ io' = Append(io, [task |-> IF b THEN "enable" ELSE "disable", arg |-> nothing])
  /\ enables' = enables + 1
  /\ UNCHANGED <<now, session, mClientState, mIsPlayingTold, rt, threads,
                 commits, nets>>
-----------------------------------------------------------------------------
(***************************************************************************)
(* The audio thread.                                                       *)
(***************************************************************************)
timelineGraceOver == now - mRtClientState.timelineTimestamp > GracePeriod
startStopGraceOver == now - mRtClientState.startStopStateTimestamp > GracePeriod

\* mutant of clientStateRtSafe: the flag alone decides
clientStateRtSafeFlag ==
  /\ audioPc = "idle" /\ ~mHasPendingRtClientStates
  /\ mRtClientState' = [mRtClientState EXCEPT !.state = mClientState]
  /\ UNCHANGED <<now, mEnabled, session, mClientState, mIsPlayingTold, mHasPendingRtClientStates,
                 mTimelineBuffer, mStartStopStateBuffer, io, threads, bounds>>

clientStateRtSafe ==
  /\ audioPc = "idle" /\ ~mHasPendingRtClientStates
  /\ mRtClientState' =
       [mRtClientState EXCEPT
          !.state.timeline = IF timelineGraceOver THEN mClientState.timeline ELSE @,
          !.state.startStopState = IF startStopGraceOver THEN mClientState.startStopState ELSE @]
  /\ UNCHANGED <<now, mEnabled, session, mClientState, mIsPlayingTold, mHasPendingRtClientStates,
                 mTimelineBuffer, mStartStopStateBuffer, io, threads, bounds>>

unread == mTimelineBuffer.new \/ mStartStopStateBuffer.new

\* setClientStateRtSafe up to the push of the timeline
setClientStateRtSafe(e) ==
  /\ audioPc = "idle" /\ more /\ commits < MaxCommits
  /\ LET old == mRtClientState.state
         c == preferred(old.startStopState,
                clamped(toIncomingClientState(edit(e, old, now, mSessionPeerCount > 0), old, now)))
     IN  /\ c.timeline # none \/ c.startStopState # none
         /\ audioState' = c
         /\ mTimelineBuffer' =
              IF c.timeline = none THEN mTimelineBuffer
              ELSE [val |-> <<c.timelineTimestamp, the(c.timeline)>>, new |-> TRUE]
  /\ mHasPendingRtClientStates' = TRUE
  /\ audioPc' = "startStop"
  /\ commits' = commits + 1
  /\ UNCHANGED <<now, mEnabled, session, mClientState, mIsPlayingTold, mRtClientState,
                 mStartStopStateBuffer, io, appPc, appState, linkPc, linkState, linkTask,
                 joining, nets, enables>>

\* the rest: the audio thread caches what it set, with a timestamp if Link is enabled
pushStartStopState ==
  /\ audioPc = "startStop"
  /\ mStartStopStateBuffer' =
       IF audioState.startStopState = none THEN mStartStopStateBuffer
       ELSE [val |-> the(audioState.startStopState), new |-> TRUE]
  /\ LET stamp == IF mEnabled THEN now ELSE 0
     IN mRtClientState' =
          [state |-> applied(mRtClientState.state, audioState),
           timelineTimestamp |-> IF audioState.timeline = none
                                 THEN mRtClientState.timelineTimestamp ELSE stamp,
           startStopStateTimestamp |-> IF audioState.startStopState = none
                                       THEN mRtClientState.startStopStateTimestamp ELSE stamp]
  /\ audioPc' = "idle" /\ audioState' = nothing
  /\ UNCHANGED <<now, mEnabled, session, mClientState, mIsPlayingTold, mHasPendingRtClientStates,
                 mTimelineBuffer, io, appPc, appState, linkPc, linkState, linkTask, joining,
                 bounds>>
-----------------------------------------------------------------------------
\* The dispatcher thread posts the handler that reads the buffers, after a notification or a timeout
\* (see TripleBuffer).  One that finds nothing to do, or waits behind another, is left out.
pending == [task |-> "pending", arg |-> nothing]

dispatch ==
  /\ unread /\ ~\E i \in DOMAIN io : io[i] = pending
  /\ io' = Append(io, pending)
  /\ UNCHANGED <<now, mEnabled, session, mClientState, mIsPlayingTold, rt, threads, bounds>>
-----------------------------------------------------------------------------
(***************************************************************************)
(* The Link thread: one handler after the other.                           *)
(***************************************************************************)
linkIdle == linkPc = "idle"
outside == <<now, mEnabled, mRtClientState, appPc, appState, audioPc, audioState,
             commits, enables>>
buffers == <<mTimelineBuffer, mStartStopStateBuffer>>

\* what updateSessionTiming makes of the session s and of the client's state
timed(s, tl, x) == [s EXCEPT !.timeline = clampTempo(tl), !.xform = x]
\* mutant of clientTimed: the client follows if the tempo changed
clientTimedTempo(c, old, new) ==
  IF old.timeline.tempo = new.timeline.tempo /\ old.xform = new.xform THEN c
  ELSE [timeline |-> updateClientTimelineFromSession(c.timeline, new.timeline, now, new.xform),
        startStopState |-> IF Sync /\ new.startStopState # stopped
                           THEN mapToClient(new.startStopState, new.xform) ELSE c.startStopState]

clientTimed(c, old, new) ==
  IF old.timeline = new.timeline /\ old.xform = new.xform THEN c
  ELSE [timeline |-> updateClientTimelineFromSession(c.timeline, new.timeline, now, new.xform),
        startStopState |-> IF Sync /\ new.startStopState # stopped
                           THEN mapToClient(new.startStopState, new.xform) ELSE c.startStopState]

updateSessionTiming(s, tl, x) ==
  /\ mSessionState' = timed(s, tl, x)
  /\ mClientState' = clientTimed(mClientState, s, timed(s, tl, x))

\* mutant of updateDiscovery: pushed before the session state is updated
updateDiscoveryFirst(id) == mDiscovery' = nodeState(mDiscovery.on, id, mSessionState)

updateDiscovery(id) == mDiscovery' = nodeState(mDiscovery.on, id, mSessionState')

\* the next handler is taken from the queue with its first step
takes(task) == linkIdle /\ io # <<>> /\ Head(io).task = task /\ io' = Tail(io)
goto(pc) == linkPc' = pc /\ UNCHANGED <<outside, joining, nets>>
finish == linkPc' = "idle" /\ linkTask' = "none" /\ linkState' = nothing /\ joining' = none
          /\ UNCHANGED <<outside, nets>>

\* processPendingClientStates: either buffer is read if it was written since the last time
readTimeline ==
  /\ linkState' = IF mTimelineBuffer.new
                  THEN change({mTimelineBuffer.val[2]}, none, mTimelineBuffer.val[1]) ELSE nothing
  /\ mTimelineBuffer' = [mTimelineBuffer EXCEPT !.new = FALSE]
  /\ linkPc' = "readStartStop"

processPendingClientStates(task) ==
  /\ takes(task) /\ linkTask' = task
  /\ readTimeline
  /\ UNCHANGED <<outside, session, mClientState, mIsPlayingTold, mHasPendingRtClientStates,
                 mStartStopStateBuffer, joining, nets>>

readStartStop ==
  /\ linkPc = "readStartStop"
  /\ linkState' = IF mStartStopStateBuffer.new
                  THEN [linkState EXCEPT !.startStopState = {mStartStopStateBuffer.val}]
                  ELSE linkState
  /\ mStartStopStateBuffer' = [mStartStopStateBuffer EXCEPT !.new = FALSE]
  /\ goto("handleRt")
  /\ UNCHANGED <<session, mClientState, mIsPlayingTold, mHasPendingRtClientStates, mTimelineBuffer,
                 io, linkTask>>

handleRtClientState ==
  /\ linkPc = "handleRt"
  /\ LET p == preferred(mClientState.startStopState, linkState)
     IN  mClientState' = applied(mClientState, p) /\ linkState' = p
  /\ goto("timeline")
  /\ UNCHANGED <<session, mIsPlayingTold, mHasPendingRtClientStates, buffers, io, linkTask>>

\* handleClientState: the timeline, ...
handleTimeline(c) ==
  IF c.timeline = none THEN UNCHANGED <<session, mClientState>>
  ELSE LET tl == updateSessionTimelineFromClient(mSessionState.timeline, the(c.timeline),
                   c.timelineTimestamp, mSessionState.xform)
       IN  /\ mCurrent' = tl
           /\ updateSessionTiming(mSessionState, tl, mSessionState.xform)
           /\ updateDiscovery(mSessionId)
           /\ UNCHANGED <<mSessionId, mSessionPeerCount>>

handleClientState ==
  /\ \/ takes("client") /\ linkTask' = "client" /\ linkState' = Head(io).arg
     \/ linkPc = "timeline" /\ UNCHANGED <<io, linkTask, linkState>>
  /\ handleTimeline(linkState')
  /\ goto("startStop")
  /\ UNCHANGED <<mIsPlayingTold, mHasPendingRtClientStates, buffers>>

\* ... the start/stop state unless it is outdated, ...
newer(ss, x) == hostToGhost(x, ss.timestamp) > mSessionState.startStopState.timestamp

handleClientStartStop ==
  /\ linkPc = "startStop"
  /\ IF Sync /\ \E ss \in linkState.startStopState : newer(ss, mSessionState.xform)
     THEN LET ss == the(linkState.startStopState)
          IN  /\ mSessionState' =
                   [mSessionState EXCEPT !.startStopState = mapToSession(ss, mSessionState.xform)]
              /\ mClientState' = [mClientState EXCEPT !.startStopState = ss]
              /\ updateDiscovery(mSessionId)
              /\ UNCHANGED <<mSessionId, mCurrent, mSessionPeerCount>>
     ELSE UNCHANGED <<session, mClientState>>
  /\ goto("callback")
  /\ UNCHANGED <<mIsPlayingTold, mHasPendingRtClientStates, buffers, io, linkTask, linkState>>

\* ... and the application is told whether it plays; after handleRtClientState the audio thread may
\* read the client state again
invokeStartStopStateCallbackIfChanged ==
  /\ linkPc = "callback"
  /\ mIsPlayingTold' = mClientState.startStopState.isPlaying
  /\ mHasPendingRtClientStates' =
       (mHasPendingRtClientStates /\ linkTask \in {"client", "startStop"})
  /\ IF linkTask \in {"enable", "join"} THEN goto(linkTask) /\ UNCHANGED <<linkTask, linkState>>
     ELSE finish
  /\ UNCHANGED <<session, mClientState, buffers, io>>
-----------------------------------------------------------------------------
(***************************************************************************)
(* Founding a session, and what the network brings.  Of other sessions     *)
(* than its own the node only keeps what they announced last; it hears of  *)
(* them, and of itself, while its gateways are open.                       *)
(***************************************************************************)
initXForm == -now
resetTimelineNow ==
  timeline(mSessionState.timeline.tempo,
           toBeats(mSessionState.timeline, hostToGhost(mSessionState.xform, now)), 0)

resetState ==
  /\ takes("reset") \/ (linkPc = "enable" /\ UNCHANGED io)
  /\ mSessionId' = Own
  /\ mCurrent' = resetTimelineNow
  /\ updateSessionTiming([mSessionState EXCEPT !.startStopState = stopped], resetTimelineNow, initXForm)
  /\ mDiscovery' = nodeState(mDiscovery.on \/ linkPc = "enable", Own, mSessionState')
  /\ finish
  /\ UNCHANGED <<mSessionPeerCount, mIsPlayingTold, mHasPendingRtClientStates, buffers>>

\* when the last peer goes, a reset is posted
countPeers(n, queue) ==
  /\ mSessionPeerCount' = n
  /\ io' = IF n = 0 /\ mSessionPeerCount > 0 THEN Append(queue, [task |-> "reset", arg |-> nothing])
           ELSE queue

\* the gateways are closed, which takes every peer with them
disableDiscovery ==
  /\ linkIdle /\ io # <<>> /\ Head(io).task = "disable"
  /\ countPeers(0, Tail(io))
  /\ mDiscovery' = [mDiscovery EXCEPT !.on = FALSE]
  /\ finish
  /\ UNCHANGED <<mSessionId, mSessionState, mCurrent, mClientState, mIsPlayingTold,
                 mHasPendingRtClientStates, buffers>>

hearing ==
  /\ linkIdle /\ mDiscovery.on
  /\ UNCHANGED <<outside, mHasPendingRtClientStates, mStartStopStateBuffer>>
heard == hearing /\ more /\ nets < MaxNet /\ nets' = nets + 1

\* a timeline of its own session replaces the one it has if it was set later
greater(tl, cur) == IF tl.beatOrigin > cur.beatOrigin THEN tl ELSE cur

handleTimelineFromSession(tl) ==
  /\ mCurrent' = tl
  /\ updateSessionTiming(mSessionState, tl, mSessionState.xform)
  /\ updateDiscovery(mSessionId)
  /\ UNCHANGED <<mTimelineBuffer, mSessionId, mIsPlayingTold, io, linkPc, linkState, linkTask, joining>>

sawSession(tl) ==
  /\ heard
  /\ handleTimelineFromSession(greater(tl, mCurrent))
  /\ mSessionPeerCount' = 1

sawOtherSession ==
  /\ hearing
  /\ handleTimelineFromSession(mCurrent)
  /\ UNCHANGED <<mSessionPeerCount, nets>>

handleStartStopStateFromSession(ss) ==
  /\ heard
  /\ ss.timestamp > mSessionState.startStopState.timestamp
  /\ mSessionState' = [mSessionState EXCEPT !.startStopState = ss]
  /\ updateDiscovery(mSessionId)
  /\ mClientState' = IF Sync THEN [mClientState EXCEPT
                                    !.startStopState = mapToClient(ss, mSessionState.xform)]
                     ELSE mClientState
  /\ linkPc' = IF Sync THEN "callback" ELSE "idle"
  /\ linkTask' = IF Sync THEN "startStop" ELSE "none"
  /\ UNCHANGED <<mTimelineBuffer, mSessionId, mCurrent, mSessionPeerCount, mIsPlayingTold, io, linkState, joining>>

peersGone ==
  /\ hearing
  /\ mSessionPeerCount > 0 /\ countPeers(0, io)
  /\ UNCHANGED <<mTimelineBuffer, mSessionId, mSessionState, mCurrent, mDiscovery, mClientState, mIsPlayingTold,
                 linkPc, linkState, linkTask, joining, nets>>

\* A measurement of the session Joined is done.  A node that is in it has its clock adjusted; any
\* other joins, and first handles what its audio thread pushed.
joinSession(tl, x) ==
  /\ heard
  /\ mSessionId' = Joined
  /\ IF mSessionId = Joined
     THEN /\ mCurrent' = mCurrent
          /\ updateSessionTiming(mSessionState, mCurrent, x)
          /\ updateDiscovery(Joined)
          /\ UNCHANGED <<linkPc, linkTask, linkState, joining, mTimelineBuffer>>
     ELSE /\ mCurrent' = tl
          /\ readTimeline
          /\ linkTask' = "join" /\ joining' = {[timeline |-> tl, xform |-> x]}
          /\ UNCHANGED <<mSessionState, mClientState, mDiscovery>>
  /\ UNCHANGED <<mSessionPeerCount, mIsPlayingTold, io>>

joinedSession ==
  /\ linkPc = "join"
  /\ \E j \in joining :
       updateSessionTiming([mSessionState EXCEPT !.startStopState = stopped], j.timeline, j.xform)
  /\ UNCHANGED <<mSessionId, mCurrent>>
  /\ updateDiscovery(mSessionId)
  /\ countPeers(1, io)
  /\ finish
  /\ UNCHANGED <<mIsPlayingTold, mHasPendingRtClientStates, buffers>>
-----------------------------------------------------------------------------
(***************************************************************************)
(* An instant lasts longer than the grace period.  Within it the threads   *)
(* run in any order; what the audio thread pushed is handled before it is  *)
(* over, because the dispatcher's timeout is half the grace period.        *)
(***************************************************************************)
tick ==
  /\ now + Step <= Horizon
  /\ linkIdle /\ audioPc = "idle" /\ ~unread /\ ~mHasPendingRtClientStates
  /\ now' = now + Step
  /\ UNCHANGED <<mEnabled, session, mClientState, mIsPlayingTold, rt, io, threads, bounds>>

appNext ==
  \/ \E a \in Apps : \/ captureAppSessionState(a)
                     \/ \E e \in Edits : setClientState(a, e)
                     \/ postClientState(a)
  \/ \E b \in BOOLEAN : enable(b)

audioNext ==
  \/ clientStateRtSafe
  \/ \E e \in AudioEdits : setClientStateRtSafe(e)
  \/ pushStartStopState

handling ==
  \/ processPendingClientStates("pending")
  \/ processPendingClientStates("enable")
  \/ readStartStop
  \/ handleRtClientState
  \/ handleClientState
  \/ handleClientStartStop
  \/ invokeStartStopStateCallbackIfChanged
  \/ resetState
  \/ disableDiscovery
  \/ joinedSession

networkNext ==
  \/ \E tl \in NetTimelines : sawSession(tl)
  \/ sawOtherSession
  \/ \E ss \in NetStartStops : handleStartStopStateFromSession(ss)
  \/ \E tl \in NetTimelines, x \in NetXForms : joinSession(tl, x)
  \/ peersGone

Next == appNext \/ audioNext \/ dispatch \/ handling \/ networkNext \/ tick

Spec == Init /\ [][Next]_cvars
-----------------------------------------------------------------------------
(***************************************************************************)
(* What the application and the other peers rely on.                       *)
(***************************************************************************)
InRange == [tempo : Fastest .. Slowest, beatOrigin : Int, timeOrigin : Int]
ClientState == [timeline : InRange, startStopState : StartStop]
SessionState == [timeline : InRange, startStopState : StartStop, xform : Int]
Captured == [state : ClientState, mbRespectQuantum : BOOLEAN]
Change == [timeline : SUBSET InRange, startStopState : SUBSET StartStop, timelineTimestamp : Nat]
LinkPlaces == {"idle", "readStartStop", "handleRt", "timeline", "startStop", "callback", "enable", "join"}

ClientType ==
  /\ mClientState \in ClientState
  /\ mRtClientState \in [state : ClientState, timelineTimestamp : Nat, startStopStateTimestamp : Nat]
  /\ mTimelineBuffer \in [val : Nat \X InRange, new : BOOLEAN]
  /\ mStartStopStateBuffer \in [val : StartStop, new : BOOLEAN]
SessionType ==
  /\ mSessionId \in {Own, Joined} /\ mSessionState \in SessionState /\ mCurrent \in Timeline
  /\ mSessionPeerCount \in {0, 1}
  /\ mDiscovery \in [on : BOOLEAN, id : {Own, Joined}, state : SessionState]
ThreadsType ==
  /\ appPc \in [Apps -> {"idle", "captured", "post"}] /\ appState \in [Apps -> Captured \union Change]
  /\ \A a \in Apps : appState[a] \in IF appPc[a] = "captured" THEN Captured ELSE Change
  /\ audioPc \in {"idle", "startStop"} /\ audioState \in Change
LinkType ==
  /\ io \in Seq([task : {"client", "enable", "disable", "pending", "reset"}, arg : Change])
  /\ linkPc \in LinkPlaces /\ linkState \in Change
  /\ linkTask \in {"none", "client", "pending", "enable", "startStop", "join"}
  /\ joining \subseteq [timeline : Timeline, xform : Int]
RestType ==
  /\ now \in Nat /\ commits \in Nat /\ nets \in Nat /\ enables \in Nat
  /\ mEnabled \in BOOLEAN /\ mIsPlayingTold \in BOOLEAN /\ mHasPendingRtClientStates \in BOOLEAN

\* Every variable has a value of its type; whatever peers and applications ask for, no timeline but
\* the one Sessions keeps as it was received has a tempo out of range.
TypeOK == ClientType /\ SessionType /\ ThreadsType /\ LinkType /\ RestType

\* nothing is under way: no handler waits, nothing is unread, no thread is inside a call
quiet == io = <<>> /\ ~unread /\ linkIdle /\ audioPc = "idle" /\ \A a \in Apps : appPc[a] # "post"

\* the distance of two beats on the circle of a quantum
apart(b, c, q) == LET d == modulo(b - c, q) IN IF d < q - d THEN d ELSE q - d

\* Whatever order the commits of the application and audio threads were handled in, between which
\* changes of the session, once nothing is under way the application sees the tempo and the phase
\* of the session, but for what a tick is worth and one part of a beat: a client state that is set
\* without its handler being posted, or a session that changes without the client following, parts
\* them for good.
Settled ==
  quiet => /\ mClientState.timeline.tempo = mSessionState.timeline.tempo
           /\ \A q \in {Unit, 4 * Unit}, t \in {0, now} :
                apart(toPhaseEncodedBeats(mClientState.timeline, t, q),
                      toBeats(mSessionState.timeline, hostToGhost(mSessionState.xform, t)), q)
                  <= 1 + microsToBeats(mSessionState.timeline.tempo, 1)

\* With start/stop sync, once nothing is under way the application's start/stop state is the
\* session's and the application was last told of it, however outdated the ones that were
\* handled in between: one of two commits may not win in the client and the other in the session.
StartStopSettled ==
  quiet /\ Sync /\ mSessionState.startStopState # stopped =>
    /\ mClientState.startStopState = mapToClient(mSessionState.startStopState, mSessionState.xform)
    /\ mIsPlayingTold = mClientState.startStopState.isPlaying

\* Between two handlers the discovery service announces the session the node is in and its state:
\* a handler that changes them and does not push them leaves peers with the old ones.
Advertised ==
  linkIdle => mDiscovery.id = mSessionId /\ mDiscovery.state = mSessionState

\* A beat that was forced to a time is not later than it was put there, so that nothing waits for it
\* in vain: rounding "can lead i.e. to missing a downbeat" and forceBeatAtTime tries again.
ForcedBeatKept ==
  [][\A a \in Apps, e \in Edits : e.force /\ appPc[a] = "captured" /\ setClientState(a, e)
       /\ mClientState'.timeline # mClientState.timeline
       => toPhaseEncodedBeats(mClientState'.timeline, now, e.quantum) <= the(e.beat)]_cvars

\* A change of the session that is not the client's own never makes the client's beats jump: the
\* timeline it gets continues the one it had at the instant it changes.
Continuous ==
  [][mClientState'.timeline # mClientState.timeline /\ commits' = commits /\ linkPc # "handleRt"
       => toBeats(mClientState'.timeline, now) = toBeats(mClientState.timeline, now)]_cvars

\* The audio thread reads back what it committed until that has been handled: what it caches is
\* not replaced while the timeline it pushed with Link enabled is unread or about to be applied.
RtKeepsCommit ==
  [][audioPc = "idle" /\ mRtClientState'.state.timeline # mRtClientState.state.timeline
       /\ mRtClientState.timelineTimestamp # 0 /\ audioPc' = "idle"
       => ~mTimelineBuffer.new
          /\ (linkPc \in {"readStartStop", "handleRt"} => linkState.timeline = none)]_cvars
=============================================================================
