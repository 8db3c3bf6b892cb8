------------------------------- MODULE Clock -------------------------------
(***************************************************************************)
(* The clock thread of tidal-link (Sound/Tidal/Clock.hs): clockCheck takes *)
(* the command in its mailbox, then processes the cycles up to the end of  *)
(* the current tick if they are not processed yet (clockProcess), then     *)
(* goes to the next tick and sleeps (tick).                                *)
(*                                                                         *)
(* Time is in microseconds scaled down.  The Link timeline, which belongs  *)
(* to the C++ library, is a line: it is at cycle zero at time 0 and moves  *)
(* rate cycles per unit of time.  Its arithmetic is exact: the rounding of *)
(* beats and times to microseconds is left out.  Other peers may join the  *)
(* Link session at any moment, and change it from then on.  A cycle c      *)
(* occurs before time t iff it is less than the cycle at t: cyclesToTime   *)
(* is never computed.                                                      *)
(***************************************************************************)
EXTENDS Integers, TLC

CONSTANTS
  Frame,    \* cFrameTimespan
  Ahead,    \* cProcessAhead
  Skip,     \* cSkipTicks
  Tempos,   \* tempos, in cycles per unit of time
  Cycles,   \* targets of setClock
  Nudges,   \* values of setNudge
  Far,      \* bound: peers keep the session within this many cycles of cycle 0
  Late,     \* bound: the time lost to other threads in one round of the clock thread
  Horizon   \* bound: the time at which this instance ends

ASSUME ClockAssumption ==
  /\ Frame \in Nat \ {0} /\ Ahead \in Nat /\ Skip \in Nat
  /\ Tempos \subseteq Nat \ {0} /\ Tempos # {}
  /\ Cycles \subseteq Int /\ Far \in Nat /\ Late \in Nat /\ Horizon \in Nat

VARIABLES
  now,      \* Link.clock
  tl,       \* the timeline of the Link instance
  peers,    \* whether other peers have joined its Link session
  rAction,  \* the mailbox, a TVar ClockAction
  ticks, start, nowArc, nudged,  \* ClockState
  pc,       \* where the clock thread is
  ss,       \* the timeline of the session state it captured
  action,   \* the command it took
  wake,     \* when its threadDelay ends
  lost      \* time lost since the last tick: instance bound only

state == <<ticks, start, nowArc, nudged>>
vars == <<now, tl, peers, rAction, state, pc, ss, action, wake, lost>>

destroyed == [rate |-> 0]  \* no session state
NoAction == [set |-> "nothing"]
ClockAction == [set : {"tempo"}, to : Tempos] \cup [set : {"cycle"}, to : Cycles]
               \cup [set : {"nudge"}, to : Nudges]

timeToCycles(l, t) == l.zero + l.rate * t
line(r, c, t) == [rate |-> r, zero |-> c - r * t]  \* at cycle c at time t
setTempo(l, r, t) == line(r, timeToCycles(l, t), t)
\* a commit changes the timeline only if the session state was changed since its capture
commit(captured, l) == IF l = captured THEN tl ELSE l

logicalTime(n) == start + n * Frame
logicalEnd == logicalTime(ticks + 1)
early == logicalEnd - (now + Ahead)

\* mutant of actualTick: rounded up
actualTickUp == (now + Ahead - start) \div Frame + 1

\* tick's choice between the next tick and the one the time to process falls into
actualTick == (now + Ahead - start) \div Frame
\* mutant of drifted: only a clock that is too fast counts
driftedAhead == (ticks + 1) - actualTick > Skip

drifted == actualTick - (ticks + 1) > Skip \/ (ticks + 1) - actualTick > Skip
delta == IF early < Frame THEN early ELSE Frame

\* with peers, requestBeatAtTime waits for the session's phase
phaseWait == IF peers THEN {0, 1} ELSE {0}
-----------------------------------------------------------------------------
Init ==
  /\ now = 0
  /\ \E r \in Tempos : tl = line(r, 0, Ahead)
  /\ peers = FALSE
  /\ rAction = NoAction
  /\ ticks = 0 /\ start = now /\ nowArc = <<0, 0>> /\ nudged = 0
  /\ pc = "check" /\ ss = destroyed /\ action = NoAction /\ wake = 0 /\ lost = 0

\* setClock, setBPM and setNudge retry until the mailbox is empty
Post ==
  /\ rAction = NoAction
  /\ rAction' \in ClockAction
  /\ UNCHANGED <<now, tl, state, pc, ss, action, wake, lost, peers>>

\* mutant of TakeAction: the mailbox is read and not emptied
TakeActionRead ==
  /\ pc = "check"
  /\ action' = IF rAction.set = "nudge" THEN NoAction ELSE rAction
  /\ nudged' = IF rAction.set = "nudge" THEN rAction.to ELSE nudged
  /\ pc' = IF rAction.set \in {"tempo", "cycle"} THEN "capture" ELSE "compare"
  /\ UNCHANGED <<now, tl, rAction, ticks, start, nowArc, ss, wake, lost, peers>>

\* clockCheck's swapTVar, and processAction for NoAction and SetNudge
TakeAction ==
  /\ pc = "check"
  /\ rAction' = NoAction
  /\ action' = IF rAction.set = "nudge" THEN NoAction ELSE rAction
  /\ nudged' = IF rAction.set = "nudge" THEN rAction.to ELSE nudged
  /\ pc' = IF rAction.set \in {"tempo", "cycle"} THEN "capture" ELSE "compare"
  /\ UNCHANGED <<now, tl, ticks, start, nowArc, ss, wake, lost, peers>>

Capture ==
  /\ pc = "capture"
  /\ pc' = action.set
  /\ ss' = tl
  /\ UNCHANGED <<now, tl, rAction, state, action, wake, lost, peers>>

SetTempo ==
  /\ pc = "tempo"
  /\ pc' = "compare"
  /\ tl' = commit(ss, setTempo(ss, action.to, now))
  /\ ss' = destroyed /\ action' = NoAction
  /\ UNCHANGED <<now, rAction, state, wake, lost, peers>>

\* mutant of SetCycle: the cycle is requested for the present
SetCycleNow ==
  /\ pc = "cycle"
  /\ pc' = "compare"
  /\ \E d \in phaseWait : tl' = commit(ss, line(ss.rate, action.to, now + d))
  /\ ticks' = 0 /\ start' = now /\ nowArc' = <<action.to, action.to>>
  /\ ss' = destroyed /\ action' = NoAction
  /\ UNCHANGED <<now, rAction, nudged, wake, lost, peers>>

SetCycle ==
  /\ pc = "cycle"
  /\ pc' = "compare"
  /\ \E d \in phaseWait : tl' = commit(ss, line(ss.rate, action.to, now + Ahead + d))
  /\ ticks' = 0 /\ start' = now /\ nowArc' = <<action.to, action.to>>
  /\ ss' = destroyed /\ action' = NoAction
  /\ UNCHANGED <<now, rAction, nudged, wake, lost, peers>>

\* the rest of clockCheck: is there anything left to process up to the logical end?
Compare ==
  /\ pc = "compare"
  /\ pc' = IF nowArc[2] < timeToCycles(tl, logicalEnd) THEN "process" ELSE "tick"
  /\ UNCHANGED <<now, tl, rAction, state, ss, action, wake, lost, peers>>

\* mutant of Process: the arc starts where the tick starts
ProcessTick ==
  /\ pc = "process"
  /\ pc' = "act"
  /\ ss' = tl
  /\ nowArc' = <<timeToCycles(tl, logicalTime(ticks)), timeToCycles(tl, logicalEnd)>>
  /\ UNCHANGED <<now, tl, rAction, ticks, start, nudged, action, wake, lost, peers>>

\* clockProcess captures a session state of its own
Process ==
  /\ pc = "process"
  /\ pc' = "act"
  /\ ss' = tl
  /\ nowArc' = <<nowArc[2], timeToCycles(tl, logicalEnd)>>
  /\ UNCHANGED <<now, tl, rAction, ticks, start, nudged, action, wake, lost, peers>>

\* the TickAction; an event of the arc may set the tempo at its own onset
Act ==
  /\ pc = "act"
  /\ pc' = "tick"
  /\ \/ tl' = tl
     \/ \E r \in Tempos, on \in 0 .. (Horizon + Ahead + Frame) :
          /\ nowArc[1] <= timeToCycles(ss, on) /\ timeToCycles(ss, on) < nowArc[2]
          /\ tl' = commit(ss, setTempo(ss, r, on))
  /\ ss' = destroyed
  /\ UNCHANGED <<now, rAction, state, action, wake, lost, peers>>

Tick ==
  /\ pc = "tick"
  /\ ticks' = IF drifted THEN actualTick ELSE ticks + 1
  /\ IF ~drifted /\ delta > 0
     THEN pc' = "sleep" /\ wake' = now + delta
     ELSE pc' = "check" /\ UNCHANGED wake
  /\ lost' = 0
  /\ UNCHANGED <<now, tl, rAction, start, nowArc, nudged, ss, action, peers>>

Wake ==
  /\ pc = "sleep" /\ now >= wake
  /\ pc' = "check"
  /\ UNCHANGED <<now, tl, rAction, state, ss, action, wake, lost, peers>>

\* time passes while the thread sleeps, oversleeps or waits for a processor
Elapse ==
  LET due == pc # "sleep" \/ now >= wake
  IN  /\ now < Horizon /\ (due => lost < Late)
      /\ now' = now + 1
      /\ lost' = IF due THEN lost + 1 ELSE lost
      /\ UNCHANGED <<tl, rAction, state, pc, ss, action, wake, peers>>

\* another peer, perhaps one that joins the session, changes the tempo, or the phase the beats are counted from
PeerChange ==
  /\ peers' = TRUE
  /\ \E r \in Tempos, jump \in {-1, 0, 1} :
       /\ timeToCycles(tl, now) + jump \in -Far .. Far
       /\ tl' = line(r, timeToCycles(tl, now) + jump, now)
  /\ UNCHANGED <<now, rAction, state, pc, ss, action, wake, lost>>

ClockStep == TakeAction \/ Capture \/ SetTempo \/ SetCycle \/ Compare \/ Process \/ Act \/ Tick \/ Wake
Next == ClockStep \/ Post \/ Elapse \/ PeerChange
Spec == Init /\ [][Next]_vars

\* the clock thread is not starved, and time passes
LiveSpec == Spec /\ WF_vars(ClockStep) /\ WF_vars(Elapse)
-----------------------------------------------------------------------------
Timeline == [rate : Tempos, zero : Int]

TypeOK ==
  /\ now \in Nat /\ tl \in Timeline /\ peers \in BOOLEAN /\ ss \in Timeline \cup {destroyed}
  /\ rAction \in ClockAction \cup {NoAction} /\ action \in ClockAction \cup {NoAction}
  /\ ticks \in Int /\ start \in Nat /\ nowArc \in Int \X Int
  /\ pc \in {"check", "capture", "tempo", "cycle", "compare", "process", "act", "tick", "sleep"}
  /\ pc \in {"capture", "tempo", "cycle"} => action \in ClockAction /\ action.set # "nudge"
  /\ pc \in {"tempo", "cycle"} => action.set = pc
  /\ pc \in {"tempo", "cycle", "act"} => ss \in Timeline
  /\ wake \in Int

\* Clock.hs: processing happens "early enough for all events in the nowArc to hit the speaker,
\* but not too early".  Not too early: no tick is processed more than one frame before the
\* process-ahead time, whatever the tempo, the peers, the commands and the delays.
NotTooEarly == pc = "act" => logicalEnd <= now + Ahead + Frame

\* Early enough: as long as no peer has joined, the first cycle of an arc that is processed has not
\* reached the speaker.
EarlyEnough == ~peers /\ pc = "act" => timeToCycles(ss, now) <= nowArc[1]

\* The cycles handed to the tick action form one unbroken run, going forward, that only
\* setClock breaks off, as long as no peer has joined: nothing is played twice or backwards.
ArcsForward ==
  [][~peers /\ nowArc' # nowArc =>
       \/ nowArc'[1] = nowArc[2] /\ nowArc'[1] < nowArc'[2]
       \/ pc = "cycle" /\ nowArc' = <<action.to, action.to>>]_vars

\* However long the thread was held up, after a tick the logical time is at most Skip + 1
\* frames behind the time to process, and at most one frame ahead of it.
CaughtUp ==
  [][pc = "tick" /\ pc' # "tick" =>
       /\ (now + Ahead) - logicalTime(ticks)' < (Skip + 1) * Frame
       /\ logicalTime(ticks)' - (now + Ahead) <= Frame]_vars

\* A command posted to the mailbox is taken within a frame and what the thread is held up in two
\* rounds: setClock, setBPM and setNudge do not block for longer than that (as far as the
\* horizon lets us see).
patience == Frame + 2 * Late
CommandsTaken ==
  \A n \in 0 .. (Horizon - patience) :
    (now = n /\ rAction # NoAction) ~> (rAction = NoAction /\ now <= n + patience)
=============================================================================
