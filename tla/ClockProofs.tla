---------------------------- MODULE ClockProofs ----------------------------
(***************************************************************************)
(* Proofs about Clock, for any frame, process-ahead time, number of ticks  *)
(* to skip, tempos and peers.                                              *)
(***************************************************************************)
EXTENDS Clock, TLAPS

\* Multiples of a positive number are ordered as their factors.
LEMMA TimesMonotone ==
  ASSUME NEW a \in Int, NEW b \in Int, NEW f \in Nat, a <= b
  PROVE  a * f <= b * f
<1>1. PICK d \in Nat : b = a + d
  <2>1. b - a \in Nat /\ b = a + (b - a) OBVIOUS
  <2> QED BY <2>1
<1>2. b * f = a * f + d * f BY <1>1
<1>3. d * f >= 0 OBVIOUS
<1> QED BY <1>2, <1>3

\* The tick a time falls into: it begins no later than the time and ends after it.
LEMMA TickOf ==
  ASSUME NEW x \in Int, NEW f \in Nat \ {0}
  PROVE  /\ x \div f \in Int
         /\ (x \div f) * f <= x
         /\ x < (x \div f) * f + f
OBVIOUS

-----------------------------------------------------------------------------
(* The type invariant.                                                     *)

\* A timeline moved to another cycle at an integer time is a timeline.
LEMMA LineType ==
  ASSUME NEW r \in Tempos, NEW c \in Int, NEW t \in Int
  PROVE  line(r, c, t) \in Timeline
<1>1. r \in Int BY ClockAssumption
<1>2. r * t \in Int BY <1>1
<1> QED BY <1>2 DEF line, Timeline

\* Cycles are counted in integers.
LEMMA CyclesType ==
  ASSUME NEW l \in Timeline, NEW t \in Int
  PROVE  timeToCycles(l, t) \in Int
<1>1. l.rate \in Tempos /\ l.zero \in Int BY DEF Timeline
<1>2. l.rate \in Int
  <2>1. ASSUME NEW r \in Tempos PROVE r \in Int BY ClockAssumption
  <2> QED BY <1>1, <2>1
<1>3. l.rate * t \in Int BY <1>2
<1> QED BY <1>1, <1>3 DEF timeToCycles

\* Committing a changed copy of the timeline leaves a timeline in the Link instance.
LEMMA CommitType ==
  ASSUME NEW l \in Timeline, NEW captured, tl \in Timeline
  PROVE  commit(captured, l) \in Timeline
BY DEF commit

\* The logical time of a tick is an integer.
LEMMA LogicalType ==
  ASSUME TypeOK, NEW n \in Int
  PROVE  logicalTime(n) \in Int
<1>1. Frame \in Int BY ClockAssumption
<1> DEFINE f == n * Frame
<1>2. f \in Int BY <1>1
<1>3. start \in Int BY DEF TypeOK
<1>4. logicalTime(n) = start + f BY DEF logicalTime
<1> HIDE DEF f
<1> QED BY <1>2, <1>3, <1>4

\* The clock starts in a state of its type.
LEMMA ClockTypeInit == Init => TypeOK
<1> SUFFICES ASSUME Init PROVE TypeOK OBVIOUS
<1>1. tl \in Timeline
  <2>1. PICK r \in Tempos : tl = line(r, 0, Ahead) BY DEF Init
  <2>2. 0 \in Int /\ Ahead \in Int BY ClockAssumption
  <2> QED BY <2>1, <2>2, LineType
<1>2. peers \in BOOLEAN BY DEF Init
<1>3. /\ now \in Nat /\ ticks \in Int /\ start \in Nat /\ nowArc \in Int \X Int /\ wake \in Int
      /\ rAction = NoAction /\ action = NoAction /\ ss = destroyed /\ pc = "check"
  BY DEF Init
<1> QED BY <1>1, <1>2, <1>3 DEF TypeOK

\* The commands waiting in the mailbox or being carried out name what they set.
LEMMA ActionType ==
  ASSUME NEW c \in ClockAction
  PROVE  /\ c.set \in {"tempo", "cycle", "nudge"}
         /\ c.set = "tempo" => c.to \in Tempos
         /\ c.set = "cycle" => c.to \in Cycles
         /\ c.set = "nudge" => c.to \in Nudges
BY DEF ClockAction

\* Every step of the clock keeps the type.
LEMMA ClockTypeStep == TypeOK /\ [Next]_vars => TypeOK'
<1> SUFFICES ASSUME TypeOK, [Next]_vars PROVE TypeOK' OBVIOUS
<1> USE ClockAssumption
<1>1. CASE TakeAction
  <2>1. CASE rAction = NoAction BY <1>1, <2>1 DEF TakeAction, TypeOK, NoAction, state
  <2>2. CASE rAction \in ClockAction
    <3>1. rAction.set \in {"tempo", "cycle", "nudge"} BY <2>2, ActionType
    <3>2. CASE rAction.set = "nudge" BY <1>1, <3>2 DEF TakeAction, TypeOK, state
    <3>3. CASE rAction.set \in {"tempo", "cycle"} BY <1>1, <2>2, <3>3 DEF TakeAction, TypeOK, state
    <3> QED BY <3>1, <3>2, <3>3
  <2> QED BY <2>1, <2>2 DEF TypeOK
<1>2. CASE Capture
  <2>1. action \in ClockAction /\ action.set \in {"tempo", "cycle"}
    BY <1>2, ActionType DEF Capture, TypeOK
  <2> QED BY <1>2, <2>1 DEF Capture, TypeOK, state
<1>3. CASE SetTempo
  <2>1. action \in ClockAction /\ action.set = "tempo" BY <1>3 DEF SetTempo, TypeOK
  <2>2. action.to \in Tempos BY <2>1, ActionType
  <2>3. ss \in Timeline /\ now \in Int /\ tl \in Timeline BY <1>3 DEF SetTempo, TypeOK
  <2>4. setTempo(ss, action.to, now) \in Timeline BY <2>2, <2>3, CyclesType, LineType DEF setTempo
  <2>5. tl' \in Timeline BY <1>3, <2>3, <2>4, CommitType DEF SetTempo
  <2> QED BY <1>3, <2>5 DEF SetTempo, TypeOK, state
<1>4. CASE SetCycle
  <2>1. action \in ClockAction /\ action.set = "cycle" BY <1>4 DEF SetCycle, TypeOK
  <2>2. action.to \in Int BY <2>1, ActionType
  <2>3. ss \in Timeline /\ now \in Int /\ tl \in Timeline BY <1>4 DEF SetCycle, TypeOK
  <2>4. PICK d \in phaseWait : tl' = commit(ss, line(ss.rate, action.to, now + Ahead + d))
    BY <1>4 DEF SetCycle
  <2>5. now + Ahead + d \in Int BY <2>3, <2>4 DEF phaseWait
  <2>6. ss.rate \in Tempos BY <2>3 DEF Timeline
  <2>7. tl' \in Timeline BY <2>2, <2>3, <2>4, <2>5, <2>6, LineType, CommitType
  <2> QED BY <1>4, <2>2, <2>7 DEF SetCycle, TypeOK
<1>5. CASE Compare BY <1>5 DEF Compare, TypeOK, state
<1>6. CASE Process
  <2>1. ticks + 1 \in Int /\ tl \in Timeline BY DEF TypeOK
  <2>2. timeToCycles(tl, logicalEnd) \in Int BY <2>1, LogicalType, CyclesType DEF logicalEnd
  <2> QED BY <1>6, <2>2 DEF Process, TypeOK
<1>7. CASE Act
  <2>1. ss \in Timeline /\ tl \in Timeline BY <1>7 DEF Act, TypeOK
  <2>2. ASSUME NEW r \in Tempos, NEW on \in 0 .. (Horizon + Ahead + Frame)
        PROVE  setTempo(ss, r, on) \in Timeline
    <3>1. on \in Int OBVIOUS
    <3> QED BY <2>1, <3>1, CyclesType, LineType DEF setTempo
  <2>3. tl' \in Timeline BY <1>7, <2>1, <2>2, CommitType DEF Act
  <2> QED BY <1>7, <2>3 DEF Act, TypeOK, state
<1>8. CASE Tick
  <2>1. start \in Int /\ now + Ahead - start \in Int BY DEF TypeOK
  <2>2. actualTick \in Int BY <2>1, TickOf DEF actualTick
  <2>3. ticks + 1 \in Int BY DEF TypeOK
  <2>4. logicalEnd \in Int BY <2>3, LogicalType DEF logicalEnd
  <2>5. ticks' \in Int BY <1>8, <2>2, <2>3 DEF Tick
  <2>6. wake' \in Int BY <1>8, <2>4 DEF Tick, TypeOK, delta, early
  <2> QED BY <1>8, <2>5, <2>6 DEF Tick, TypeOK
<1>9. CASE Wake BY <1>9 DEF Wake, TypeOK, state
<1>10. CASE Post BY <1>10 DEF Post, TypeOK, state
<1>11. CASE Elapse BY <1>11 DEF Elapse, TypeOK, state
<1>12. CASE PeerChange
  <2>1. PICK r \in Tempos, jump \in {-1, 0, 1} : tl' = line(r, timeToCycles(tl, now) + jump, now)
    BY <1>12 DEF PeerChange
  <2>2. tl \in Timeline /\ now \in Int BY DEF TypeOK
  <2>3. timeToCycles(tl, now) + jump \in Int BY <2>2, CyclesType
  <2>4. tl' \in Timeline BY <2>1, <2>2, <2>3, LineType
  <2> QED BY <1>12, <2>4 DEF PeerChange, TypeOK, state
<1>13. CASE UNCHANGED vars BY <1>13 DEF vars, state, TypeOK
<1> QED
  BY <1>1, <1>2, <1>3, <1>4, <1>5, <1>6, <1>7, <1>8, <1>9, <1>10, <1>11, <1>12, <1>13
  DEF Next, ClockStep

\* The clock's state keeps its type: the thread is at one of its places, with the command and
\* the session state that place needs, and the Link instance always holds a timeline.
THEOREM ClockTypeCorrect == Spec => []TypeOK
<1> QED BY ClockTypeInit, ClockTypeStep, PTL DEF Spec
-----------------------------------------------------------------------------
(* How far the logical time runs ahead: NotTooEarly and CaughtUp.          *)

\* The end of the current tick is never more than a frame beyond the time to process, by the
\* time the thread is awake: a thread that is early sleeps for as long as it is early.
Margin ==
  /\ pc # "sleep" => logicalEnd <= now + Ahead + Frame
  /\ pc = "sleep" => logicalEnd <= wake + Ahead + Frame

\* The next tick's logical time is a frame later.
LEMMA NextTick ==
  ASSUME TypeOK
  PROVE  /\ logicalTime(ticks + 1 + 1) = logicalEnd + Frame
         /\ logicalEnd \in Int
<1>1. ticks + 1 \in Int BY DEF TypeOK
<1>2. (ticks + 1 + 1) * Frame = (ticks + 1) * Frame + Frame BY <1>1, ClockAssumption
<1>3. (ticks + 1) * Frame \in Int BY <1>1, ClockAssumption
<1> QED BY <1>2, <1>3, ClockAssumption DEF logicalEnd, logicalTime, TypeOK

\* The tick a drifted clock goes to begins at or before the time to process and ends after it.
LEMMA ActualTick ==
  ASSUME TypeOK, NEW n \in Int, n = (now + Ahead - start) \div Frame
  PROVE  /\ logicalTime(n) <= now + Ahead
         /\ now + Ahead < logicalTime(n) + Frame
         /\ logicalTime(n + 1) = logicalTime(n) + Frame
<1>1. now + Ahead - start \in Int /\ start \in Int BY ClockAssumption DEF TypeOK
<1>2. n * Frame <= now + Ahead - start /\ now + Ahead - start < n * Frame + Frame
  BY <1>1, TickOf, ClockAssumption
<1>3. n * Frame \in Int /\ (n + 1) * Frame = n * Frame + Frame BY ClockAssumption
<1> QED BY <1>1, <1>2, <1>3, ClockAssumption DEF logicalTime, TypeOK

\* A tick keeps the margin, and by it the two bounds on how far off the new tick is.
LEMMA TickStep ==
  ASSUME TypeOK, Margin, Tick
  PROVE  /\ Margin'
         /\ (now + Ahead) - logicalTime(ticks)' < (Skip + 1) * Frame
         /\ logicalTime(ticks)' - (now + Ahead) <= Frame
<1> USE ClockAssumption
<1>1. /\ now \in Int /\ start \in Int /\ ticks \in Int /\ wake \in Int
      /\ Ahead \in Nat /\ Skip \in Nat /\ Frame \in Nat \ {0}
  BY DEF TypeOK
<1>2. actualTick \in Int BY <1>1, TickOf DEF actualTick
<1>3. logicalEnd \in Int /\ logicalTime(ticks + 1 + 1) = logicalEnd + Frame BY NextTick
<1>4. early <= Frame BY <1>1, <1>3 DEF Tick, Margin, early
<1>5. /\ start' = start /\ now' = now
      /\ ticks' = IF drifted THEN actualTick ELSE ticks + 1
      /\ IF ~drifted /\ delta > 0 THEN pc' = "sleep" /\ wake' = now + delta
         ELSE pc' = "check" /\ UNCHANGED wake
  BY DEF Tick
<1>6. logicalTime(ticks)' = logicalTime(ticks') /\ logicalEnd' = logicalTime(ticks' + 1)
  BY <1>5 DEF logicalTime, logicalEnd
<1>7. CASE drifted
  <2>1. ticks' = actualTick /\ pc' = "check" BY <1>5, <1>7
  <2>2. /\ logicalTime(actualTick) <= now + Ahead
        /\ now + Ahead < logicalTime(actualTick) + Frame
        /\ logicalTime(actualTick + 1) = logicalTime(actualTick) + Frame
    BY <1>2, ActualTick DEF actualTick
  <2>3. logicalTime(actualTick) \in Int BY <1>2, LogicalType
  <2>4. Frame <= (Skip + 1) * Frame
    <3>1. 1 * Frame <= (Skip + 1) * Frame BY <1>1, TimesMonotone
    <3> QED BY <3>1
  <2>5. (Skip + 1) * Frame \in Int BY <1>1
  <2>6. Margin' BY <1>1, <1>5, <1>6, <2>1, <2>2, <2>3 DEF Margin
  <2> QED BY <1>1, <1>6, <2>1, <2>2, <2>3, <2>4, <2>5, <2>6
<1>8. CASE ~drifted
  <2>1. ticks' = ticks + 1 BY <1>5, <1>8
  <2>2. logicalEnd' = logicalEnd + Frame /\ logicalTime(ticks)' = logicalEnd
    BY <1>3, <1>6, <2>1 DEF logicalEnd
  <2>3. Margin'
    <3>1. CASE early > 0
      <4>1. pc' = "sleep" /\ wake' = now + early BY <1>1, <1>3, <1>4, <1>5, <1>8, <3>1 DEF delta, early
      <4> QED BY <1>1, <1>3, <1>5, <2>2, <4>1 DEF Margin, early
    <3>2. CASE ~(early > 0)
      <4>1. pc' = "check" BY <1>1, <1>3, <1>4, <1>5, <1>8, <3>2 DEF delta, early
      <4> QED BY <1>1, <1>3, <1>5, <2>2, <3>2, <4>1 DEF Margin, early
    <3> QED BY <3>1, <3>2
  <2>4. now + Ahead < logicalTime(actualTick) + Frame BY <1>2, ActualTick DEF actualTick
  <2>5. actualTick <= (ticks + 1) + Skip BY <1>1, <1>2, <1>8 DEF drifted
  <2>6. logicalTime(actualTick) <= logicalEnd + Skip * Frame
    <3>1. actualTick * Frame <= ((ticks + 1) + Skip) * Frame BY <1>1, <1>2, <2>5, TimesMonotone
    <3>2. ((ticks + 1) + Skip) * Frame = (ticks + 1) * Frame + Skip * Frame BY <1>1
    <3>3. actualTick * Frame \in Int /\ (ticks + 1) * Frame \in Int /\ Skip * Frame \in Int
      BY <1>1, <1>2
    <3> QED BY <1>1, <3>1, <3>2, <3>3 DEF logicalTime, logicalEnd
  <2>7. (Skip + 1) * Frame = Skip * Frame + Frame /\ Skip * Frame \in Int BY <1>1
  <2>8. logicalTime(actualTick) \in Int BY <1>2, LogicalType
  <2>9. (now + Ahead) - logicalEnd < (Skip + 1) * Frame
    BY <1>1, <1>3, <2>4, <2>6, <2>7, <2>8
  <2> QED BY <1>1, <1>3, <1>4, <2>2, <2>3, <2>9 DEF early
<1> QED BY <1>7, <1>8

\* The clock starts within the margin.
LEMMA MarginInit == Init => Margin
<1>1. 1 * Frame = Frame BY ClockAssumption
<1> QED BY <1>1, ClockAssumption DEF Init, Margin, logicalEnd, logicalTime

\* Every step of the clock keeps the margin.
LEMMA MarginStep == TypeOK /\ Margin /\ [Next]_vars => Margin'
<1> SUFFICES ASSUME TypeOK, Margin, [Next]_vars PROVE Margin' OBVIOUS
<1> USE ClockAssumption
<1>1. /\ now \in Int /\ wake \in Int /\ logicalEnd \in Int
      /\ Ahead \in Nat /\ Frame \in Nat \ {0}
  BY NextTick DEF TypeOK
<1>2. ticks' = ticks /\ start' = start => logicalEnd' = logicalEnd
  BY DEF logicalEnd, logicalTime
<1>3. CASE SetCycle
  <2>1. ticks' = 0 /\ start' = now /\ now' = now /\ pc' = "compare" BY <1>3 DEF SetCycle
  <2>2. logicalEnd' = now + (0 + 1) * Frame BY <2>1 DEF logicalEnd, logicalTime
  <2>3. (0 + 1) * Frame = Frame BY <1>1
  <2> QED BY <1>1, <2>1, <2>2, <2>3 DEF Margin
<1>4. CASE Tick BY <1>4, TickStep
<1>5. CASE Wake
  <2>1. pc = "sleep" /\ now >= wake /\ pc' = "check" /\ now' = now /\ logicalEnd' = logicalEnd
    BY <1>2, <1>5 DEF Wake, state
  <2> QED BY <1>1, <2>1 DEF Margin
<1>6. CASE Elapse
  <2>1. now' = now + 1 /\ pc' = pc /\ wake' = wake /\ logicalEnd' = logicalEnd
    BY <1>2, <1>6 DEF Elapse, state
  <2> QED BY <1>1, <2>1 DEF Margin
<1>7. CASE \/ TakeAction \/ Capture \/ SetTempo \/ Compare \/ Process \/ Act
           \/ Post \/ PeerChange \/ UNCHANGED vars
  <2>1. now' = now /\ wake' = wake /\ ticks' = ticks /\ start' = start
    BY <1>7 DEF TakeAction, Capture, SetTempo, Compare, Process, Act, Post, PeerChange, vars, state
  <2>2. pc' = pc \/ (pc # "sleep" /\ pc' # "sleep")
    <3>1. CASE TakeAction BY <3>1 DEF TakeAction
    <3>2. CASE Capture
      <4>1. action.set # "sleep" BY <3>2, ActionType DEF Capture, TypeOK
      <4> QED BY <3>2, <4>1 DEF Capture
    <3>3. CASE SetTempo BY <3>3 DEF SetTempo
    <3>4. CASE Compare BY <3>4 DEF Compare
    <3>5. CASE Process BY <3>5 DEF Process
    <3>6. CASE Act BY <3>6 DEF Act
    <3>7. CASE Post \/ PeerChange \/ UNCHANGED vars BY <3>7 DEF Post, PeerChange, vars
    <3> QED BY <1>7, <3>1, <3>2, <3>3, <3>4, <3>5, <3>6, <3>7
  <2> QED BY <1>2, <2>1, <2>2 DEF Margin
<1> QED BY <1>3, <1>4, <1>5, <1>6, <1>7 DEF Next, ClockStep

\* No tick is processed more than one frame before the time to process, for any tempo, any
\* commands, any changes by peers and any delays of the clock thread.
THEOREM NeverTooEarly == Spec => []NotTooEarly
<1>1. TypeOK /\ Margin => NotTooEarly BY DEF Margin, NotTooEarly
<1> QED BY <1>1, ClockTypeInit, ClockTypeStep, MarginInit, MarginStep, PTL DEF Spec

\* A tick leaves the logical time at most one frame ahead of the time to process and less than
\* Skip + 1 frames behind it, however long the clock thread was held up.
THEOREM TicksCatchUp == Spec => CaughtUp
<1> DEFINE Caught == pc = "tick" /\ pc' # "tick" =>
             /\ (now + Ahead) - logicalTime(ticks)' < (Skip + 1) * Frame
             /\ logicalTime(ticks)' - (now + Ahead) <= Frame
<1>1. TypeOK /\ Margin /\ [Next]_vars => [Caught]_vars
  <2> SUFFICES ASSUME TypeOK, Margin, [Next]_vars, pc = "tick", pc' # "tick"
               PROVE  Tick
    BY TickStep
  <2> QED BY DEF Next, ClockStep, TakeAction, Capture, SetTempo, SetCycle, Compare, Process, Act,
                 Wake, Post, Elapse, PeerChange, vars
<1>2. CaughtUp <=> [][Caught]_vars BY DEF CaughtUp
<1> HIDE DEF Caught
<1> QED BY <1>1, <1>2, ClockTypeInit, ClockTypeStep, MarginInit, MarginStep, PTL DEF Spec
-----------------------------------------------------------------------------
(* The cycles handed to the tick action: ArcsForward.                      *)

\* As long as no peer has joined, none changes the session.
LEMMA Alone ==
  ASSUME TypeOK, [Next]_vars, ~peers'
  PROVE  ~peers /\ ~PeerChange
BY DEF TypeOK, Next, ClockStep, TakeAction, Capture, SetTempo, SetCycle, Compare, Process, Act, Tick, Wake,
       Post, Elapse, PeerChange, vars

\* Between the check and the processing nobody but a peer moves the timeline: what clockCheck
\* found left to process is still left when clockProcess captures its own session state.
Remaining == pc = "process" => nowArc[2] < timeToCycles(tl, logicalEnd)

\* Every step that is not a peer's keeps Remaining.
LEMMA RemainingStep ==
  ASSUME ~PeerChange
  PROVE  TypeOK /\ Remaining /\ [Next]_vars => Remaining'
<1> SUFFICES ASSUME TypeOK, Remaining, [Next]_vars, pc' = "process"
             PROVE  nowArc'[2] < timeToCycles(tl, logicalEnd)'
  BY DEF Remaining
<1>1. CASE Compare
  BY <1>1 DEF Compare, timeToCycles, logicalEnd, logicalTime, state
<1>2. CASE Post \/ Elapse \/ UNCHANGED vars
  BY <1>2 DEF Post, Elapse, Remaining, timeToCycles, logicalEnd, logicalTime, vars, state
<1>3. CASE Capture
  <2>1. action.set # "process" BY <1>3, ActionType DEF Capture, TypeOK
  <2> QED BY <1>3, <2>1 DEF Capture
<1> QED
  BY <1>1, <1>2, <1>3 DEF Next, ClockStep, TakeAction, SetTempo, SetCycle, Process, Act, Tick,
                          Wake

\* As long as no peer has joined, the arcs handed to the tick action form one unbroken run going forward,
\* which only setClock breaks off: whatever the delays and tempo changes, nothing is played twice.
THEOREM ArcsGoForward == Spec => ArcsForward
<1> DEFINE Forward == ~peers /\ nowArc' # nowArc =>
             \/ nowArc'[1] = nowArc[2] /\ nowArc'[1] < nowArc'[2]
             \/ pc = "cycle" /\ nowArc' = <<action.to, action.to>>
           RemainingAlone == ~peers => Remaining
<1>1. Init => RemainingAlone BY DEF Init, Remaining
<1>2. TypeOK /\ RemainingAlone /\ [Next]_vars => RemainingAlone'
  <2> SUFFICES ASSUME TypeOK, RemainingAlone, [Next]_vars, ~peers' PROVE Remaining' OBVIOUS
  <2>1. ~peers /\ ~PeerChange BY Alone
  <2> QED BY <2>1, RemainingStep
<1>3. TypeOK /\ RemainingAlone /\ [Next]_vars => [Forward]_vars
  <2> SUFFICES ASSUME TypeOK, Remaining, [Next]_vars, nowArc' # nowArc PROVE Forward OBVIOUS
  <2>1. CASE Process
    <3>1. nowArc[2] < timeToCycles(tl, logicalEnd) BY <2>1 DEF Process, Remaining
    <3>2. nowArc' = <<nowArc[2], timeToCycles(tl, logicalEnd)>> BY <2>1 DEF Process
    <3> QED BY <3>1, <3>2
  <2>2. CASE SetCycle BY <2>2 DEF SetCycle
  <2> QED BY <2>1, <2>2 DEF Next, ClockStep, TakeAction, Capture, SetTempo, Compare, Act, Tick,
                            Wake, Post, Elapse, PeerChange, vars, state
<1>4. ArcsForward <=> [][Forward]_vars BY DEF ArcsForward
<1> HIDE DEF Forward, RemainingAlone
<1> QED BY <1>1, <1>2, <1>3, <1>4, ClockTypeInit, ClockTypeStep, PTL DEF Spec
-----------------------------------------------------------------------------
(***************************************************************************)
(* How far the processed cycles run ahead of the speaker: EarlyEnough.     *)
(* Every tempo change shortens or lengthens what is left until the cycles  *)
(* already processed have been played, so that being early needs room.     *)
(***************************************************************************)
\* With tempos from slow to fast, the delays of two rounds at the fastest tempo fit into a frame at the
\* slowest one, and those delays and a frame into the process-ahead time.
HeldUpLittle(slow, fast) ==
  /\ slow \in Nat \ {0} /\ fast \in Nat /\ Tempos \subseteq slow .. fast
  /\ fast * (2 * Late) <= slow * Frame
  /\ fast * (Frame + 2 * Late) <= slow * Ahead

\* A timeline moves by its rate.
LEMMA CyclesBetween ==
  ASSUME NEW l \in Timeline, NEW t \in Int, NEW u \in Int
  PROVE  timeToCycles(l, u) - timeToCycles(l, t) = l.rate * (u - t)
<1>1. l.rate \in Int /\ l.zero \in Int
  <2>1. l.rate \in Tempos /\ l.zero \in Int BY DEF Timeline
  <2>2. \A r \in Tempos : r \in Int BY ClockAssumption
  <2> QED BY <2>1, <2>2
<1>2. l.rate * u - l.rate * t = l.rate * (u - t) /\ l.rate * u \in Int /\ l.rate * t \in Int BY <1>1
<1> QED BY <1>1, <1>2 DEF timeToCycles

\* A line is at its cycle at its time, and is a timeline.
LEMMA CyclesOfLine ==
  ASSUME NEW r \in Tempos, NEW c \in Int, NEW t \in Int
  PROVE  /\ timeToCycles(line(r, c, t), t) = c
         /\ line(r, c, t).rate = r
<1>1. r * t \in Int BY ClockAssumption
<1> QED BY <1>1 DEF timeToCycles, line

\* What the hypothesis says of the delays alone, and of the products that come up.
LEMMA Room ==
  ASSUME NEW slow, NEW fast, HeldUpLittle(slow, fast)
  PROVE  /\ \A r \in Tempos : r \in Int /\ slow <= r /\ r <= fast
         /\ slow <= fast /\ Late <= Frame /\ Frame <= Ahead
         /\ \A a, b \in Int : a <= b => fast * a <= fast * b /\ slow * a <= slow * b
         /\ \A a \in Nat : \A r \in Tempos : slow * a <= r * a /\ slow * a <= fast * a
<1> USE ClockAssumption
<1>1. slow \in Nat \ {0} /\ fast \in Nat /\ Late \in Nat /\ Frame \in Nat /\ Ahead \in Nat
  BY DEF HeldUpLittle
<1>2. \A r \in Tempos : r \in Nat /\ slow <= r /\ r <= fast BY <1>1 DEF HeldUpLittle
<1>3. slow <= fast
  <2>1. PICK r \in Tempos : TRUE BY ClockAssumption
  <2>2. r \in Nat /\ slow <= r /\ r <= fast BY <1>2
  <2> QED BY <1>1, <2>2
<1>4. ASSUME NEW a \in Int, NEW b \in Int, a <= b
      PROVE  fast * a <= fast * b /\ slow * a <= slow * b
  <2>1. a * fast <= b * fast /\ a * slow <= b * slow BY <1>1, <1>4, TimesMonotone
  <2> QED BY <1>1, <2>1
<1>5. ASSUME NEW a \in Nat, NEW r \in Nat, slow <= r PROVE slow * a <= r * a
  BY <1>1, <1>5, TimesMonotone
<1>6. ASSUME NEW a \in Nat, NEW b \in Nat, a > b PROVE fast * a > slow * b
  <2>1. fast * a >= fast * (b + 1) BY <1>1, <1>4, <1>6
  <2>2. fast * (b + 1) = fast * b + fast /\ fast * b \in Int /\ fast * a \in Int /\ slow * b \in Int
    BY <1>1
  <2>3. slow * b <= fast * b BY <1>1, <1>3, <1>5
  <2> QED BY <1>1, <1>3, <2>1, <2>2, <2>3
<1>7. ~(2 * Late > Frame) /\ ~(Frame + 2 * Late > Ahead)
  <2>1. 2 * Late \in Nat /\ Frame + 2 * Late \in Nat BY <1>1
  <2>2. fast * (2 * Late) \in Int /\ slow * Frame \in Int /\ fast * (Frame + 2 * Late) \in Int
        /\ slow * Ahead \in Int
    BY <1>1, <2>1
  <2> QED BY <1>1, <1>6, <2>1, <2>2 DEF HeldUpLittle
<1>8. Late <= Frame /\ Frame <= Ahead BY <1>1, <1>7
<1> QED BY <1>1, <1>2, <1>3, <1>4, <1>5, <1>8

\* The pace of the thread: a round is at most Late behind its beginning, whose tick ends at least
\* a frame later, and what the thread captured is still the timeline, for nobody else changes it.
Paced ==
  /\ lost \in 0 .. Late
  /\ pc = "act" => ss = tl /\ nowArc[2] = timeToCycles(tl, logicalEnd)
  /\ pc \in {"tempo", "cycle"} => ss = tl
  /\ pc # "sleep" => logicalEnd - (now - lost) >= Frame
  /\ pc = "sleep" => logicalEnd - wake >= Frame /\ now - lost <= wake

\* The first step of the thread is paced.
LEMMA PacedInit == Init => Paced
<1>1. 1 * Frame = Frame BY ClockAssumption
<1> QED BY <1>1, ClockAssumption DEF Init, Paced, logicalEnd, logicalTime

\* A tick begins a round, at once or after its sleep, a frame or more before its tick ends.
LEMMA PacedTick ==
  ASSUME TypeOK, Paced, Tick, Late <= Frame, Frame <= Ahead
  PROVE  Paced'
<1> USE ClockAssumption
<1>1. /\ now \in Int /\ start \in Int /\ ticks \in Int /\ wake \in Int
      /\ Ahead \in Nat /\ Skip \in Nat /\ Frame \in Nat \ {0} /\ Late \in Nat /\ lost \in 0 .. Late
  BY DEF TypeOK, Paced
<1>2. actualTick \in Int BY <1>1, TickOf DEF actualTick
<1>3. logicalEnd \in Int /\ logicalTime(ticks + 1 + 1) = logicalEnd + Frame BY NextTick
<1>4. /\ start' = start /\ now' = now /\ lost' = 0
      /\ ticks' = IF drifted THEN actualTick ELSE ticks + 1
      /\ IF ~drifted /\ delta > 0 THEN pc' = "sleep" /\ wake' = now + delta
         ELSE pc' = "check" /\ UNCHANGED wake
  BY DEF Tick
<1>5. logicalEnd' = logicalTime(ticks' + 1) BY <1>4 DEF logicalTime, logicalEnd
<1>6. logicalEnd - (now - lost) >= Frame BY DEF Tick, Paced
<1>7. CASE drifted
  <2>1. ticks' = actualTick /\ pc' = "check" BY <1>4, <1>7
  <2>2. now + Ahead < logicalTime(actualTick) + Frame
        /\ logicalTime(actualTick + 1) = logicalTime(actualTick) + Frame
    BY <1>2, ActualTick DEF actualTick
  <2>3. logicalTime(actualTick) \in Int BY <1>2, LogicalType
  <2> QED BY <1>1, <1>4, <1>5, <2>1, <2>2, <2>3 DEF Paced
<1>8. CASE ~drifted
  <2>1. logicalEnd' = logicalEnd + Frame BY <1>3, <1>4, <1>5, <1>8
  <2>2. CASE delta > 0
    <3>1. pc' = "sleep" /\ wake' = now + delta BY <1>4, <1>8, <2>2
    <3>2. delta \in Int /\ delta <= logicalEnd - (now + Ahead) BY <1>1, <1>3 DEF delta, early
    <3> QED BY <1>1, <1>3, <1>4, <2>1, <2>2, <3>1, <3>2 DEF Paced
  <2>3. CASE ~(delta > 0)
    <3>1. pc' = "check" BY <1>4, <1>8, <2>3
    <3> QED BY <1>1, <1>3, <1>4, <1>6, <2>1, <3>1 DEF Paced
  <2> QED BY <2>2, <2>3
<1> QED BY <1>7, <1>8

\* Every other step keeps the pace.
LEMMA PacedStep ==
  ASSUME ~PeerChange, Late <= Frame, Frame <= Ahead
  PROVE  TypeOK /\ Paced /\ [Next]_vars => Paced'
<1> SUFFICES ASSUME TypeOK, Paced, [Next]_vars PROVE Paced' OBVIOUS
<1> USE ClockAssumption
<1>1. /\ now \in Int /\ wake \in Int /\ logicalEnd \in Int /\ lost \in Int
      /\ Late \in Nat /\ Ahead \in Nat /\ Frame \in Nat \ {0}
  BY NextTick DEF TypeOK, Paced
<1>2. ticks' = ticks /\ start' = start => logicalEnd' = logicalEnd
  BY DEF logicalEnd, logicalTime
<1>3. CASE TakeAction \/ Post \/ SetTempo \/ Compare \/ UNCHANGED vars
  <2>1. /\ now' = now /\ wake' = wake /\ lost' = lost /\ logicalEnd' = logicalEnd
        /\ (pc' = pc /\ UNCHANGED <<tl, ss, nowArc>>)
           \/ (pc # "sleep" /\ pc' \in {"capture", "compare", "process", "tick"})
    BY <1>2, <1>3 DEF TakeAction, Post, SetTempo, Compare, vars, state
  <2>2. timeToCycles(tl, logicalEnd)' = timeToCycles(tl', logicalEnd') BY DEF timeToCycles
  <2> QED BY <2>1, <2>2 DEF Paced
<1>4. CASE Capture
  <2>1. /\ pc = "capture" /\ pc' = action.set /\ ss' = tl /\ tl' = tl
        /\ now' = now /\ wake' = wake /\ lost' = lost /\ logicalEnd' = logicalEnd
    BY <1>2, <1>4 DEF Capture, state
  <2>2. action.set \in {"tempo", "cycle"} BY <2>1, ActionType DEF TypeOK
  <2> QED BY <2>1, <2>2 DEF Paced
<1>5. CASE SetCycle
  <2>1. ticks' = 0 /\ start' = now /\ now' = now /\ pc' = "compare" /\ lost' = lost
    BY <1>5 DEF SetCycle
  <2>2. logicalEnd' = now + (0 + 1) * Frame BY <2>1 DEF logicalEnd, logicalTime
  <2>3. (0 + 1) * Frame = Frame BY <1>1
  <2> QED BY <1>1, <2>1, <2>2, <2>3 DEF Paced
<1>6. CASE Process
  <2>1. /\ pc = "process" /\ pc' = "act" /\ ss' = tl /\ tl' = tl /\ now' = now /\ lost' = lost
        /\ logicalEnd' = logicalEnd /\ nowArc'[2] = timeToCycles(tl, logicalEnd)
    BY <1>2, <1>6 DEF Process
  <2>2. timeToCycles(tl, logicalEnd)' = timeToCycles(tl, logicalEnd) BY <2>1 DEF timeToCycles
  <2> QED BY <2>1, <2>2 DEF Paced
<1>7. CASE Act
  <2>1. pc = "act" /\ pc' = "tick" /\ now' = now /\ lost' = lost /\ logicalEnd' = logicalEnd
    BY <1>2, <1>7 DEF Act, state
  <2> QED BY <2>1 DEF Paced
<1>8. CASE Tick BY <1>8, PacedTick
<1>9. CASE Wake
  <2>1. pc = "sleep" /\ pc' = "check" /\ now' = now /\ lost' = lost /\ logicalEnd' = logicalEnd
    BY <1>2, <1>9 DEF Wake, state
  <2> QED BY <1>1, <2>1 DEF Paced
<1>10. CASE Elapse
  <2>1. /\ now' = now + 1 /\ pc' = pc /\ wake' = wake /\ logicalEnd' = logicalEnd
        /\ UNCHANGED <<tl, ss, nowArc>>
    BY <1>2, <1>10 DEF Elapse, state
  <2>2. IF pc # "sleep" \/ now >= wake THEN lost' = lost + 1 /\ lost < Late ELSE lost' = lost
    BY <1>10 DEF Elapse
  <2>3. timeToCycles(tl, logicalEnd)' = timeToCycles(tl, logicalEnd) BY <2>1 DEF timeToCycles
  <2>4. pc = "sleep" => now' - lost' <= wake BY <1>1, <2>1, <2>2 DEF Paced
  <2>5. pc # "sleep" => now' - lost' = now - lost BY <1>1, <2>1, <2>2
  <2>6. lost' \in 0 .. Late BY <1>1, <2>2 DEF Paced
  <2> QED BY <2>1, <2>3, <2>4, <2>5, <2>6 DEF Paced
<1> QED BY <1>3, <1>4, <1>5, <1>6, <1>7, <1>8, <1>9, <1>10 DEF Next, ClockStep

\* How many cycles what was processed, or is being processed, is ahead of the speaker.
lead == (IF pc = "act" THEN nowArc[1] ELSE nowArc[2]) - timeToCycles(tl, now)

\* The lead lasts for what the thread may still be held up for in the round, at any tempo; at the
\* end of a round it reaches to the end of the tick at the slowest tempo, but for the delays.
Led(slow, fast) ==
  /\ pc \notin {"sleep", "tick"} => lead >= fast * (Late - lost)
  /\ pc = "sleep" => lead >= fast * (wake - now + Late)
  /\ pc = "tick" => lead >= slow * (logicalEnd - now + lost) - fast * lost

\* At the start the first cycle is the process-ahead time away.
LEMMA LedInit ==
  ASSUME NEW slow, NEW fast, HeldUpLittle(slow, fast) PROVE Init => Led(slow, fast)
<1> SUFFICES ASSUME Init PROVE Led(slow, fast) OBVIOUS
<1> USE ClockAssumption
<1>1. /\ pc = "check" /\ now = 0 /\ lost = 0 /\ nowArc[2] = 0
      /\ slow \in Nat \ {0} /\ fast \in Nat
  BY DEF Init, HeldUpLittle
<1>2. PICK r \in Tempos : tl = line(r, 0, Ahead) BY DEF Init
<1>3. timeToCycles(tl, now) = 0 - r * Ahead
  <2>1. r \in Int /\ r * Ahead \in Int /\ r * 0 = 0 BY ClockAssumption
  <2> QED BY <1>1, <1>2, <2>1 DEF timeToCycles, line
<1>4. slow * Ahead <= r * Ahead /\ fast * Late <= fast * (Frame + 2 * Late) BY <1>1, Room
<1>5. fast * (Frame + 2 * Late) <= slow * Ahead BY DEF HeldUpLittle
<1>6. r * Ahead \in Int /\ slow * Ahead \in Int /\ fast * Late \in Int
      /\ fast * (Frame + 2 * Late) \in Int
  <2>1. r \in Int BY ClockAssumption
  <2> QED BY <1>1, <2>1
<1>7. lead = r * Ahead /\ fast * (Late - lost) = fast * Late BY <1>1, <1>3, <1>6 DEF lead
<1> QED BY <1>1, <1>4, <1>5, <1>6, <1>7 DEF Led

\* Time passing consumes the lead at the tempo.
LEMMA LedElapse ==
  ASSUME NEW slow, NEW fast, HeldUpLittle(slow, fast), TypeOK, Paced, Led(slow, fast), Elapse
  PROVE  Led(slow, fast)'
<1> USE ClockAssumption
<1>1. /\ now \in Int /\ wake \in Int /\ logicalEnd \in Int /\ lost \in Int /\ Late \in Int
      /\ slow \in Int /\ fast \in Int /\ nowArc[1] \in Int /\ nowArc[2] \in Int /\ tl \in Timeline
  BY NextTick DEF TypeOK, Paced, HeldUpLittle
<1>2. /\ now' = now + 1 /\ pc' = pc /\ wake' = wake /\ tl' = tl /\ nowArc' = nowArc
      /\ ticks' = ticks /\ start' = start
      /\ pc # "sleep" => lost' = lost + 1
  BY DEF Elapse, state
<1>3. logicalEnd' = logicalEnd BY <1>2 DEF logicalEnd, logicalTime
<1>4. tl.rate \in Int /\ tl.rate <= fast /\ slow >= 0
  <2>1. tl.rate \in Tempos BY <1>1 DEF Timeline
  <2>2. tl.rate \in Int /\ tl.rate <= fast BY <2>1, Room
  <2>3. slow >= 0 BY DEF HeldUpLittle
  <2> QED BY <2>2, <2>3
<1>5. lead' = lead - tl.rate /\ lead \in Int
  <2>1. timeToCycles(tl, now + 1) - timeToCycles(tl, now) = tl.rate * ((now + 1) - now)
    BY <1>1, CyclesBetween
  <2>2. tl.rate * ((now + 1) - now) = tl.rate BY <1>1, <1>4
  <2>3. timeToCycles(tl, now + 1) \in Int /\ timeToCycles(tl, now) \in Int BY <1>1, CyclesType
  <2>4. timeToCycles(tl, now)' = timeToCycles(tl, now + 1) BY <1>2 DEF timeToCycles
  <2> QED BY <1>1, <1>2, <2>1, <2>2, <2>3, <2>4 DEF lead
<1>6. CASE pc \notin {"sleep", "tick"}
  <2>1. fast * (Late - lost') = fast * (Late - lost) - fast /\ fast * (Late - lost) \in Int
    BY <1>1, <1>2, <1>6
  <2>2. lead >= fast * (Late - lost) BY <1>6 DEF Led
  <2>3. lead' >= fast * (Late - lost') BY <1>1, <1>4, <1>5, <2>1, <2>2
  <2> QED BY <1>2, <1>6, <2>3 DEF Led
<1>7. CASE pc = "sleep"
  <2>1. fast * (wake - (now + 1) + Late) = fast * (wake - now + Late) - fast
        /\ fast * (wake - now + Late) \in Int
    BY <1>1
  <2>2. lead >= fast * (wake - now + Late) BY <1>7 DEF Led
  <2>3. lead' >= fast * (wake - (now + 1) + Late) BY <1>1, <1>4, <1>5, <2>1, <2>2
  <2> QED BY <1>2, <1>7, <2>3 DEF Led
<1>8. CASE pc = "tick"
  <2>1. /\ logicalEnd - (now + 1) + (lost + 1) = logicalEnd - now + lost
        /\ fast * (lost + 1) = fast * lost + fast
        /\ fast * lost \in Int /\ slow * (logicalEnd - now + lost) \in Int
    BY <1>1
  <2>2. lead >= slow * (logicalEnd - now + lost) - fast * lost BY <1>8 DEF Led
  <2>3. lead' >= slow * (logicalEnd - (now + 1) + (lost + 1)) - fast * (lost + 1)
    BY <1>1, <1>4, <1>5, <2>1, <2>2
  <2> QED BY <1>2, <1>3, <1>8, <2>3 DEF Led
<1> QED BY <1>6, <1>7, <1>8

\* A lead that reaches to the end of the tick is the lead a round has to end with.
LEMMA LedToEnd ==
  ASSUME NEW slow, NEW fast, HeldUpLittle(slow, fast), TypeOK, Paced, pc # "sleep",
         NEW x \in Int, x >= slow * (logicalEnd - now)
  PROVE  x >= slow * (logicalEnd - now + lost) - fast * lost
<1> USE ClockAssumption
<1>1. now \in Int /\ logicalEnd \in Int /\ lost \in Nat /\ slow \in Int /\ fast \in Int
  BY NextTick DEF TypeOK, Paced, HeldUpLittle
<1>2. slow * lost <= fast * lost BY <1>1, Room
<1>3. slow * (logicalEnd - now + lost) = slow * (logicalEnd - now) + slow * lost
      /\ slow * (logicalEnd - now) \in Int /\ slow * lost \in Int /\ fast * lost \in Int
  BY <1>1
<1> QED BY <1>2, <1>3

\* A round that processed nothing found the end of the tick processed already.
LEMMA LedCompare ==
  ASSUME NEW slow, NEW fast, HeldUpLittle(slow, fast), TypeOK, Paced, Led(slow, fast), Compare
  PROVE  Led(slow, fast)'
<1> USE ClockAssumption
<1>1. /\ now \in Int /\ logicalEnd \in Int /\ lost \in Int /\ tl \in Timeline
      /\ nowArc[2] \in Int /\ slow \in Int
  BY NextTick DEF TypeOK, Paced, HeldUpLittle
<1>2. /\ now' = now /\ lost' = lost /\ tl' = tl /\ nowArc' = nowArc /\ pc = "compare"
      /\ pc' = IF nowArc[2] < timeToCycles(tl, logicalEnd) THEN "process" ELSE "tick"
      /\ ticks' = ticks /\ start' = start
  BY DEF Compare, state
<1>3. logicalEnd' = logicalEnd /\ timeToCycles(tl, now)' = timeToCycles(tl, now)
  BY <1>2 DEF logicalEnd, logicalTime, timeToCycles
<1>4. lead' = lead /\ lead = nowArc[2] - timeToCycles(tl, now) BY <1>2, <1>3 DEF lead
<1>5. CASE pc' = "process" BY <1>2, <1>4, <1>5 DEF Led
<1>6. CASE pc' = "tick"
  <2>1. nowArc[2] >= timeToCycles(tl, logicalEnd)
    <3>1. timeToCycles(tl, logicalEnd) \in Int BY <1>1, CyclesType
    <3> QED BY <1>1, <1>2, <1>6, <3>1
  <2>2. timeToCycles(tl, logicalEnd) - timeToCycles(tl, now) = tl.rate * (logicalEnd - now)
    BY <1>1, CyclesBetween
  <2>3. logicalEnd - now \in Nat BY <1>1, <1>2, Room DEF Paced
  <2>4. tl.rate \in Tempos BY <1>1 DEF Timeline
  <2>5. slow * (logicalEnd - now) <= tl.rate * (logicalEnd - now) BY <2>3, <2>4, Room
  <2>6. tl.rate * (logicalEnd - now) \in Int /\ slow * (logicalEnd - now) \in Int
    <3>1. tl.rate \in Int BY <2>4, Room
    <3> QED BY <1>1, <2>3, <3>1
  <2>7. timeToCycles(tl, logicalEnd) \in Int /\ timeToCycles(tl, now) \in Int BY <1>1, CyclesType
  <2>8. lead \in Int /\ lead >= slow * (logicalEnd - now) BY <1>1, <1>4, <2>1, <2>2, <2>5, <2>6, <2>7
  <2>9. lead >= slow * (logicalEnd - now + lost) - fast * lost BY <1>2, <2>8, LedToEnd
  <2> QED BY <1>2, <1>3, <1>4, <1>6, <2>9 DEF Led
<1> QED BY <1>2, <1>5, <1>6

\* An event of the arc that sets the tempo at its onset, between the present and the end of the
\* tick, leaves the end of the arc at least as far away as at the slowest tempo.
LEMMA LedEvent ==
  ASSUME NEW slow, NEW fast, HeldUpLittle(slow, fast), TypeOK, pc = "act", ss = tl,
         nowArc[2] = timeToCycles(tl, logicalEnd), timeToCycles(tl, now) <= nowArc[1],
         NEW r \in Tempos, NEW on \in Int,
         nowArc[1] <= timeToCycles(ss, on), timeToCycles(ss, on) < nowArc[2],
         tl' = commit(ss, setTempo(ss, r, on))
  PROVE  nowArc[2] - timeToCycles(tl', now) >= slow * (logicalEnd - now)
<1> USE ClockAssumption
<1>1. now \in Int /\ logicalEnd \in Int /\ tl \in Timeline /\ slow \in Int /\ nowArc[1] \in Int
  BY NextTick DEF TypeOK, HeldUpLittle
<1> DEFINE l == setTempo(tl, r, on)
           c == timeToCycles(tl, on)
           q == tl.rate
<1>2. c \in Int /\ q \in Tempos /\ q \in Int /\ q >= 1 /\ r \in Int /\ r >= 1
  <2>1. c \in Int BY <1>1, CyclesType
  <2>2. q \in Tempos BY <1>1 DEF Timeline
  <2>3. q \in Int /\ slow <= q /\ r \in Int /\ slow <= r BY <2>2, Room
  <2>4. slow >= 1 BY DEF HeldUpLittle
  <2> QED BY <1>1, <2>1, <2>2, <2>3, <2>4
<1>3. tl' = l BY DEF commit
<1>4. l \in Timeline /\ timeToCycles(l, on) = c /\ l.rate = r
  <2>1. l = line(r, c, on) BY DEF setTempo
  <2> HIDE DEF l, c
  <2>2. l \in Timeline BY <1>2, <2>1, LineType
  <2>3. timeToCycles(line(r, c, on), on) = c /\ line(r, c, on).rate = r
    <3>1. c \in Int /\ r \in Tempos BY <1>2
    <3> QED BY <3>1, CyclesOfLine
  <2> QED BY <2>1, <2>2, <2>3
<1> HIDE DEF l
<1>5. timeToCycles(l, on) - timeToCycles(l, now) = r * (on - now) BY <1>1, <1>4, CyclesBetween
<1>6. /\ timeToCycles(tl, logicalEnd) - c = q * (logicalEnd - on)
      /\ c - timeToCycles(tl, now) = q * (on - now)
  BY <1>1, CyclesBetween
<1>7. /\ timeToCycles(l, now) \in Int /\ timeToCycles(tl, now) \in Int
      /\ timeToCycles(tl, logicalEnd) \in Int
  BY <1>1, <1>4, CyclesType
<1> HIDE DEF c, q
<1>8. ASSUME NEW d \in Int, q * d >= 0 PROVE d \in Nat
  <2>1. SUFFICES ASSUME d <= -1 PROVE FALSE OBVIOUS
  <2>2. d * q <= (-1) * q BY <1>2, <2>1, TimesMonotone
  <2>3. d * q = q * d /\ (-1) * q = 0 - q /\ q * d \in Int BY <1>2
  <2> QED BY <1>2, <1>8, <2>2, <2>3
<1>9. on - now \in Nat
  <2>1. c - timeToCycles(tl, now) >= 0 BY <1>1, <1>2, <1>7 DEF c
  <2> QED BY <1>1, <1>6, <1>8, <2>1
<1>10. logicalEnd - on \in Nat
  <2>1. timeToCycles(tl, logicalEnd) - c >= 0 BY <1>2, <1>7 DEF c
  <2> QED BY <1>1, <1>6, <1>8, <2>1
<1>11. slow * (on - now) <= r * (on - now) /\ slow * (logicalEnd - on) <= q * (logicalEnd - on)
  BY <1>2, <1>9, <1>10, Room
<1>12. slow * (logicalEnd - now) = slow * (on - now) + slow * (logicalEnd - on) BY <1>1
<1>13. /\ slow * (on - now) \in Int /\ slow * (logicalEnd - on) \in Int
       /\ r * (on - now) \in Int /\ q * (logicalEnd - on) \in Int
  BY <1>1, <1>2
<1> QED BY <1>2, <1>3, <1>4, <1>5, <1>6, <1>7, <1>11, <1>12, <1>13

\* A round that processed an arc reaches to the end of the tick, whatever its events did.
LEMMA LedAct ==
  ASSUME NEW slow, NEW fast, HeldUpLittle(slow, fast), TypeOK, Paced, Led(slow, fast), Act
  PROVE  Led(slow, fast)'
<1> USE ClockAssumption
<1>1. /\ now \in Int /\ logicalEnd \in Int /\ lost \in 0 .. Late /\ tl \in Timeline
      /\ nowArc[1] \in Int /\ nowArc[2] \in Int /\ slow \in Int /\ fast \in Nat
  BY NextTick DEF TypeOK, Paced, HeldUpLittle
<1>2. /\ now' = now /\ lost' = lost /\ nowArc' = nowArc /\ pc = "act" /\ pc' = "tick"
      /\ ticks' = ticks /\ start' = start
  BY DEF Act, state
<1>3. ss = tl /\ nowArc[2] = timeToCycles(tl, logicalEnd) BY <1>2 DEF Paced
<1>4. logicalEnd' = logicalEnd BY <1>2 DEF logicalEnd, logicalTime
<1>5. timeToCycles(tl, now) \in Int /\ timeToCycles(tl, logicalEnd) \in Int BY <1>1, CyclesType
<1>6. timeToCycles(tl, now) <= nowArc[1]
  <2>1. lead >= fast * (Late - lost) BY <1>2 DEF Led
  <2>2. fast * (Late - lost) \in Nat BY <1>1
  <2> QED BY <1>1, <1>2, <1>5, <2>1, <2>2 DEF lead
<1>7. nowArc[2] - timeToCycles(tl', now) >= slow * (logicalEnd - now)
  <2>1. CASE tl' = tl
    <3>1. timeToCycles(tl, logicalEnd) - timeToCycles(tl, now) = tl.rate * (logicalEnd - now)
      BY <1>1, CyclesBetween
    <3>2. logicalEnd - now \in Nat BY <1>1, <1>2, Room DEF Paced
    <3>3. tl.rate \in Tempos BY <1>1 DEF Timeline
    <3>4. slow * (logicalEnd - now) <= tl.rate * (logicalEnd - now) BY <3>2, <3>3, Room
    <3> QED BY <1>3, <2>1, <3>1, <3>4
  <2>2. ASSUME NEW r \in Tempos, NEW on \in 0 .. (Horizon + Ahead + Frame),
               nowArc[1] <= timeToCycles(ss, on), timeToCycles(ss, on) < nowArc[2],
               tl' = commit(ss, setTempo(ss, r, on))
        PROVE  nowArc[2] - timeToCycles(tl', now) >= slow * (logicalEnd - now)
    BY <1>2, <1>3, <1>6, <2>2, LedEvent
  <2> QED BY <2>1, <2>2 DEF Act
<1>8. tl' \in Timeline
  <2>1. TypeOK' BY ClockTypeStep DEF Next, ClockStep
  <2> QED BY <2>1 DEF TypeOK
<1>9. lead' = nowArc[2] - timeToCycles(tl', now) BY <1>2 DEF lead, timeToCycles
<1>10. lead' \in Int BY <1>1, <1>8, <1>9, CyclesType
<1>11. lead' >= slow * (logicalEnd - now + lost) - fast * lost
  BY <1>2, <1>7, <1>9, <1>10, LedToEnd
<1> QED BY <1>2, <1>4, <1>11 DEF Led

\* setBPM keeps the lead, setClock gives one of the process-ahead time.
LEMMA LedCommand ==
  ASSUME ~peers, NEW slow, NEW fast, HeldUpLittle(slow, fast), TypeOK, Paced, Led(slow, fast),
         SetTempo \/ SetCycle
  PROVE  Led(slow, fast)'
<1> USE ClockAssumption
<1>1. /\ now \in Int /\ lost \in 0 .. Late /\ tl \in Timeline /\ Late \in Nat
      /\ nowArc[2] \in Int /\ slow \in Int /\ fast \in Nat
  BY DEF TypeOK, Paced, HeldUpLittle
<1>2. /\ now' = now /\ lost' = lost /\ pc \in {"tempo", "cycle"} /\ pc' = "compare"
      /\ ss = tl /\ action \in ClockAction /\ action.set = pc
  BY DEF SetTempo, SetCycle, Paced, TypeOK
<1>3. lead' = nowArc'[2] - timeToCycles(tl', now) BY <1>2 DEF lead, timeToCycles
<1>4. CASE SetTempo
  <2>1. nowArc' = nowArc /\ tl' = setTempo(tl, action.to, now) /\ pc = "tempo"
    BY <1>2, <1>4 DEF SetTempo, commit, state
  <2>2. action.to \in Tempos /\ timeToCycles(tl, now) \in Int
    BY <1>1, <1>2, <2>1, ActionType, CyclesType
  <2>3. timeToCycles(tl', now) = timeToCycles(tl, now)
    BY <1>1, <2>1, <2>2, CyclesOfLine DEF setTempo
  <2>4. lead' = lead BY <1>2, <1>3, <2>1, <2>3 DEF lead
  <2> QED BY <1>2, <2>4 DEF Led
<1>5. CASE SetCycle
  <2>1. nowArc'[2] = action.to /\ tl' = line(tl.rate, action.to, now + Ahead) /\ pc = "cycle"
    <3>1. PICK d \in phaseWait : tl' = commit(ss, line(ss.rate, action.to, now + Ahead + d))
      BY <1>5 DEF SetCycle
    <3>2. d = 0 /\ now + Ahead + d = now + Ahead BY <1>1 DEF phaseWait
    <3>3. tl' = line(tl.rate, action.to, now + Ahead) BY <1>2, <3>1, <3>2 DEF commit
    <3> QED BY <1>5, <3>3 DEF SetCycle
  <2>2. tl.rate \in Tempos /\ action.to \in Int
    BY <1>1, <1>2, <2>1, ActionType DEF Timeline
  <2>3. tl' \in Timeline /\ timeToCycles(tl', now + Ahead) = action.to /\ tl'.rate = tl.rate
    <3>1. now + Ahead \in Int BY <1>1
    <3>2. line(tl.rate, action.to, now + Ahead) \in Timeline BY <2>2, <3>1, LineType
    <3>3. /\ timeToCycles(line(tl.rate, action.to, now + Ahead), now + Ahead) = action.to
          /\ line(tl.rate, action.to, now + Ahead).rate = tl.rate
      BY <2>2, <3>1, CyclesOfLine
    <3> QED BY <2>1, <3>2, <3>3
  <2>4. timeToCycles(tl', now + Ahead) - timeToCycles(tl', now) = tl.rate * ((now + Ahead) - now)
    BY <1>1, <2>3, CyclesBetween
  <2>5. tl.rate * ((now + Ahead) - now) = tl.rate * Ahead BY <1>1
  <2>6. timeToCycles(tl', now) \in Int BY <1>1, <2>3, CyclesType
  <2>7. tl.rate * Ahead \in Int /\ slow * Ahead \in Int /\ slow * Ahead <= tl.rate * Ahead
    <3>1. tl.rate \in Int BY <2>2, Room
    <3> QED BY <1>1, <2>2, <3>1, Room
  <2>8. fast * (Late - lost) <= fast * (Frame + 2 * Late) /\ fast * (Late - lost) \in Int
        /\ fast * (Frame + 2 * Late) \in Int /\ fast * (Frame + 2 * Late) <= slow * Ahead
    BY <1>1, Room DEF HeldUpLittle
  <2>9. lead' >= fast * (Late - lost) BY <1>3, <2>1, <2>2, <2>3, <2>4, <2>5, <2>6, <2>7, <2>8
  <2> QED BY <1>2, <2>9 DEF Led
<1> QED BY <1>4, <1>5

\* A round ends with a lead that lasts through its sleep and the delays of the next one.
LEMMA LedTick ==
  ASSUME NEW slow, NEW fast, HeldUpLittle(slow, fast), TypeOK, Paced, Led(slow, fast), Tick
  PROVE  Led(slow, fast)'
<1> USE ClockAssumption
<1>1. /\ now \in Int /\ logicalEnd \in Int /\ lost \in 0 .. Late /\ tl \in Timeline
      /\ Late \in Nat /\ Ahead \in Nat /\ Frame \in Nat
      /\ nowArc[2] \in Int /\ slow \in Nat /\ fast \in Nat
  BY NextTick DEF TypeOK, Paced, HeldUpLittle
<1>2. /\ now' = now /\ lost' = 0 /\ nowArc' = nowArc /\ tl' = tl /\ pc = "tick"
      /\ IF ~drifted /\ delta > 0 THEN pc' = "sleep" /\ wake' = now + delta ELSE pc' = "check"
  BY DEF Tick
<1>3. lead' = lead /\ lead \in Int
  <2>1. timeToCycles(tl, now) \in Int BY <1>1, CyclesType
  <2> QED BY <1>1, <1>2, <2>1 DEF lead, timeToCycles
<1>4. lead >= slow * (logicalEnd - now + lost) - fast * lost BY <1>2 DEF Led
<1>5. fast * lost <= fast * Late BY <1>1, Room
<1>6. /\ slow * (logicalEnd - now + lost) \in Int /\ fast * lost \in Int /\ fast * Late \in Int
      /\ slow * Frame \in Int /\ slow * Ahead \in Int
      /\ fast * (2 * Late) = fast * Late + fast * Late
      /\ fast * (Frame + 2 * Late) = fast * (Frame + Late) + fast * Late
      /\ fast * (Frame + Late) \in Int
  BY <1>1
<1>7. fast * (2 * Late) <= slow * Frame /\ fast * (Frame + 2 * Late) <= slow * Ahead
  BY DEF HeldUpLittle
<1>8. CASE pc' = "check"
  <2>1. Frame <= logicalEnd - now + lost BY <1>1, <1>2 DEF Paced
  <2>2. slow * Frame <= slow * (logicalEnd - now + lost) BY <1>1, <2>1, Room
  <2>3. lead >= fast * Late BY <1>3, <1>4, <1>5, <1>6, <1>7, <2>2
  <2>4. fast * (Late - 0) = fast * Late BY <1>1
  <2> QED BY <1>2, <1>3, <1>8, <2>3, <2>4 DEF Led
<1>9. CASE pc' = "sleep"
  <2>1. delta > 0 /\ wake' = now + delta BY <1>2, <1>9
  <2>2. delta \in Int /\ delta <= Frame /\ Ahead <= logicalEnd - now + lost
    BY <1>1, <2>1 DEF delta, early
  <2>3. slow * Ahead <= slow * (logicalEnd - now + lost) BY <1>1, <2>2, Room
  <2>4. fast * (delta + Late) <= fast * (Frame + Late) BY <1>1, <2>2, Room
  <2>5. fast * (delta + Late) \in Int BY <1>1, <2>2
  <2>6. lead >= fast * (delta + Late) BY <1>3, <1>4, <1>5, <1>6, <1>7, <2>3, <2>4, <2>5
  <2>7. (now + delta) - now + Late = delta + Late BY <1>1, <2>2
  <2> QED BY <1>2, <1>3, <1>9, <2>1, <2>6, <2>7 DEF Led
<1> QED BY <1>2, <1>8, <1>9

\* Every step keeps the lead.
LEMMA LedStep ==
  ASSUME ~peers, ~PeerChange, NEW slow, NEW fast, HeldUpLittle(slow, fast)
  PROVE  TypeOK /\ Paced /\ Led(slow, fast) /\ [Next]_vars => Led(slow, fast)'
<1> SUFFICES ASSUME TypeOK, Paced, Led(slow, fast), [Next]_vars PROVE Led(slow, fast)' OBVIOUS
<1> USE ClockAssumption
<1>1. /\ now \in Int /\ wake \in Int /\ lost \in 0 .. Late /\ fast \in Nat /\ Late \in Nat
      /\ tl \in Timeline /\ nowArc[2] \in Int
  BY DEF TypeOK, Paced, HeldUpLittle
<1>2. CASE TakeAction \/ Post \/ Capture \/ Process \/ UNCHANGED vars
  <2>1. now' = now /\ wake' = wake /\ lost' = lost /\ tl' = tl /\ ticks' = ticks /\ start' = start
    BY <1>2 DEF TakeAction, Post, Capture, Process, vars, state
  <2>2. lead' = lead /\ (pc' = pc \/ (pc \notin {"sleep", "tick"} /\ pc' \notin {"sleep", "tick"}))
    <3>1. CASE TakeAction \/ Post \/ UNCHANGED vars
      BY <2>1, <3>1 DEF TakeAction, Post, vars, state, lead, timeToCycles
    <3>2. CASE Capture
      <4>1. pc = "capture" /\ pc' = action.set /\ nowArc' = nowArc BY <3>2 DEF Capture, state
      <4>2. action.set \in {"tempo", "cycle"} BY <4>1, ActionType DEF TypeOK
      <4> QED BY <2>1, <4>1, <4>2 DEF lead, timeToCycles
    <3>3. CASE Process
      <4>1. pc = "process" /\ pc' = "act" /\ nowArc'[1] = nowArc[2] BY <3>3 DEF Process
      <4> QED BY <2>1, <4>1 DEF lead, timeToCycles
    <3> QED BY <1>2, <3>1, <3>2, <3>3
  <2>3. logicalEnd' = logicalEnd BY <2>1 DEF logicalEnd, logicalTime
  <2> QED BY <2>1, <2>2, <2>3 DEF Led
<1>3. CASE SetTempo \/ SetCycle BY <1>3, LedCommand
<1>4. CASE Compare BY <1>4, LedCompare
<1>5. CASE Act BY <1>5, LedAct
<1>6. CASE Tick BY <1>6, LedTick
<1>7. CASE Elapse BY <1>7, LedElapse
<1>8. CASE Wake
  <2>1. /\ pc = "sleep" /\ pc' = "check" /\ now' = now /\ lost' = lost /\ tl' = tl
        /\ nowArc' = nowArc
    BY <1>8 DEF Wake, state
  <2>2. lead' = lead BY <2>1 DEF lead, timeToCycles
  <2>3. Late - lost <= wake - now + Late BY <1>1, <2>1 DEF Paced
  <2>4. fast * (Late - lost) <= fast * (wake - now + Late) BY <1>1, <2>3, Room
  <2>5. lead >= fast * (wake - now + Late) BY <2>1 DEF Led
  <2>6. timeToCycles(tl, now) \in Int BY <1>1, CyclesType
  <2>7. lead \in Int BY <1>1, <2>1, <2>6 DEF lead
  <2>8. fast * (Late - lost) \in Int /\ fast * (wake - now + Late) \in Int BY <1>1
  <2>9. lead >= fast * (Late - lost) BY <2>4, <2>5, <2>7, <2>8
  <2> QED BY <2>1, <2>2, <2>9 DEF Led
<1> QED BY <1>2, <1>3, <1>4, <1>5, <1>6, <1>7, <1>8 DEF Next, ClockStep

\* With a thread held up little enough for its tempos, no arc is processed after its first cycle has reached
\* the speaker as long as no peer has joined, whatever the commands and the tempo changes of events.
THEOREM AlwaysEarlyEnough ==
  ASSUME NEW slow, NEW fast, HeldUpLittle(slow, fast)
  PROVE  Spec => []EarlyEnough
<1> DEFINE LedAlone == ~peers => Paced /\ Led(slow, fast)
<1>1. Late <= Frame /\ Frame <= Ahead BY Room
<1>2. Init => LedAlone BY LedInit, PacedInit
<1>3. TypeOK /\ LedAlone /\ [Next]_vars => LedAlone'
  <2> SUFFICES ASSUME TypeOK, LedAlone, [Next]_vars, ~peers' PROVE (Paced /\ Led(slow, fast))' OBVIOUS
  <2>1. ~peers /\ ~PeerChange BY Alone
  <2> QED BY <1>1, <2>1, PacedStep, LedStep
<1>4. TypeOK /\ LedAlone => EarlyEnough
  <2> SUFFICES ASSUME TypeOK, Paced, Led(slow, fast), pc = "act"
               PROVE  timeToCycles(ss, now) <= nowArc[1]
    BY DEF EarlyEnough
  <2>1. ss = tl /\ lead >= fast * (Late - lost) /\ lead = nowArc[1] - timeToCycles(tl, now)
    BY DEF Paced, Led, lead
  <2>2. now \in Int /\ tl \in Timeline /\ nowArc[1] \in Int BY DEF TypeOK
  <2>3. timeToCycles(tl, now) \in Int BY <2>2, CyclesType
  <2>4. fast \in Nat /\ Late - lost \in Nat BY ClockAssumption DEF HeldUpLittle, Paced
  <2>5. fast * (Late - lost) \in Nat BY <2>4
  <2> QED BY <2>1, <2>2, <2>3, <2>5
<1> HIDE DEF LedAlone
<1> QED BY <1>2, <1>3, <1>4, ClockTypeInit, ClockTypeStep, PTL DEF Spec
=============================================================================
