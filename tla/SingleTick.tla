----------------------------- MODULE SingleTick -----------------------------
(***************************************************************************)
(* How the tempo an event of streamOnce carries reaches the Link session:  *)
(* onSingleTick takes the link operations of getZeroedLinkOperations       *)
(* (tidal-link, Clock.hs) and hands them to doTick, whose processCps sets  *)
(* the tempo.  The clock thread captures and commits session states of its *)
(* own meanwhile, for a tick without tempo changes.                        *)
(*                                                                         *)
(* A session state is a block of the C++ heap.  A write through a pointer  *)
(* to a block that was freed is undefined: it lands on what the block      *)
(* holds by then, which may be a state the clock thread captured.          *)
(***************************************************************************)
CONSTANTS
  Tempos,
  Blocks,  \* the blocks the allocator hands out for session states
  none     \* no block, no tempo

VARIABLES
  link,     \* the tempo of the Link session
  heap,     \* the session states: the tempo captured and the tempo now
  session, zeroedSession,  \* the states getZeroedLinkOperations captured
  pc,       \* where onSingleTick is
  wanted,   \* the tempo the last event set
  ticking   \* the state the clock thread captured

vars == <<link, heap, session, zeroedSession, pc, wanted, ticking>>

free == [captured |-> none, tempo |-> none]
fresh(b) == heap[b] = free
capture(b) == [heap EXCEPT ![b] = [captured |-> link, tempo |-> link]]
destroy(b) == [heap EXCEPT ![b] = free]
commit(b) == IF heap[b].tempo = heap[b].captured THEN link ELSE heap[b].tempo
setTempo(h, b, r) == [h EXCEPT ![b] = IF @ = free THEN free ELSE [@ EXCEPT !.tempo = r]]
-----------------------------------------------------------------------------
Init ==
  /\ link \in Tempos
  /\ heap = [b \in Blocks |-> free]
  /\ session = none /\ zeroedSession = none /\ ticking = none
  /\ pc = "capture" /\ wanted = none

CaptureSession ==
  /\ pc = "capture" /\ pc' = "zero"
  /\ \E b \in Blocks : fresh(b) /\ session' = b /\ heap' = capture(b)
  /\ UNCHANGED <<link, zeroedSession, wanted, ticking>>

CaptureZeroed ==
  /\ pc = "zero" /\ pc' = "commit"
  /\ \E b \in Blocks : fresh(b) /\ zeroedSession' = b /\ heap' = capture(b)
  /\ UNCHANGED <<link, session, wanted, ticking>>

CommitSession ==
  /\ pc = "commit" /\ pc' = "destroy"
  /\ link' = commit(session) /\ heap' = destroy(session)
  /\ UNCHANGED <<session, zeroedSession, wanted, ticking>>

DestroyZeroed ==
  /\ pc = "destroy" /\ pc' = "events"
  /\ heap' = destroy(zeroedSession)
  /\ UNCHANGED <<link, session, zeroedSession, wanted, ticking>>

\* an event with an onset sets the tempo through the operations' setTempo
EventTempo ==
  /\ pc = "events" /\ wanted = none
  /\ \E r \in Tempos :
       /\ wanted' = r
       /\ heap' = setTempo(setTempo(heap, zeroedSession, r), session, r)
  /\ UNCHANGED <<link, session, zeroedSession, pc, ticking>>

Return ==
  /\ pc = "events" /\ pc' = "done"
  /\ UNCHANGED <<link, heap, session, zeroedSession, wanted, ticking>>

ClockCapture ==
  /\ ticking = none
  /\ \E b \in Blocks : fresh(b) /\ ticking' = b /\ heap' = capture(b)
  /\ UNCHANGED <<link, session, zeroedSession, pc, wanted>>

ClockCommit ==
  /\ ticking # none /\ ticking' = none
  /\ link' = commit(ticking) /\ heap' = destroy(ticking)
  /\ UNCHANGED <<session, zeroedSession, pc, wanted>>

SingleTick == CaptureSession \/ CaptureZeroed \/ CommitSession \/ DestroyZeroed \/ EventTempo \/ Return
Next == SingleTick \/ ClockCapture \/ ClockCommit
Spec == Init /\ [][Next]_vars
-----------------------------------------------------------------------------
\* onSingleTick's comment: "Tempo changes will be applied".  Once the call returned and the clock
\* thread holds no session state, the tempo an event of the pattern set is the session's.
TempoApplied == pc = "done" /\ ticking = none /\ wanted # none => link = wanted
=============================================================================
