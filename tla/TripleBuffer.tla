---------------------------- MODULE TripleBuffer ----------------------------
(***************************************************************************)
(* How the audio thread hands a value to the Link thread without locks: a  *)
(* TripleBuffer, of whose three slots the writer owns one, the reader one  *)
(* and mState, an atomic, the third, and a LockFreeCallbackDispatcher,     *)
(* whose own thread posts the handler that reads.                          *)
(*                                                                         *)
(* A slot is copied in more than one step, and Torn while it is written.   *)
(* Every operation on mState acquires and releases, so that the steps      *)
(* interleave.  Any number of values is written.                           *)
(***************************************************************************)
EXTENDS Naturals

CONSTANTS Value, Torn

ASSUME TornAssumption == Torn \notin Value

VARIABLES mState, mReadIndex, mWriteIndex, mBuffers,
          writer, value,     \* the call of write, and what it writes
          reader, taken,     \* the call of readNew, and what the last one returned
          dispatcher, posted \* the dispatcher thread, and whether the handler waits to be run

buffer == <<mState, mReadIndex, mWriteIndex, mBuffers>>
tvars == <<buffer, writer, value, reader, taken, dispatcher, posted>>

Index == 0 .. 2
makeState(i, new) == [back |-> i, new |-> new]

Init ==
  /\ \E v \in Value : mBuffers = [i \in Index |-> v] /\ value = v /\ taken = v
  /\ mState = makeState(1, FALSE) /\ mReadIndex = 0 /\ mWriteIndex = 2
  /\ writer = "idle" /\ reader = "idle"
  /\ dispatcher = "waiting" /\ posted = FALSE
-----------------------------------------------------------------------------
\* write, in the audio thread: the copy into its slot, ...
BeginWrite(v) ==
  /\ writer = "idle"
  /\ writer' = "copying" /\ value' = v
  /\ mBuffers' = [mBuffers EXCEPT ![mWriteIndex] = Torn]
  /\ UNCHANGED <<mState, mReadIndex, mWriteIndex, reader, taken, dispatcher, posted>>

EndWrite ==
  /\ writer = "copying"
  /\ writer' = "exchange"
  /\ mBuffers' = [mBuffers EXCEPT ![mWriteIndex] = value]
  /\ UNCHANGED <<mState, mReadIndex, mWriteIndex, value, reader, taken, dispatcher, posted>>

\* ... the exchange, ...
ExchangeWrite ==
  /\ writer = "exchange"
  /\ writer' = "invoke"
  /\ mState' = makeState(mWriteIndex, TRUE)
  /\ mWriteIndex' = mState.back
  /\ UNCHANGED <<mReadIndex, mBuffers, value, reader, taken, dispatcher, posted>>

\* ... and invoke: the dispatcher is notified, which is lost unless it waits
Invoke ==
  /\ writer = "invoke"
  /\ writer' = "idle"
  /\ dispatcher' = IF dispatcher = "waiting" THEN "notified" ELSE dispatcher
  /\ UNCHANGED <<buffer, value, reader, taken, posted>>
-----------------------------------------------------------------------------
\* mutant of Dispatch: wait instead of wait_for
DispatchNotified ==
  /\ dispatcher = "notified"
  /\ dispatcher' = "called" /\ posted' = TRUE
  /\ UNCHANGED <<buffer, writer, value, reader, taken>>

\* run: notified, or after the fallback period, the callback posts the handler
Dispatch ==
  /\ dispatcher \in {"notified", "waiting"}
  /\ dispatcher' = "called" /\ posted' = TRUE
  /\ UNCHANGED <<buffer, writer, value, reader, taken>>

Wait ==
  /\ dispatcher = "called"
  /\ dispatcher' = "waiting"
  /\ UNCHANGED <<buffer, writer, value, reader, taken, posted>>
-----------------------------------------------------------------------------
\* readNew, in the Link thread: whether there is something new, ...
Load ==
  /\ reader = "idle" /\ posted
  /\ posted' = FALSE
  /\ reader' = IF mState.new THEN "exchange" ELSE "idle"
  /\ UNCHANGED <<buffer, writer, value, taken, dispatcher>>

\* mutant of ExchangeRead: the slot is returned without the flag being cleared
ExchangeReadNew ==
  /\ reader = "exchange"
  /\ reader' = "copying"
  /\ mState' = makeState(mReadIndex, TRUE)
  /\ mReadIndex' = mState.back
  /\ UNCHANGED <<mWriteIndex, mBuffers, writer, value, taken, dispatcher, posted>>

\* mutant of ExchangeRead: a load and a store instead of the exchange, another write in between
ExchangeReadLoad ==
  /\ reader = "exchange"
  /\ reader' = "copying"
  /\ mState' = [mState EXCEPT !.new = FALSE]
  /\ mReadIndex' = mState.back
  /\ UNCHANGED <<mWriteIndex, mBuffers, writer, value, taken, dispatcher, posted>>

\* ... the exchange, by which a write since then is read as well, ...
ExchangeRead ==
  /\ reader = "exchange"
  /\ reader' = "copying"
  /\ mState' = makeState(mReadIndex, FALSE)
  /\ mReadIndex' = mState.back
  /\ UNCHANGED <<mWriteIndex, mBuffers, writer, value, taken, dispatcher, posted>>

\* ... and the copy out of the slot
Copy ==
  /\ reader = "copying"
  /\ reader' = "idle"
  /\ taken' = mBuffers[mReadIndex]
  /\ UNCHANGED <<buffer, writer, value, dispatcher, posted>>
-----------------------------------------------------------------------------
write == EndWrite \/ ExchangeWrite \/ Invoke
run == Dispatch \/ Wait
readNew == Load \/ ExchangeRead \/ Copy

Next == (\E v \in Value : BeginWrite(v)) \/ write \/ run \/ readNew

\* write never waits; the dispatcher's timeout fires, and the io context runs what is posted
Fairness == WF_tvars(write) /\ WF_tvars(run) /\ WF_tvars(readNew)

Spec == Init /\ [][Next]_tvars
LiveSpec == Spec /\ Fairness
-----------------------------------------------------------------------------
\* Every variable has a value of its type; the one slot that may be torn is the writer's, during a
\* write.
TypeOK ==
  /\ mState \in [back : Index, new : BOOLEAN]
  /\ mReadIndex \in Index /\ mWriteIndex \in Index
  /\ mBuffers \in [Index -> Value \cup {Torn}]
  /\ writer \in {"idle", "copying", "exchange", "invoke"} /\ value \in Value
  /\ reader \in {"idle", "exchange", "copying"} /\ taken \in Value
  /\ dispatcher \in {"waiting", "notified", "called"} /\ posted \in BOOLEAN

\* Writer and reader never share a slot, however their exchanges interleave: each of the three has
\* one owner.
Distinct ==
  /\ mReadIndex # mWriteIndex
  /\ mState.back # mReadIndex
  /\ mState.back # mWriteIndex

\* The buffer is a register: what is read is the value written last, whole and once.
Reg == INSTANCE Register
  WITH reg <- IF mState.new THEN mBuffers[mState.back] ELSE mBuffers[mReadIndex],
       fresh <- mState.new,
       seen <- mBuffers[mReadIndex]
ImplementsRegister == Reg!Spec

\* What was written is read in the end, although the dispatcher misses its notification when it is
\* not waiting: its timeout posts the handler.
WritesTaken == mState.new ~> ~mState.new
=============================================================================
