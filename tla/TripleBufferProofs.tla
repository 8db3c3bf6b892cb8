------------------------- MODULE TripleBufferProofs -------------------------
(***************************************************************************)
(* For every set of values and any number of writes: no slot has two       *)
(* owners, no torn value is read, and the buffer implements Register.      *)
(***************************************************************************)
EXTENDS TripleBuffer, TLAPS

\* A slot is torn only while the writer, who owns it, copies into it; and the reader exchanges only
\* after it found a new value, which nobody but itself takes away.
Whole ==
  /\ \A i \in Index : mBuffers[i] = Torn => i = mWriteIndex /\ writer = "copying"
  /\ reader = "exchange" => mState.new

IInv == TypeOK /\ Distinct /\ Whole

\* A slot that is not being written is whole.
LEMMA SlotWhole ==
  ASSUME TypeOK, Whole, NEW i \in Index, i # mWriteIndex \/ writer # "copying"
  PROVE  mBuffers[i] \in Value
BY DEF TypeOK, Whole

\* The invariant holds at the start.
LEMMA InitIInv == Init => IInv
<1> SUFFICES ASSUME Init PROVE IInv
  OBVIOUS
<1>1. PICK v \in Value : mBuffers = [i \in Index |-> v] /\ value = v /\ taken = v
  BY DEF Init
<1>2. TypeOK
  <2>1. mState \in [back : Index, new : BOOLEAN]
    BY DEF Init, Index, makeState
  <2>2. mReadIndex \in Index /\ mWriteIndex \in Index
    BY DEF Init, Index
  <2>3. mBuffers \in [Index -> Value \cup {Torn}] /\ value \in Value /\ taken \in Value
    BY <1>1
  <2> QED
    BY <2>1, <2>2, <2>3 DEF Init, TypeOK
<1>3. Distinct
  BY DEF Init, Distinct, makeState
<1>4. Whole
  BY <1>1, TornAssumption DEF Init, Whole, Index
<1> QED
  BY <1>2, <1>3, <1>4 DEF IInv

\* The writer gives away a slot that is whole and gets the one in the middle.
LEMMA WriterStep == ASSUME IInv, (\E v \in Value : BeginWrite(v)) \/ write PROVE IInv'
<1> USE DEF IInv
<1>1. ASSUME NEW v \in Value, BeginWrite(v) PROVE IInv'
  <2>1. TypeOK'
    BY <1>1 DEF BeginWrite, TypeOK
  <2>2. Distinct'
    BY <1>1 DEF BeginWrite, Distinct
  <2>3. Whole'
    BY <1>1 DEF BeginWrite, Whole, TypeOK
  <2> QED
    BY <2>1, <2>2, <2>3
<1>2. CASE EndWrite
  <2>1. TypeOK'
    BY <1>2 DEF EndWrite, TypeOK
  <2>2. Distinct'
    BY <1>2 DEF EndWrite, Distinct
  <2>3. Whole'
    BY <1>2, TornAssumption DEF EndWrite, Whole, TypeOK
  <2> QED
    BY <2>1, <2>2, <2>3
<1>3. CASE ExchangeWrite
  <2>1. TypeOK'
    BY <1>3 DEF ExchangeWrite, TypeOK, makeState
  <2>2. Distinct'
    BY <1>3 DEF ExchangeWrite, Distinct, TypeOK, makeState
  <2>3. Whole'
    BY <1>3 DEF ExchangeWrite, Whole, TypeOK, makeState
  <2> QED
    BY <2>1, <2>2, <2>3
<1>4. CASE Invoke
  BY <1>4 DEF Invoke, buffer, TypeOK, Distinct, Whole
<1> QED
  BY <1>1, <1>2, <1>3, <1>4 DEF write

\* The reader exchanges its slot for the one in the middle, which is whole.
LEMMA ReaderStep == ASSUME IInv, readNew PROVE IInv'
<1> USE DEF IInv
<1>1. CASE Load
  BY <1>1 DEF Load, buffer, TypeOK, Distinct, Whole
<1>2. CASE ExchangeRead
  <2>1. TypeOK'
    BY <1>2 DEF ExchangeRead, TypeOK, makeState
  <2>2. Distinct'
    BY <1>2 DEF ExchangeRead, Distinct, TypeOK, makeState
  <2>3. Whole'
    BY <1>2 DEF ExchangeRead, Whole, TypeOK, makeState
  <2> QED
    BY <2>1, <2>2, <2>3
<1>3. CASE Copy
  <2>1. mBuffers[mReadIndex] \in Value
    BY SlotWhole DEF TypeOK, Distinct
  <2> QED
    BY <1>3, <2>1 DEF Copy, buffer, TypeOK, Distinct, Whole
<1> QED
  BY <1>1, <1>2, <1>3 DEF readNew

\* Every step keeps the invariant.
LEMMA Inductive == IInv /\ [Next]_tvars => IInv'
<1> SUFFICES ASSUME IInv, [Next]_tvars PROVE IInv'
  OBVIOUS
<1>1. CASE (\E v \in Value : BeginWrite(v)) \/ write
  BY <1>1, WriterStep
<1>2. CASE run
  BY <1>2 DEF run, Dispatch, Wait, buffer, IInv, TypeOK, Distinct, Whole
<1>3. CASE readNew
  BY <1>3, ReaderStep
<1>4. CASE UNCHANGED tvars
  BY <1>4 DEF tvars, buffer, IInv, TypeOK, Distinct, Whole
<1> QED
  BY <1>1, <1>2, <1>3, <1>4 DEF Next

\* Every variable keeps its type: no torn value is ever returned by readNew.
THEOREM BufferTypeCorrect == Spec => []TypeOK
<1>1. IInv => TypeOK
  BY DEF IInv
<1> QED
  BY InitIInv, Inductive, <1>1, PTL DEF Spec

\* Writer and reader never own the same slot.
THEOREM OneOwner == Spec => []Distinct
<1>1. IInv => Distinct
  BY DEF IInv
<1> QED
  BY InitIInv, Inductive, <1>1, PTL DEF Spec
-----------------------------------------------------------------------------
\* A buffer starts as a register does.
LEMMA InitRegister == Init => Reg!Init
<1> SUFFICES ASSUME Init PROVE Reg!Init
  OBVIOUS
<1>1. PICK v \in Value : mBuffers = [i \in Index |-> v]
  BY DEF Init
<1>2. mBuffers[mReadIndex] = v /\ mState.new = FALSE
  BY <1>1 DEF Init, Index, makeState
<1> QED
  BY <1>2 DEF Reg!Init

\* a step that leaves the two shared slots and their owners alone
LEMMA Stutter ==
  ASSUME IInv, UNCHANGED <<mState, mReadIndex>>,
         mBuffers'[mReadIndex] = mBuffers[mReadIndex], mBuffers'[mState.back] = mBuffers[mState.back]
  PROVE  UNCHANGED Reg!rvars
BY DEF Reg!rvars

\* The writer's exchange is a write, the reader's a read, and every other step stutters.
LEMMA StepRegister == IInv /\ [Next]_tvars => [Reg!Write \/ Reg!ReadNew]_(Reg!rvars)
<1> SUFFICES ASSUME IInv, [Next]_tvars PROVE [Reg!Write \/ Reg!ReadNew]_(Reg!rvars)
  OBVIOUS
<1> USE DEF IInv
<1>1. ASSUME NEW v \in Value, BeginWrite(v) PROVE UNCHANGED Reg!rvars
  BY <1>1, Stutter DEF BeginWrite, TypeOK, Distinct
<1>2. CASE EndWrite
  BY <1>2, Stutter DEF EndWrite, TypeOK, Distinct
<1>3. CASE ExchangeWrite
  <2>1. mBuffers[mWriteIndex] \in Value
    BY <1>3, SlotWhole DEF ExchangeWrite, TypeOK
  <2>2. mState'.new /\ mState'.back = mWriteIndex /\ UNCHANGED <<mBuffers, mReadIndex>>
    BY <1>3 DEF ExchangeWrite, makeState
  <2>3. Reg!Write
    BY <2>1, <2>2 DEF Reg!Write
  <2> QED
    BY <2>3
<1>4. CASE ExchangeRead
  <2>1. mState.new
    BY <1>4 DEF ExchangeRead, Whole
  <2>2. mState'.new = FALSE /\ mReadIndex' = mState.back /\ UNCHANGED mBuffers
    BY <1>4 DEF ExchangeRead, makeState
  <2>3. Reg!ReadNew
    BY <2>1, <2>2 DEF Reg!ReadNew
  <2> QED
    BY <2>3
<1>5. CASE Invoke \/ run \/ Load \/ Copy \/ UNCHANGED tvars
  <2>1. UNCHANGED buffer
    BY <1>5 DEF Invoke, run, Dispatch, Wait, Load, Copy, tvars
  <2> QED
    BY <2>1, Stutter DEF buffer
<1> QED
  BY <1>1, <1>2, <1>3, <1>4, <1>5 DEF Next, write, readNew

\* The triple buffer implements the register: what is read is what was written last, and is read once.
THEOREM BufferImplementsRegister == Spec => ImplementsRegister
BY InitIInv, Inductive, InitRegister, StepRegister, PTL DEF Spec, ImplementsRegister, Reg!Spec
=============================================================================
