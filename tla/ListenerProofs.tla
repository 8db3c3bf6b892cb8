--------------------------- MODULE ListenerProofs ---------------------------
(***************************************************************************)
(* Proofs about Listener, for any requests and any number of them waiting. *)
(***************************************************************************)
EXTENDS Listener, TLAPS

\* The two marks for nothing are no request and no response.
LEMMA Marks == nobody \notin Request /\ empty \notin Response
BY DEF nobody, Request, empty, Response

\* The ways a message can end are responses, and act sends each of them on.
LEMMA Outcomes ==
  ASSUME NEW r \in Request, r.kind \in interpreted, NEW con \in outcomes(r.kind)
  PROVE  [con |-> con, from |-> r] \in Response /\ con \in sendable(r.kind)
BY DEF interpreted, outcomes, Response, sendable

\* The initial states are typed and in step.
LEMMA ListenerInit == Init => TypeOK /\ InStep
<1> SUFFICES ASSUME Init PROVE TypeOK /\ InStep OBVIOUS
<1>1. sock \in Seq(Request) BY DEF Init
<1>2. TypeOK BY <1>1 DEF Init, TypeOK
<1> QED BY <1>2 DEF Init, InStep, resting

\* Every step keeps both: the interpreter takes a request only from a loop that waits, and a
\* loop that waits has one request with the interpreter.
LEMMA ListenerStep == TypeOK /\ InStep /\ [Next]_vars => TypeOK' /\ InStep'
<1> SUFFICES ASSUME TypeOK, InStep, [Next]_vars PROVE TypeOK' /\ InStep' OBVIOUS
<1> USE Marks
<1>1. CASE UNCHANGED vars
  BY <1>1 DEF vars, main, TypeOK, InStep, resting, answered
<1>2. CASE Send
  <2>1. sock' \in Seq(Request) BY <1>2 DEF Send, TypeOK
  <2> QED BY <1>2, <2>1 DEF Send, main, TypeOK, InStep, resting, answered
<1>3. CASE Recv
  <2>1. Head(sock) \in Request /\ sock' \in Seq(Request) BY <1>3 DEF Recv, TypeOK
  <2> QED BY <1>3, <2>1 DEF Recv, TypeOK, InStep, resting
<1>4. CASE Direct
  BY <1>4 DEF Direct, TypeOK, InStep, resting
<1>5. CASE PutIn
  BY <1>5 DEF PutIn, TypeOK, InStep, resting
<1>6. CASE TakeOut
  BY <1>6 DEF TakeOut, TypeOK, InStep, resting
<1>7. CASE Boot
  BY <1>7 DEF Boot, main, TypeOK, InStep, resting, answered
<1>8. CASE TakeIn
  BY <1>8 DEF TakeIn, main, TypeOK, InStep, resting
<1>9. CASE Interpret
  <2>1. loop = "take" /\ mIn = nobody /\ job = request /\ mOut = empty
    BY <1>9 DEF Interpret, InStep, resting
  <2>2. request \in Request /\ request.kind \in interpreted BY <2>1 DEF TypeOK
  <2>3. PICK con \in outcomes(request.kind) : response' = [con |-> con, from |-> request]
    BY <1>9, <2>1 DEF Interpret
  <2>4. response' \in Response /\ answered(response)'
    BY <1>9, <2>2, <2>3, Outcomes DEF Interpret, main, answered
  <2> QED BY <1>9, <2>1, <2>4 DEF Interpret, main, TypeOK, InStep
<1>10. CASE PutOut
  <2>1. loop = "take" /\ mIn = nobody /\ answered(response) /\ mOut = empty
    BY <1>10 DEF PutOut, InStep, resting
  <2>2. hint' = "wait" /\ answered(mOut)' /\ mOut' \in Response
    BY <1>10, <2>1 DEF PutOut, main, answered, TypeOK
  <2> QED BY <1>10, <2>1, <2>2 DEF PutOut, main, TypeOK, InStep, resting
<1> QED BY <1>1, <1>2, <1>3, <1>4, <1>5, <1>6, <1>7, <1>8, <1>9, <1>10 DEF Next, act, hintJob

\* The type invariant of the listener.
THEOREM ListenerTypeCorrect == Spec => []TypeOK
<1> QED BY ListenerInit, ListenerStep, PTL DEF Spec

\* The loop and an interpreter that boots never get out of step.
THEOREM NeverOutOfStep == Spec => []InStep
<1> QED BY ListenerInit, ListenerStep, PTL DEF Spec
-----------------------------------------------------------------------------
\* Module Service, seen through the refinement mapping, means the same requests.
LEMMA SameRequests == Protocol!Request = Request /\ Protocol!nobody = nobody
BY DEF Protocol!Request, Request, Protocol!nobody, nobody

\* What the listener sends while in step is an answer the protocol promises.
LEMMA Promised ==
  ASSUME NEW r \in Request, r.kind \in interpreted, NEW con \in outcomes(r.kind)
  PROVE  [to |-> r, from |-> r, con |-> con] \in Protocol!answers(r)
BY DEF interpreted, outcomes, Protocol!answers, Protocol!promised

\* Each step of the two threads is a step of the protocol, or of the interpreter alone.
LEMMA ProtocolStep ==
  TypeOK /\ InStep /\ [Next]_vars => [Protocol!Next]_<<sock, request, reply>>
<1> SUFFICES ASSUME TypeOK, InStep, [Next]_vars
             PROVE  Protocol!Next \/ UNCHANGED <<sock, request, reply>>
  OBVIOUS
<1> USE Marks, SameRequests
<1>1. CASE UNCHANGED vars BY <1>1 DEF vars, main
<1>2. CASE Send
  <2>1. Protocol!Arrive BY <1>2 DEF Send, main, Protocol!Arrive
  <2> QED BY <2>1 DEF Protocol!Next
<1>3. CASE Recv
  <2>1. Protocol!Accept BY <1>3 DEF Recv, TypeOK, Protocol!Accept
  <2> QED BY <2>1 DEF Protocol!Next
<1>4. CASE Direct
  <2>1. request \in Request BY <1>4 DEF Direct, TypeOK
  <2>2. CASE request.kind \in {"ping", "cps"}
    <3>1. reply' \in Protocol!answers(request)
      BY <1>4, <2>2 DEF Direct, Protocol!answers, Protocol!promised
    <3> QED BY <1>4, <2>1, <3>1 DEF Direct, Protocol!Answer, Protocol!Next
  <2>3. CASE request.kind = "other"
    BY <1>4, <2>1, <2>3 DEF Direct, Protocol!Answer, Protocol!Next
  <2>4. request.kind \notin interpreted BY <1>4 DEF Direct, TypeOK
  <2> QED BY <2>1, <2>2, <2>3, <2>4 DEF Request, interpreted
<1>5. CASE TakeOut
  <2>1. request \in Request /\ request.kind \in interpreted BY <1>5 DEF TakeOut, TypeOK
  <2>2. PICK con \in outcomes(request.kind) : mOut = [con |-> con, from |-> request]
    BY <1>5 DEF TakeOut, InStep, answered
  <2>3. mOut.con \in sendable(request.kind) BY <2>1, <2>2, Outcomes
  <2>4. reply' = [to |-> request, from |-> request, con |-> mOut.con]
    BY <1>5, <2>2, <2>3 DEF TakeOut
  <2>5. reply' \in Protocol!answers(request) BY <2>1, <2>2, <2>4, Promised
  <2> QED BY <1>5, <2>1, <2>5 DEF TakeOut, Protocol!Answer, Protocol!Next
<1>6. CASE PutIn \/ Boot \/ TakeIn \/ Interpret \/ PutOut
  BY <1>6 DEF PutIn, Boot, TakeIn, Interpret, PutOut, main
<1> QED BY <1>1, <1>2, <1>3, <1>4, <1>5, <1>6 DEF Next, act, hintJob

\* With an interpreter that boots, the listener implements the protocol for any clients: every
\* request is answered in its turn and with an answer of its own.
THEOREM ImplementsProtocol == Spec => AnsweredInTurn
<1>1. Init => Protocol!Init BY SameRequests DEF Init, Protocol!Init
<1> QED BY <1>1, ListenerInit, ListenerStep, ProtocolStep, PTL DEF Spec, AnsweredInTurn, Protocol!Spec
=============================================================================
