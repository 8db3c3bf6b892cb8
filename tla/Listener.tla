------------------------------ MODULE Listener ------------------------------
(***************************************************************************)
(* tidal-listener: the loop that reads OSC messages (Listener.hs) and the  *)
(* thread that runs the Haskell interpreter (Hint.hs).  They hand requests *)
(* and responses to each other through two MVars:                          *)
(*                                                                         *)
(*   mIn    sIn, mMV   an InterpreterMessage for the interpreter           *)
(*   mOut   sOut, rMV  its InterpreterResponse                             *)
(*                                                                         *)
(* GHC is outside.  How a statement ends is a choice; that it ends is      *)
(* assumed: one that runs for ever holds up the loop.  Whether the         *)
(* interpreter boots, which loads the modules and runs the statements of   *)
(* Config.hs, tells Spec from FailingSpec.                                 *)
(***************************************************************************)
EXTENDS Naturals, Sequences

CONSTANTS
  Texts,    \* the statements, expressions and paths the requests carry
  Capacity  \* bound: datagrams waiting in the socket

ASSUME ListenerAssumption == Capacity \in Nat

VARIABLES
  sock,      \* the datagrams in the listening socket
  mIn, mOut, \* the MVars: their content, or empty
  loop,      \* where the loop is
  request,   \* the message it acts on
  hint,      \* where the interpreter thread is
  job,       \* the message the interpreter works on
  response,  \* what it will put into mOut
  reply      \* the last reply sent

main == <<loop, request>>
vars == <<sock, mIn, mOut, main, hint, job, response, reply>>

\* a response names the message it was computed from; a failed boot answers nobody's
Request == [kind : {"eval", "type", "load", "ping", "cps", "other"}, text : Texts]
nobody == [kind |-> "nobody"]
empty == [con |-> "empty"]
Response == [con : {"value", "ok", "type", "error"}, from : Request \cup {nobody}]
interpreted == {"eval", "type", "load"}

\* interpretStatement, interpretType, interpretFile: what they may put, exceptions included
outcomes(kind) ==
  CASE kind = "eval" -> {"value", "ok", "error"}
    [] kind = "type" -> {"type", "error"}
    [] kind = "load" -> {"ok", "error"}

\* the responses act sends on; any other is dropped without a reply
sendable(kind) == IF kind = "type" THEN {"type", "error"} ELSE {"value", "ok", "error"}
-----------------------------------------------------------------------------
Init ==
  /\ sock = << >> /\ mIn = nobody /\ mOut = empty
  /\ loop = "recv" /\ request = nobody
  /\ hint = "boot" /\ job = nobody /\ response = empty
  /\ reply = nobody

\* a client sends a datagram; what the network drops is not a request
Send ==
  /\ Len(sock) < Capacity
  /\ \E r \in Request : sock' = Append(sock, r)
  /\ UNCHANGED <<mIn, mOut, main, hint, job, response, reply>>

Recv ==
  /\ loop = "recv" /\ sock # << >>
  /\ request' = Head(sock) /\ sock' = Tail(sock)
  /\ loop' = IF Head(sock).kind \in interpreted THEN "put" ELSE "direct"
  /\ UNCHANGED <<mIn, mOut, hint, job, response, reply>>

\* /ping and /cps are answered by the loop itself, other messages are reported on the terminal
Direct ==
  /\ loop = "direct" /\ loop' = "recv" /\ request' = nobody
  /\ reply' = CASE request.kind = "ping" -> [to |-> request, from |-> request, con |-> "pong"]
                [] request.kind = "cps"  -> [to |-> request, from |-> request, con |-> "cps"]
                [] OTHER -> reply
  /\ UNCHANGED <<sock, mIn, mOut, hint, job, response>>

PutIn ==
  /\ loop = "put" /\ loop' = "take"
  /\ mIn = nobody /\ mIn' = request
  /\ UNCHANGED <<sock, mOut, request, hint, job, response, reply>>

\* mutant of TakeOut: readMVar instead of takeMVar
TakeOutRead ==
  /\ loop = "take" /\ loop' = "recv" /\ request' = nobody
  /\ mOut # empty
  /\ reply' = IF mOut.con \in sendable(request.kind)
              THEN [to |-> request, from |-> mOut.from, con |-> mOut.con] ELSE reply
  /\ UNCHANGED <<sock, mIn, mOut, hint, job, response>>

\* mutant of TakeOut: a request that ends in an error is tried again
TakeOutRetry ==
  /\ loop = "take" /\ loop' = IF mOut.con = "error" THEN "put" ELSE "recv"
  /\ request' = IF mOut.con = "error" THEN request ELSE nobody
  /\ mOut # empty /\ mOut' = empty
  /\ reply' = IF mOut.con \in sendable(request.kind)
              THEN [to |-> request, from |-> mOut.from, con |-> mOut.con] ELSE reply
  /\ UNCHANGED <<sock, mIn, hint, job, response>>

TakeOut ==
  /\ loop = "take" /\ loop' = "recv" /\ request' = nobody
  /\ mOut # empty /\ mOut' = empty
  /\ reply' = IF mOut.con \in sendable(request.kind)
              THEN [to |-> request, from |-> mOut.from, con |-> mOut.con] ELSE reply
  /\ UNCHANGED <<sock, mIn, hint, job, response>>

\* staticInterpreter loads the modules and runs bootTidal
Boot ==
  /\ hint = "boot" /\ hint' = "wait"
  /\ UNCHANGED <<sock, mIn, mOut, main, job, response, reply>>

\* if that throws, hintJob answers with the error, although nobody asked
BootFails ==
  /\ hint = "boot" /\ hint' = "answer"
  /\ response' = [con |-> "error", from |-> nobody]
  /\ UNCHANGED <<sock, mIn, mOut, main, job, reply>>

\* mutant of TakeIn: readMVar instead of takeMVar
TakeInRead ==
  /\ hint = "wait" /\ hint' = "run"
  /\ mIn # nobody
  /\ job' = mIn
  /\ UNCHANGED <<sock, mIn, mOut, main, response, reply>>

TakeIn ==
  /\ hint = "wait" /\ hint' = "run"
  /\ mIn # nobody /\ mIn' = nobody
  /\ job' = mIn
  /\ UNCHANGED <<sock, mOut, main, response, reply>>

\* whatever the message throws is caught and becomes a response
Interpret ==
  /\ hint = "run" /\ hint' = "answer" /\ job' = nobody
  /\ \E con \in outcomes(job.kind) : response' = [con |-> con, from |-> job]
  /\ UNCHANGED <<sock, mIn, mOut, main, reply>>

\* hintJob starts the interpreter again after a failed boot, interpreterLoop waits for more
PutOut ==
  /\ hint = "answer" /\ hint' = IF response.from = nobody THEN "boot" ELSE "wait"
  /\ mOut = empty /\ mOut' = response /\ response' = empty
  /\ UNCHANGED <<sock, mIn, main, job, reply>>

act == Recv \/ Direct \/ PutIn \/ TakeOut
hintJob == Boot \/ TakeIn \/ Interpret \/ PutOut
Next == Send \/ act \/ hintJob
Spec == Init /\ [][Next]_vars

\* neither thread is starved
LiveSpec == Spec /\ WF_vars(act) /\ WF_vars(hintJob)

\* an interpreter that may fail to boot, now and then or always
FailingSpec ==
  Init /\ [][Next \/ BootFails]_vars /\ WF_vars(act) /\ WF_vars(hintJob \/ BootFails)
-----------------------------------------------------------------------------
TypeOK ==
  /\ sock \in Seq(Request) /\ mIn \in Request \cup {nobody} /\ mOut \in Response \cup {empty}
  /\ loop \in {"recv", "direct", "put", "take"} /\ request \in Request \cup {nobody}
  /\ hint \in {"boot", "wait", "run", "answer"} /\ job \in Request \cup {nobody}
  /\ response \in Response \cup {empty}
  /\ request = nobody <=> loop = "recv"
  /\ loop # "recv" => (loop = "direct" <=> request.kind \notin interpreted)
  /\ hint = "run" <=> job # nobody
  /\ hint = "run" => job.kind \in interpreted
  /\ hint = "answer" => response \in Response

\* The loop and the interpreter are in step: while the loop waits for a response, its request
\* is in mIn, or in the interpreter, or answered, or its response in mOut; when it does not
\* wait, nothing is under way between them.
answered(r) == r \in [con : outcomes(request.kind), from : {request}]
resting == hint \in {"boot", "wait"}
InStep ==
  \/ loop # "take" /\ mIn = nobody /\ resting /\ mOut = empty
  \/ /\ loop = "take"
     /\ \/ mIn = request /\ resting /\ mOut = empty
        \/ mIn = nobody /\ hint = "run" /\ job = request /\ mOut = empty
        \/ mIn = nobody /\ hint = "answer" /\ answered(response) /\ mOut = empty
        \/ mIn = nobody /\ resting /\ answered(mOut)

\* The listener implements the protocol: each request is answered in its turn, with an answer
\* of its own.
Protocol == INSTANCE Service WITH inbox <- sock, current <- request
AnsweredInTurn == Protocol!Spec

\* act's comments: "ask the interpreter to execute a statment", whose value it "will try to show
\* [...] and send [...] back".  The loop does not get stuck on a request to the interpreter.
Responsive == (loop = "put") ~> (loop = "recv")
=============================================================================
