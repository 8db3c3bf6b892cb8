------------------------------ MODULE Service ------------------------------
(***************************************************************************)
(* What tidal-listener promises its clients (its README's protocol): the   *)
(* requests are taken one by one, in the order in which they arrive, and   *)
(* each gets one answer, computed from that request, before the next is    *)
(* looked at.                                                              *)
(***************************************************************************)
EXTENDS Sequences

CONSTANT Texts  \* the statements, expressions and paths the requests carry

Request == [kind : {"eval", "type", "load", "ping", "cps", "other"}, text : Texts]
nobody == [kind |-> "nobody"]  \* no request

VARIABLES
  inbox,    \* the requests that arrived
  current,  \* the request being worked on
  reply     \* the last reply sent: to which request, and computed from which

\* how a request may be answered: the last part of the reply's OSC path
promised(kind) ==
  CASE kind = "eval" -> {"value", "ok", "error"}
    [] kind = "type" -> {"type", "error"}
    [] kind = "load" -> {"ok", "error"}
    [] kind = "ping" -> {"pong"}
    [] kind = "cps"  -> {"cps"}
    [] OTHER -> {}
answers(r) == [to : {r}, from : {r}, con : promised(r.kind)]
-----------------------------------------------------------------------------
Init == inbox = << >> /\ current = nobody /\ reply = nobody

Arrive == \E r \in Request : inbox' = Append(inbox, r) /\ UNCHANGED <<current, reply>>

Accept ==
  /\ current = nobody /\ inbox # << >>
  /\ current' = Head(inbox) /\ inbox' = Tail(inbox)
  /\ UNCHANGED reply

\* a message the service does not know is dropped
Answer ==
  /\ current \in Request /\ current' = nobody
  /\ \/ reply' \in answers(current)
     \/ current.kind = "other" /\ reply' = reply
  /\ UNCHANGED inbox

Next == Arrive \/ Accept \/ Answer
Spec == Init /\ [][Next]_<<inbox, current, reply>>
=============================================================================
