----------------------------- MODULE MCSessions -----------------------------
(***************************************************************************)
(* Two nodes start within SESSION_EPS of each other, the second a little   *)
(* earlier; the one id left for a reset is that of a younger session.      *)
(***************************************************************************)
EXTENDS LinkSessions
firstId == [n \in Nodes |-> n]
age == [i \in Ids |-> <<0, 3, -10>>[i]]
=============================================================================
