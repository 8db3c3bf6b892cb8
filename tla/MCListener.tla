----------------------------- MODULE MCListener -----------------------------
(***************************************************************************)
(* Instances of Listener: a client that sends at most Capacity requests    *)
(* ahead, and two texts, so that an answer can be somebody else's.         *)
(***************************************************************************)
EXTENDS Listener
=============================================================================
