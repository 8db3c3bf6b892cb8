--------------------------- MODULE MCTripleBuffer ---------------------------
(* Two values and a torn slot. *)
EXTENDS TripleBuffer
=============================================================================
