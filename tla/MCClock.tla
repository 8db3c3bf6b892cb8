------------------------------ MODULE MCClock ------------------------------
(***************************************************************************)
(* An instance of Clock.  The defaults (a frame of 1/20 s, 3/10 s ahead,   *)
(* 10 ticks to skip) are scaled to a frame of 4, three frames ahead and a  *)
(* smaller number of ticks to skip, so that the clock skips at its start   *)
(* and after every setClock.                                               *)
(***************************************************************************)
EXTENDS Clock
=============================================================================
