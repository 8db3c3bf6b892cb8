----------------------------- MODULE MCDiscovery ----------------------------
(***************************************************************************)
(* Two nodes, among others that are not followed: a broadcast period lasts *)
(* two units of time, a state lives for two periods, and the padding is    *)
(* one unit.                                                               *)
(***************************************************************************)
EXTENDS LinkDiscovery
=============================================================================
