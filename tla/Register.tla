------------------------------ MODULE Register ------------------------------
(***************************************************************************)
(* What TripleBuffer promises: a register of which one thread writes and   *)
(* another reads the last value, neither waiting for the other, and which  *)
(* knows whether its value is new to the reader.                           *)
(***************************************************************************)
CONSTANT Value
VARIABLES reg,    \* the last value written
          fresh,  \* it has not been read
          seen    \* the last value read

rvars == <<reg, fresh, seen>>

Init == \E v \in Value : reg = v /\ seen = v /\ fresh = FALSE

Write == \E v \in Value : reg' = v /\ fresh' = TRUE /\ UNCHANGED seen

ReadNew == fresh /\ seen' = reg /\ fresh' = FALSE /\ UNCHANGED reg

Spec == Init /\ [][Write \/ ReadNew]_rvars
=============================================================================
