------------------------------ MODULE PlayMap ------------------------------
(***************************************************************************)
(* What a stream promises about its two shared maps: every operation of    *)
(* the library is one atomic step on them.  Module Stream, where each      *)
(* operation is a sequence of MVar steps of some thread, is checked        *)
(* against this one.                                                       *)
(***************************************************************************)
EXTENDS PlayMapOps

VARIABLES
  play,   \* the PlayMap
  state   \* the ValueMap: one controller key and one key stateful patterns count in
-----------------------------------------------------------------------------
Init == play = emptyMap /\ state \in [ctrl : Values, count : {0}]

Replace(k) == \E p \in Patterns : play' = updatePattern(play, k, p) /\ UNCHANGED state
Mute(ks) == \E b \in BOOLEAN : play' = muted(play, ks, b) /\ UNCHANGED state
Solo(ks) == \E b \in BOOLEAN : play' = soloed(play, ks, b) /\ UNCHANGED state
Silence(ks) == play' = silenced(play, ks) /\ UNCHANGED state
Rollback == play' = setPreviousPatternOrSilence(play) /\ UNCHANGED state
Transition(k) ==
  \E p \in Patterns, flag \in BOOLEAN :
    play' \in transitioned(play, k, flag, untagged(p)) /\ UNCHANGED state
Set == \E v \in Values : state' = ctrlSet(state, v) /\ UNCHANGED play
Tick == state' \in ticked(state) /\ UNCHANGED play

Next ==
  \/ \E k \in Ids : Replace(k) \/ Transition(k)
  \/ \E ks \in SUBSET Ids : Mute(ks) \/ Solo(ks) \/ Silence(ks)
  \/ Rollback \/ Set \/ Tick

vars == <<play, state>>
Spec == Init /\ [][Next]_vars
=============================================================================
