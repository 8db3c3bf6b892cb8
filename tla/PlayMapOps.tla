----------------------------- MODULE PlayMapOps -----------------------------
(***************************************************************************)
(* The two maps a Tidal stream shares between its threads, and what each   *)
(* library operation (Stream/UI.hs, Stream/Process.hs, Transition.hs) does *)
(* to them, as functions: the PlayMap (which pattern plays under which id, *)
(* its mute and solo flags, its history) and the ValueMap handed to every  *)
(* query.                                                                  *)
(*                                                                         *)
(* A ControlPattern is abstracted to the set of sources it is made of:     *)
(* silence is the empty set, a transition may mix several patterns.  A     *)
(* source is an evaluated pattern, with the tags _id_ and _t_pattern that  *)
(* updatePattern gives it or without them.                                 *)
(***************************************************************************)
EXTENDS Naturals, Sequences

CONSTANTS
  Ids,        \* pattern ids (d1, d2, ...), the PatId keys of the PlayMap
  Patterns,   \* the patterns the performer evaluates
  Values,     \* values an external controller or streamSet writes
  Wrap        \* the tick counter kept in the ValueMap counts modulo Wrap

ASSUME PlayMapAssumption == Wrap \in Nat \ {0}

silence == {}
Sources == [pat : Patterns, tags : BOOLEAN]
Sounds == SUBSET Sources
untagged(p) == {[pat |-> p, tags |-> FALSE]}
tagged(p) == {[pat |-> p, tags |-> TRUE]}
patterns(s) == {x.pat : x \in s}

PlayState == [psPattern : Sounds, psMute : BOOLEAN, psSolo : BOOLEAN, psHistory : Seq(Sounds)]
isPlayMap(m) == DOMAIN m \subseteq Ids /\ m \in [DOMAIN m -> PlayState]
ValueMaps == [ctrl : Values, count : 0 .. Wrap - 1]
-----------------------------------------------------------------------------
(* The updates of a play map, as functions of the map.                     *)

emptyMap == [i \in {} |-> silence]
insert(pMap, k, ps) == [i \in DOMAIN pMap \cup {k} |-> IF i = k THEN ps ELSE pMap[i]]

\* mutant of updatePattern: the flags of the id are reset
updatePatternFresh(pMap, k, pat) ==
  insert(pMap, k,
    [psPattern |-> tagged(pat), psMute |-> FALSE, psSolo |-> FALSE,
     psHistory |-> IF k \in DOMAIN pMap THEN <<untagged(pat)>> \o pMap[k].psHistory ELSE <<tagged(pat)>>])

\* streamReplace: the tagged pattern plays; a new id has it in its history too, any other gets
\* the pattern without its tags pushed
updatePattern(pMap, k, pat) ==
  insert(pMap, k,
    IF k \in DOMAIN pMap
    THEN [pMap[k] EXCEPT !.psPattern = tagged(pat), !.psHistory = <<untagged(pat)>> \o @]
    ELSE [psPattern |-> tagged(pat), psMute |-> FALSE, psSolo |-> FALSE, psHistory |-> <<tagged(pat)>>])

\* give the ids in ks that exist their new entries; muteAll, hush, ... take all of them
withPatIds(pMap, ks, new) == [i \in DOMAIN pMap |-> IF i \in ks THEN new[i] ELSE pMap[i]]

muted(pMap, ks, b) == withPatIds(pMap, ks, [i \in DOMAIN pMap |-> [pMap[i] EXCEPT !.psMute = b]])
soloed(pMap, ks, b) == withPatIds(pMap, ks, [i \in DOMAIN pMap |-> [pMap[i] EXCEPT !.psSolo = b]])
\* mutant of silenced: the silence is not pushed on the history
silencedOnly(pMap, ks) ==
  withPatIds(pMap, ks, [i \in DOMAIN pMap |-> [pMap[i] EXCEPT !.psPattern = silence]])

silenced(pMap, ks) ==
  withPatIds(pMap, ks, [i \in DOMAIN pMap |-> [pMap[i] EXCEPT !.psPattern = silence, !.psHistory = <<silence>> \o @]])

\* mutant of setPreviousPatternOrSilence: an id with nothing to go back to is left alone
setPreviousPattern(pMap) ==
  [i \in DOMAIN pMap |->
     IF Len(pMap[i].psHistory) >= 2
     THEN [pMap[i] EXCEPT !.psPattern = pMap[i].psHistory[2], !.psHistory = Tail(@)]
     ELSE pMap[i]]

\* every id drops the head of its history and plays the next entry, or silence
setPreviousPatternOrSilence(pMap) ==
  [i \in DOMAIN pMap |->
     IF Len(pMap[i].psHistory) >= 2
     THEN [pMap[i] EXCEPT !.psPattern = pMap[i].psHistory[2], !.psHistory = Tail(@)]
     ELSE [pMap[i] EXCEPT !.psPattern = silence, !.psHistory = <<silence>>]]

\* the history a transition hands to its mapper; flag: the new pattern goes on it for good
transitionState(pMap, k, flag, pat) ==
  LET old == IF k \in DOMAIN pMap THEN pMap[k]
             ELSE [psPattern |-> silence, psMute |-> FALSE, psSolo |-> FALSE, psHistory |-> <<silence>>]
  IN  IF flag THEN [old EXCEPT !.psHistory = <<pat>> \o @] ELSE old

\* a mapper stacks the n newest patterns: none (histpan 0), one (jump, wait), two (xfadeIn, wash,
\* mortalOverlay), or as many as there are
mapped(pats) == {UNION {pats[i] : i \in 1 .. n} : n \in 0 .. Len(pats)}

transitioned(pMap, k, flag, pat) ==
  LET ps == transitionState(pMap, k, flag, pat)
      pats == IF flag THEN ps.psHistory ELSE <<pat>> \o ps.psHistory
  IN  {insert(pMap, k, [ps EXCEPT !.psPattern = s]) : s \in mapped(pats)}

\* the ids playStack stacks: the soloed ones if there is any, else the unmuted ones
hasSolo(pMap) == \E i \in DOMAIN pMap : pMap[i].psSolo
playStack(pMap) == {i \in DOMAIN pMap : IF hasSolo(pMap) THEN pMap[i].psSolo ELSE ~pMap[i].psMute}

\* streamSet and /ctrl write a key; the stateful events of a tick, if any begin in it, step a counter
ctrlSet(m, v) == [m EXCEPT !.ctrl = v]
ticked(m) == {m, [m EXCEPT !.count = (@ + 1) % Wrap]}
=============================================================================
