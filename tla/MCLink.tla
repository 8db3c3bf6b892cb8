------------------------------- MODULE MCLink -------------------------------
(***************************************************************************)
(* A beat has 40 parts and lasts 15 to 30 ticks; 10 ticks pass from one    *)
(* instant to the next, so that most times fall between two parts.         *)
(***************************************************************************)
EXTENDS LinkController, TLC

\* the applications put a beat at a time and start; the audio thread changes the tempo, requests a beat
\* with its phase, and stops
edits == {[tempo |-> none, beat |-> {20}, force |-> TRUE, quantum |-> 160, play |-> {TRUE}]}
audioEdits == {[tempo |-> {30}, beat |-> {50}, force |-> FALSE, quantum |-> 160, play |-> {FALSE}]}

Symmetric == Permutations(Apps)
netTimelines == {timeline(14, 400, 7)}
netStartStops == {[isPlaying |-> TRUE, timestamp |-> 25]}
=============================================================================
