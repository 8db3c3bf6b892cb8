------------------------------ MODULE MCStream ------------------------------
(***************************************************************************)
(* Instances of Stream: one OSC controller thread and one interpreter.     *)
(***************************************************************************)
EXTENDS Stream

CONSTANTS osc, ui, d1, d2, good, bad, raw, late, id, broken

on(op, ks) == [op |-> op, ids |-> ks]
play1(op, k, p) == [op |-> op, ids |-> {k}, pat |-> p]
set(v) == [op |-> "set", val |-> v]
once(p) == [op |-> "once", pat |-> p]
all(f) == [op |-> "all", fn |-> f]

\* patterns that never throw: updates of the play map and of the ValueMap by every thread
soundCalls ==
  [t \in {osc, ui} |->
     IF t = osc THEN {on("mute", {d1}), on("unmute", {d1, d2}), on("silence", {d1, d2}), set(1)}
     ELSE {play1("replace", d1, good), play1("replace", d2, good), set(2), once(good)}]

\* transitions, patterns that throw when evaluated, and patterns that throw in a tick
throwCalls ==
  [t \in {osc, ui} |->
     IF t = osc THEN {on("mute", {d1})}
     ELSE {play1("replace", d1, p) : p \in {bad, late}}
          \cup {play1("transition", d1, raw), play1("overlay", d1, raw), once(late), all(broken), all(id)}]

\* patterns that cannot be evaluated, by a replacement and by a transition
rawCalls ==
  [t \in {osc, ui} |-> IF t = osc THEN {on("mute", {d1})} ELSE {play1("replace", d1, bad), play1("transition", d1, raw)}]

\* a pattern that throws in a tick
lateCalls == [t \in {osc, ui} |-> IF t = osc THEN {on("mute", {d1})} ELSE {play1("replace", d1, late)}]
=============================================================================
