----------------------------- MODULE Timelines -----------------------------
(***************************************************************************)
(* The arithmetic of Ableton Link: beats and time, the phase of a beat,    *)
(* and the translation between a client's timeline and its session's.      *)
(*                                                                         *)
(* Beats are counted in 1/Unit beats (1/1000000 in the code), times in     *)
(* clock ticks (microseconds) and a tempo in ticks per beat, which is what *)
(* Tempo::microsPerBeat rounds it to and what goes over the network.       *)
(* Clocks advance at the same rate, so that a GhostXForm is its intercept: *)
(* MeasurementService makes no other.                                      *)
(***************************************************************************)
EXTENDS Integers

CONSTANTS Unit,      \* parts of a beat
          Fastest,   \* ticks per beat at 999 bpm
          Slowest    \* ticks per beat at 20 bpm

ASSUME UnitAssumption == Unit \in Nat \ {0}
ASSUME TempoAssumption == Fastest \in Nat \ {0} /\ Slowest \in Nat /\ Fastest <= Slowest

Timeline == [tempo : Nat \ {0}, beatOrigin : Int, timeOrigin : Int]
timeline(m, b, t) == [tempo |-> m, beatOrigin |-> b, timeOrigin |-> t]

\* llround(n / d) for d > 0: to the nearest integer, halves away from zero
llround(n, d) == IF n >= 0 THEN (2 * n + d) \div (2 * d) ELSE -((d - 2 * n) \div (2 * d))

microsToBeats(m, t) == llround(t * Unit, m)
beatsToMicros(m, b) == llround(b * m, Unit)

toBeats(tl, t) == tl.beatOrigin + microsToBeats(tl.tempo, t - tl.timeOrigin)
fromBeats(tl, b) == tl.timeOrigin + beatsToMicros(tl.tempo, b - tl.beatOrigin)

\* mutant of clampTempo: only tempos that are too slow
clampTempoSlow(tl) == [tl EXCEPT !.tempo = IF @ > Slowest THEN Slowest ELSE @]

clampTempo(tl) ==
  [tl EXCEPT !.tempo = IF @ < Fastest THEN Fastest ELSE IF @ > Slowest THEN Slowest ELSE @]

hostToGhost(x, t) == t + x
ghostToHost(x, t) == t - x
-----------------------------------------------------------------------------
abs(n) == IF n < 0 THEN -n ELSE n
modulo(b, q) == IF q = 0 THEN 0 ELSE b % q

\* the phase of a beat, computed above zero because the remainder of the code is not
\* mathematical for negative numbers
phase(b, q) == IF q = 0 THEN 0 ELSE modulo(b + ((abs(b) + q) \div q) * q, q)

nextPhaseMatch(x, target, q) == x + modulo(phase(target, q) - phase(x, q) + q, q)
closestPhaseMatch(x, target, q) == nextPhaseMatch(x - llround(q, 2), target, q)

toPhaseEncodedBeats(tl, t, q) ==
  closestPhaseMatch(toBeats(tl, t), toBeats(tl, t) - tl.beatOrigin, q)

fromPhaseEncodedBeats(tl, b, q) ==
  LET fromOrigin == b - tl.beatOrigin
      originOffset == fromOrigin - phase(fromOrigin, q)
      inverse == closestPhaseMatch(q - phase(fromOrigin, q), q - phase(b, q), q)
  IN  fromBeats(tl, tl.beatOrigin + originOffset + q - inverse)
-----------------------------------------------------------------------------
\* mutant of updateClientTimelineFromSession: the beats start over at the session's beat zero
updateClientTimelineFromSessionZero(client, session, t, x) ==
  timeline(session.tempo, client.beatOrigin, ghostToHost(x, fromBeats(session, 0)))

\* Beat zero of the session is the origin of every client's grid: the client keeps its beats
\* and is anchored there.
updateClientTimelineFromSession(client, session, t, x) ==
  LET temp == timeline(session.tempo, toBeats(client, t), t)
      hostBeatZero == ghostToHost(x, fromBeats(session, 0))
  IN  timeline(temp.tempo, toBeats(temp, hostBeatZero), hostBeatZero)

\* The session has to change only for another tempo or another grid, and then gets a greater
\* beat origin, by which it wins over the timeline it replaces.
updateSessionTimelineFromClient(session, client, t, x) ==
  LET ghostBeat0 == hostToGhost(x, client.timeOrigin)
      beat == toBeats(session, hostToGhost(x, t))
      origin == IF beat > session.beatOrigin THEN beat ELSE session.beatOrigin + 1
  IN  IF toBeats(session, ghostBeat0) = 0 /\ client.tempo = session.tempo THEN session
      ELSE timeline(client.tempo, origin, fromBeats(timeline(client.tempo, 0, ghostBeat0), origin))

shiftClientTimeline(client, shift) ==
  [client EXCEPT !.timeOrigin = @ - (fromBeats(client, shift) - fromBeats(client, 0))]
-----------------------------------------------------------------------------
\* what an application does to the timeline it captured: another tempo from t on, ...
setTempo(tl, m, t) ==
  LET desired == clampTempo(timeline(m, toBeats(tl, t), t))
  IN  [tl EXCEPT !.tempo = desired.tempo, !.timeOrigin = fromBeats(desired, tl.beatOrigin)]

\* ... beat b at time t, for everybody, first as close as its phase and then exactly, ...
forceBeatAtTimeImpl(tl, b, t, q) ==
  LET current == toPhaseEncodedBeats(tl, t, q)
      closestInPhase == closestPhaseMatch(current, b, q)
      shifted == shiftClientTimeline(tl, closestInPhase - current)
  IN  [shifted EXCEPT !.beatOrigin = @ + b - closestInPhase]

\* mutant of forceBeatAtTime: one try
forceBeatAtTimeOnce(tl, b, t, q) == forceBeatAtTimeImpl(tl, b, t, q)

forceBeatAtTime(tl, b, t, q) ==
  LET forced == forceBeatAtTimeImpl(tl, b, t, q)
  IN  IF toPhaseEncodedBeats(forced, t, q) > b THEN forceBeatAtTimeImpl(forced, b, t + 1, q)
      ELSE forced

\* ... or, with others in the session, at the next time that has the phase of b
requestBeatAtTime(tl, b, t, q, connected) ==
  forceBeatAtTime(tl, b,
    IF connected
    THEN fromPhaseEncodedBeats(tl, nextPhaseMatch(toPhaseEncodedBeats(tl, t, q), b, q), q)
    ELSE t, q)
=============================================================================
