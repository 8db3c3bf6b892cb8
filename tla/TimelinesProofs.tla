-------------------------- MODULE TimelinesProofs --------------------------
(***************************************************************************)
(* The arithmetic of Link's beats, times and phases, for any resolution of *)
(* beats, any tempos and any quantum.                                      *)
(***************************************************************************)
EXTENDS Timelines, TLAPS

-----------------------------------------------------------------------------
(***************************************************************************)
(* Rounding.                                                               *)
(***************************************************************************)
Positive == Nat \ {0}

\* Half a part is rounded down to none.
LEMMA HalfOf == ASSUME NEW d \in Positive PROVE d \div (2 * d) = 0
<1> USE DEF Positive
<1> DEFINE e == 2 * d
           k == d \div e
<1>1. e \in Nat \ {0} /\ d < e BY DEF Positive
<1>2. k \in Int /\ e * k <= d /\ d < e * (k + 1) BY <1>1
<1> HIDE DEF k, e
<1>3. ~(k >= 1)
  <2> SUFFICES ASSUME k >= 1 PROVE FALSE OBVIOUS
  <2>1. e * k >= e BY <1>1, <1>2
  <2> QED BY <1>1, <1>2, <2>1
<1>4. ~(k <= -1)
  <2> SUFFICES ASSUME k <= -1 PROVE FALSE OBVIOUS
  <2>1. e * (k + 1) <= 0 BY <1>1, <1>2
  <2> QED BY <1>1, <1>2, <2>1
<1>5. k = 0 BY <1>2, <1>3, <1>4
<1> QED BY <1>5 DEF k, e

\* llround rounds halves away from zero, so that it is odd.
LEMMA Rounded ==
  ASSUME NEW n \in Int, NEW d \in Positive
  PROVE  llround(n, d) \in Int /\ llround(-n, d) = -llround(n, d)
<1>1. 2 * d \in Positive /\ 2 * n + d \in Int /\ d - 2 * n \in Int BY DEF Positive
<1>2. (2 * n + d) \div (2 * d) \in Int /\ (d - 2 * n) \div (2 * d) \in Int BY <1>1 DEF Positive
<1>3. CASE n > 0
  <2>1. llround(n, d) = (2 * n + d) \div (2 * d) BY <1>3 DEF llround
  <2>2. llround(-n, d) = -((d - 2 * (-n)) \div (2 * d)) BY <1>3 DEF llround
  <2>3. d - 2 * (-n) = 2 * n + d BY DEF Positive
  <2> QED BY <1>2, <2>1, <2>2, <2>3
<1>4. CASE n < 0
  <2>1. llround(n, d) = -((d - 2 * n) \div (2 * d)) BY <1>4 DEF llround
  <2>2. llround(-n, d) = (2 * (-n) + d) \div (2 * d) BY <1>4 DEF llround
  <2>3. 2 * (-n) + d = d - 2 * n BY DEF Positive
  <2> QED BY <1>2, <2>1, <2>2, <2>3
<1>5. CASE n = 0
  <2>1. d \div (2 * d) = 0 BY HalfOf
  <2>2. 2 * 0 + d = d BY DEF Positive
  <2>3. llround(0, d) = 0 BY <2>1, <2>2 DEF llround
  <2>4. \A z \in Int : z <= 0 /\ z >= 0 => -z = z OBVIOUS
  <2>5. 0 \in Int /\ 0 <= 0 /\ 0 >= 0 OBVIOUS
  <2>6. -0 = 0 BY <2>4, <2>5, Zenon
  <2> QED BY <1>5, <2>3, <2>6, Zenon
<1> QED BY <1>3, <1>4, <1>5

\* A time is a whole number of parts of a beat, and its negative the negative of that: llround is odd.
LEMMA Beats ==
  ASSUME NEW m \in Positive, NEW t \in Int
  PROVE  microsToBeats(m, t) \in Int /\ microsToBeats(m, -t) = -microsToBeats(m, t)
<1>1. t * Unit \in Int /\ (-t) * Unit = -(t * Unit) BY UnitAssumption
<1> QED BY <1>1, Rounded DEF microsToBeats

\* A number of beats lasts a whole number of ticks.
LEMMA Micros == ASSUME NEW m \in Positive, NEW b \in Int PROVE beatsToMicros(m, b) \in Int
<1>1. b * m \in Int /\ Unit \in Positive BY UnitAssumption DEF Positive
<1> QED BY <1>1, Rounded DEF beatsToMicros

\* A timeline maps times to beats and beats to times.
LEMMA OnTimeline ==
  ASSUME NEW tl \in Timeline, NEW t \in Int
  PROVE  toBeats(tl, t) \in Int /\ fromBeats(tl, t) \in Int
<1>1. tl.tempo \in Positive /\ tl.beatOrigin \in Int /\ tl.timeOrigin \in Int BY DEF Timeline, Positive
<1>2. t - tl.timeOrigin \in Int /\ t - tl.beatOrigin \in Int BY <1>1
<1> QED BY <1>1, <1>2, Beats, Micros DEF toBeats, fromBeats
-----------------------------------------------------------------------------
(***************************************************************************)
(* Phases and timelines.                                                   *)
(***************************************************************************)
LEMMA Phases ==
  ASSUME NEW b \in Int, NEW q \in Nat
  PROVE  modulo(b, q) \in Int /\ phase(b, q) \in Int
<1>1. ASSUME NEW c \in Int PROVE modulo(c, q) \in Int BY DEF modulo
<1>2. q # 0 => b + ((abs(b) + q) \div q) * q \in Int BY DEF abs
<1> QED BY <1>1, <1>2 DEF phase

\* A phase match is a beat.
LEMMA Matches ==
  ASSUME NEW x \in Int, NEW target \in Int, NEW q \in Nat
  PROVE  nextPhaseMatch(x, target, q) \in Int /\ closestPhaseMatch(x, target, q) \in Int
<1>1. ASSUME NEW y \in Int PROVE nextPhaseMatch(y, target, q) \in Int
  <2>1. phase(target, q) - phase(y, q) + q \in Int BY Phases
  <2> QED BY <2>1, Phases DEF nextPhaseMatch
<1>2. 2 \in Positive BY DEF Positive
<1>3. x - llround(q, 2) \in Int BY <1>2, Rounded
<1> QED BY <1>1, <1>3 DEF closestPhaseMatch

\* Phase encoding gives beats and times.
LEMMA Encoded ==
  ASSUME NEW tl \in Timeline, NEW t \in Int, NEW q \in Nat
  PROVE  toPhaseEncodedBeats(tl, t, q) \in Int /\ fromPhaseEncodedBeats(tl, t, q) \in Int
<1>1. tl.beatOrigin \in Int BY DEF Timeline
<1>2. toPhaseEncodedBeats(tl, t, q) \in Int
  <2>1. toBeats(tl, t) \in Int /\ toBeats(tl, t) - tl.beatOrigin \in Int BY <1>1, OnTimeline
  <2> QED BY <2>1, Matches DEF toPhaseEncodedBeats
<1>3. fromPhaseEncodedBeats(tl, t, q) \in Int
  <2> DEFINE fromOrigin == t - tl.beatOrigin
             inverse == closestPhaseMatch(q - phase(fromOrigin, q), q - phase(t, q), q)
  <2>1. fromOrigin \in Int BY <1>1
  <2>2. phase(fromOrigin, q) \in Int /\ phase(t, q) \in Int BY <2>1, Phases
  <2>3. inverse \in Int BY <2>2, Matches
  <2> HIDE DEF fromOrigin, inverse
  <2>4. tl.beatOrigin + (fromOrigin - phase(fromOrigin, q)) + q - inverse \in Int BY <1>1, <2>1, <2>2, <2>3
  <2> QED BY <2>4, OnTimeline DEF fromPhaseEncodedBeats, fromOrigin, inverse
<1> QED BY <1>2, <1>3
-----------------------------------------------------------------------------
(***************************************************************************)
(* How far roundings are off.                                              *)
(***************************************************************************)
\* The quotient and what a product with it leaves.
LEMMA Quotient ==
  ASSUME NEW a \in Int, NEW e \in Positive
  PROVE  a \div e \in Int /\ e * (a \div e) <= a /\ a < e * (a \div e) + e
BY DEF Positive

\* llround is off by half a unit at most.
LEMMA Nearest ==
  ASSUME NEW n \in Int, NEW d \in Positive
  PROVE  -d <= 2 * (d * llround(n, d)) - 2 * n /\ 2 * (d * llround(n, d)) - 2 * n <= d
<1>1. 2 * d \in Positive /\ 2 * n + d \in Int /\ d - 2 * n \in Int BY DEF Positive
<1>2. CASE n >= 0
  <2> DEFINE k == (2 * n + d) \div (2 * d)
  <2>1. k \in Int /\ (2 * d) * k <= 2 * n + d /\ 2 * n + d < (2 * d) * k + 2 * d BY <1>1, Quotient
  <2>2. llround(n, d) = k BY <1>2 DEF llround
  <2> HIDE DEF k
  <2>3. (2 * d) * k = 2 * (d * k) /\ d * k \in Int BY <2>1 DEF Positive
  <2> QED BY <2>1, <2>2, <2>3 DEF Positive
<1>3. CASE n < 0
  <2> DEFINE k == (d - 2 * n) \div (2 * d)
  <2>1. k \in Int /\ (2 * d) * k <= d - 2 * n /\ d - 2 * n < (2 * d) * k + 2 * d BY <1>1, Quotient
  <2>2. llround(n, d) = -k BY <1>3 DEF llround
  <2> HIDE DEF k
  <2>3. (2 * d) * k = 2 * (d * k) /\ d * (-k) = -(d * k) /\ d * k \in Int BY <2>1 DEF Positive
  <2> QED BY <2>1, <2>2, <2>3 DEF Positive
<1> QED BY <1>2, <1>3

\* A number whose product with d is less than b units is less than b.
LEMMA Fewer ==
  ASSUME NEW a \in Int, NEW b \in Int, NEW d \in Positive, d * a < d * b
  PROVE  a < b
<1> SUFFICES ASSUME a >= b PROVE FALSE OBVIOUS
<1>1. PICK c \in Nat : a = b + c
  <2>1. a - b \in Nat /\ a = b + (a - b) OBVIOUS
  <2> QED BY <2>1
<1>2. d * a = d * b + d * c BY <1>1 DEF Positive
<1>3. d * c \in Nat /\ d * b \in Int BY DEF Positive
<1> DEFINE p == d * b
           r == d * c
<1>4. p + r < p BY <1>2
<1>5. p \in Int /\ r \in Nat BY <1>3
<1> HIDE DEF p, r
<1> QED BY <1>4, <1>5

\* The beats of two spans of time add up to those of the span they make, but for one part of a beat.
LEMMA SpansAddUp ==
  ASSUME NEW m \in Positive, NEW s \in Int, NEW t \in Int
  PROVE  LET off == microsToBeats(m, s) + microsToBeats(m, t) - microsToBeats(m, s + t)
         IN  -1 <= off /\ off <= 1
<1> DEFINE f == microsToBeats(m, s)
           g == microsToBeats(m, t)
           h == microsToBeats(m, s + t)
<1>1. s * Unit \in Int /\ t * Unit \in Int /\ (s + t) * Unit = s * Unit + t * Unit BY UnitAssumption
<1>2. f \in Int /\ g \in Int /\ h \in Int BY Beats
<1>3. /\ -m <= 2 * (m * f) - 2 * (s * Unit) /\ 2 * (m * f) - 2 * (s * Unit) <= m
      /\ -m <= 2 * (m * g) - 2 * (t * Unit) /\ 2 * (m * g) - 2 * (t * Unit) <= m
      /\ -m <= 2 * (m * h) - 2 * (s * Unit + t * Unit) /\ 2 * (m * h) - 2 * (s * Unit + t * Unit) <= m
  BY <1>1, Nearest DEF microsToBeats
<1> HIDE DEF f, g, h
<1>4. /\ m * f \in Int /\ m * g \in Int /\ m * h \in Int
      /\ m * (f + g - h) = m * f + m * g - m * h
      /\ m * 2 = 2 * m /\ m * (-2) = -(2 * m)
  BY <1>2 DEF Positive
<1>5. m * (f + g - h) < m * 2 /\ m * (-2) < m * (f + g - h) BY <1>1, <1>3, <1>4 DEF Positive
<1>6. f + g - h < 2 /\ -2 < f + g - h BY <1>2, <1>5, Fewer
<1> QED BY <1>2, <1>6 DEF f, g, h

\* A beat that is put on a tick and read back is off by what a tick is worth.
LEMMA ThereAndBack ==
  ASSUME NEW m \in Positive, NEW b \in Int
  PROVE  LET off == microsToBeats(m, beatsToMicros(m, b)) - b
         IN  -microsToBeats(m, 1) <= off /\ off <= microsToBeats(m, 1)
<1> DEFINE r == beatsToMicros(m, b)
           s == microsToBeats(m, r)
           l == microsToBeats(m, 1)
<1>1. Unit \in Positive /\ b * m \in Int /\ 1 * Unit = Unit BY UnitAssumption DEF Positive
<1>2. r \in Int /\ s \in Int /\ l \in Int BY Micros, Beats
<1>3. r * Unit \in Int /\ Unit * r = r * Unit BY <1>1, <1>2 DEF Positive
<1>4. -Unit <= 2 * (Unit * r) - 2 * (b * m) /\ 2 * (Unit * r) - 2 * (b * m) <= Unit
  BY <1>1, Nearest DEF beatsToMicros
<1>5. -m <= 2 * (m * s) - 2 * (r * Unit) /\ 2 * (m * s) - 2 * (r * Unit) <= m
  BY <1>3, Nearest DEF microsToBeats
<1>6. -m <= 2 * (m * l) - 2 * Unit /\ 2 * (m * l) - 2 * Unit <= m
  <2>1. l = llround(Unit, m) /\ Unit \in Int BY <1>1, UnitAssumption DEF microsToBeats
  <2> HIDE DEF l
  <2> QED BY <2>1, Nearest
<1> HIDE DEF r, s, l
<1>7. /\ m * s \in Int /\ m * l \in Int
      /\ m * (s - b) = m * s - b * m
      /\ m * (l + 1) = m * l + m /\ m * (-(l + 1)) = -(m * l + m)
  BY <1>2 DEF Positive
<1>8. m * (s - b) < m * (l + 1) /\ m * (-(l + 1)) < m * (s - b)
  BY <1>1, <1>3, <1>4, <1>5, <1>6, <1>7 DEF Positive
<1>9. s - b < l + 1 /\ -(l + 1) < s - b BY <1>2, <1>8, Fewer
<1> QED BY <1>2, <1>9 DEF r, s, l
-----------------------------------------------------------------------------
(***************************************************************************)
(* Phases.                                                                 *)
(***************************************************************************)
\* b and c are at the same place on the circle of a quantum
sameOn(q, b, c) == \E k \in Int : b = c + q * k

\* What is left of a division is less than the divisor.
LEMMA Remainder ==
  ASSUME NEW a \in Int, NEW q \in Positive
  PROVE  a % q \in 0 .. q - 1 /\ a = q * (a \div q) + (a % q) /\ a \div q \in Int
BY DEF Positive

\* It is the only number below the divisor at the same place.
LEMMA OneRemainder ==
  ASSUME NEW q \in Positive, NEW r \in 0 .. q - 1, NEW k \in Int
  PROVE  (r + q * k) % q = r
<1> DEFINE a == r + q * k
           j == a \div q
           p == a % q
<1>1. q * k \in Int /\ r \in Int BY DEF Positive
<1>2. a \in Int BY <1>1
<1> HIDE DEF a
<1>3. p \in 0 .. q - 1 /\ a = q * j + p /\ j \in Int BY <1>2, Remainder
<1> HIDE DEF p, j
<1>4. /\ q * (k - j) = q * k - q * j /\ q * j \in Int
      /\ q * 1 = q /\ q * (-1) = -q
  BY <1>3 DEF Positive
<1>5. q * k - q * j = p - r BY <1>1, <1>3, <1>4 DEF a
<1>6. q * (k - j) < q * 1 /\ q * (-1) < q * (k - j) BY <1>1, <1>3, <1>4, <1>5 DEF Positive
<1>7. k - j < 1 /\ -1 < k - j BY <1>3, <1>6, Fewer
<1>8. k = j BY <1>3, <1>7
<1>9. p - r = 0 BY <1>1, <1>3, <1>4, <1>5, <1>8
<1>10. p = r BY <1>1, <1>3, <1>9
<1> QED BY <1>10 DEF p, a

\* Being at the same place is an equivalence that sums respect.
LEMMA SamePlaces ==
  ASSUME NEW q \in Positive, NEW a \in Int, NEW b \in Int, NEW c \in Int
  PROVE  /\ sameOn(q, a, a)
         /\ sameOn(q, a, b) => sameOn(q, b, a) /\ sameOn(q, a + c, b + c) /\ sameOn(q, c - a, c - b)
         /\ sameOn(q, a, b) /\ sameOn(q, b, c) => sameOn(q, a, c)
         /\ sameOn(q, a + q, a)
<1>1. sameOn(q, a, a)
  <2>1. a = a + q * 0 BY DEF Positive
  <2> QED BY <2>1 DEF sameOn
<1>2. ASSUME sameOn(q, a, b)
      PROVE  sameOn(q, b, a) /\ sameOn(q, a + c, b + c) /\ sameOn(q, c - a, c - b)
  <2>1. PICK k \in Int : a = b + q * k BY <1>2 DEF sameOn
  <2>2. q * (-k) = -(q * k) /\ q * k \in Int /\ -k \in Int BY <2>1 DEF Positive
  <2>3. b = a + q * (-k) /\ a + c = (b + c) + q * k /\ c - a = (c - b) + q * (-k) BY <2>1, <2>2
  <2> QED BY <2>2, <2>3 DEF sameOn
<1>3. ASSUME sameOn(q, a, b), sameOn(q, b, c) PROVE sameOn(q, a, c)
  <2>1. PICK k \in Int : a = b + q * k BY <1>3 DEF sameOn
  <2>2. PICK j \in Int : b = c + q * j BY <1>3 DEF sameOn
  <2>3. q * (j + k) = q * j + q * k /\ q * j \in Int /\ q * k \in Int /\ j + k \in Int
    BY <2>1, <2>2 DEF Positive
  <2>4. a = c + q * (j + k) BY <2>1, <2>2, <2>3
  <2> QED BY <2>3, <2>4 DEF sameOn
<1>4. sameOn(q, a + q, a)
  <2>1. a + q = a + q * 1 BY DEF Positive
  <2> QED BY <2>1 DEF sameOn
<1> QED BY <1>1, <1>2, <1>3, <1>4

\* The phase of a beat is its place on the circle, also below zero.
LEMMA PhaseOf ==
  ASSUME NEW b \in Int, NEW q \in Positive
  PROVE  /\ modulo(b, q) \in 0 .. q - 1 /\ sameOn(q, modulo(b, q), b)
         /\ phase(b, q) \in 0 .. q - 1 /\ sameOn(q, phase(b, q), b)
<1>1. ASSUME NEW a \in Int PROVE modulo(a, q) \in 0 .. q - 1 /\ sameOn(q, modulo(a, q), a)
  <2>1. modulo(a, q) = a % q BY DEF modulo, Positive
  <2>2. a % q \in 0 .. q - 1 /\ a = (a % q) + q * (a \div q) /\ a \div q \in Int
    BY Remainder DEF Positive
  <2>3. sameOn(q, a, a % q) /\ a % q \in Int BY <2>2 DEF sameOn
  <2> QED BY <2>1, <2>2, <2>3, SamePlaces
<1> DEFINE n == (abs(b) + q) \div q
<1>2. n \in Int
  <2>1. abs(b) + q \in Int BY DEF abs, Positive
  <2> QED BY <2>1, Quotient
<1>3. phase(b, q) = modulo(b + n * q, q) BY DEF phase, Positive
<1> HIDE DEF n
<1>4. b + n * q \in Int /\ n * q = q * n BY <1>2 DEF Positive
<1>5. sameOn(q, b + n * q, b) BY <1>2, <1>4 DEF sameOn
<1>6. modulo(b + n * q, q) \in 0 .. q - 1 /\ sameOn(q, modulo(b + n * q, q), b + n * q) BY <1>1, <1>4
<1>7. modulo(b + n * q, q) \in Int BY <1>6 DEF Positive
<1> QED BY <1>1, <1>3, <1>4, <1>5, <1>6, <1>7, SamePlaces

\* The next match of a phase is at its place and less than a quantum later.
LEMMA NextMatch ==
  ASSUME NEW x \in Int, NEW target \in Int, NEW q \in Positive
  PROVE  /\ sameOn(q, nextPhaseMatch(x, target, q), target)
         /\ nextPhaseMatch(x, target, q) \in x .. x + q - 1
<1> DEFINE p == phase(target, q)
           r == phase(x, q)
           d == modulo(p - r + q, q)
<1>1. p \in Int /\ r \in Int /\ sameOn(q, p, target) /\ sameOn(q, r, x) BY PhaseOf DEF Positive
<1>2. p - r + q \in Int /\ q \in Int BY <1>1 DEF Positive
<1> HIDE DEF p, r
<1>3. d \in 0 .. q - 1 /\ d \in Int /\ sameOn(q, d, p - r + q) BY <1>2, PhaseOf DEF Positive
<1> HIDE DEF d
<1>4. sameOn(q, p - r + q, p - r)
  <2>1. p - r \in Int BY <1>1
  <2> QED BY <2>1, SamePlaces
<1>5. sameOn(q, p - r, p - x) BY <1>1, SamePlaces
<1>6. sameOn(q, p + (-x), target + (-x))
  <2>1. -x \in Int OBVIOUS
  <2> QED BY <1>1, <2>1, SamePlaces
<1>7. p + (-x) = p - x /\ target + (-x) = target - x /\ p - x \in Int /\ p - r \in Int /\ target - x \in Int
  BY <1>1
<1>8. sameOn(q, d, p - r) BY <1>2, <1>3, <1>4, <1>7, SamePlaces
<1>9. sameOn(q, d, p - x) BY <1>3, <1>5, <1>7, <1>8, SamePlaces
<1>10. sameOn(q, d, target - x) BY <1>3, <1>6, <1>7, <1>9, SamePlaces
<1>11. sameOn(q, d + x, (target - x) + x) BY <1>3, <1>7, <1>10, SamePlaces
<1>12. d + x = x + d /\ (target - x) + x = target BY <1>3
<1>13. nextPhaseMatch(x, target, q) = x + d BY DEF nextPhaseMatch, d, p, r
<1> QED BY <1>2, <1>3, <1>11, <1>12, <1>13

\* Half a quantum, rounded up.
LEMMA HalfQuantum ==
  ASSUME NEW q \in Nat
  PROVE  llround(q, 2) \in Int /\ q <= 2 * llround(q, 2) /\ 2 * llround(q, 2) <= q + 1
<1>1. llround(q, 2) = (2 * q + 2) \div 4 BY DEF llround
<1> QED BY <1>1

\* "Find the closest beat value to x that matches the phase of target": with the phase of the target,
\* and half a quantum away at most (Phase.hpp, closestPhaseMatch).
THEOREM ClosestMatch ==
  ASSUME NEW x \in Int, NEW target \in Int, NEW q \in Positive
  PROVE  /\ sameOn(q, closestPhaseMatch(x, target, q), target)
         /\ -(q + 1) <= 2 * (closestPhaseMatch(x, target, q) - x)
         /\ 2 * (closestPhaseMatch(x, target, q) - x) < q
<1> DEFINE h == llround(q, 2)
           c == closestPhaseMatch(x, target, q)
<1>1. h \in Int /\ q <= 2 * h /\ 2 * h <= q + 1 BY HalfQuantum DEF Positive
<1>2. c = nextPhaseMatch(x - h, target, q) BY DEF closestPhaseMatch
<1> HIDE DEF h, c
<1>3. x - h \in Int BY <1>1
<1>4. sameOn(q, c, target) /\ c \in (x - h) .. (x - h) + q - 1 BY <1>2, <1>3, NextMatch
<1>5. -(q + 1) <= 2 * (c - x) /\ 2 * (c - x) < q BY <1>1, <1>3, <1>4 DEF Positive
<1> QED BY <1>4, <1>5 DEF c

\* What the beats of a timeline are encoded as has the phase of the beats since its origin, so that clients
\* whose beats count differently agree on the phase, and is half a quantum from the beats at most.
THEOREM PhaseEncoded ==
  ASSUME NEW tl \in Timeline, NEW t \in Int, NEW q \in Positive
  PROVE  /\ sameOn(q, toPhaseEncodedBeats(tl, t, q), microsToBeats(tl.tempo, t - tl.timeOrigin))
         /\ -(q + 1) <= 2 * (toPhaseEncodedBeats(tl, t, q) - toBeats(tl, t))
         /\ 2 * (toPhaseEncodedBeats(tl, t, q) - toBeats(tl, t)) < q
<1> DEFINE b == toBeats(tl, t)
           e == microsToBeats(tl.tempo, t - tl.timeOrigin)
<1>1. tl.tempo \in Positive /\ tl.beatOrigin \in Int /\ tl.timeOrigin \in Int BY DEF Timeline, Positive
<1>2. t - tl.timeOrigin \in Int BY <1>1
<1>3. e \in Int BY <1>1, <1>2, Beats
<1>4. b = tl.beatOrigin + e BY DEF toBeats
<1> HIDE DEF b, e
<1>5. b \in Int /\ b - tl.beatOrigin = e BY <1>1, <1>3, <1>4
<1>6. toPhaseEncodedBeats(tl, t, q) = closestPhaseMatch(b, e, q) BY <1>5 DEF toPhaseEncodedBeats, b
<1> QED BY <1>3, <1>5, <1>6, ClosestMatch DEF b, e
-----------------------------------------------------------------------------
(***************************************************************************)
(* Forcing a beat to a time.                                               *)
(***************************************************************************)
\* llround does not get smaller, and d's that are taken away before it are at least those taken away after
\* it: the halves of a number that falls below zero are rounded the other way.
LEMMA RoundedDown ==
  ASSUME NEW n \in Int, NEW p \in Int, NEW d \in Positive, NEW k \in Int, k <= 0, p <= n + d * k
  PROVE  llround(p, d) <= llround(n, d) + k
<1> DEFINE f == llround(n, d)
           g == llround(p, d)
<1>1. d * k \in Int /\ d * k <= 0 BY DEF Positive
<1>2. f \in Int /\ g \in Int BY Rounded
<1>3. 2 * (d * g) - 2 * p <= d BY Nearest
<1>4. -d <= 2 * (d * f) - 2 * n BY Nearest
<1>5. n >= 0 => 2 * n < 2 * (d * f) + d
  <2> SUFFICES ASSUME n >= 0 PROVE 2 * n < 2 * (d * f) + d OBVIOUS
  <2> DEFINE j == (2 * n + d) \div (2 * d)
  <2>1. 2 * d \in Positive /\ 2 * n + d \in Int BY DEF Positive
  <2>2. j \in Int /\ 2 * n + d < (2 * d) * j + 2 * d BY <2>1, Quotient
  <2>3. f = j BY DEF llround
  <2> HIDE DEF j, f
  <2>4. (2 * d) * j = 2 * (d * j) /\ d * j \in Int BY <2>2 DEF Positive
  <2> QED BY <2>2, <2>3, <2>4 DEF Positive
<1>6. p < 0 => 2 * (d * g) < 2 * p + d
  <2> SUFFICES ASSUME p < 0 PROVE 2 * (d * g) < 2 * p + d OBVIOUS
  <2> DEFINE j == (d - 2 * p) \div (2 * d)
  <2>1. 2 * d \in Positive /\ d - 2 * p \in Int BY DEF Positive
  <2>2. j \in Int /\ d - 2 * p < (2 * d) * j + 2 * d BY <2>1, Quotient
  <2>3. g = -j BY DEF llround
  <2> HIDE DEF j, g
  <2>4. (2 * d) * j = 2 * (d * j) /\ d * (-j) = -(d * j) /\ d * j \in Int BY <2>2 DEF Positive
  <2> QED BY <2>2, <2>3, <2>4 DEF Positive
<1> HIDE DEF f, g
<1>7. d * f \in Int /\ d * g \in Int BY <1>2 DEF Positive
<1>8. d * (f + k) = d * f + d * k /\ d * (f + k + 1) = d * f + d * k + d BY <1>2 DEF Positive
<1>9. CASE n >= 0 \/ p < 0
  <2>1. d * g < d * (f + k + 1)
    <3> DEFINE v == d * g
               w == d * f
               u == d * k
    <3>1. d * (f + k + 1) = w + u + d BY <1>8
    <3>2. v \in Int /\ w \in Int /\ u \in Int /\ d \in Int BY <1>1, <1>7 DEF Positive
    <3>3. 2 * v <= 2 * p + d /\ 2 * n <= 2 * w + d /\ (2 * v < 2 * p + d \/ 2 * n < 2 * w + d)
      BY <1>3, <1>4, <1>5, <1>6, <1>7, <1>9 DEF Positive
    <3>4. p <= n + u OBVIOUS
    <3> HIDE DEF v, w, u
    <3>5. v < w + u + d BY <3>2, <3>3, <3>4
    <3> QED BY <3>1, <3>5 DEF v
  <2>2. f + k + 1 \in Int BY <1>2
  <2>3. g < f + k + 1 BY <1>2, <2>1, <2>2, Fewer
  <2> QED BY <1>2, <2>3 DEF f, g
<1>10. CASE ~(n >= 0 \/ p < 0) BY <1>1, <1>10
<1> QED BY <1>9, <1>10 DEF f, g

\* Less than a quantum apart and at the same place are two beats only if they are one.
LEMMA OnePlace ==
  ASSUME NEW q \in Positive, NEW c \in Int, NEW k \in Int, sameOn(q, k, c), k - c < q, c - k < q
  PROVE  k = c
<1>1. PICK j \in Int : k = c + q * j BY DEF sameOn
<1> DEFINE u == q * j
<1>2. u \in Int /\ k = c + u /\ q \in Int BY <1>1 DEF Positive
<1>3. q * 1 = q /\ q * (-1) = -q /\ q * 0 = 0 BY DEF Positive
<1> HIDE DEF u
<1>4. u < q * 1 /\ q * (-1) < u BY <1>2, <1>3
<1>5. j < 1 /\ -1 < j BY <1>1, <1>4, Fewer DEF u
<1>6. j = 0 BY <1>1, <1>5
<1> QED BY <1>2, <1>3, <1>6 DEF u

\* Without a quantum every beat matches.
LEMMA NoQuantum ==
  ASSUME NEW x \in Int, NEW target
  PROVE  closestPhaseMatch(x, target, 0) = x
<1>1. llround(0, 2) = 0
  <2>1. llround(0, 2) \in Int /\ 0 <= 2 * llround(0, 2) /\ 2 * llround(0, 2) <= 0 + 1 BY HalfQuantum
  <2> QED BY <2>1
<1> QED BY <1>1 DEF closestPhaseMatch, nextPhaseMatch, modulo

\* Adding the same to a beat and to the phase it is to match adds it to the match.
LEMMA MatchMoves ==
  ASSUME NEW x \in Int, NEW target \in Int, NEW e \in Int, NEW q \in Nat
  PROVE  closestPhaseMatch(x + e, target + e, q) = closestPhaseMatch(x, target, q) + e
<1> DEFINE h == llround(q, 2)
           c == nextPhaseMatch(x - h, target, q)
           k == nextPhaseMatch((x + e) - h, target + e, q)
<1>1. h \in Int BY HalfQuantum
<1>2. closestPhaseMatch(x + e, target + e, q) = k /\ closestPhaseMatch(x, target, q) = c
  BY DEF closestPhaseMatch
<1> HIDE DEF h
<1>3. x - h \in Int /\ (x + e) - h \in Int /\ target + e \in Int /\ (x + e) - h = (x - h) + e BY <1>1
<1>4. CASE q = 0
  <2>1. x + e \in Int OBVIOUS
  <2> QED BY <1>4, <2>1, NoQuantum
<1>5. CASE q # 0
  <2>1. q \in Positive BY <1>5 DEF Positive
  <2>2. sameOn(q, c, target) /\ c \in (x - h) .. (x - h) + q - 1 BY <1>3, <2>1, NextMatch
  <2>3. sameOn(q, k, target + e) /\ k \in ((x + e) - h) .. ((x + e) - h) + q - 1 BY <1>3, <2>1, NextMatch
  <2> HIDE DEF c, k
  <2>4. c \in Int /\ k \in Int BY <2>2, <2>3
  <2>5. sameOn(q, c + e, target + e) BY <2>1, <2>2, <2>4, SamePlaces
  <2>6. sameOn(q, k, c + e)
    <3>1. c + e \in Int BY <2>4
    <3> QED BY <1>3, <2>1, <2>3, <2>4, <2>5, <3>1, SamePlaces
  <2>7. c + e \in Int /\ k - (c + e) < q /\ (c + e) - k < q BY <1>1, <2>2, <2>3, <2>4 DEF Positive
  <2>8. k = c + e BY <2>1, <2>4, <2>6, <2>7, OnePlace
  <2> QED BY <1>2, <2>8
<1> QED BY <1>4, <1>5

\* Only the phase of the target counts.
LEMMA SameTarget ==
  ASSUME NEW x \in Int, NEW a \in Int, NEW q \in Positive, sameOn(q, a, 0)
  PROVE  closestPhaseMatch(x, 0, q) = closestPhaseMatch(x, 0 + a, q)
<1> DEFINE y == x - llround(q, 2)
           c == nextPhaseMatch(y, 0, q)
           k == nextPhaseMatch(y, 0 + a, q)
<1>1. 0 \in Int /\ 0 + a \in Int /\ 0 + a = a /\ q \in Nat /\ y \in Int
  <2>1. llround(q, 2) \in Int BY HalfQuantum DEF Positive
  <2> QED BY <2>1 DEF Positive
<1> HIDE DEF y
<1>2. sameOn(q, c, 0) /\ c \in y .. y + q - 1 BY <1>1, NextMatch
<1>3. sameOn(q, k, 0 + a) /\ k \in y .. y + q - 1 BY <1>1, NextMatch
<1> HIDE DEF c, k
<1>4. c \in Int /\ k \in Int BY <1>2, <1>3
<1>5. sameOn(q, k, c)
  <2>1. sameOn(q, k, 0) BY <1>1, <1>3, <1>4, SamePlaces
  <2>2. sameOn(q, 0, c) BY <1>1, <1>2, <1>4, SamePlaces
  <2> QED BY <1>1, <1>4, <2>1, <2>2, SamePlaces
<1>6. k - c < q /\ c - k < q BY <1>1, <1>2, <1>3, <1>4 DEF Positive
<1>7. k = c BY <1>4, <1>5, <1>6, OnePlace
<1> QED BY <1>7 DEF closestPhaseMatch, c, k, y

\* The beats of a timeline are encoded as those since its origin and what its beat origin is encoded as.
LEMMA EncodedFromOrigin ==
  ASSUME NEW tl \in Timeline, NEW t \in Int, NEW q \in Nat
  PROVE  toPhaseEncodedBeats(tl, t, q)
           = closestPhaseMatch(tl.beatOrigin, 0, q) + microsToBeats(tl.tempo, t - tl.timeOrigin)
<1> DEFINE b == tl.beatOrigin
           e == microsToBeats(tl.tempo, t - tl.timeOrigin)
<1>1. tl.tempo \in Positive /\ b \in Int /\ t - tl.timeOrigin \in Int BY DEF Timeline, Positive
<1>2. e \in Int /\ 0 \in Int BY <1>1, Beats
<1>3. toBeats(tl, t) = b + e BY DEF toBeats
<1> HIDE DEF b, e
<1>4. toBeats(tl, t) - b = 0 + e BY <1>1, <1>2, <1>3
<1>5. closestPhaseMatch(b + e, 0 + e, q) = closestPhaseMatch(b, 0, q) + e BY <1>1, <1>2, MatchMoves
<1> QED BY <1>3, <1>4, <1>5 DEF toPhaseEncodedBeats, b, e

\* The ticks by which a shift of s beats puts the origin of a timeline earlier.
shiftedBy(tl, s) == beatsToMicros(tl.tempo, s - tl.beatOrigin) - beatsToMicros(tl.tempo, 0 - tl.beatOrigin)

\* They last as long as the shift, but for a tick.
LEMMA ShiftLasts ==
  ASSUME NEW tl \in Timeline, NEW s \in Int
  PROVE  /\ shiftedBy(tl, s) \in Int
         /\ Unit * shiftedBy(tl, s) <= s * tl.tempo + Unit
<1> DEFINE m == tl.tempo
           b == tl.beatOrigin
           f == beatsToMicros(m, s - b)
           g == beatsToMicros(m, 0 - b)
<1>1. m \in Positive /\ b \in Int /\ Unit \in Positive BY UnitAssumption DEF Timeline, Positive
<1> HIDE DEF m, b
<1>2. s - b \in Int /\ 0 - b \in Int BY <1>1
<1>3. /\ (s - b) * m \in Int /\ (0 - b) * m \in Int /\ b * m \in Int /\ s * m \in Int
      /\ (s - b) * m = s * m - b * m /\ (0 - b) * m = -(b * m)
  BY <1>1 DEF Positive
<1>4. f \in Int /\ g \in Int BY <1>1, <1>2, Micros
<1>5. 2 * (Unit * f) - 2 * ((s - b) * m) <= Unit BY <1>1, <1>3, Nearest DEF beatsToMicros
<1>6. -Unit <= 2 * (Unit * g) - 2 * ((0 - b) * m) BY <1>1, <1>3, Nearest DEF beatsToMicros
<1> HIDE DEF f, g
<1>7. Unit * f \in Int /\ Unit * g \in Int /\ Unit * (f - g) = Unit * f - Unit * g BY <1>1, <1>4 DEF Positive
<1>8. Unit * (f - g) <= s * m + Unit BY <1>1, <1>3, <1>5, <1>6, <1>7 DEF Positive
<1> QED BY <1>4, <1>8 DEF shiftedBy, f, g, m, b

\* Where a beat that was forced to time u is at time t: as many beats off as the time that the shift takes has
\* more or fewer than the shift.
LEMMA ForcedThere ==
  ASSUME NEW tl \in Timeline, NEW b \in Int, NEW u \in Int, NEW t \in Int, NEW q \in Nat
  PROVE  LET f == forceBeatAtTimeImpl(tl, b, u, q)
             current == toPhaseEncodedBeats(tl, u, q)
             s == closestPhaseMatch(current, b, q) - current
         IN  /\ f \in Timeline /\ f.tempo = tl.tempo /\ s \in Int
             /\ toPhaseEncodedBeats(f, t, q) - b
                  = microsToBeats(tl.tempo, (t - tl.timeOrigin) + shiftedBy(tl, s))
                    - microsToBeats(tl.tempo, u - tl.timeOrigin) - s
<1> DEFINE f == forceBeatAtTimeImpl(tl, b, u, q)
           m == tl.tempo
           o == tl.beatOrigin
           current == toPhaseEncodedBeats(tl, u, q)
           c == closestPhaseMatch(current, b, q)
           s == c - current
           k == closestPhaseMatch(o, 0, q)
           shift == shiftedBy(tl, s)
           z == tl.timeOrigin
           r == microsToBeats(m, u - z)
           p == microsToBeats(m, (t - z) + shift)
<1>1. m \in Positive /\ o \in Int /\ z \in Int BY DEF Timeline, Positive
<1>2. current \in Int /\ c \in Int /\ s \in Int
  <2>1. current \in Int BY Encoded
  <2> HIDE DEF current
  <2>2. c \in Int BY <2>1, Matches
  <2> HIDE DEF c
  <2> QED BY <2>1, <2>2
<1>3. k \in Int /\ 0 \in Int
  <2>1. 0 \in Int OBVIOUS
  <2> HIDE DEF o
  <2> QED BY <1>1, <2>1, Matches
<1>4. shift \in Int BY <1>2, ShiftLasts
<1>5. current = k + r BY EncodedFromOrigin
<1>6. /\ f = [tempo |-> m, beatOrigin |-> (o + b) - c, timeOrigin |-> z - shift]
      /\ f \in Timeline
  <2>1. fromBeats(tl, s) - fromBeats(tl, 0) = shift
    <3> HIDE DEF s
    <3>1. s - o \in Int /\ 0 - o \in Int BY <1>1, <1>2
    <3> DEFINE f1 == beatsToMicros(m, s - o)
               f0 == beatsToMicros(m, 0 - o)
    <3>2. f1 \in Int /\ f0 \in Int BY <1>1, <3>1, Micros
    <3>3. fromBeats(tl, s) = z + f1 /\ fromBeats(tl, 0) = z + f0 /\ shift = f1 - f0
      BY DEF fromBeats, shiftedBy
    <3> HIDE DEF f1, f0, z, shift
    <3> QED BY <1>1, <3>2, <3>3
  <2>2. shiftClientTimeline(tl, s) = [tl EXCEPT !.timeOrigin = z - shift]
    BY <2>1 DEF shiftClientTimeline
  <2>3. f = [shiftClientTimeline(tl, s) EXCEPT !.beatOrigin = @ + b - c]
    BY DEF forceBeatAtTimeImpl
  <2> HIDE DEF f, s, shift, c
  <2>4. f = [tempo |-> m, beatOrigin |-> (o + b) - c, timeOrigin |-> z - shift]
    <3>1. tl = [tempo |-> m, beatOrigin |-> o, timeOrigin |-> z] BY DEF Timeline
    <3> HIDE DEF m, o, z
    <3>2. shiftClientTimeline(tl, s) = [tempo |-> m, beatOrigin |-> o, timeOrigin |-> z - shift]
      BY <2>2, <3>1
    <3> DEFINE w == shiftClientTimeline(tl, s)
               v == w.beatOrigin + b - c
               g == (o + b) - c
               y == z - shift
    <3>3. f = [w EXCEPT !.beatOrigin = v] BY <2>3
    <3>4. w = [tempo |-> m, beatOrigin |-> o, timeOrigin |-> y] BY <3>2
    <3> HIDE DEF w, y
    <3>5. w.beatOrigin = o BY <3>4
    <3>6. v = g BY <1>1, <1>2, <3>5
    <3> HIDE DEF v
    <3>7. f = [w EXCEPT !.beatOrigin = g] BY <3>3, <3>6
    <3> HIDE DEF g, y
    <3>8. f = [tempo |-> m, beatOrigin |-> g, timeOrigin |-> y] BY <3>4, <3>7
    <3> QED BY <3>8 DEF g, y
  <2>5. (o + b) - c \in Int /\ z - shift \in Int BY <1>1, <1>2, <1>4
  <2> QED BY <1>1, <2>4, <2>5 DEF Timeline, Positive
<1>7. u - z \in Int /\ t - z \in Int /\ (t - z) + shift \in Int BY <1>1, <1>4
<1>8. r \in Int /\ p \in Int BY <1>1, <1>7, Beats
<1> DEFINE k2 == closestPhaseMatch((o + b) - c, 0, q)
<1>9. toPhaseEncodedBeats(f, t, q) = k2 + p
  <2>1. t - (z - shift) = (t - z) + shift BY <1>1, <1>4
  <2> HIDE DEF f, shift, c
  <2>2. f.tempo = m /\ f.beatOrigin = (o + b) - c /\ f.timeOrigin = z - shift BY <1>6
  <2> QED BY <1>6, <2>1, <2>2, EncodedFromOrigin
<1> HIDE DEF f, shift, r, p, k, k2, current, c, o, z
\* The new beat origin differs by whole quanta, or there is no quantum.
<1>10. k2 = k + (b - c)
  <2> DEFINE d == b - c
  <2>1. d \in Int /\ (o + b) - c = o + d BY <1>1, <1>2
  <2>2. CASE q = 0
    <3>1. \A y \in Int : closestPhaseMatch(y, 0, q) = y BY <2>2, NoQuantum
    <3>2. o + d \in Int BY <1>1, <2>1
    <3>3. k2 = o + d /\ k = o BY <1>1, <2>1, <3>1, <3>2 DEF k, k2
    <3> QED BY <3>3
  <2>3. CASE q # 0
    <3>1. q \in Positive BY <2>3 DEF Positive
    <3>2. sameOn(q, c, b) BY <1>2, <3>1, ClosestMatch DEF c
    <3>3. sameOn(q, d, 0)
      <4>1. sameOn(q, b, c) BY <1>2, <3>1, <3>2, SamePlaces
      <4>2. -c \in Int /\ b + (-c) = d /\ c + (-c) = 0 BY <1>2
      <4>3. sameOn(q, b + (-c), c + (-c)) BY <1>2, <3>1, <4>1, <4>2, SamePlaces
      <4> QED BY <4>2, <4>3
    <3>4. closestPhaseMatch(o + d, 0 + d, q) = k + d BY <1>1, <1>3, <2>1, MatchMoves DEF k
    <3>5. closestPhaseMatch(o + d, 0, q) = closestPhaseMatch(o + d, 0 + d, q)
      BY <1>1, <2>1, <3>1, <3>3, SameTarget
    <3> QED BY <2>1, <3>4, <3>5 DEF k2
  <2> QED BY <2>2, <2>3
<1>11. s = c - (k + r) BY <1>5
<1>12. (k2 + p) - b = p - r - s BY <1>2, <1>3, <1>8, <1>10, <1>11
<1>13. f.tempo = m BY <1>6
<1> QED BY <1>2, <1>6, <1>9, <1>12, <1>13 DEF f, m, s, c, current, shift, r, p, z

\* A beat that was forced to a time once is off by a tick and a part of a beat at most.
LEMMA ForcedNear ==
  ASSUME NEW tl \in Timeline, NEW b \in Int, NEW t \in Int, NEW q \in Nat
  PROVE  tl.tempo * (toPhaseEncodedBeats(forceBeatAtTimeImpl(tl, b, t, q), t, q) - b) <= Unit + tl.tempo
<1> DEFINE m == tl.tempo
           x == t - tl.timeOrigin
           current == toPhaseEncodedBeats(tl, t, q)
           s == closestPhaseMatch(current, b, q) - current
           d == shiftedBy(tl, s)
           r == microsToBeats(m, x)
           p == microsToBeats(m, x + d)
<1>1. m \in Positive /\ x \in Int /\ Unit \in Positive BY UnitAssumption DEF Timeline, Positive
<1>2. s \in Int /\ toPhaseEncodedBeats(forceBeatAtTimeImpl(tl, b, t, q), t, q) - b = p - r - s
  BY ForcedThere
<1>3. d \in Int /\ Unit * d <= s * m + Unit BY <1>2, ShiftLasts
<1> HIDE DEF m, x, s, d
<1>4. x * Unit \in Int /\ d * Unit \in Int /\ (x + d) * Unit = x * Unit + d * Unit /\ Unit * d = d * Unit
  BY <1>1, <1>3 DEF Positive
<1>5. r \in Int /\ p \in Int BY <1>1, <1>3, Beats
<1>6. /\ -m <= 2 * (m * r) - 2 * (x * Unit)
      /\ 2 * (m * p) - 2 * (x * Unit + d * Unit) <= m
  BY <1>1, <1>4, Nearest DEF microsToBeats
<1> HIDE DEF r, p
<1>7. m * r \in Int /\ m * p \in Int /\ s * m \in Int /\ m * (p - r - s) = m * p - m * r - s * m
  BY <1>1, <1>2, <1>5 DEF Positive
<1>8. m * (p - r - s) <= Unit + m BY <1>1, <1>3, <1>4, <1>6, <1>7 DEF Positive
<1> QED BY <1>2, <1>8 DEF m

\* A tick later the beat is not less, and more by a tick and a part of a beat at most.
LEMMA TickLater ==
  ASSUME NEW m \in Positive, NEW y \in Int
  PROVE  LET more == microsToBeats(m, y + 1) - microsToBeats(m, y)
         IN  0 <= more /\ m * more <= Unit + m
<1> DEFINE r == microsToBeats(m, y)
           p == microsToBeats(m, y + 1)
<1>1. /\ Unit \in Int /\ Unit >= 0 /\ y * Unit \in Int /\ (y + 1) * Unit \in Int
      /\ (y + 1) * Unit = y * Unit + Unit
  BY UnitAssumption
<1>2. r \in Int /\ p \in Int BY Beats
<1>3. r <= p
  <2>1. 0 \in Int /\ 0 <= 0 /\ m * 0 = 0 BY DEF Positive
  <2>2. y * Unit <= (y + 1) * Unit + m * 0 BY <1>1, <2>1
  <2>3. r <= p + 0 BY <1>1, <2>1, <2>2, RoundedDown DEF microsToBeats
  <2> QED BY <1>2, <2>3
<1>4. -m <= 2 * (m * r) - 2 * (y * Unit) /\ 2 * (m * p) - 2 * (y * Unit + Unit) <= m
  BY <1>1, Nearest DEF microsToBeats
<1> HIDE DEF r, p
<1>5. m * r \in Int /\ m * p \in Int /\ m * (p - r) = m * p - m * r BY <1>2 DEF Positive
<1>6. m * (p - r) <= Unit + m BY <1>1, <1>4, <1>5 DEF Positive
<1> QED BY <1>2, <1>3, <1>6 DEF r, p

\* Rounding "can lead i.e. to missing a downbeat. Thus we have to shift the timeline forwards" (Link.ipp): once
\* forceBeatAtTime has put a beat at a time, the beat there is not a later one, if a quarter of the quantum
\* is no less than a tick and a part of a beat, or there is no quantum.  The first try may leave a later one; then the
\* second, for the tick after it, moves the timeline back by that much, and what it rounds is rounded down.
THEOREM BeatForced ==
  ASSUME NEW tl \in Timeline, NEW b \in Int, NEW t \in Int, NEW q \in Nat,
         q = 0 \/ 4 * (Unit + tl.tempo) <= tl.tempo * q
  PROVE  toPhaseEncodedBeats(forceBeatAtTime(tl, b, t, q), t, q) <= b
<1> DEFINE f == forceBeatAtTimeImpl(tl, b, t, q)
           m == tl.tempo
           first == toPhaseEncodedBeats(f, t, q)
<1>1. f \in Timeline /\ f.tempo = m BY ForcedThere
<1>2. m \in Positive /\ Unit \in Positive BY UnitAssumption DEF Timeline, Positive
<1>3. first \in Int BY <1>1, Encoded
<1>4. m * (first - b) <= Unit + m BY ForcedNear
<1> HIDE DEF f
<1>5. CASE first <= b BY <1>3, <1>5 DEF forceBeatAtTime, f
<1>6. CASE first > b
  <2> DEFINE g == forceBeatAtTimeImpl(f, b, t + 1, q)
             y == t - f.timeOrigin
             k == closestPhaseMatch(f.beatOrigin, 0, q)
             current == toPhaseEncodedBeats(f, t + 1, q)
             s == closestPhaseMatch(current, b, q) - current
             r == microsToBeats(m, y)
             p == microsToBeats(m, y + 1)
             d == shiftedBy(f, s)
             v == microsToBeats(m, y + d)
  <2>1. forceBeatAtTime(tl, b, t, q) = g BY <1>6 DEF forceBeatAtTime, f
  <2>2. y \in Int /\ t + 1 \in Int /\ (t + 1) - f.timeOrigin = y + 1 BY <1>1 DEF Timeline
  <2>3. first = k + r /\ current = k + p BY <1>1, <2>2, EncodedFromOrigin
  <2>4. current \in Int /\ closestPhaseMatch(current, b, q) \in Int BY <1>1, <2>2, Encoded, Matches
  <2>5. s \in Int /\ toPhaseEncodedBeats(g, t, q) - b = v - p - s BY <1>1, <2>2, ForcedThere
  <2>6. d \in Int /\ Unit * d <= s * m + Unit BY <1>1, <2>5, ShiftLasts
  <2>7. p - r >= 0 /\ m * (p - r) <= Unit + m BY <1>2, <2>2, TickLater
  <2>8. toPhaseEncodedBeats(g, t, q) \in Int /\ k \in Int
    <3>1. g \in Timeline BY <1>1, <2>2, ForcedThere
    <3>2. f.beatOrigin \in Int /\ 0 \in Int BY <1>1 DEF Timeline
    <3> QED BY <3>1, <3>2, Encoded, Matches
  <2>9. r \in Int /\ p \in Int /\ v \in Int BY <1>2, <2>2, <2>6, Beats
  <2> HIDE DEF first, g, y, k, d, r, p, v, m
  <2>10. s <= 0
    <3>1. CASE q = 0
      <4>1. closestPhaseMatch(current, b, q) = current BY <2>4, <3>1, NoQuantum
      <4> QED BY <2>4, <4>1
    <3>2. CASE q # 0
      <4> DEFINE c == closestPhaseMatch(current, b, q)
                 off == current - b
      <4>1. q \in Positive BY <3>2 DEF Positive
      <4>2. sameOn(q, c, b) /\ 2 * (c - current) < q BY <2>4, <4>1, ClosestMatch
      <4>3. off = (first - b) + (p - r) /\ off > 0 BY <1>3, <1>6, <2>3, <2>7, <2>8, <2>9
      <4>4. off \in Int BY <2>4
      <4> HIDE DEF current, c, off
      <4>5. 2 * off <= q
        <5> DEFINE n == first - b
                   w == p - r
        <5>1. n \in Int /\ w \in Int BY <1>3, <2>9
        <5> HIDE DEF n, w
        <5>2. /\ m * n \in Int /\ m * w \in Int /\ m * q \in Int
              /\ m * (2 * (n + w)) = 2 * (m * n) + 2 * (m * w)
              /\ m * (q + 1) = m * q + m
          BY <1>2, <4>1, <5>1 DEF Positive
        <5>3. m * n <= Unit + m /\ m * w <= Unit + m BY <1>4, <2>7 DEF n, w
        <5>4. 4 * (Unit + m) <= m * q BY <3>2 DEF m
        <5>5. m * (2 * (n + w)) < m * (q + 1) BY <1>2, <5>2, <5>3, <5>4 DEF Positive
        <5>6. 2 * (n + w) \in Int /\ q + 1 \in Int BY <5>1
        <5>7. 2 * (n + w) < q + 1 BY <1>2, <5>5, <5>6, Fewer
        <5>8. off = n + w BY <4>3 DEF n, w
        <5> QED BY <4>4, <5>1, <5>7, <5>8
      <4>6. PICK j \in Int : c = b + q * j BY <4>2 DEF sameOn
      <4>7. c \in Int BY <2>4 DEF c
      <4>8. c <= current
        <5> SUFFICES ASSUME c > current PROVE FALSE BY <2>4, <4>7
        <5>1. q * j \in Int /\ q * 0 = 0 /\ q * 1 = q BY <4>6 DEF Positive
        <5>2. q * 0 < q * j BY <2>4, <4>3, <4>6, <5>1 DEF off
        <5>3. 0 < j BY <4>1, <4>6, <5>2, Fewer
        <5>4. q <= q * j
          <6>1. PICK i \in Nat : j = i + 1
            <7>1. j - 1 \in Nat /\ j = (j - 1) + 1 BY <4>6, <5>3
            <7> QED BY <7>1
          <6>2. q * j = q * i + q /\ q * i \in Nat BY <6>1
          <6> QED BY <6>2
        <5>5. c >= b + q BY <4>6, <4>7, <5>1, <5>4
        <5>6. c - current >= q - off BY <2>4, <4>7, <5>5 DEF off
        <5> QED BY <2>4, <4>2, <4>4, <4>5, <4>7, <5>6
      <4> QED BY <2>4, <4>7, <4>8 DEF c
    <3> QED BY <3>1, <3>2
  <2> HIDE DEF s
  <2>11. v <= p + s
    <3>1. /\ (y + 1) * Unit \in Int /\ (y + d) * Unit \in Int /\ y * Unit \in Int
          /\ (y + 1) * Unit = y * Unit + Unit /\ (y + d) * Unit = y * Unit + Unit * d
          /\ Unit * d \in Int /\ m * s = s * m /\ m * s \in Int
      BY <1>2, <2>2, <2>5, <2>6 DEF Positive
    <3>2. (y + d) * Unit <= (y + 1) * Unit + m * s BY <1>2, <2>6, <3>1 DEF Positive
    <3> QED BY <1>2, <2>5, <2>10, <3>1, <3>2, RoundedDown DEF v, p, microsToBeats
  <2>12. toPhaseEncodedBeats(g, t, q) <= b BY <2>5, <2>8, <2>9, <2>11
  <2> QED BY <2>1, <2>12
<1> QED BY <1>3, <1>5, <1>6
=============================================================================
