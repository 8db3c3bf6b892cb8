---------------------------- MODULE LinkSessions ----------------------------
(***************************************************************************)
(* How the nodes of a network come to share one Ableton Link session.      *)
(* Each node founds a session, hears the state of the others, measures a   *)
(* peer of every session it learns of, and moves to a session that is      *)
(* older than its own.  The module composes, for every node, Sessions (the *)
(* sessions known and the measurements in progress), Peers (the cache of   *)
(* what was heard) and the session part of Controller (joinSession,        *)
(* resetState, the peer counter).                                          *)
(*                                                                         *)
(* A timeline stands for its beat origin, the only thing that decides      *)
(* between two of them, and a session's age for its ghost time; measuring  *)
(* is exact, and a socket for it can be opened.  The discovery service     *)
(* (LinkDiscovery) repeats the state of a node on one network, which may   *)
(* still deliver an older state of it.                                     *)
(***************************************************************************)
EXTENDS Integers, FiniteSets

CONSTANTS Nodes,
          Ids,         \* node ids: random, and a session has the id of its founder
          FirstId,     \* the id a node starts with
          Age,         \* how long before the others a session was founded
          Eps,         \* SESSION_EPS
          MaxCommits,  \* bound on timelines set by applications
          MaxRare      \* bound on peers unheard for too long, states delayed, measurements unanswered and repeated

Origins == 0 .. MaxCommits
unknown == -1
none == 0
noPeer == [sid |-> none, origin |-> unknown, at |-> none]
noMeasurement == [sid |-> none, at |-> none]

ASSUME SessionsAssumption ==
  /\ Ids \subseteq Nat \ {0} /\ IsFiniteSet(Ids)
  /\ FirstId \in [Nodes -> Ids] /\ Age \in [Ids -> Int] /\ Eps \in Nat
  /\ MaxCommits \in Nat /\ MaxRare \in Nat
  /\ \A s, t \in Ids : Age[s] - Age[t] # Eps

VARIABLES mNodeId, mSessionId,
          known,       \* the timeline of the current session and of mOtherSessions
          mPeers,      \* by the id they had: their session, timeline and endpoint
          mMeasurementMap, \* by peer, the session it is measured for and the endpoint
          mSessionPeerCount,
          resets,      \* handlers posted to reset the state
          mTimer,      \* whether a remeasurement is scheduled
          late,        \* older states of a node still in the network
          lost,        \* history: the sessions whose measurement was dropped for another
          used, commits, rare

measurements == <<mMeasurementMap, lost>>
sessions == <<mSessionId, known, measurements, mTimer>>
bounds == <<used, commits, rare>>
vars == <<mNodeId, sessions, mPeers, mSessionPeerCount, resets, late, bounds>>

Messages == [id : Ids, sid : Ids, origin : Origins]

state(n) == [id |-> mNodeId[n], sid |-> mSessionId[n], origin |-> known[n][mSessionId[n]]]

found(id) == [s \in Ids |-> IF s = id THEN 0 ELSE unknown]

Init ==
  /\ mNodeId = FirstId /\ mSessionId = FirstId
  /\ known = [n \in Nodes |-> found(FirstId[n])]
  /\ mPeers = [n \in Nodes |-> [i \in Ids |-> noPeer]]
  /\ mMeasurementMap = [n \in Nodes |-> [i \in Ids |-> noMeasurement]]
  /\ mSessionPeerCount = [n \in Nodes |-> 0]
  /\ resets = [n \in Nodes |-> 0]
  /\ mTimer = [n \in Nodes |-> FALSE]
  /\ late = [n \in Nodes |-> {}] /\ lost = [n \in Nodes |-> {}]
  /\ used = {FirstId[n] : n \in Nodes} /\ commits = 0 /\ rare = 0
-----------------------------------------------------------------------------
\* The handlers already queued before a posted reset: with MaxResets posted the next one runs.  When no
\* node id is left for a reset, the bound ends the behaviour.
MaxResets == 2
fresh == {i \in Ids \ used : \A j \in used : Age[i] <= Age[j]}
exhausted == fresh = {} /\ \E n \in Nodes : resets[n] > 0
running(n) == ~exhausted /\ resets[n] < MaxResets

sessionPeers(peers, s) == {i \in Ids : peers[i].sid = s}

\* the founding peer, else the first by id
toMeasure(peers, s, i) ==
  LET ps == sessionPeers(peers, s)
  IN  IF s \in ps THEN i = s ELSE \A j \in ps : i <= j

\* a measurement of the same peer that is in progress is dropped, and never answers
launchSessionMeasurement(n, peers, s) ==
  IF sessionPeers(peers, s) = {} THEN UNCHANGED measurements
  ELSE \E i \in sessionPeers(peers, s) :
         /\ toMeasure(peers, s, i)
         /\ mMeasurementMap' = [mMeasurementMap EXCEPT ![n][i] = [sid |-> s, at |-> peers[i].at]]
         /\ lost' = [lost EXCEPT ![n] = @ \union ({mMeasurementMap[n][i].sid} \ {none, s})]

\* SessionPeerCounter: alone in the session, a reset is posted
countPeers(n, peers, s) ==
  LET count == Cardinality(sessionPeers(peers, s))
  IN  /\ mSessionPeerCount' = [mSessionPeerCount EXCEPT ![n] = count]
      /\ resets' = IF count = 0 /\ mSessionPeerCount[n] # 0
                   THEN [resets EXCEPT ![n] = @ + 1] ELSE resets
uncounted == UNCHANGED <<mSessionPeerCount, resets>>

higher(old, new) == IF new > old THEN new ELSE old

\* sawPeerOnGateway, with the timeline and membership callbacks
sawPeerOnGateway(n, at, m) ==
  LET newTimeline == \A i \in Ids : ~(mPeers[n][i].sid = m.sid /\ mPeers[n][i].origin = m.origin)
      peers == [mPeers[n] EXCEPT ![m.id] = [sid |-> m.sid, origin |-> m.origin, at |-> at]]
  IN  /\ running(n) /\ m.id # mNodeId[n]
      /\ mPeers' = [mPeers EXCEPT ![n] = peers]
      /\ known' = IF newTimeline THEN [known EXCEPT ![n][m.sid] = higher(@, m.origin)] ELSE known
      /\ IF newTimeline /\ known[n][m.sid] = unknown
         THEN launchSessionMeasurement(n, peers, m.sid) ELSE UNCHANGED measurements
      /\ IF mPeers[n][m.id].sid # m.sid THEN countPeers(n, peers, mSessionId[n]) ELSE uncounted
      /\ UNCHANGED <<mNodeId, mSessionId, mTimer, late, bounds>>

Hear(n, m) == sawPeerOnGateway(n, m, state(m))
HearLate(n, m) == \E msg \in late[m] : sawPeerOnGateway(n, m, msg)

\* peerLeftGateway, the time to live of a peer over: a node that has taken another id, or one not heard
heard(i, p) == p # noPeer /\ mNodeId[p.at] = i
peerLeftGateway(n, i) ==
  /\ running(n) /\ mPeers[n][i] # noPeer
  /\ mPeers' = [mPeers EXCEPT ![n][i] = noPeer]
  /\ countPeers(n, mPeers[n]', mSessionId[n])
  /\ UNCHANGED <<mNodeId, sessions, late, used, commits>>
Expire(n, i) == ~heard(i, mPeers[n][i]) /\ peerLeftGateway(n, i) /\ UNCHANGED rare
TimeOut(n, i) ==
  heard(i, mPeers[n][i]) /\ rare < MaxRare /\ peerLeftGateway(n, i) /\ rare' = rare + 1
-----------------------------------------------------------------------------
(***************************************************************************)
(* Measurements.                                                           *)
(***************************************************************************)
measured(n, i) == mMeasurementMap' = [mMeasurementMap EXCEPT ![n][i] = noMeasurement] /\ UNCHANGED lost

\* mutant of wins: no order between sessions founded together
winsOlder(s, current) == Age[s] - Age[current] > Eps

\* the older session wins; of two founded within SESSION_EPS the one with the lower id
wins(s, current) ==
  LET ghostDiff == Age[s] - Age[current]
  IN  \/ ghostDiff > Eps
      \/ -Eps < ghostDiff /\ ghostDiff < Eps /\ s < current

\* mutant of joinSession: the peers of the session left are not counted again
joinSessionUncounted(n, s) == mSessionId' = [mSessionId EXCEPT ![n] = s] /\ uncounted

joinSession(n, s) ==
  /\ mSessionId' = [mSessionId EXCEPT ![n] = s]
  /\ countPeers(n, mPeers[n], s)

handleSuccessfulMeasurement(n, s) ==
  IF s # mSessionId[n] /\ known[n][s] # unknown /\ wins(s, mSessionId[n])
  THEN joinSession(n, s) /\ mTimer' = [mTimer EXCEPT ![n] = TRUE]
       /\ UNCHANGED <<known, mPeers>>
  ELSE UNCHANGED <<mSessionId, known, mPeers, mTimer>> /\ uncounted

\* mutants of handleFailedMeasurement: the current session is forgotten; the peers of a session are not
handleFailedMeasurementCurrent(n, s) ==
  /\ known' = [known EXCEPT ![n][s] = unknown]
  /\ UNCHANGED <<mSessionId, mPeers, mTimer>> /\ uncounted
handleFailedMeasurementKeep(n, s) ==
  /\ mTimer' = [mTimer EXCEPT ![n] = @ \/ s = mSessionId[n]]
  /\ known' = IF s = mSessionId[n] THEN known ELSE [known EXCEPT ![n][s] = unknown]
  /\ UNCHANGED <<mSessionId, mPeers>> /\ uncounted

\* a session that cannot be measured is forgotten with its peers, the current one is measured later
handleFailedMeasurement(n, s) ==
  /\ IF s = mSessionId[n] THEN mTimer' = [mTimer EXCEPT ![n] = TRUE] ELSE UNCHANGED mTimer
  /\ IF s # mSessionId[n] /\ known[n][s] # unknown
     THEN /\ known' = [known EXCEPT ![n][s] = unknown]
          /\ mPeers' = [mPeers EXCEPT ![n] =
                          [i \in Ids |-> IF @[i].sid = s THEN noPeer ELSE @[i]]]
     ELSE UNCHANGED <<known, mPeers>>
  /\ UNCHANGED mSessionId /\ uncounted

\* the peer answers for the session it is in, which may not be the one it was measured for
Measured(n, i) ==
  LET m == mMeasurementMap[n][i]
  IN  /\ running(n) /\ m # noMeasurement
      /\ measured(n, i)
      /\ IF mSessionId[m.at] = m.sid THEN handleSuccessfulMeasurement(n, m.sid)
         ELSE handleFailedMeasurement(n, m.sid)
      /\ UNCHANGED <<mNodeId, late, bounds>>

\* no answer in time
Unanswered(n, i) ==
  LET m == mMeasurementMap[n][i]
  IN  /\ running(n) /\ m # noMeasurement /\ rare < MaxRare
      /\ measured(n, i) /\ handleFailedMeasurement(n, m.sid)
      /\ rare' = rare + 1 /\ UNCHANGED <<mNodeId, late, used, commits>>

Remeasure(n) ==
  /\ running(n) /\ mTimer[n] /\ rare < MaxRare /\ rare' = rare + 1
  /\ launchSessionMeasurement(n, mPeers[n], mSessionId[n])
  /\ UNCHANGED <<mNodeId, mSessionId, known, mTimer, mPeers, late, used, commits>> /\ uncounted
-----------------------------------------------------------------------------
(***************************************************************************)
(* The application sets a timeline; a node alone in its session founds     *)
(* another, younger than all there are.                                    *)
(***************************************************************************)
Commit(n) ==
  /\ running(n) /\ commits < MaxCommits
  /\ \E o \in known[n][mSessionId[n]] + 1 .. MaxCommits :
       /\ known' = [known EXCEPT ![n][mSessionId[n]] = o]
       /\ mPeers' = [mPeers EXCEPT ![n] =
            [i \in Ids |-> IF @[i].sid = mSessionId[n] THEN [@[i] EXCEPT !.origin = o] ELSE @[i]]]
  /\ commits' = commits + 1
  /\ UNCHANGED <<mNodeId, mSessionId, measurements, mTimer, late, used, rare>> /\ uncounted

resetState(n) ==
  /\ resets[n] > 0
  /\ \E id \in fresh :
       /\ mNodeId' = [mNodeId EXCEPT ![n] = id]
       /\ mSessionId' = [mSessionId EXCEPT ![n] = id]
       /\ known' = [known EXCEPT ![n] = found(id)]
       /\ used' = used \union {id}
  /\ mPeers' = [mPeers EXCEPT ![n] = [i \in Ids |-> noPeer]]
  /\ resets' = [resets EXCEPT ![n] = @ - 1]
  /\ UNCHANGED <<measurements, mTimer, mSessionPeerCount, late, commits, rare>>

\* the network delays and repeats a state of a node, then forgets it
Delay(n) == /\ late[n] = {} /\ late' = [late EXCEPT ![n] = {state(n)}]
            /\ rare < MaxRare /\ rare' = rare + 1
            /\ UNCHANGED <<mNodeId, sessions, mPeers, mSessionPeerCount, resets, used, commits>>
Drop(n) == late[n] # {} /\ late' = [late EXCEPT ![n] = {}]
           /\ UNCHANGED <<mNodeId, sessions, mPeers, mSessionPeerCount, resets, bounds>>

Next ==
  \/ \E n, m \in Nodes : (n # m /\ Hear(n, m)) \/ HearLate(n, m)
  \/ \E n \in Nodes, i \in Ids : Expire(n, i) \/ TimeOut(n, i) \/ Measured(n, i) \/ Unanswered(n, i)
  \/ \E n \in Nodes : Remeasure(n) \/ Commit(n) \/ resetState(n) \/ Delay(n) \/ Drop(n)

Spec == Init /\ [][Next]_vars

\* what is broadcast is heard, what was not heard of for long expires, measurements end and handlers run
Fairness ==
  /\ \A n, m \in Nodes : n # m => WF_vars(Hear(n, m))
  /\ \A n \in Nodes : WF_vars(resetState(n)) /\ WF_vars(Drop(n))
  /\ \A n \in Nodes, i \in Ids : WF_vars(Expire(n, i)) /\ WF_vars(Measured(n, i))
LiveSpec == Spec /\ Fairness
-----------------------------------------------------------------------------
TypeOK ==
  /\ mNodeId \in [Nodes -> Ids] /\ mSessionId \in [Nodes -> Ids]
  /\ known \in [Nodes -> [Ids -> Origins \union {unknown}]]
  /\ mPeers \in [Nodes -> [Ids -> [sid : Ids, origin : Origins, at : Nodes] \union {noPeer}]]
  /\ mMeasurementMap \in [Nodes -> [Ids -> [sid : Ids, at : Nodes] \union {noMeasurement}]]
  /\ mSessionPeerCount \in [Nodes -> 0 .. Cardinality(Ids)]
  /\ resets \in [Nodes -> 0 .. MaxResets] /\ mTimer \in [Nodes -> BOOLEAN]
  /\ late \in [Nodes -> SUBSET Messages] /\ lost \in [Nodes -> SUBSET Ids]
  /\ used \subseteq Ids /\ commits \in 0 .. MaxCommits /\ rare \in 0 .. MaxRare
  /\ \A n \in Nodes : known[n][mSessionId[n]] # unknown /\ mNodeId[n] \in used

\* Nothing that was heard is missed: the session of every cached peer is known, with a timeline of no
\* lower priority than the one cached.  A peer whose timeline is already cached is not reported again,
\* so a session or timeline lost here would never be adopted (Peers::setSessionTimeline, forgetSession).
NothingMissed ==
  \A n \in Nodes, i \in Ids :
    mPeers[n][i] # noPeer => known[n][mPeers[n][i].sid] >= mPeers[n][i].origin

\* Once nothing rare happens any more, the nodes end in one session, with one timeline priority, unless
\* a measurement was dropped for another of the same peer (MeasurementService::measurePeer), or the ids
\* of the instance run out.
Together == \A n, m \in Nodes :
              mSessionId[n] = mSessionId[m] /\ known[n][mSessionId[n]] = known[m][mSessionId[m]]
Converges == <>[](Together \/ exhausted \/ \E n \in Nodes : lost[n] # {})

\* No peer of the session goes uncounted: with a count of zero the requests of the application ignore
\* the phase of the others (SessionPeerCounter, called at the changes of membership; a reset leaves the
\* count alone, so that it can say more than there are).
EveryPeerCounts == \A n \in Nodes :
  Cardinality(sessionPeers(mPeers[n], mSessionId[n])) <= mSessionPeerCount[n]
=============================================================================
