------------------------- MODULE LinkSessionsProofs -------------------------
(***************************************************************************)
(* Proofs about LinkSessions, for any nodes, ids, ages and bounds.         *)
(***************************************************************************)
EXTENDS LinkSessions, FiniteSetTheorems, TLAPS

\* The three invariants are inductive together.
Inv == TypeOK /\ NothingMissed /\ EveryPeerCounts

Peer == [sid : Ids, origin : Origins, at : Nodes]
Measuring == [sid : Ids, at : Nodes]

\* The type invariant in parts, so that a step only reopens those it disturbs.
IdentityType == mNodeId \in [Nodes -> Ids] /\ mSessionId \in [Nodes -> Ids] /\ used \subseteq Ids
                /\ \A n \in Nodes : mNodeId[n] \in used
KnownType == known \in [Nodes -> [Ids -> Origins \union {unknown}]]
CurrentKnown == \A n \in Nodes : known[n][mSessionId[n]] # unknown
PeersType == mPeers \in [Nodes -> [Ids -> Peer \union {noPeer}]]
MeasurementsType == mMeasurementMap \in [Nodes -> [Ids -> Measuring \union {noMeasurement}]]
                    /\ lost \in [Nodes -> SUBSET Ids]
CountsType == mSessionPeerCount \in [Nodes -> 0 .. Cardinality(Ids)] /\ resets \in [Nodes -> 0 .. MaxResets]
RestType == mTimer \in [Nodes -> BOOLEAN] /\ late \in [Nodes -> SUBSET Messages]
            /\ commits \in 0 .. MaxCommits /\ rare \in 0 .. MaxRare

\* The type invariant is the conjunction of its parts, ...
LEMMA Parts == TypeOK <=> (IdentityType /\ KnownType /\ CurrentKnown /\ PeersType /\ MeasurementsType
                           /\ CountsType /\ RestType)
BY DEF TypeOK, IdentityType, KnownType, CurrentKnown, PeersType, MeasurementsType, CountsType, RestType,
       Peer, Measuring

\* ... also after a step.
LEMMA PartsNext == TypeOK' <=> (IdentityType' /\ KnownType' /\ CurrentKnown' /\ PeersType' /\ MeasurementsType'
                                /\ CountsType' /\ RestType')
BY DEF TypeOK, IdentityType, KnownType, CurrentKnown, PeersType, MeasurementsType, CountsType, RestType,
       Peer, Measuring

\* Ids and origins are told from the marks for nothing.
LEMMA Marks ==
  /\ none \notin Ids /\ unknown \notin Origins /\ noPeer \notin Peer /\ noMeasurement \notin Measuring
  /\ Origins \subseteq Nat /\ Ids \subseteq Nat /\ \A o \in Origins : o >= 0 /\ o # unknown /\ o > unknown
BY SessionsAssumption DEF none, unknown, noPeer, noMeasurement, Peer, Measuring, Origins

\* No timeline has the lowest priority of all.
LEMMA Priorities ==
  /\ Origins \union {unknown} \subseteq Int /\ Origins \subseteq Int
  /\ \A o \in Origins \union {unknown} : o >= unknown
BY SessionsAssumption DEF unknown, Origins
-----------------------------------------------------------------------------
(***************************************************************************)
(* Counting the peers of a session.                                        *)
(***************************************************************************)
\* There are at most as many peers in a session as ids.
LEMMA PeersCounted ==
  ASSUME NEW peers, NEW s
  PROVE  Cardinality(sessionPeers(peers, s)) \in 0 .. Cardinality(Ids)
<1>1. sessionPeers(peers, s) \in SUBSET Ids BY DEF sessionPeers
<1> QED BY <1>1, SessionsAssumption, FS_Subset, FS_CardinalityType

\* A count that is taken is right, and posts at most one reset.
LEMMA Counted ==
  ASSUME CountsType, NEW n \in Nodes, NEW peers, NEW s, running(n), countPeers(n, peers, s)
  PROVE  /\ CountsType'
         /\ mSessionPeerCount'[n] = Cardinality(sessionPeers(peers, s))
         /\ \A k \in Nodes \ {n} : mSessionPeerCount'[k] = mSessionPeerCount[k]
<1> DEFINE count == Cardinality(sessionPeers(peers, s))
<1>1. count \in 0 .. Cardinality(Ids) BY PeersCounted
<1>2. resets[n] + 1 \in 0 .. MaxResets /\ resets \in [Nodes -> 0 .. MaxResets]
  BY DEF CountsType, running, MaxResets
<1>3. mSessionPeerCount' = [mSessionPeerCount EXCEPT ![n] = count] BY DEF countPeers
<1>4. resets' = [resets EXCEPT ![n] = @ + 1] \/ resets' = resets BY DEF countPeers
<1>5. resets' \in [Nodes -> 0 .. MaxResets] BY <1>2, <1>4
<1>6. mSessionPeerCount \in [Nodes -> 0 .. Cardinality(Ids)] BY DEF CountsType
<1> HIDE DEF count
<1>7. /\ mSessionPeerCount' \in [Nodes -> 0 .. Cardinality(Ids)] /\ mSessionPeerCount'[n] = count
      /\ \A k \in Nodes \ {n} : mSessionPeerCount'[k] = mSessionPeerCount[k]
  BY <1>1, <1>3, <1>6
<1> QED BY <1>5, <1>7 DEF CountsType, count

\* The counts stay right when no peer enters or leaves the session of its node.
LEMMA CountsKept ==
  ASSUME EveryPeerCounts, UNCHANGED <<mSessionId, mSessionPeerCount>>,
         \A n \in Nodes, i \in Ids : (mPeers'[n][i].sid = mSessionId[n]) <=> (mPeers[n][i].sid = mSessionId[n])
  PROVE  EveryPeerCounts'
<1>1. ASSUME NEW n \in Nodes
      PROVE  sessionPeers(mPeers'[n], mSessionId'[n]) = sessionPeers(mPeers[n], mSessionId[n])
  BY DEF sessionPeers
<1> QED BY <1>1 DEF EveryPeerCounts

\* They stay right when the node whose peers or session change counts again.
LEMMA CountsTaken ==
  ASSUME EveryPeerCounts, CountsType, NEW n \in Nodes, running(n), countPeers(n, mPeers'[n], mSessionId'[n]),
         \A k \in Nodes \ {n} : mPeers'[k] = mPeers[k] /\ mSessionId'[k] = mSessionId[k]
  PROVE  EveryPeerCounts'
<1>1. /\ mSessionPeerCount'[n] = Cardinality(sessionPeers(mPeers'[n], mSessionId'[n]))
      /\ \A k \in Nodes \ {n} : mSessionPeerCount'[k] = mSessionPeerCount[k]
  BY Counted
<1>2. Cardinality(sessionPeers(mPeers'[n], mSessionId'[n])) \in Int BY PeersCounted
<1>3. ASSUME NEW k \in Nodes
      PROVE  Cardinality(sessionPeers(mPeers'[k], mSessionId'[k])) <= mSessionPeerCount'[k]
  <2>1. CASE k = n BY <2>1, <1>1, <1>2
  <2>2. CASE k # n BY <2>2, <1>1 DEF EveryPeerCounts
  <2> QED BY <2>1, <2>2
<1> QED BY <1>3 DEF EveryPeerCounts
-----------------------------------------------------------------------------
(***************************************************************************)
(* Measurements.                                                           *)
(***************************************************************************)
\* A measurement that is launched is one of a node, for the session.
LEMMA Launched ==
  ASSUME MeasurementsType, NEW n \in Nodes, NEW peers \in [Ids -> Peer \union {noPeer}], NEW s \in Ids,
         launchSessionMeasurement(n, peers, s)
  PROVE  MeasurementsType'
<1>1. CASE UNCHANGED measurements BY <1>1 DEF measurements, MeasurementsType
<1>2. ASSUME NEW i \in sessionPeers(peers, s),
             mMeasurementMap' = [mMeasurementMap EXCEPT ![n][i] = [sid |-> s, at |-> peers[i].at]],
             lost' = [lost EXCEPT ![n] = @ \union ({mMeasurementMap[n][i].sid} \ {none, s})]
      PROVE  MeasurementsType'
  <2>1. i \in Ids /\ peers[i].at \in Nodes BY <1>2, Marks DEF sessionPeers, Peer, noPeer
  <2>2. [sid |-> s, at |-> peers[i].at] \in Measuring BY <2>1 DEF Measuring
  <2>3. {mMeasurementMap[n][i].sid} \ {none, s} \subseteq Ids
    BY <2>1 DEF Measuring, noMeasurement, MeasurementsType
  <2>4. lost[n] \union ({mMeasurementMap[n][i].sid} \ {none, s}) \in SUBSET Ids
    BY <2>3 DEF MeasurementsType
  <2> QED BY <1>2, <2>1, <2>2, <2>4 DEF MeasurementsType
<1> QED BY <1>1, <1>2 DEF launchSessionMeasurement

\* One that has ended is no longer in the map.
LEMMA Ended ==
  ASSUME MeasurementsType, NEW n \in Nodes, NEW i \in Ids, measured(n, i)
  PROVE  MeasurementsType'
BY DEF MeasurementsType, measured
-----------------------------------------------------------------------------
(***************************************************************************)
(* Each action keeps the invariant.                                        *)
(***************************************************************************)
LEMMA Initially == Init => Inv
<1> SUFFICES ASSUME Init PROVE Inv OBVIOUS
<1>1. IdentityType BY SessionsAssumption DEF Init, IdentityType
<1>2. 0 \in Origins BY SessionsAssumption DEF Origins
<1>3. KnownType BY <1>2 DEF Init, KnownType, found
<1>4. CurrentKnown BY SessionsAssumption DEF Init, CurrentKnown, found, unknown
<1>5. PeersType /\ MeasurementsType BY DEF Init, PeersType, MeasurementsType
<1>6. Cardinality(Ids) \in Nat BY SessionsAssumption, FS_CardinalityType
<1>7. CountsType BY <1>6 DEF Init, CountsType, MaxResets
<1>8. RestType BY SessionsAssumption DEF Init, RestType
<1>9. NothingMissed BY DEF Init, NothingMissed
<1>10. EveryPeerCounts
  <2>1. ASSUME NEW n \in Nodes PROVE sessionPeers(mPeers[n], mSessionId[n]) = {}
    BY SessionsAssumption, Marks DEF Init, sessionPeers, noPeer
  <2>2. \A n \in Nodes : mSessionPeerCount[n] = 0 BY DEF Init
  <2>3. Cardinality({}) = 0 BY FS_EmptySet
  <2> QED BY <2>1, <2>2, <2>3 DEF EveryPeerCounts
<1> QED BY <1>1, <1>3, <1>4, <1>5, <1>7, <1>8, <1>9, <1>10, Parts DEF Inv

\* A state heard raises what is known of its session to its timeline, at least.
LEMMA Raised ==
  ASSUME Inv, NEW n \in Nodes, NEW at \in Nodes, NEW m \in Messages, sawPeerOnGateway(n, at, m)
  PROVE  /\ KnownType' /\ known'[n][m.sid] >= m.origin
         /\ \A k \in Nodes, s \in Ids : known'[k][s] >= known[k][s]
<1> DEFINE new == \A i \in Ids : ~(mPeers[n][i].sid = m.sid /\ mPeers[n][i].origin = m.origin)
<1>1. m.sid \in Ids /\ m.origin \in Origins BY DEF Messages
<1>2. KnownType BY Parts DEF Inv
<1>5. \A k \in Nodes, s \in Ids : known[k][s] \in Int /\ known[k][s] \in Origins \union {unknown}
  BY <1>2, Priorities DEF KnownType
<1>3. CASE new
  <2>1. known' = [known EXCEPT ![n][m.sid] = higher(@, m.origin)] BY <1>3 DEF sawPeerOnGateway
  <2>2. /\ higher(known[n][m.sid], m.origin) \in Origins \union {unknown}
        /\ higher(known[n][m.sid], m.origin) >= m.origin
        /\ higher(known[n][m.sid], m.origin) >= known[n][m.sid]
    BY <1>1, <1>5, Priorities DEF higher
  <2> QED BY <1>1, <1>2, <1>5, <2>1, <2>2 DEF KnownType
<1>4. CASE ~new
  <2>1. known' = known BY <1>4 DEF sawPeerOnGateway
  <2>2. PICK i \in Ids : mPeers[n][i].sid = m.sid /\ mPeers[n][i].origin = m.origin BY <1>4
  <2>3. mPeers[n][i] # noPeer BY <1>1, <2>2, Marks DEF noPeer
  <2>4. known[n][m.sid] >= m.origin BY <2>2, <2>3 DEF Inv, NothingMissed
  <2> QED BY <1>2, <1>5, <2>1, <2>4 DEF KnownType
<1> QED BY <1>3, <1>4

\* A peer is seen: its session and timeline are known, and the count is taken if it changed session.
LEMMA Saw ==
  ASSUME Inv, NEW n \in Nodes, NEW at \in Nodes, NEW m \in Messages, sawPeerOnGateway(n, at, m)
  PROVE  Inv'
<1> DEFINE p == [sid |-> m.sid, origin |-> m.origin, at |-> at]
           peers == [mPeers[n] EXCEPT ![m.id] = p]
<1>1. p \in Peer /\ p.sid = m.sid /\ p.origin = m.origin /\ m.id \in Ids BY DEF Messages, Peer
<1>2. PeersType /\ MeasurementsType /\ CountsType /\ IdentityType /\ RestType /\ CurrentKnown /\ KnownType
  BY Parts DEF Inv
<1>3. /\ mPeers' = [mPeers EXCEPT ![n] = peers] /\ running(n)
      /\ UNCHANGED <<mNodeId, mSessionId, mTimer, late, used, commits, rare>>
  BY DEF sawPeerOnGateway, bounds
<1> HIDE DEF p
<1>4. peers \in [Ids -> Peer \union {noPeer}] BY <1>1, <1>2 DEF PeersType
<1>5. mPeers'[n] = peers /\ \A k \in Nodes \ {n} : mPeers'[k] = mPeers[k] BY <1>2, <1>3 DEF PeersType
<1>6. /\ \A k \in Nodes, i \in Ids : (k # n \/ i # m.id) => mPeers'[k][i] = mPeers[k][i]
      /\ mPeers'[n][m.id] = p
  BY <1>1, <1>2, <1>5 DEF PeersType
<1> HIDE DEF peers
<1>7. PeersType' BY <1>2, <1>3, <1>4 DEF PeersType
<1>8. IdentityType' /\ RestType' BY <1>2, <1>3 DEF IdentityType, RestType
<1>9. /\ KnownType' /\ known'[n][m.sid] >= m.origin
      /\ \A k \in Nodes, s \in Ids : known'[k][s] >= known[k][s]
  BY Raised
<1>10. \A k \in Nodes, s \in Ids : /\ known'[k][s] \in Int /\ known[k][s] \in Int
                                   /\ known[k][s] \in Origins \union {unknown}
  BY <1>2, <1>9, Priorities DEF KnownType
<1>11. CurrentKnown'
  <2>1. ASSUME NEW k \in Nodes PROVE known'[k][mSessionId[k]] # unknown
    <3>1. mSessionId[k] \in Ids /\ known[k][mSessionId[k]] # unknown BY <1>2 DEF IdentityType, CurrentKnown
    <3>2. known[k][mSessionId[k]] >= unknown /\ unknown \in Int BY <3>1, <1>10, Priorities
    <3> QED BY <3>1, <3>2, <1>9, <1>10
  <2> QED BY <2>1, <1>3 DEF CurrentKnown
<1>12. MeasurementsType'
  <2>1. launchSessionMeasurement(n, peers, m.sid) \/ UNCHANGED measurements
    BY DEF sawPeerOnGateway, p, peers
  <2>2. m.sid \in Ids BY DEF Messages
  <2>3. CASE UNCHANGED measurements BY <1>2, <2>3 DEF measurements, MeasurementsType
  <2> QED BY <1>2, <1>4, <2>1, <2>2, <2>3, Launched
<1>13. NothingMissed'
  <2>1. ASSUME NEW k \in Nodes, NEW i \in Ids, mPeers'[k][i] # noPeer
        PROVE  known'[k][mPeers'[k][i].sid] >= mPeers'[k][i].origin
    <3>1. CASE k = n /\ i = m.id BY <3>1, <1>1, <1>6, <1>9
    <3>2. CASE k # n \/ i # m.id
      <4>1. mPeers'[k][i] = mPeers[k][i] BY <3>2, <1>6
      <4>2. mPeers[k][i] \in Peer BY <2>1, <4>1, <1>2 DEF PeersType
      <4>3. mPeers[k][i].sid \in Ids /\ mPeers[k][i].origin \in Int BY <4>2, Priorities DEF Peer
      <4>4. known[k][mPeers[k][i].sid] >= mPeers[k][i].origin BY <2>1, <4>1 DEF Inv, NothingMissed
      <4> QED BY <4>1, <4>3, <4>4, <1>9, <1>10
    <3> QED BY <3>1, <3>2
  <2> QED BY <2>1 DEF NothingMissed
<1>14. CountsType' /\ EveryPeerCounts'
  <2>1. CASE mPeers[n][m.id].sid # m.sid
    <3>1. countPeers(n, mPeers'[n], mSessionId'[n])
      BY <2>1, <1>3, <1>5 DEF sawPeerOnGateway, p, peers
    <3>2. CountsType' BY <3>1, <1>2, <1>3, Counted
    <3>3. EveryPeerCounts' BY <3>1, <1>2, <1>3, <1>5, CountsTaken DEF Inv
    <3> QED BY <3>2, <3>3
  <2>2. CASE mPeers[n][m.id].sid = m.sid
    <3>1. UNCHANGED <<mSessionPeerCount, resets>> BY <2>2 DEF sawPeerOnGateway, uncounted
    <3>2. \A k \in Nodes, i \in Ids : mPeers'[k][i].sid = mPeers[k][i].sid BY <2>2, <1>1, <1>6
    <3> QED BY <3>1, <3>2, <1>2, <1>3, CountsKept DEF Inv, CountsType
  <2> QED BY <2>1, <2>2
<1> QED BY <1>7, <1>8, <1>9, <1>11, <1>12, <1>13, <1>14, PartsNext DEF Inv

\* A peer that leaves is counted out.
LEMMA Left ==
  ASSUME Inv, NEW n \in Nodes, NEW i \in Ids, peerLeftGateway(n, i), rare' \in 0 .. MaxRare
  PROVE  Inv'
<1>1. PeersType /\ CountsType /\ IdentityType /\ RestType /\ CurrentKnown /\ KnownType /\ MeasurementsType
  BY Parts DEF Inv
<1>2. /\ mPeers' = [mPeers EXCEPT ![n][i] = noPeer] /\ running(n)
      /\ countPeers(n, mPeers'[n], mSessionId[n])
      /\ UNCHANGED <<mNodeId, mSessionId, known, mMeasurementMap, lost, mTimer, late, used, commits>>
  BY DEF peerLeftGateway, sessions, measurements
<1>3. PeersType' BY <1>1, <1>2 DEF PeersType
<1>4. \A k \in Nodes, j \in Ids : mPeers'[k][j] = mPeers[k][j] \/ mPeers'[k][j] = noPeer
  BY <1>1, <1>2 DEF PeersType
<1>5. \A k \in Nodes \ {n} : mPeers'[k] = mPeers[k] BY <1>1, <1>2 DEF PeersType
<1>6. CountsType' BY <1>1, <1>2, Counted
<1>7. EveryPeerCounts' BY <1>1, <1>2, <1>5, CountsTaken DEF Inv
<1>8. NothingMissed' BY <1>2, <1>4 DEF Inv, NothingMissed
<1>9. IdentityType' /\ RestType' /\ CurrentKnown' /\ KnownType' /\ MeasurementsType'
  BY <1>1, <1>2 DEF IdentityType, RestType, CurrentKnown, KnownType, MeasurementsType
<1> QED BY <1>3, <1>6, <1>7, <1>8, <1>9, PartsNext DEF Inv

\* A measured session that is joined is known, and its peers are counted.
LEMMA Succeeded ==
  ASSUME Inv, NEW n \in Nodes, NEW s \in Ids, running(n), handleSuccessfulMeasurement(n, s),
         MeasurementsType', UNCHANGED <<mNodeId, late, used, commits, rare>>
  PROVE  Inv'
<1>1. PeersType /\ CountsType /\ IdentityType /\ RestType /\ CurrentKnown /\ KnownType
  BY Parts DEF Inv
<1>2. UNCHANGED <<known, mPeers>> BY DEF handleSuccessfulMeasurement
<1>3. PeersType' /\ KnownType' /\ NothingMissed'
  BY <1>1, <1>2 DEF PeersType, KnownType, Inv, NothingMissed
<1>4. CASE UNCHANGED <<mSessionId, mTimer>> /\ uncounted
  <2>1. UNCHANGED <<mSessionPeerCount, resets>> BY <1>4 DEF uncounted
  <2>2. CountsType' /\ IdentityType' /\ CurrentKnown' /\ RestType'
    BY <1>1, <1>2, <1>4, <2>1 DEF CountsType, IdentityType, CurrentKnown, RestType
  <2>3. EveryPeerCounts' BY <1>2, <1>4, <2>1, CountsKept DEF Inv
  <2> QED BY <1>3, <2>2, <2>3, PartsNext DEF Inv
<1>5. CASE known[n][s] # unknown /\ joinSession(n, s) /\ mTimer' = [mTimer EXCEPT ![n] = TRUE]
  <2>1. mSessionId' = [mSessionId EXCEPT ![n] = s] /\ countPeers(n, mPeers[n], s)
    BY <1>5 DEF joinSession
  <2>2. mSessionId'[n] = s /\ \A k \in Nodes \ {n} : mSessionId'[k] = mSessionId[k]
    BY <1>1, <2>1 DEF IdentityType
  <2>3. CountsType' BY <1>1, <2>1, Counted
  <2>4. countPeers(n, mPeers'[n], mSessionId'[n]) BY <1>2, <2>1, <2>2
  <2>5. EveryPeerCounts' BY <1>1, <1>2, <2>2, <2>4, CountsTaken DEF Inv
  <2>6. IdentityType' BY <1>1, <2>1 DEF IdentityType
  <2>7. CurrentKnown' BY <1>1, <1>2, <1>5, <2>2 DEF CurrentKnown
  <2>8. RestType' BY <1>1, <1>5 DEF RestType
  <2> QED BY <1>3, <2>3, <2>5, <2>6, <2>7, <2>8, PartsNext DEF Inv
<1> QED BY <1>4, <1>5 DEF handleSuccessfulMeasurement

\* A session is forgotten with its peers, and never the current one.
LEMMA Failed ==
  ASSUME Inv, NEW n \in Nodes, NEW s \in Ids, handleFailedMeasurement(n, s),
         MeasurementsType', UNCHANGED <<mNodeId, late, used, commits>>, rare' \in 0 .. MaxRare
  PROVE  Inv'
<1>1. PeersType /\ CountsType /\ IdentityType /\ RestType /\ CurrentKnown /\ KnownType
  BY Parts DEF Inv
<1>2. UNCHANGED <<mSessionId, mSessionPeerCount, resets>>
  BY DEF handleFailedMeasurement, uncounted
<1>3. CountsType' /\ IdentityType' BY <1>1, <1>2 DEF CountsType, IdentityType
<1>4. mTimer' \in [Nodes -> BOOLEAN] BY <1>1 DEF handleFailedMeasurement, RestType
<1>5. RestType' BY <1>1, <1>4 DEF RestType
<1>6. CASE UNCHANGED <<known, mPeers>>
  <2>1. PeersType' /\ KnownType' /\ CurrentKnown' /\ NothingMissed'
    BY <1>1, <1>2, <1>6 DEF PeersType, KnownType, CurrentKnown, Inv, NothingMissed
  <2>2. EveryPeerCounts' BY <1>2, <1>6, CountsKept DEF Inv
  <2> QED BY <1>3, <1>5, <2>1, <2>2, PartsNext DEF Inv
<1>7. CASE /\ s # mSessionId[n] /\ known' = [known EXCEPT ![n][s] = unknown]
           /\ mPeers' = [mPeers EXCEPT ![n] =
                           [i \in Ids |-> IF @[i].sid = s THEN noPeer ELSE @[i]]]
  <2>1. \A k \in Nodes, i \in Ids :
          mPeers'[k][i] = IF k = n /\ mPeers[k][i].sid = s THEN noPeer ELSE mPeers[k][i]
    BY <1>1, <1>7 DEF PeersType
  <2>2. \A k \in Nodes, r \in Ids : known'[k][r] = IF k = n /\ r = s THEN unknown ELSE known[k][r]
    BY <1>1, <1>7 DEF KnownType
  <2>3. KnownType' BY <1>1, <1>7 DEF KnownType
  <2>4. PeersType'
    <3>1. [i \in Ids |-> IF mPeers[n][i].sid = s THEN noPeer ELSE mPeers[n][i]] \in [Ids -> Peer \union {noPeer}]
      BY <1>1 DEF PeersType
    <3> QED BY <1>1, <1>7, <3>1 DEF PeersType
  <2>5. CurrentKnown' BY <1>1, <1>2, <1>7, <2>2 DEF CurrentKnown, IdentityType
  <2>6. NothingMissed'
    <3>1. ASSUME NEW k \in Nodes, NEW i \in Ids, mPeers'[k][i] # noPeer
          PROVE  known'[k][mPeers'[k][i].sid] >= mPeers'[k][i].origin
      <4>1. mPeers'[k][i] = mPeers[k][i] /\ ~(k = n /\ mPeers[k][i].sid = s) BY <2>1, <3>1
      <4>2. mPeers[k][i].sid \in Ids BY <1>1, <3>1, <4>1 DEF PeersType, Peer
      <4>3. known'[k][mPeers[k][i].sid] = known[k][mPeers[k][i].sid] BY <2>2, <4>1, <4>2
      <4> QED BY <3>1, <4>1, <4>3 DEF Inv, NothingMissed
    <3> QED BY <3>1 DEF NothingMissed
  <2>7. EveryPeerCounts'
    <3>1. \A k \in Nodes : mSessionId[k] \in Ids BY <1>1 DEF IdentityType
    <3>2. noPeer.sid \notin Ids BY Marks DEF noPeer
    <3>3. \A k \in Nodes, i \in Ids :
            (mPeers'[k][i].sid = mSessionId[k]) <=> (mPeers[k][i].sid = mSessionId[k])
      BY <1>7, <2>1, <3>1, <3>2
    <3> QED BY <1>2, <3>3, CountsKept DEF Inv
  <2> QED BY <1>3, <1>5, <2>3, <2>4, <2>5, <2>6, <2>7, PartsNext DEF Inv
<1> QED BY <1>6, <1>7 DEF handleFailedMeasurement

\* A timeline set by the application is of a higher priority than the one it replaces.
LEMMA Committed ==
  ASSUME Inv, NEW n \in Nodes, Commit(n)
  PROVE  Inv'
<1>1. PeersType /\ CountsType /\ IdentityType /\ RestType /\ CurrentKnown /\ KnownType /\ MeasurementsType
  BY Parts DEF Inv
<1> DEFINE s == mSessionId[n]
<1>2. PICK o \in known[n][s] + 1 .. MaxCommits :
        /\ known' = [known EXCEPT ![n][s] = o]
        /\ mPeers' = [mPeers EXCEPT ![n] =
             [i \in Ids |-> IF @[i].sid = s THEN [@[i] EXCEPT !.origin = o] ELSE @[i]]]
  BY DEF Commit
<1>3. /\ UNCHANGED <<mNodeId, mSessionId, mMeasurementMap, lost, mTimer, late, used, rare,
                     mSessionPeerCount, resets>>
      /\ commits < MaxCommits /\ commits' = commits + 1
  BY DEF Commit, measurements, uncounted
<1>4. s \in Ids /\ known[n][s] \in Origins BY <1>1 DEF IdentityType, CurrentKnown, KnownType
<1>5. o \in Origins /\ o >= known[n][s] BY <1>2, <1>4, SessionsAssumption DEF Origins
<1>6. IdentityType' /\ MeasurementsType' /\ CountsType'
  BY <1>1, <1>3 DEF IdentityType, MeasurementsType, CountsType
<1>7. RestType' BY <1>1, <1>3, SessionsAssumption DEF RestType
<1> HIDE DEF s
<1>8. \A k \in Nodes, r \in Ids : known'[k][r] = IF k = n /\ r = s THEN o ELSE known[k][r]
  BY <1>1, <1>2, <1>4 DEF KnownType
<1>9. KnownType' BY <1>1, <1>2, <1>4, <1>5 DEF KnownType
<1>10. CurrentKnown'
  <2>1. o # unknown BY <1>5, Marks
  <2> QED BY <1>1, <1>3, <1>8, <2>1 DEF CurrentKnown, IdentityType
<1>11. \A k \in Nodes, i \in Ids :
         mPeers'[k][i] = IF k = n /\ mPeers[k][i].sid = s THEN [mPeers[k][i] EXCEPT !.origin = o]
                         ELSE mPeers[k][i]
  BY <1>1, <1>2 DEF PeersType
<1>12. \A k \in Nodes, i \in Ids : mPeers[k][i].sid = s =>
         /\ mPeers[k][i] \in Peer /\ [mPeers[k][i] EXCEPT !.origin = o] \in Peer
         /\ [mPeers[k][i] EXCEPT !.origin = o].sid = s /\ [mPeers[k][i] EXCEPT !.origin = o].origin = o
  <2>1. noPeer.sid # s BY <1>4, Marks DEF noPeer
  <2> QED BY <1>1, <1>5, <2>1 DEF PeersType, Peer
<1>13. PeersType'
  <2>1. [i \in Ids |-> IF mPeers[n][i].sid = s THEN [mPeers[n][i] EXCEPT !.origin = o] ELSE mPeers[n][i]]
          \in [Ids -> Peer \union {noPeer}]
    BY <1>1, <1>12 DEF PeersType
  <2> QED BY <1>1, <1>2, <2>1 DEF PeersType
<1>14. NothingMissed'
  <2>1. ASSUME NEW k \in Nodes, NEW i \in Ids, mPeers'[k][i] # noPeer
        PROVE  known'[k][mPeers'[k][i].sid] >= mPeers'[k][i].origin
    <3>1. CASE k = n /\ mPeers[k][i].sid = s
      <4>1. mPeers'[k][i] = [mPeers[k][i] EXCEPT !.origin = o] BY <3>1, <1>11
      <4>2. mPeers'[k][i].sid = s /\ mPeers'[k][i].origin = o BY <3>1, <4>1, <1>12
      <4>3. known'[k][s] = o BY <3>1, <1>4, <1>8
      <4> QED BY <4>2, <4>3, <1>5, Priorities, <1>5, <1>8, Priorities
    <3>2. CASE ~(k = n /\ mPeers[k][i].sid = s)
      <4>1. mPeers'[k][i] = mPeers[k][i] BY <3>2, <1>11
      <4>2. mPeers[k][i].sid \in Ids BY <1>1, <2>1, <4>1 DEF PeersType, Peer
      <4>3. known'[k][mPeers[k][i].sid] = known[k][mPeers[k][i].sid] BY <1>8, <3>2, <4>2
      <4> QED BY <2>1, <4>1, <4>3 DEF Inv, NothingMissed
    <3> QED BY <3>1, <3>2
  <2> QED BY <2>1 DEF NothingMissed
<1>15. EveryPeerCounts'
  <2>1. ASSUME NEW k \in Nodes, NEW i \in Ids
        PROVE  mPeers'[k][i].sid = mPeers[k][i].sid
    <3>1. CASE k = n /\ mPeers[k][i].sid = s
      <4>1. mPeers'[k][i] = [mPeers[k][i] EXCEPT !.origin = o] BY <3>1, <1>11
      <4>2. [mPeers[k][i] EXCEPT !.origin = o].sid = s BY <3>1, <1>12
      <4> QED BY <3>1, <4>1, <4>2
    <3>2. CASE ~(k = n /\ mPeers[k][i].sid = s)
      <4>1. mPeers'[k][i] = mPeers[k][i] BY <3>2, <1>11
      <4> QED BY <4>1
    <3> QED BY <3>1, <3>2
  <2> QED BY <1>3, <2>1, CountsKept DEF Inv
<1> QED BY <1>6, <1>7, <1>9, <1>10, <1>13, <1>14, <1>15, PartsNext DEF Inv

\* A reset forgets all peers, and founds a session that is known.
LEMMA Reset ==
  ASSUME Inv, NEW n \in Nodes, resetState(n)
  PROVE  Inv'
<1>1. PeersType /\ CountsType /\ IdentityType /\ RestType /\ CurrentKnown /\ KnownType /\ MeasurementsType
  BY Parts DEF Inv
<1>2. PICK id \in fresh : /\ mNodeId' = [mNodeId EXCEPT ![n] = id]
                          /\ mSessionId' = [mSessionId EXCEPT ![n] = id]
                          /\ known' = [known EXCEPT ![n] = found(id)]
                          /\ used' = used \union {id}
  BY DEF resetState
<1>3. /\ mPeers' = [mPeers EXCEPT ![n] = [i \in Ids |-> noPeer]]
      /\ resets[n] > 0 /\ resets' = [resets EXCEPT ![n] = @ - 1]
      /\ UNCHANGED <<mMeasurementMap, lost, mTimer, mSessionPeerCount, late, commits, rare>>
  BY DEF resetState, measurements
<1>4. id \in Ids BY <1>2 DEF fresh
<1>5. IdentityType' BY <1>1, <1>2, <1>4 DEF IdentityType
<1>6. found(id) \in [Ids -> Origins \union {unknown}] /\ found(id)[id] # unknown
  BY <1>4, SessionsAssumption DEF found, Origins, unknown
<1>7. KnownType' BY <1>1, <1>2, <1>6 DEF KnownType
<1>8. CurrentKnown' BY <1>1, <1>2, <1>6 DEF CurrentKnown, KnownType, IdentityType
<1>9. PeersType' BY <1>1, <1>3 DEF PeersType
<1>10. MeasurementsType' /\ RestType' BY <1>1, <1>3 DEF MeasurementsType, RestType
<1>11. CountsType' BY <1>1, <1>3 DEF CountsType, MaxResets
<1>12. \A k \in Nodes, i \in Ids : mPeers'[k][i] = IF k = n THEN noPeer ELSE mPeers[k][i]
  BY <1>1, <1>3 DEF PeersType
<1>13. \A k \in Nodes \ {n} : /\ known'[k] = known[k] /\ mPeers'[k] = mPeers[k]
                              /\ mSessionId'[k] = mSessionId[k]
  BY <1>1, <1>2, <1>3 DEF KnownType, PeersType, IdentityType
<1>14. NothingMissed' BY <1>12, <1>13 DEF Inv, NothingMissed
<1>15. EveryPeerCounts'
  <2>1. ASSUME NEW k \in Nodes
        PROVE  Cardinality(sessionPeers(mPeers'[k], mSessionId'[k])) <= mSessionPeerCount'[k]
    <3>1. CASE k = n
      <4>1. mSessionId'[k] \in Ids BY <1>5 DEF IdentityType
      <4>2. sessionPeers(mPeers'[k], mSessionId'[k]) = {}
        BY <3>1, <4>1, <1>12, Marks DEF sessionPeers, noPeer
      <4>3. mSessionPeerCount'[k] \in 0 .. Cardinality(Ids) BY <1>11 DEF CountsType
      <4> QED BY <4>2, <4>3, FS_EmptySet
    <3>2. CASE k # n BY <3>2, <1>3, <1>13 DEF Inv, EveryPeerCounts
    <3> QED BY <3>1, <3>2
  <2> QED BY <2>1 DEF EveryPeerCounts
<1> QED BY <1>5, <1>7, <1>8, <1>9, <1>10, <1>11, <1>14, <1>15, PartsNext DEF Inv

\* What changes only the measurements, the network and the bounds keeps the rest.
LEMMA Elsewhere ==
  ASSUME Inv, UNCHANGED <<mNodeId, mSessionId, known, mPeers, mSessionPeerCount, resets, mTimer, used, commits>>,
         MeasurementsType', late' \in [Nodes -> SUBSET Messages], rare' \in 0 .. MaxRare
  PROVE  Inv'
<1>1. PeersType /\ CountsType /\ IdentityType /\ RestType /\ CurrentKnown /\ KnownType
  BY Parts DEF Inv
<1>2. PeersType' /\ CountsType' /\ IdentityType' /\ CurrentKnown' /\ KnownType'
  BY <1>1 DEF PeersType, CountsType, IdentityType, CurrentKnown, KnownType
<1>3. RestType' BY <1>1 DEF RestType
<1>4. NothingMissed' BY DEF Inv, NothingMissed
<1>5. EveryPeerCounts' BY CountsKept DEF Inv
<1> QED BY <1>2, <1>3, <1>4, <1>5, PartsNext DEF Inv

\* The budget of rare events is kept.
LEMMA RareType ==
  ASSUME RestType, rare < MaxRare
  PROVE  rare + 1 \in 0 .. MaxRare
BY SessionsAssumption DEF RestType

\* The state of a node is a message.
LEMMA States ==
  ASSUME Inv, NEW n \in Nodes
  PROVE  state(n) \in Messages
<1>1. IdentityType /\ KnownType /\ CurrentKnown BY Parts DEF Inv
<1>2. mNodeId[n] \in Ids /\ mSessionId[n] \in Ids BY <1>1 DEF IdentityType
<1>3. known[n][mSessionId[n]] \in Origins BY <1>1, <1>2 DEF KnownType, CurrentKnown
<1> QED BY <1>2, <1>3 DEF state, Messages

\* A measurement that ends joins a session, forgets one or does neither.
LEMMA MeasurementEnds ==
  ASSUME Inv, NEW n \in Nodes, NEW i \in Ids, Measured(n, i) \/ Unanswered(n, i)
  PROVE  Inv'
<1> DEFINE s == mMeasurementMap[n][i].sid
<1>1. MeasurementsType /\ RestType BY Parts DEF Inv
<1>2. measured(n, i) /\ running(n) /\ mMeasurementMap[n][i] # noMeasurement BY DEF Measured, Unanswered
<1>3. MeasurementsType' BY <1>1, <1>2, Ended
<1>4. s \in Ids BY <1>1, <1>2 DEF MeasurementsType, Measuring
<1>5. CASE Measured(n, i)
  <2>1. /\ handleSuccessfulMeasurement(n, s) \/ handleFailedMeasurement(n, s)
        /\ UNCHANGED <<mNodeId, late, used, commits, rare>>
    BY <1>5 DEF Measured, bounds
  <2>2. rare' \in 0 .. MaxRare BY <1>1, <2>1 DEF RestType
  <2> QED BY <1>2, <1>3, <1>4, <2>1, <2>2, Succeeded, Failed
<1>6. CASE Unanswered(n, i)
  <2>1. /\ handleFailedMeasurement(n, s) /\ UNCHANGED <<mNodeId, late, used, commits>>
        /\ rare < MaxRare /\ rare' = rare + 1
    BY <1>6 DEF Unanswered
  <2>2. rare' \in 0 .. MaxRare BY <1>1, <2>1, RareType
  <2> QED BY <1>3, <1>4, <2>1, <2>2, Failed
<1> QED BY <1>5, <1>6 DEF Measured, Unanswered

\* Remeasuring and the network's delays touch neither peers nor counts.
LEMMA NodeSteps ==
  ASSUME Inv, NEW n \in Nodes, Remeasure(n) \/ Delay(n) \/ Drop(n)
  PROVE  Inv'
<1>1. MeasurementsType /\ RestType /\ PeersType /\ IdentityType BY Parts DEF Inv
<1>2. CASE Remeasure(n)
  <2>1. /\ launchSessionMeasurement(n, mPeers[n], mSessionId[n]) /\ rare < MaxRare /\ rare' = rare + 1
        /\ UNCHANGED <<mNodeId, mSessionId, known, mTimer, mPeers, late, used, commits,
                       mSessionPeerCount, resets>>
    BY <1>2 DEF Remeasure, uncounted
  <2>2. mPeers[n] \in [Ids -> Peer \union {noPeer}] /\ mSessionId[n] \in Ids
    BY <1>1 DEF PeersType, IdentityType
  <2>3. MeasurementsType' BY <1>1, <2>1, <2>2, Launched
  <2>4. rare' \in 0 .. MaxRare /\ late' \in [Nodes -> SUBSET Messages]
    BY <1>1, <2>1, RareType DEF RestType
  <2> QED BY <2>1, <2>3, <2>4, Elsewhere
<1>3. CASE Delay(n)
  <2>1. /\ late' = [late EXCEPT ![n] = {state(n)}] /\ rare < MaxRare /\ rare' = rare + 1
        /\ UNCHANGED <<mNodeId, mSessionId, known, mTimer, mPeers, used, commits,
                       mSessionPeerCount, resets, mMeasurementMap, lost>>
    BY <1>3 DEF Delay, sessions, measurements
  <2>2. MeasurementsType' BY <1>1, <2>1 DEF MeasurementsType
  <2>3. {state(n)} \in SUBSET Messages BY States
  <2>4. rare' \in 0 .. MaxRare /\ late' \in [Nodes -> SUBSET Messages]
    BY <1>1, <2>1, <2>3, RareType DEF RestType
  <2> QED BY <2>1, <2>2, <2>4, Elsewhere
<1>4. CASE Drop(n)
  <2>1. /\ late' = [late EXCEPT ![n] = {}]
        /\ UNCHANGED <<mNodeId, mSessionId, known, mTimer, mPeers, used, commits,
                       mSessionPeerCount, resets, mMeasurementMap, lost, rare>>
    BY <1>4 DEF Drop, sessions, measurements, bounds
  <2>2. MeasurementsType' BY <1>1, <2>1 DEF MeasurementsType
  <2>3. rare' \in 0 .. MaxRare /\ late' \in [Nodes -> SUBSET Messages] BY <1>1, <2>1 DEF RestType
  <2> QED BY <2>1, <2>2, <2>3, Elsewhere
<1> QED BY <1>2, <1>3, <1>4

\* Every step keeps the invariant.
LEMMA Step == Inv /\ [Next]_vars => Inv'
<1> SUFFICES ASSUME Inv, [Next]_vars PROVE Inv' OBVIOUS
<1>1. ASSUME NEW n \in Nodes, NEW m \in Nodes, Hear(n, m) PROVE Inv'
  BY <1>1, States, Saw DEF Hear
<1>2. ASSUME NEW n \in Nodes, NEW m \in Nodes, HearLate(n, m) PROVE Inv'
  <2>1. PICK msg \in late[m] : sawPeerOnGateway(n, m, msg) BY <1>2 DEF HearLate
  <2>2. msg \in Messages BY <2>1, Parts DEF Inv, RestType
  <2> QED BY <2>1, <2>2, Saw
<1>3. ASSUME NEW n \in Nodes, NEW i \in Ids, Expire(n, i) \/ TimeOut(n, i) PROVE Inv'
  <2>1. RestType BY Parts DEF Inv
  <2>2. CASE Expire(n, i)
    <3>1. peerLeftGateway(n, i) /\ UNCHANGED rare BY <2>2 DEF Expire
    <3>2. rare' \in 0 .. MaxRare BY <2>1, <3>1 DEF RestType
    <3> QED BY <3>1, <3>2, Left
  <2>3. CASE TimeOut(n, i)
    <3>1. peerLeftGateway(n, i) /\ rare < MaxRare /\ rare' = rare + 1 BY <2>3 DEF TimeOut
    <3>2. rare' \in 0 .. MaxRare BY <2>1, <3>1, RareType
    <3> QED BY <3>1, <3>2, Left
  <2> QED BY <1>3, <2>2, <2>3
<1>4. ASSUME NEW n \in Nodes, NEW i \in Ids, Measured(n, i) \/ Unanswered(n, i) PROVE Inv'
  BY <1>4, MeasurementEnds
<1>5. ASSUME NEW n \in Nodes, Remeasure(n) \/ Delay(n) \/ Drop(n) PROVE Inv'
  BY <1>5, NodeSteps
<1>6. ASSUME NEW n \in Nodes, Commit(n) PROVE Inv' BY <1>6, Committed
<1>7. ASSUME NEW n \in Nodes, resetState(n) PROVE Inv' BY <1>7, Reset
<1>8. CASE UNCHANGED vars
  <2>1. /\ UNCHANGED <<mNodeId, mSessionId, known, mPeers, mSessionPeerCount, resets, mTimer, used, commits>>
        /\ UNCHANGED <<mMeasurementMap, lost, late, rare>>
    BY <1>8 DEF vars, sessions, measurements, bounds
  <2>2. MeasurementsType /\ RestType BY Parts DEF Inv
  <2>3. MeasurementsType' /\ late' \in [Nodes -> SUBSET Messages] /\ rare' \in 0 .. MaxRare
    BY <2>1, <2>2 DEF MeasurementsType, RestType
  <2> QED BY <2>1, <2>3, Elsewhere
<1> QED BY <1>1, <1>2, <1>3, <1>4, <1>5, <1>6, <1>7, <1>8 DEF Next
-----------------------------------------------------------------------------
\* The invariant holds in every behaviour.
LEMMA Invariance == Spec => []Inv
BY Initially, Step, PTL DEF Spec

\* The state of every node keeps its types: its current session is always known, and no more than
\* MaxResets handlers wait to reset it (Controller, Sessions, Peers).
THEOREM SessionsTypeCorrect == Spec => []TypeOK
<1>1. Inv => TypeOK BY DEF Inv
<1> QED BY <1>1, Invariance, PTL

\* Nothing that was heard is missed, whatever is forgotten, reset, delayed or measured in between
\* (Peers::sawPeerOnGateway, which reports a timeline once, and Sessions::handleFailedMeasurement).
THEOREM NothingIsMissed == Spec => []NothingMissed
<1>1. Inv => NothingMissed BY DEF Inv
<1> QED BY <1>1, Invariance, PTL

\* No peer of the session of a node goes uncounted (Controller's SessionPeerCounter, called at the
\* changes of membership and in joinSession).
THEOREM NoPeerUncounted == Spec => []EveryPeerCounts
<1>1. Inv => EveryPeerCounts BY DEF Inv
<1> QED BY <1>1, Invariance, PTL
=============================================================================
