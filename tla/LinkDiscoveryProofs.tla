------------------------- MODULE LinkDiscoveryProofs ------------------------
(***************************************************************************)
(* Proofs about LinkDiscovery, for any nodes, times to live and bounds.    *)
(***************************************************************************)
EXTENDS LinkDiscovery, FiniteSetTheorems, WellFoundedInduction, TLAPS

\* What is left of the time to live of a peer, or that it is not in the list.
Timeouts == (-Pad .. Ttl) \union {off}

\* The timer of a gateway fires before anybody in its list is overdue by more than the padding.
Timely(g) == \A p \in Nodes : g.mPeerTimeouts[p] # off => g.mPruneTimer <= g.mPeerTimeouts[p] + Pad

\* What holds of a node whose gateway is g, whose cache is peers, and for which r repairs are posted.
NodeOK(g, peers, r) ==
  /\ g \in Gateways /\ Timely(g)
  /\ peers \in [Nodes -> {unseen} \union 0 .. MaxUpdates]
  /\ \A p \in Nodes : peers[p] # unseen => g.mPeerTimeouts[p] # off
  /\ r \in Nat
  /\ g.deaf => g.open /\ r > 0

\* The inductive invariant: so much of every node, and a fault is an event.
NodesOK == /\ gateway \in [Nodes -> Gateways] /\ repairs \in [Nodes -> Nat]
           /\ mPeers \in [Nodes -> [Nodes -> {unseen} \union 0 .. MaxUpdates]]
           /\ \A n \in Nodes : NodeOK(gateway[n], mPeers[n], repairs[n])
OthersType == /\ enabled \in [Nodes -> BOOLEAN] /\ plugged \in [Nodes -> BOOLEAN]
              /\ mState \in [Nodes -> 0 .. MaxUpdates]
NetType == net \subseteq Messages
BoundsType == events \in 0 .. MaxEvents /\ faults \in 0 .. events

Inv == NodesOK /\ OthersType /\ NetType /\ BoundsType

\* What is remembered of postponed broadcasts.
PostponedType == postponed \in [Nodes -> [Nodes -> 0 .. Ttl + 1]]

\* The invariant has the three properties.
LEMMA InvImplies == Inv /\ PostponedType => TypeOK /\ NobodyStays /\ DeafRepaired
BY DiscoveryAssumption
   DEF Inv, NodesOK, NodeOK, Timely, OthersType, NetType, BoundsType, PostponedType, TypeOK,
       NobodyStays, DeafRepaired
-----------------------------------------------------------------------------
(***************************************************************************)
(* Setting the prune timer.                                                *)
(***************************************************************************)
\* A set of numbers that is not empty has a least one: of their segments, one contains no other.
LEMMA Least == ASSUME NEW T \in SUBSET Nat, T # {} PROVE \E x \in T : \A y \in T : x <= y
<1> DEFINE Upto == {0 .. t : t \in T}
           R == StrictSubsetOrdering(Nat)
<1>1. Upto \subseteq FiniteSubsetsOf(Nat) /\ Upto # {}
  <2>1. \A t \in T : 0 .. t \in SUBSET Nat /\ IsFiniteSet(0 .. t) BY FS_Interval
  <2> QED BY <2>1 DEF FiniteSubsetsOf
<1>2. IsWellFoundedOn(R, FiniteSubsetsOf(Nat)) BY FS_StrictSubsetOrderingWellFounded
<1> HIDE DEF R, Upto
<1>3. PICK u \in Upto : \A v \in Upto : <<v, u>> \notin R BY <1>1, <1>2, WFMin
<1>4. PICK x \in T : u = 0 .. x BY DEF Upto
<1>5. ASSUME NEW y \in T, y < x PROVE FALSE
  <2>1. 0 .. y \in Upto BY DEF Upto
  <2>2. 0 .. y \in SUBSET Nat /\ 0 .. x \in SUBSET Nat /\ 0 .. y \subseteq 0 .. x /\ x \in 0 .. x /\ x \notin 0 .. y
    BY <1>5
  <2>3. <<0 .. y, 0 .. x>> \in R BY <2>2 DEF R, StrictSubsetOrdering
  <2> QED BY <2>1, <2>3, <1>3, <1>4
<1> QED BY <1>5

\* Somebody is the next to expire.
LEMMA NextToExpire ==
  ASSUME NEW f \in [Nodes -> Timeouts], NEW n \in Nodes
  PROVE  \E t \in {f[p] : p \in Nodes} : \A p \in Nodes : t <= f[p]
<1> DEFINE T == {f[p] + Pad : p \in Nodes}
<1>1. \A p \in Nodes : f[p] \in Int /\ f[p] + Pad \in Nat BY DiscoveryAssumption DEF Timeouts, off
<1>2. T \in SUBSET Nat /\ T # {} BY <1>1
<1> HIDE DEF T
<1>3. PICK x \in T : \A y \in T : x <= y BY <1>2, Least
<1>4. PICK q \in Nodes : x = f[q] + Pad BY DEF T
<1>5. \A p \in Nodes : f[p] + Pad \in T BY DEF T
<1>6. \A p \in Nodes : f[q] <= f[p] BY <1>1, <1>3, <1>4, <1>5, DiscoveryAssumption
<1> QED BY <1>6

\* Once the timer is set for the next to expire, it is timely, and it has not been waiting too long.
LEMMA Scheduled ==
  ASSUME NEW g \in Gateways, NEW n \in Nodes
  PROVE  LET h == scheduleNextPruning(g)
         IN  /\ h \in Gateways /\ Timely(h)
             /\ h.open = g.open /\ h.deaf = g.deaf /\ h.mPeerTimeouts = g.mPeerTimeouts
<1> DEFINE f == g.mPeerTimeouts
           next == CHOOSE t \in {f[p] : p \in Nodes} : \A p \in Nodes : t <= f[p]
<1>1. f \in [Nodes -> Timeouts] BY DEF Gateways, Timeouts
<1>2. next \in {f[p] : p \in Nodes} /\ \A p \in Nodes : next <= f[p] BY <1>1, NextToExpire
<1>3. next \in Timeouts BY <1>1, <1>2
<1>4. scheduleNextPruning(g) = IF next = off THEN g ELSE [g EXCEPT !.mPruneTimer = next + Pad]
  BY DEF scheduleNextPruning
<1> HIDE DEF next
<1>5. CASE next = off
  <2>1. \A p \in Nodes : f[p] = off BY <1>1, <1>2, <1>5, DiscoveryAssumption DEF Timeouts, off
  <2> QED BY <1>4, <1>5, <2>1 DEF Timely
<1>6. CASE next # off
  <2>1. next + Pad \in 0 .. off BY <1>3, <1>6, DiscoveryAssumption DEF Timeouts, off
  <2>2. \A p \in Nodes : next + Pad <= f[p] + Pad
    BY <1>1, <1>2, <1>3, DiscoveryAssumption DEF Timeouts, off
  <2> QED BY <1>4, <1>6, <2>1, <2>2 DEF Timely, Gateways
<1> QED BY <1>5, <1>6
-----------------------------------------------------------------------------
(***************************************************************************)
(* One node.                                                               *)
(***************************************************************************)
LEMMA Closed == NodeOK(closed, nobody, 0) /\ \A r \in Nat : NodeOK(closed, nobody, r)
BY DiscoveryAssumption DEF NodeOK, Timely, closed, nobody, Gateways, off

\* A step of one node leaves the others as they are.
LEMMA OneNode ==
  ASSUME NodesOK, NEW n \in Nodes, NEW g, NEW peers, NEW r, NodeOK(g, peers, r),
         gateway' = [gateway EXCEPT ![n] = g], mPeers' = [mPeers EXCEPT ![n] = peers],
         repairs' = [repairs EXCEPT ![n] = r]
  PROVE  NodesOK'
<1>1. /\ gateway' \in [Nodes -> Gateways] /\ repairs' \in [Nodes -> Nat]
      /\ mPeers' \in [Nodes -> [Nodes -> {unseen} \union 0 .. MaxUpdates]]
  BY DEF NodesOK, NodeOK
<1>2. ASSUME NEW m \in Nodes PROVE NodeOK(gateway'[m], mPeers'[m], repairs'[m])
  <2>1. CASE m = n BY <2>1 DEF NodesOK
  <2>2. CASE m # n BY <2>2 DEF NodesOK
  <2> QED BY <2>1, <2>2
<1> QED BY <1>1, <1>2 DEF NodesOK, NodeOK, Timely

\* A gateway that only schedules broadcasts, or repairs that are posted, keep what holds of a node.
LEMMA Sending ==
  ASSUME NEW g, NEW peers, NEW r, NodeOK(g, peers, r)
  PROVE  /\ NodeOK(scheduled(g), peers, r) /\ NodeOK(sent(g), peers, r)
         /\ NodeOK(sent(scheduled(g)), peers, r)
         /\ NodeOK(g, peers, r + 1) /\ NodeOK(scheduled(g), peers, r + 1)
<1>1. g \in Gateways BY DEF NodeOK
<1>2. /\ scheduled(g) \in Gateways /\ sent(g) \in Gateways /\ sent(scheduled(g)) \in Gateways
  <2>1. (IF g.recent THEN 1 ELSE Period) \in 0 .. Period BY DiscoveryAssumption
  <2>2. scheduled(g) \in Gateways
    <3> DEFINE t == IF g.recent THEN 1 ELSE Period
    <3> HIDE DEF t
    <3>1. [g EXCEPT !.mTimer = t] \in Gateways BY <1>1, <2>1 DEF Gateways, t
    <3> QED BY <3>1 DEF scheduled, t
  <2>3. \A h \in Gateways : sent(h) \in Gateways BY DEF Gateways, sent
  <2> QED BY <1>1, <2>2, <2>3
<1>3. \A h \in {scheduled(g), sent(g), sent(scheduled(g))} :
        h.open = g.open /\ h.deaf = g.deaf /\ h.mPeerTimeouts = g.mPeerTimeouts /\ h.mPruneTimer = g.mPruneTimer
  BY <1>1 DEF Gateways, scheduled, sent
<1> QED BY <1>2, <1>3 DEF NodeOK, Timely
-----------------------------------------------------------------------------
(***************************************************************************)
(* Messages and bounds.                                                    *)
(***************************************************************************)
LEMMA Multicast ==
  ASSUME NEW n \in Nodes, NEW type \in {"alive", "response", "byebye"}, NEW s \in 0 .. MaxUpdates
  PROVE  multicast(n, type, s) \subseteq Messages
BY DEF multicast, Messages

\* A gateway says bye bye to the other nodes.
LEMMA Farewell == ASSUME NEW n \in Nodes PROVE farewell(n) \subseteq Messages
<1>1. 0 \in 0 .. MaxUpdates BY DiscoveryAssumption
<1> QED BY <1>1, Multicast DEF farewell

\* The bounds hold across an event, a fault or neither.
LEMMA Bounded ==
  ASSUME BoundsType, \/ UNCHANGED bounds
                     \/ event /\ UNCHANGED faults
                     \/ event /\ faults' = faults + 1
  PROVE  BoundsType'
BY DiscoveryAssumption DEF BoundsType, bounds, event

\* A send that succeeds or throws keeps the bounds.
LEMMA SendsOrThrows == ASSUME BoundsType, NEW n \in Nodes, sends(n) \/ throws(n) PROVE BoundsType'
BY Bounded DEF sends, throws, fault
-----------------------------------------------------------------------------
(***************************************************************************)
(* Every action of a node keeps the invariant.                             *)
(***************************************************************************)
LEMMA BroadcastStep == ASSUME Inv, NEW n \in Nodes, broadcastState(n) PROVE Inv'
<1> DEFINE g == gateway[n]
<1>1. NodeOK(g, mPeers[n], repairs[n]) BY DEF Inv, NodesOK
<1>2. mState[n] \in 0 .. MaxUpdates BY DEF Inv, OthersType
<1>3. OthersType' BY DEF Inv, OthersType, broadcastState, others
<1>4. mPeers' = [mPeers EXCEPT ![n] = mPeers[n]] BY DEF Inv, NodesOK, broadcastState
<1>5. CASE /\ sends(n) /\ gateway' = [gateway EXCEPT ![n] = sent(scheduled(g))]
           /\ net' = net \union multicast(n, "alive", mState[n]) /\ UNCHANGED repairs
  <2>1. repairs' = [repairs EXCEPT ![n] = repairs[n]] BY <1>5 DEF Inv, NodesOK
  <2>2. NodesOK' BY <1>1, <1>4, <1>5, <2>1, Sending, OneNode DEF Inv
  <2>3. NetType' BY <1>2, <1>5, Multicast DEF Inv, NetType
  <2> QED BY <1>3, <1>5, <2>2, <2>3, SendsOrThrows DEF Inv
<1>6. CASE /\ throws(n) /\ gateway' = [gateway EXCEPT ![n] = scheduled(g)]
           /\ repairs' = [repairs EXCEPT ![n] = repairs[n] + 1] /\ UNCHANGED net
  <2>1. NodesOK' BY <1>1, <1>4, <1>6, Sending, OneNode DEF Inv
  <2>2. NetType' BY <1>6 DEF Inv, NetType
  <2> QED BY <1>3, <1>6, <2>1, <2>2, SendsOrThrows DEF Inv
<1>7. CASE /\ gateway' = [gateway EXCEPT ![n] = scheduled(g)]
           /\ UNCHANGED <<repairs, net, bounds>>
  <2>1. repairs' = [repairs EXCEPT ![n] = repairs[n]] BY <1>7 DEF Inv, NodesOK
  <2>2. NodesOK' BY <1>1, <1>4, <1>7, <2>1, Sending, OneNode DEF Inv
  <2>3. NetType' BY <1>7 DEF Inv, NetType
  <2> QED BY <1>3, <1>7, <2>2, <2>3, Bounded DEF Inv
<1> QED BY <1>5, <1>6, <1>7 DEF broadcastState

\* A new state of the node.
LEMMA UpdateStep == ASSUME Inv, NEW n \in Nodes, updateState(n) PROVE Inv'
<1> DEFINE g == gateway[n]
<1>1. NodeOK(g, mPeers[n], repairs[n]) BY DEF Inv, NodesOK
<1>2. OthersType' /\ mState'[n] \in 0 .. MaxUpdates
  BY DiscoveryAssumption DEF Inv, OthersType, updateState
<1>3. mPeers' = [mPeers EXCEPT ![n] = mPeers[n]] /\ repairs' = [repairs EXCEPT ![n] = repairs[n]]
  BY DEF Inv, NodesOK, updateState
<1>4. BoundsType' BY Bounded DEF Inv, updateState
<1>5. CASE /\ gateway' = [gateway EXCEPT ![n] = sent(scheduled(g))]
           /\ net' = net \union multicast(n, "alive", mState'[n])
  <2>1. NodesOK' BY <1>1, <1>3, <1>5, Sending, OneNode DEF Inv
  <2>2. NetType' BY <1>2, <1>5, Multicast DEF Inv, NetType
  <2> QED BY <1>2, <1>4, <2>1, <2>2 DEF Inv
<1>6. CASE gateway' = [gateway EXCEPT ![n] = scheduled(g)] /\ UNCHANGED net
  <2>1. NodesOK' BY <1>1, <1>3, <1>6, Sending, OneNode DEF Inv
  <2>2. NetType' BY <1>6 DEF Inv, NetType
  <2> QED BY <1>2, <1>4, <2>1, <2>2 DEF Inv
<1>7. CASE UNCHANGED <<gateway, net>>
  <2>1. gateway' = [gateway EXCEPT ![n] = g] BY <1>7 DEF Inv, NodesOK
  <2>2. NodesOK' BY <1>1, <1>3, <2>1, OneNode DEF Inv
  <2>3. NetType' BY <1>7 DEF Inv, NetType
  <2> QED BY <1>2, <1>4, <2>2, <2>3 DEF Inv
<1> QED BY <1>5, <1>6, <1>7 DEF updateState

\* A state that is heard, a bye bye, and an answer that throws.
LEMMA Heard ==
  ASSUME NEW g, NEW peers, NEW r, NodeOK(g, peers, r), NEW p \in Nodes, NEW s \in 0 .. MaxUpdates
  PROVE  NodeOK(onPeerState(g, p), [peers EXCEPT ![p] = s], r)
<1> DEFINE h == [g EXCEPT !.mPeerTimeouts[p] = Ttl]
<1>1. g \in Gateways /\ peers \in [Nodes -> {unseen} \union 0 .. MaxUpdates] BY DEF NodeOK
<1>2. Ttl \in (-Pad .. Ttl) \union {off} /\ Ttl # off BY DiscoveryAssumption DEF off
<1>3. h \in Gateways /\ h.open = g.open /\ h.deaf = g.deaf
      /\ h.mPeerTimeouts = [g.mPeerTimeouts EXCEPT ![p] = Ttl]
  BY <1>1, <1>2 DEF Gateways
<1>4. /\ onPeerState(g, p) \in Gateways /\ Timely(onPeerState(g, p))
      /\ onPeerState(g, p).open = g.open /\ onPeerState(g, p).deaf = g.deaf
      /\ onPeerState(g, p).mPeerTimeouts = h.mPeerTimeouts
  BY <1>3, Scheduled DEF onPeerState
<1>5. \A q \in Nodes : [peers EXCEPT ![p] = s][q] # unseen => h.mPeerTimeouts[q] # off
  BY <1>1, <1>2, <1>3 DEF NodeOK, Gateways
<1>6. [peers EXCEPT ![p] = s] \in [Nodes -> {unseen} \union 0 .. MaxUpdates] BY <1>1
<1> HIDE DEF h
<1> QED BY <1>4, <1>5, <1>6 DEF NodeOK

\* Taking a peer from the list and from the cache.
LEMMA Left ==
  ASSUME NEW g, NEW peers, NEW r, NodeOK(g, peers, r), NEW p \in Nodes
  PROVE  NodeOK([g EXCEPT !.mPeerTimeouts[p] = off], [peers EXCEPT ![p] = unseen], r)
<1> DEFINE h == [g EXCEPT !.mPeerTimeouts[p] = off]
<1>1. g \in Gateways /\ peers \in [Nodes -> {unseen} \union 0 .. MaxUpdates] BY DEF NodeOK
<1>2. h \in Gateways /\ h.open = g.open /\ h.deaf = g.deaf /\ h.mPruneTimer = g.mPruneTimer
      /\ h.mPeerTimeouts = [g.mPeerTimeouts EXCEPT ![p] = off]
  BY <1>1 DEF Gateways
<1>3. g.mPeerTimeouts \in [Nodes -> Timeouts] BY <1>1 DEF Gateways, Timeouts
<1>4. /\ Timely(h)
      /\ \A q \in Nodes : [peers EXCEPT ![p] = unseen][q] # unseen => h.mPeerTimeouts[q] # off
  BY <1>1, <1>2, <1>3 DEF NodeOK, Timely
<1>5. [peers EXCEPT ![p] = unseen] \in [Nodes -> {unseen} \union 0 .. MaxUpdates] BY <1>1
<1>6. g.deaf => g.open /\ r > 0 BY DEF NodeOK
<1>7. r \in Nat BY DEF NodeOK
<1> HIDE DEF h
<1>8. NodeOK(h, [peers EXCEPT ![p] = unseen], r) BY <1>2, <1>4, <1>5, <1>6, <1>7 DEF NodeOK
<1> QED BY <1>8 DEF h

\* A deaf gateway has its repair posted.
LEMMA Unanswered ==
  ASSUME NEW g, NEW peers, NEW r, NodeOK(g, peers, r), g.open
  PROVE  NodeOK([g EXCEPT !.deaf = TRUE], peers, r + 1)
<1>1. g \in Gateways BY DEF NodeOK
<1> DEFINE h == [g EXCEPT !.deaf = TRUE]
<1>2. h \in Gateways /\ h.open = g.open /\ h.mPruneTimer = g.mPruneTimer /\ h.mPeerTimeouts = g.mPeerTimeouts
  BY <1>1 DEF Gateways
<1> HIDE DEF h
<1>3. NodeOK(h, peers, r + 1) BY <1>2 DEF NodeOK, Timely
<1> QED BY <1>3 DEF h

\* A message is received, answered or not.
LEMMA ReceiveStep == ASSUME Inv, NEW n \in Nodes, NEW m \in net, Receive(n, m) PROVE Inv'
<1> DEFINE g == gateway[n]
<1>1. NodeOK(g, mPeers[n], repairs[n]) /\ g.open BY DEF Inv, NodesOK, Receive, hears
<1>2. m \in Messages /\ m.from \in Nodes /\ m.state \in 0 .. MaxUpdates BY DEF Inv, NetType, Messages
<1>3. OthersType' BY DEF Inv, OthersType, Receive, others
<1>4. net \subseteq Messages /\ net \ {m} \subseteq Messages BY DEF Inv, NetType
<1>5. ASSUME m.type = "alive", sends(n),
             net' = (net \ {m}) \union {[m EXCEPT !.type = "response", !.from = n, !.to = m.from,
                                                  !.state = mState[n]]},
             gateway' = [gateway EXCEPT ![n] = onPeerState(sent(g), m.from)],
             sawPeer(n, m.from, m.state), UNCHANGED repairs
      PROVE  Inv'
  <2>1. repairs' = [repairs EXCEPT ![n] = repairs[n]] BY <1>5 DEF Inv, NodesOK
  <2>2. mPeers' = [mPeers EXCEPT ![n] = [mPeers[n] EXCEPT ![m.from] = m.state]]
    BY <1>5 DEF sawPeer, Inv, NodesOK
  <2>3. NodeOK(sent(g), mPeers[n], repairs[n]) BY <1>1, Sending
  <2>4. NodeOK(onPeerState(sent(g), m.from), [mPeers[n] EXCEPT ![m.from] = m.state], repairs[n])
    BY <1>2, <2>3, Heard
  <2>5. NodesOK' BY <1>5, <2>1, <2>2, <2>4, OneNode DEF Inv
  <2>6. mState[n] \in 0 .. MaxUpdates BY DEF Inv, OthersType
  <2>7. [m EXCEPT !.type = "response", !.from = n, !.to = m.from, !.state = mState[n]] \in Messages
    BY <1>2, <2>6 DEF Messages
  <2>8. NetType' BY <1>4, <1>5, <2>7 DEF NetType
  <2> QED BY <1>3, <1>5, <2>5, <2>8, SendsOrThrows DEF Inv
<1>6. ASSUME unanswered(n, m) PROVE Inv'
  <2>1. mPeers' = [mPeers EXCEPT ![n] = mPeers[n]] BY <1>6 DEF unanswered, Inv, NodesOK
  <2>2. gateway' = [gateway EXCEPT ![n] = [g EXCEPT !.deaf = TRUE]] BY <1>6 DEF unanswered, Inv, NodesOK, Gateways
  <2>3. repairs' = [repairs EXCEPT ![n] = repairs[n] + 1] BY <1>6 DEF unanswered
  <2>4. NodeOK([g EXCEPT !.deaf = TRUE], mPeers[n], repairs[n] + 1) BY <1>1, Unanswered
  <2>5. NodesOK' BY <2>1, <2>2, <2>3, <2>4, OneNode DEF Inv
  <2>6. NetType' BY <1>4, <1>6 DEF NetType, unanswered
  <2> QED BY <1>3, <1>6, <2>5, <2>6, SendsOrThrows DEF Inv, unanswered
<1>7. ASSUME net' = net \ {m}, gateway' = [gateway EXCEPT ![n] = onPeerState(g, m.from)],
             sawPeer(n, m.from, m.state), UNCHANGED <<repairs, bounds>>
      PROVE  Inv'
  <2>1. repairs' = [repairs EXCEPT ![n] = repairs[n]] BY <1>7 DEF Inv, NodesOK
  <2>2. mPeers' = [mPeers EXCEPT ![n] = [mPeers[n] EXCEPT ![m.from] = m.state]]
    BY <1>7 DEF sawPeer, Inv, NodesOK
  <2>3. NodeOK(onPeerState(g, m.from), [mPeers[n] EXCEPT ![m.from] = m.state], repairs[n])
    BY <1>1, <1>2, Heard
  <2>4. NodesOK' BY <1>7, <2>1, <2>2, <2>3, OneNode DEF Inv
  <2>5. NetType' BY <1>4, <1>7 DEF NetType
  <2> QED BY <1>3, <1>7, <2>4, <2>5, Bounded DEF Inv
<1>8. ASSUME net' = net \ {m}, onByeBye(n, m.from), UNCHANGED <<repairs, bounds>> PROVE Inv'
  <2>1. repairs' = [repairs EXCEPT ![n] = repairs[n]] BY <1>8 DEF Inv, NodesOK
  <2>2. NetType' BY <1>4, <1>8 DEF NetType
  <2>3. CASE UNCHANGED <<gateway, mPeers>>
    <3>1. gateway' = [gateway EXCEPT ![n] = g] /\ mPeers' = [mPeers EXCEPT ![n] = mPeers[n]]
      BY <2>3 DEF Inv, NodesOK
    <3>2. NodesOK' BY <1>1, <2>1, <3>1, OneNode DEF Inv
    <3> QED BY <1>3, <1>8, <2>2, <3>2, Bounded DEF Inv
  <2>4. CASE /\ gateway' = [gateway EXCEPT ![n].mPeerTimeouts[m.from] = off]
             /\ mPeers' = [mPeers EXCEPT ![n][m.from] = unseen]
    <3>1. /\ gateway' = [gateway EXCEPT ![n] = [g EXCEPT !.mPeerTimeouts[m.from] = off]]
          /\ mPeers' = [mPeers EXCEPT ![n] = [mPeers[n] EXCEPT ![m.from] = unseen]]
      BY <2>4 DEF Inv, NodesOK
    <3>2. NodesOK' BY <1>1, <1>2, <2>1, <3>1, Left, OneNode DEF Inv
    <3> QED BY <1>3, <1>8, <2>2, <3>2, Bounded DEF Inv
  <2> QED BY <1>8, <2>3, <2>4 DEF onByeBye
<1> QED BY <1>5, <1>6, <1>7, <1>8 DEF Receive, receive

\* Another node is answered, or the answer throws.
LEMMA AnswerStep == ASSUME Inv, NEW n \in Nodes, answerOthers(n) PROVE Inv'
<1> DEFINE g == gateway[n]
<1>1. NodeOK(g, mPeers[n], repairs[n]) /\ g.open BY DEF Inv, NodesOK, answerOthers
<1>2. OthersType' /\ NetType' BY DEF Inv, OthersType, NetType, answerOthers, others
<1>3. mPeers' = [mPeers EXCEPT ![n] = mPeers[n]] BY DEF Inv, NodesOK, answerOthers
<1>4. CASE sends(n) /\ gateway' = [gateway EXCEPT ![n] = sent(g)] /\ UNCHANGED repairs
  <2>1. repairs' = [repairs EXCEPT ![n] = repairs[n]] BY <1>4 DEF Inv, NodesOK
  <2>2. NodesOK' BY <1>1, <1>3, <1>4, <2>1, Sending, OneNode DEF Inv
  <2> QED BY <1>2, <1>4, <2>2, SendsOrThrows DEF Inv
<1>5. CASE /\ throws(n) /\ gateway' = [gateway EXCEPT ![n] = [g EXCEPT !.deaf = TRUE]]
           /\ repairs' = [repairs EXCEPT ![n] = repairs[n] + 1]
  <2>1. NodesOK' BY <1>1, <1>3, <1>5, Unanswered, OneNode DEF Inv
  <2> QED BY <1>2, <1>5, <2>1, SendsOrThrows DEF Inv
<1> QED BY <1>4, <1>5 DEF answerOthers, Inv, NodesOK, Gateways

\* Whoever is overdue leaves, and the timer is set for the others.
LEMMA PruneStep == ASSUME Inv, NEW n \in Nodes, pruneExpiredPeers(n) PROVE Inv'
<1> DEFINE g == gateway[n]
           expired == {p \in Nodes : g.mPeerTimeouts[p] < 0}
           peers == [p \in Nodes |-> IF p \in expired THEN unseen ELSE mPeers[n][p]]
           left == [p \in Nodes |-> IF p \in expired THEN off ELSE g.mPeerTimeouts[p]]
           h == [g EXCEPT !.mPruneTimer = off, !.mPeerTimeouts = left]
<1>1. NodeOK(g, mPeers[n], repairs[n]) BY DEF Inv, NodesOK
<1>2. g \in Gateways /\ mPeers[n] \in [Nodes -> {unseen} \union 0 .. MaxUpdates] BY <1>1 DEF NodeOK
<1>3. left \in [Nodes -> (-Pad .. Ttl) \union {off}] BY <1>2 DEF Gateways
<1>4. off \in 0 .. off BY DiscoveryAssumption DEF off
<1>5. peers \in [Nodes -> {unseen} \union 0 .. MaxUpdates] BY <1>2
<1>6. \A p \in Nodes : peers[p] # unseen => left[p] # off BY <1>1, <1>2 DEF NodeOK
<1> HIDE DEF left
<1>7. h \in Gateways /\ h.open = g.open /\ h.deaf = g.deaf /\ h.mPeerTimeouts = left
  BY <1>2, <1>3, <1>4 DEF Gateways
<1> HIDE DEF h, peers
<1>8. LET k == scheduleNextPruning(h)
      IN  k \in Gateways /\ Timely(k) /\ k.open = g.open /\ k.deaf = g.deaf /\ k.mPeerTimeouts = left
  BY <1>7, Scheduled
<1>9. NodeOK(scheduleNextPruning(h), peers, repairs[n]) BY <1>1, <1>5, <1>6, <1>8 DEF NodeOK
<1>10. /\ gateway' = [gateway EXCEPT ![n] = scheduleNextPruning(h)]
       /\ mPeers' = [mPeers EXCEPT ![n] = peers] /\ repairs' = [repairs EXCEPT ![n] = repairs[n]]
  <2>1. repairs' = [repairs EXCEPT ![n] = repairs[n]] BY DEF pruneExpiredPeers, Inv, NodesOK
  <2>2. mPeers' = [mPeers EXCEPT ![n] = peers] BY DEF pruneExpiredPeers, Inv, NodesOK, peers
  <2>3. gateway' = [gateway EXCEPT ![n] = scheduleNextPruning(h)]
    BY DEF pruneExpiredPeers, Inv, NodesOK, Gateways, h, left
  <2> QED BY <2>1, <2>2, <2>3
<1>11. NodesOK' BY <1>9, <1>10, OneNode DEF Inv
<1> QED BY <1>11, Bounded DEF Inv, pruneExpiredPeers, others, OthersType, NetType

\* A gateway is opened, or it cannot be; what was said before goes out.
LEMMA OpenStep ==
  ASSUME Inv, NEW n \in Nodes, NEW said \in SUBSET Messages, NEW r \in Nat, open(n, said),
         repairs' = [repairs EXCEPT ![n] = r], OthersType'
  PROVE  Inv'
<1>1. mPeers' = [mPeers EXCEPT ![n] = nobody] BY DEF open
<1>2. mState[n] \in 0 .. MaxUpdates BY DEF Inv, OthersType
<1>3. net \subseteq Messages BY DEF Inv, NetType
<1>4. NodeOK(closed, nobody, r) BY Closed
<1>5. CASE /\ sends(n) /\ gateway' = [gateway EXCEPT ![n] = sent(scheduled([closed EXCEPT !.open = TRUE]))]
           /\ net' = net \union said \union multicast(n, "alive", mState[n])
  <2> DEFINE g == [closed EXCEPT !.open = TRUE]
  <2>1. closed \in Gateways BY <1>4 DEF NodeOK
  <2>2. g \in Gateways /\ g.deaf = closed.deaf /\ g.mPeerTimeouts = closed.mPeerTimeouts
        /\ g.mPruneTimer = closed.mPruneTimer /\ closed.deaf = FALSE
    BY <2>1 DEF closed, Gateways
  <2> HIDE DEF g
  <2>3. NodeOK(g, nobody, r) BY <1>4, <2>2 DEF NodeOK, Timely
  <2>4. NodeOK(sent(scheduled(g)), nobody, r) BY <2>3, Sending
  <2>5. NodesOK' BY <1>1, <1>5, <2>4, OneNode DEF Inv, g
  <2>6. NetType' BY <1>2, <1>3, <1>5, Multicast DEF NetType
  <2> QED BY <1>5, <2>5, <2>6, SendsOrThrows DEF Inv
<1>6. CASE throws(n) /\ gateway' = [gateway EXCEPT ![n] = closed] /\ net' = net \union said
  <2>1. NodesOK' BY <1>1, <1>4, <1>6, OneNode DEF Inv
  <2>2. NetType' BY <1>3, <1>6 DEF NetType
  <2> QED BY <1>6, <2>1, <2>2, SendsOrThrows DEF Inv
<1> QED BY <1>5, <1>6 DEF open

\* A gateway is closed.
LEMMA CloseStep ==
  ASSUME Inv, NEW n \in Nodes, NEW said \in SUBSET Messages, NEW r \in Nat, close(n),
         net' = net \union said, repairs' = [repairs EXCEPT ![n] = r], OthersType', BoundsType'
  PROVE  Inv'
<1>1. NodeOK(closed, nobody, r) BY Closed
<1>2. NodesOK' BY <1>1, OneNode DEF Inv, close
<1>3. NetType' BY DEF Inv, NetType
<1> QED BY <1>2, <1>3 DEF Inv

\* A scan opens or closes a gateway, ...
LEMMA ScanStep == ASSUME Inv, NEW n \in Nodes, scan(n) PROVE Inv'
<1>1. repairs[n] \in Nat /\ repairs' = [repairs EXCEPT ![n] = repairs[n]] BY DEF Inv, NodesOK, scan
<1>2. OthersType' BY DEF Inv, OthersType, scan, others
<1>3. CASE open(n, {}) BY <1>1, <1>2, <1>3, OpenStep
<1>4. CASE close(n) /\ UNCHANGED <<net, bounds>>
  <2>1. net' = net \union {} /\ BoundsType' BY <1>4, Bounded DEF Inv
  <2> QED BY <1>1, <1>2, <1>4, <2>1, CloseStep
<1> QED BY <1>3, <1>4 DEF scan

\* ... a repair replaces it, ...
LEMMA RepairStep == ASSUME Inv, NEW n \in Nodes, repairGateway(n) PROVE Inv'
<1> DEFINE r == repairs[n] - 1
<1>1. r \in Nat /\ repairs' = [repairs EXCEPT ![n] = r] BY DEF Inv, NodesOK, repairGateway
<1>2. OthersType' BY DEF Inv, OthersType, repairGateway, others
<1>3. CASE ~gateway[n].open /\ UNCHANGED <<gateway, mPeers, net, bounds>>
  <2>1. NodeOK(gateway[n], mPeers[n], r) BY <1>1, <1>3 DEF Inv, NodesOK, NodeOK
  <2>2. gateway' = [gateway EXCEPT ![n] = gateway[n]] /\ mPeers' = [mPeers EXCEPT ![n] = mPeers[n]]
    BY <1>3 DEF Inv, NodesOK
  <2>3. NodesOK' BY <1>1, <2>1, <2>2, OneNode DEF Inv
  <2> QED BY <1>2, <1>3, <2>3, Bounded DEF Inv, NetType
<1>4. CASE open(n, farewell(n)) BY <1>1, <1>2, <1>4, OpenStep, Farewell
<1>5. CASE close(n) /\ UNCHANGED <<net, bounds>>
  <2>1. net' = net \union {} /\ BoundsType' BY <1>5, Bounded DEF Inv
  <2> QED BY <1>1, <1>2, <1>5, <2>1, CloseStep
<1> QED BY <1>3, <1>4, <1>5 DEF repairGateway

\* ... and so does enabling or disabling discovery.
LEMMA EnableStep == ASSUME Inv, NEW n \in Nodes, enable(n) PROVE Inv'
<1>1. repairs[n] \in Nat /\ repairs' = [repairs EXCEPT ![n] = repairs[n]] BY DEF Inv, NodesOK, enable
<1>2. OthersType' BY DEF Inv, OthersType, enable
<1>3. CASE ~enabled[n] /\ plugged[n] BY <1>1, <1>2, <1>3, OpenStep DEF enable
<1>4. CASE ~(~enabled[n] /\ plugged[n])
  <2>1. BoundsType' BY <1>4, Bounded DEF Inv, enable
  <2> QED BY <1>1, <1>2, <1>4, <2>1, CloseStep, Farewell DEF enable
<1> QED BY <1>3, <1>4

\* An interface comes or goes.
LEMMA PlugStep == ASSUME Inv, NEW n \in Nodes, Plug(n) PROVE Inv'
<1> DEFINE g == gateway[n]
           h == [g EXCEPT !.age = 0]
<1>1. NodeOK(g, mPeers[n], repairs[n]) /\ g \in Gateways BY DEF Inv, NodesOK
<1>2. 0 \in 0 .. Ttl + 1 BY DiscoveryAssumption
<1>3. h \in Gateways /\ h.open = g.open /\ h.deaf = g.deaf /\ h.mPeerTimeouts = g.mPeerTimeouts
      /\ h.mPruneTimer = g.mPruneTimer
  BY <1>1, <1>2 DEF Gateways
<1>4. /\ gateway' = [gateway EXCEPT ![n] = h] /\ mPeers' = [mPeers EXCEPT ![n] = mPeers[n]]
      /\ repairs' = [repairs EXCEPT ![n] = repairs[n]]
  BY DEF Inv, NodesOK, Plug
<1> HIDE DEF h
<1>5. NodeOK(h, mPeers[n], repairs[n]) BY <1>1, <1>3 DEF NodeOK, Timely
<1>6. NodesOK' BY <1>4, <1>5, OneNode DEF Inv
<1> QED BY <1>6, Bounded DEF Inv, Plug, OthersType, NetType

\* The Controller purges the cache.
LEMMA PurgeStep == ASSUME Inv, NEW n \in Nodes, NEW p \in Nodes, Purge(n, p) PROVE Inv'
<1> DEFINE peers == [mPeers[n] EXCEPT ![p] = unseen]
<1>1. NodeOK(gateway[n], mPeers[n], repairs[n]) BY DEF Inv, NodesOK
<1>2. NodeOK(gateway[n], peers, repairs[n]) BY <1>1 DEF NodeOK
<1>3. /\ gateway' = [gateway EXCEPT ![n] = gateway[n]] /\ mPeers' = [mPeers EXCEPT ![n] = peers]
      /\ repairs' = [repairs EXCEPT ![n] = repairs[n]]
  BY DEF Inv, NodesOK, Purge
<1>4. NodesOK' BY <1>2, <1>3, OneNode DEF Inv
<1> QED BY <1>4, Bounded DEF Inv, Purge, fault, others, OthersType, NetType
-----------------------------------------------------------------------------
(***************************************************************************)
(* Messages are lost and time passes.                                      *)
(***************************************************************************)
LEMMA LoseStep == ASSUME Inv, NEW m \in net, Lose(m) PROVE Inv'
BY Bounded DEF Inv, Lose, fault, others, OthersType, NetType, NodesOK, NodeOK, Timely

\* The timer of an open gateway has not reached zero, and goes on with those it is for.
LEMMA Older ==
  ASSUME NEW g, NEW peers, NEW r, NodeOK(g, peers, r), NEW connected,
         g.open => g.mTimer # 0 /\ g.mPruneTimer # 0
  PROVE  NodeOK(elapsed(g, connected), peers, r)
<1>1. g \in Gateways BY DEF NodeOK
<1>2. CASE ~g.open BY <1>2 DEF elapsed
<1>3. CASE g.open
  <2> DEFINE left == [p \in Nodes |-> less(g.mPeerTimeouts[p])]
             age == IF connected /\ g.age <= Ttl THEN g.age + 1 ELSE g.age
             h == [g EXCEPT !.mTimer = @ - 1, !.recent = FALSE, !.mPruneTimer = less(@), !.mPeerTimeouts = left,
                            !.age = age]
  <2>1. g.mPruneTimer \in 1 .. off /\ g.mPeerTimeouts \in [Nodes -> Timeouts] /\ g.age \in 0 .. Ttl + 1
    BY <1>1, <1>3, DiscoveryAssumption DEF Gateways, Timeouts, off
  <2>2. less(g.mPruneTimer) \in 0 .. off /\ age \in 0 .. Ttl + 1
    BY <2>1, DiscoveryAssumption DEF less, off
  <2>3. ASSUME NEW p \in Nodes
        PROVE  /\ less(g.mPeerTimeouts[p]) \in Timeouts
               /\ g.mPeerTimeouts[p] # off <=> less(g.mPeerTimeouts[p]) # off
               /\ less(g.mPeerTimeouts[p]) # off => less(g.mPruneTimer) <= less(g.mPeerTimeouts[p]) + Pad
    <3>1. g.mPeerTimeouts[p] \in Timeouts BY <2>1
    <3>2. g.mPeerTimeouts[p] # off => g.mPruneTimer <= g.mPeerTimeouts[p] + Pad BY DEF NodeOK, Timely
    <3> QED BY <2>1, <3>1, <3>2, DiscoveryAssumption DEF Timeouts, less, off
  <2>4. left \in [Nodes -> (-Pad .. Ttl) \union {off}] BY <2>3 DEF Timeouts
  <2>5. g.mTimer - 1 \in 0 .. Period BY <1>1, <1>3, DiscoveryAssumption DEF Gateways
  <2> HIDE DEF age
  <2>6. h \in Gateways /\ h.open = g.open /\ h.deaf = g.deaf /\ h.mPeerTimeouts = left
        /\ h.mPruneTimer = less(g.mPruneTimer)
    BY <1>1, <2>2, <2>4, <2>5 DEF Gateways
  <2>7. elapsed(g, connected) = h BY <1>1, <1>3 DEF elapsed, Gateways, age
  <2> HIDE DEF h
  <2>8. Timely(h) /\ \A p \in Nodes : peers[p] # unseen => h.mPeerTimeouts[p] # off
    BY <2>3, <2>6 DEF Timely, NodeOK
  <2> QED BY <2>6, <2>7, <2>8 DEF NodeOK
<1> QED BY <1>2, <1>3

\* Time passes: timeouts and the prune timer go down together, and not while the timer is due.
LEMMA TickStep == ASSUME Inv, Tick PROVE Inv'
<1>1. ASSUME NEW n \in Nodes PROVE NodeOK(gateway'[n], mPeers'[n], repairs'[n])
  <2>1. NodeOK(gateway[n], mPeers[n], repairs[n]) BY DEF Inv, NodesOK
  <2>2. gateway[n].open => gateway[n].mTimer # 0 /\ gateway[n].mPruneTimer # 0 BY DEF Tick, calm
  <2> QED BY <2>1, <2>2, Older DEF Tick
<1>2. gateway' \in [Nodes -> Gateways]
  <2>1. \A n \in Nodes : gateway'[n] \in Gateways BY <1>1 DEF NodeOK
  <2> QED BY <2>1 DEF Tick
<1>3. NodesOK' BY <1>1, <1>2 DEF Inv, NodesOK, NodeOK, Timely, Tick
<1> QED BY <1>3, Bounded DEF Inv, Tick, others, OthersType, NetType

\* No gateway is open at the start.
LEMMA InvInit == Init => Inv
<1> SUFFICES ASSUME Init PROVE Inv OBVIOUS
<1>1. closed \in Gateways /\ nobody \in [Nodes -> {unseen} \union 0 .. MaxUpdates] BY Closed DEF NodeOK
<1>2. ASSUME NEW n \in Nodes PROVE NodeOK(gateway[n], mPeers[n], repairs[n]) BY Closed DEF Init
<1>3. NodesOK BY <1>1, <1>2 DEF Init, NodesOK
<1> QED BY <1>3, DiscoveryAssumption DEF Init, Inv, OthersType, NetType, BoundsType

\* Every step keeps the invariant.
LEMMA InvStep == Inv /\ [Next]_vars => Inv'
<1> SUFFICES ASSUME Inv, [Next]_vars PROVE Inv' OBVIOUS
<1>1. CASE UNCHANGED vars
  BY <1>1 DEF vars, bounds, Inv, NodesOK, NodeOK, Timely, OthersType, NetType, BoundsType
<1>2. CASE Next
  BY <1>2, BroadcastStep, UpdateStep, PruneStep, ScanStep, RepairStep, EnableStep, PlugStep,
     ReceiveStep, AnswerStep, PurgeStep, LoseStep, TickStep DEF Next
<1> QED BY <1>1, <1>2

\* Postponed broadcasts are counted up to Ttl + 1, and forgotten by whoever hears the peer.
LEMMA PostponedStep == PostponedType /\ [Next]_vars => PostponedType'
<1> SUFFICES ASSUME PostponedType, [Next]_vars PROVE PostponedType' OBVIOUS
<1>1. CASE UNCHANGED postponed BY <1>1 DEF PostponedType
<1>2. ASSUME NEW n \in Nodes, postpone(n) PROVE PostponedType'
  <2>1. ASSUME NEW k \in Nodes
        PROVE  [postponed[k] EXCEPT ![n] = IF k # n /\ @ <= Ttl THEN @ + 1 ELSE @] \in [Nodes -> 0 .. Ttl + 1]
    BY DiscoveryAssumption DEF PostponedType
  <2> QED BY <1>1, <1>2, <2>1 DEF postpone, PostponedType
<1>3. ASSUME NEW n \in Nodes, NEW p, heard(n, p) PROVE PostponedType'
  <2> DEFINE T == 0 .. Ttl + 1
  <2>1. 0 \in T /\ postponed \in [Nodes -> [Nodes -> T]] BY DiscoveryAssumption DEF PostponedType
  <2> HIDE DEF T
  <2>2. postponed' \in [Nodes -> [Nodes -> T]] BY <1>3, <2>1 DEF heard
  <2> QED BY <2>2 DEF PostponedType, T
<1>4. ASSUME NEW n \in Nodes, NEW m \in net, Receive(n, m) PROVE PostponedType'
  BY <1>1, <1>3, <1>4 DEF Receive, receive, unanswered
<1>5. ASSUME NEW n \in Nodes, broadcastState(n) \/ updateState(n) PROVE PostponedType'
  BY <1>2, <1>5 DEF broadcastState, updateState
<1>6. ASSUME NEW n \in Nodes, \/ pruneExpiredPeers(n) \/ scan(n) \/ repairGateway(n) \/ enable(n) \/ Plug(n)
                              \/ answerOthers(n) \/ \E p \in Nodes : Purge(n, p)
      PROVE  PostponedType'
  BY <1>1, <1>6 DEF pruneExpiredPeers, scan, repairGateway, enable, Plug, answerOthers, Purge
<1>7. CASE Tick \/ (\E m \in net : Lose(m)) \/ UNCHANGED vars BY <1>1, <1>7 DEF Tick, Lose, vars
<1> QED BY <1>4, <1>5, <1>6, <1>7 DEF Next

\* Nothing was postponed at the start.
LEMMA PostponedInit == Init => PostponedType
BY DiscoveryAssumption DEF Init, PostponedType
-----------------------------------------------------------------------------
(***************************************************************************)
(* Who is overdue, and why.                                                *)
(***************************************************************************)
\* Nobody talks to itself, or counts the periods it is not connected.
Messaged == /\ \A m \in net : m.from # m.to
            /\ \A n \in Nodes : gateway[n].mPeerTimeouts[n] = off
Connected == \A n \in Nodes : gateway[n].age > 0 => gateway[n].open /\ plugged[n]

\* At this time n may still hear p, or listen again without its list of timeouts.
awaited(n, p) == gateway[n].deaf \/ \E m \in net : m.type = "alive" /\ m.from = p /\ m.to = n

\* As long as both of them have been there and n has not heard p, with the time to the next broadcast of p, is
\* as long as the broadcasts that went wrong and were postponed make it.
due(n, p) == IF awaited(n, p) THEN 0 ELSE gateway[p].mTimer
allowed == Period * (faults + 1)
ExcusedPair(n, p) ==
  \A j \in 1 .. Ttl + 1 :
    j <= gateway[n].age /\ j <= gateway[p].age /\ j <= Ttl - gateway[n].mPeerTimeouts[p]
      => j + due(n, p) <= allowed + postponed[n][p]
Excused == \A n, p \in Nodes : ExcusedPair(n, p)

InvExcused == Inv /\ PostponedType /\ Messaged /\ Connected /\ Excused

\* The next broadcast of p is no later, but for its postponements.
NoLater(n, p) == \/ postponed'[n][p] > Ttl
                 \/ gateway'[p].mTimer + postponed[n][p] <= gateway[p].mTimer + postponed'[n][p]

\* A period is allowed for each fault.
LEMMA Allowed ==
  ASSUME Inv, Inv', faults' >= faults
  PROVE  /\ allowed \in Nat /\ allowed' \in Nat /\ allowed >= Period /\ allowed' >= allowed
         /\ faults' > faults => allowed' >= allowed + Period
<1>1. Period \in Nat /\ faults \in Nat /\ faults' \in Nat BY DiscoveryAssumption DEF Inv, BoundsType
<1>2. ASSUME NEW k \in Nat PROVE Period * k \in Nat BY <1>1
<1>3. PICK d \in Nat : faults' = faults + d
  <2>1. ASSUME NEW a \in Nat, NEW b \in Nat, a >= b PROVE a - b \in Nat /\ a = b + (a - b) BY <2>1
  <2> QED BY <1>1, <2>1
<1>4. Period * faults \in Nat /\ Period * d \in Nat BY <1>1, <1>2
<1>5. allowed = Period * faults + Period /\ allowed' = allowed + Period * d BY <1>1, <1>3 DEF allowed
<1>6. ASSUME faults' > faults PROVE Period * d >= Period
  <2>1. d # 0 /\ d - 1 \in Nat BY <1>1, <1>3, <1>6
  <2>2. Period * (d - 1) \in Nat BY <1>2, <2>1
  <2>3. Period * d = Period * (d - 1) + Period BY <1>1, <2>1
  <2> QED BY <1>1, <2>2, <2>3
<1> QED BY <1>1, <1>4, <1>5, <1>6

\* A pair is still excused when the time of neither and the time n has not heard p become more, and either one of
\* them starts over, or something goes wrong, or p is awaited, or its next broadcast is no later.
LEMMA StillExcused ==
  ASSUME Inv, Inv', PostponedType, PostponedType',
         NEW n \in Nodes, NEW p \in Nodes, ExcusedPair(n, p), faults' >= faults,
         gateway'[n].age \in {0, gateway[n].age}, gateway'[p].age \in {0, gateway[p].age},
         gateway'[n].mPeerTimeouts[p] \in {gateway[n].mPeerTimeouts[p], off, Ttl},
         \/ gateway'[n].age = 0 \/ gateway'[p].age = 0
         \/ gateway'[n].mPeerTimeouts[p] \in {off, Ttl}
         \/ /\ postponed'[n][p] >= postponed[n][p]
            /\ \/ faults' > faults
               \/ awaited(n, p)'
               \/ ~awaited(n, p) /\ NoLater(n, p)
  PROVE  ExcusedPair(n, p)'
<1> SUFFICES ASSUME NEW j \in 1 .. Ttl + 1, j <= gateway'[n].age, j <= gateway'[p].age,
                    j <= Ttl - gateway'[n].mPeerTimeouts[p]
             PROVE  j + due(n, p)' <= allowed' + postponed'[n][p]
  BY DEF ExcusedPair
<1>1. j \in Nat \ {0} /\ Ttl \in Nat \ {0} /\ Period \in Nat \ {0} BY DiscoveryAssumption
<1>2. gateway'[n].age = gateway[n].age /\ gateway'[p].age = gateway[p].age BY <1>1
<1>3. gateway'[n].mPeerTimeouts[p] \notin {off, Ttl} BY <1>1, DiscoveryAssumption DEF off
<1>4. gateway'[n].mPeerTimeouts[p] = gateway[n].mPeerTimeouts[p] BY <1>3
<1>5. j + due(n, p) <= allowed + postponed[n][p] BY <1>2, <1>4 DEF ExcusedPair
<1>6. /\ postponed'[n][p] >= postponed[n][p]
      /\ faults' > faults \/ awaited(n, p)' \/ (~awaited(n, p) /\ NoLater(n, p))
  BY <1>1, <1>2, <1>3
<1>7. postponed[n][p] \in 0 .. Ttl + 1 /\ postponed'[n][p] \in 0 .. Ttl + 1 BY DEF PostponedType
<1>8. gateway[p].mTimer \in 0 .. Period /\ gateway'[p].mTimer \in 0 .. Period BY DEF Inv, NodesOK, Gateways
<1>9. due(n, p) \in 0 .. Period /\ due(n, p)' \in 0 .. Period BY <1>1, <1>8 DEF due
<1>10. /\ allowed \in Nat /\ allowed' \in Nat /\ allowed' >= Period /\ allowed' >= allowed
       /\ faults' > faults => allowed' >= allowed + Period
  BY <1>1, Allowed
<1> HIDE DEF allowed
<1>11. CASE faults' > faults BY <1>1, <1>5, <1>6, <1>7, <1>9, <1>10, <1>11
<1>12. CASE awaited(n, p)'
  <2>1. due(n, p)' = 0 BY <1>12 DEF due
  <2> QED BY <1>1, <1>5, <1>6, <1>7, <1>9, <1>10, <2>1
<1>13. CASE ~awaited(n, p) /\ ~awaited(n, p)' /\ NoLater(n, p)
  <2>1. due(n, p) = gateway[p].mTimer /\ due(n, p)' = gateway'[p].mTimer BY <1>13 DEF due
  <2>2. CASE postponed'[n][p] > Ttl
    BY <1>1, <1>7, <1>9, <1>10, <2>2
  <2>3. CASE gateway'[p].mTimer + postponed[n][p] <= gateway[p].mTimer + postponed'[n][p]
    BY <1>1, <1>5, <1>7, <1>8, <1>10, <2>1, <2>3
  <2> QED BY <1>13, <2>2, <2>3 DEF NoLater
<1> QED BY <1>6, <1>11, <1>12, <1>13

\* A broadcast that is postponed is counted, by everybody else.
LEMMA Counted ==
  ASSUME Inv, PostponedType, PostponedType', NEW n \in Nodes, postpone(n)
  PROVE  /\ \A k, p \in Nodes : postponed'[k][p] >= postponed[k][p]
         /\ gateway[n].recent /\ gateway'[n].mTimer = 1 => \A k \in Nodes : k # n => NoLater(k, n)
<1>1. \A k, p \in Nodes : postponed[k][p] \in 0 .. Ttl + 1 /\ postponed[k] \in [Nodes -> 0 .. Ttl + 1]
  BY DEF PostponedType
<1>2. gateway[n].mTimer \in 0 .. Period BY DEF Inv, NodesOK, Gateways
<1>3. CASE gateway[n].recent /\ gateway[n].mTimer = 0
  <2>1. ASSUME NEW k \in Nodes, NEW p \in Nodes
        PROVE  postponed'[k][p] = IF p = n /\ k # n /\ postponed[k][p] <= Ttl THEN postponed[k][p] + 1
                                  ELSE postponed[k][p]
    BY <1>1, <1>3 DEF postpone
  <2> QED BY <1>1, <1>3, <2>1, DiscoveryAssumption DEF NoLater
<1>4. CASE ~(gateway[n].recent /\ gateway[n].mTimer = 0)
  <2>1. UNCHANGED postponed BY <1>4 DEF postpone
  <2> QED BY <1>1, <1>2, <1>4, <2>1, DiscoveryAssumption DEF NoLater
<1> QED BY <1>3, <1>4

\* A timer that is left alone is no later.
LEMMA KeptOnTime ==
  ASSUME Inv, PostponedType, PostponedType', NEW k \in Nodes, NEW p \in Nodes,
         gateway'[p].mTimer = gateway[p].mTimer, postponed'[k][p] >= postponed[k][p]
  PROVE  NoLater(k, p)
<1>1. gateway[p].mTimer \in 0 .. Period BY DEF Inv, NodesOK, Gateways
<1>2. postponed[k][p] \in 0 .. Ttl + 1 /\ postponed'[k][p] \in 0 .. Ttl + 1 BY DEF PostponedType
<1> QED BY <1>1, <1>2, DiscoveryAssumption DEF NoLater

\* What was not postponed is not counted.
LEMMA NotCounted ==
  ASSUME PostponedType, UNCHANGED postponed PROVE \A k, p \in Nodes : postponed'[k][p] >= postponed[k][p]
BY DiscoveryAssumption DEF PostponedType

\* The bounds only go up.
LEMMA FaultsGrow ==
  ASSUME Inv, UNCHANGED bounds \/ (event /\ UNCHANGED faults) \/ (event /\ faults' = faults + 1)
  PROVE  faults' >= faults
BY DiscoveryAssumption DEF Inv, BoundsType, bounds

\* A step of one node that keeps who is awaited, the periods and the list of timeouts, and says no more than
\* a bye bye or an answer.
LEMMA Unconcerned ==
  ASSUME InvExcused, Inv', PostponedType', NEW n \in Nodes, NEW g, gateway' = [gateway EXCEPT ![n] = g],
         g.age \in {0, gateway[n].age}, \A p \in Nodes : g.mPeerTimeouts[p] \in {gateway[n].mPeerTimeouts[p], off},
         g.age = 0 \/ (g.mTimer = gateway[n].mTimer /\ (gateway[n].deaf => g.deaf)),
         \A m \in net : m.type = "alive" => m \in net', faults' >= faults,
         \A k, p \in Nodes : postponed'[k][p] >= postponed[k][p]
  PROVE  Excused' /\ \A p \in Nodes : gateway'[p].mPeerTimeouts[p] = off
<1>1. gateway'[n] = g /\ \A p \in Nodes : p # n => gateway'[p] = gateway[p]
  BY DEF InvExcused, Inv, NodesOK
<1>2. ASSUME NEW k \in Nodes, NEW p \in Nodes PROVE ExcusedPair(k, p)'
  <2>1. ExcusedPair(k, p) BY DEF InvExcused, Excused
  <2>2. gateway'[k].age \in {0, gateway[k].age} /\ gateway'[p].age \in {0, gateway[p].age}
        /\ gateway'[k].mPeerTimeouts[p] \in {gateway[k].mPeerTimeouts[p], off, Ttl}
    BY <1>1
  <2>3. CASE gateway'[k].age # 0 /\ gateway'[p].age # 0
    <3>1. gateway'[p].mTimer = gateway[p].mTimer /\ (gateway[k].deaf => gateway'[k].deaf) BY <1>1, <2>3
    <3>2. awaited(k, p) => awaited(k, p)' BY <3>1 DEF awaited
    <3>3. NoLater(k, p) BY <3>1, KeptOnTime DEF InvExcused
    <3> QED BY <2>1, <2>2, <3>2, <3>3, StillExcused DEF InvExcused
  <2> QED BY <2>1, <2>2, <2>3, StillExcused DEF InvExcused
<1>3. \A p \in Nodes : gateway'[p].mPeerTimeouts[p] = off BY <1>1 DEF InvExcused, Messaged
<1> QED BY <1>2, <1>3 DEF Excused

\* A gateway that sends, or fails to: a broadcast is on its way to everybody, or something went wrong, or the
\* interface is gone.
LEMMA ExcusedSending ==
  ASSUME InvExcused, Inv', PostponedType', NEW n \in Nodes, NEW g \in Gateways, gateway' = [gateway EXCEPT ![n] = g],
         g.age = gateway[n].age, g.mPeerTimeouts = gateway[n].mPeerTimeouts, g.deaf = gateway[n].deaf,
         net \subseteq net', faults' >= faults,
         \A k, p \in Nodes : postponed'[k][p] >= postponed[k][p],
         \/ \A k \in Nodes : k # n => NoLater(k, n)
         \/ \E s \in 0 .. MaxUpdates : multicast(n, "alive", s) \subseteq net'
         \/ faults' > faults
         \/ ~plugged[n]
  PROVE  Excused' /\ \A p \in Nodes : gateway'[p].mPeerTimeouts[p] = off
<1>1. gateway'[n] = g /\ \A p \in Nodes : p # n => gateway'[p] = gateway[p]
  BY DEF InvExcused, Inv, NodesOK
<1>2. ASSUME NEW k \in Nodes, NEW p \in Nodes PROVE ExcusedPair(k, p)'
  <2>1. ExcusedPair(k, p) BY DEF InvExcused, Excused
  <2>2. gateway'[k].age = gateway[k].age /\ gateway'[p].age = gateway[p].age
        /\ gateway'[k].mPeerTimeouts = gateway[k].mPeerTimeouts /\ gateway'[k].deaf = gateway[k].deaf
    BY <1>1
  <2>3. CASE p # n
    <3>1. gateway'[p].mTimer = gateway[p].mTimer BY <1>1, <2>3
    <3>2. awaited(k, p) => awaited(k, p)' BY <2>2 DEF awaited
    <3>3. NoLater(k, p) BY <3>1, KeptOnTime DEF InvExcused
    <3> QED BY <2>1, <2>2, <3>2, <3>3, StillExcused DEF InvExcused
  <2>4. CASE k = p
    <3>1. gateway'[k].mPeerTimeouts[p] = off BY <2>2, <2>4 DEF InvExcused, Messaged
    <3> QED BY <2>1, <2>2, <3>1, StillExcused DEF InvExcused
  <2>5. CASE p = n /\ k # n
    <3>1. ASSUME NEW s \in 0 .. MaxUpdates, multicast(n, "alive", s) \subseteq net' PROVE awaited(k, p)'
      <4>1. [type |-> "alive", from |-> n, to |-> k, state |-> s] \in net' BY <2>5, <3>1 DEF multicast
      <4> QED BY <2>5, <4>1 DEF awaited
    <3>2. awaited(k, p) => awaited(k, p)' BY <2>2 DEF awaited
    <3>3. ~plugged[n] => gateway'[p].age = 0
      <4>1. gateway[n].age \in Nat BY DEF InvExcused, Inv, NodesOK, Gateways
      <4> QED BY <2>2, <2>5, <4>1 DEF InvExcused, Connected
    <3>4. gateway'[p].age = 0 \/ faults' > faults \/ awaited(k, p)' \/ (~awaited(k, p) /\ NoLater(k, p))
      BY <2>5, <3>1, <3>2, <3>3
    <3>5. /\ gateway'[k].age \in {0, gateway[k].age} /\ gateway'[p].age \in {0, gateway[p].age}
          /\ gateway'[k].mPeerTimeouts[p] \in {gateway[k].mPeerTimeouts[p], off, Ttl}
      BY <2>2
    <3> QED BY <2>1, <3>4, <3>5, StillExcused DEF InvExcused
  <2> QED BY <2>3, <2>4, <2>5
<1>3. \A p \in Nodes : gateway'[p].mPeerTimeouts[p] = off BY <1>1 DEF InvExcused, Messaged
<1> QED BY <1>2, <1>3 DEF Excused

\* Messages from one node to others stay so.
LEMMA ToOthers ==
  ASSUME Messaged, NEW n, NEW type, NEW s, net' \subseteq net \union multicast(n, type, s),
         \A k \in Nodes : gateway'[k].mPeerTimeouts[k] = off
  PROVE  Messaged'
<1>1. \A m \in multicast(n, type, s) : m.from # m.to BY DEF multicast
<1> QED BY <1>1 DEF Messaged

\* What a node looks like after it changed.
LEMMA Replaced ==
  ASSUME Inv, NEW n \in Nodes, NEW g, gateway' = [gateway EXCEPT ![n] = g]
  PROVE  gateway'[n] = g /\ \A p \in Nodes : p # n => gateway'[p] = gateway[p]
BY DEF Inv, NodesOK

\* The broadcast timer.
LEMMA BroadcastExcused ==
  ASSUME InvExcused, Inv', PostponedType', NEW n \in Nodes, broadcastState(n) PROVE Messaged' /\ Connected' /\ Excused'
<1> DEFINE g == gateway[n]
<1>1. g \in Gateways /\ mState[n] \in 0 .. MaxUpdates BY DEF InvExcused, Inv, NodesOK, OthersType
<1>2. \A h \in {scheduled(g), sent(scheduled(g))} :
         /\ h \in Gateways /\ h.age = g.age /\ h.mPeerTimeouts = g.mPeerTimeouts /\ h.deaf = g.deaf
         /\ h.open = g.open
  <2>1. NodeOK(g, mPeers[n], repairs[n]) BY DEF InvExcused, Inv, NodesOK
  <2>2. scheduled(g) \in Gateways /\ sent(scheduled(g)) \in Gateways BY <2>1, Sending DEF NodeOK
  <2> QED BY <1>1, <2>2 DEF Gateways, scheduled, sent
<1>3. UNCHANGED plugged /\ faults' >= faults
  <2>1. UNCHANGED bounds \/ (event /\ faults' = faults + 1)
    BY DEF broadcastState, sends, throws, fault
  <2> QED BY <2>1, FaultsGrow DEF InvExcused, broadcastState, others
<1>4. PICK h \in {scheduled(g), sent(scheduled(g))} :
        /\ gateway' = [gateway EXCEPT ![n] = h]
        /\ net \subseteq net' /\ net' \subseteq net \union multicast(n, "alive", mState[n])
        /\ \/ multicast(n, "alive", mState[n]) \subseteq net' \/ faults' > faults \/ ~plugged[n]
           \/ g.recent /\ h.mTimer = 1
  <2>1. CASE /\ sends(n) /\ gateway' = [gateway EXCEPT ![n] = sent(scheduled(g))]
             /\ net' = net \union multicast(n, "alive", mState[n])
    BY <2>1
  <2>2. CASE throws(n) /\ gateway' = [gateway EXCEPT ![n] = scheduled(g)] /\ UNCHANGED net
    <3>1. faults' > faults \/ ~plugged[n] BY <2>2 DEF throws, fault, InvExcused, Inv, BoundsType
    <3> QED BY <2>2, <3>1
  <2>3. CASE g.recent /\ gateway' = [gateway EXCEPT ![n] = scheduled(g)] /\ UNCHANGED net
    <3>1. scheduled(g).mTimer = 1 BY <1>1, <2>3 DEF scheduled, Gateways
    <3> QED BY <2>3, <3>1
  <2> QED BY <2>1, <2>2, <2>3 DEF broadcastState
<1>5. /\ \A k, p \in Nodes : postponed'[k][p] >= postponed[k][p]
      /\ g.recent /\ h.mTimer = 1 => \A k \in Nodes : k # n => NoLater(k, n)
  BY <1>4, Counted, Replaced DEF InvExcused, broadcastState
<1>6. Excused' /\ \A p \in Nodes : gateway'[p].mPeerTimeouts[p] = off
  BY <1>1, <1>2, <1>3, <1>4, <1>5, ExcusedSending
<1>7. Messaged' BY <1>4, <1>6, ToOthers DEF InvExcused
<1>8. Connected' BY <1>2, <1>3, <1>4, Replaced DEF InvExcused, Connected
<1> QED BY <1>6, <1>7, <1>8

\* A new state.
LEMMA UpdateExcused ==
  ASSUME InvExcused, Inv', PostponedType', NEW n \in Nodes, updateState(n) PROVE Messaged' /\ Connected' /\ Excused'
<1> DEFINE g == gateway[n]
<1>1. g \in Gateways /\ mState'[n] \in 0 .. MaxUpdates /\ faults \in Int
  BY DEF InvExcused, Inv, NodesOK, OthersType, BoundsType
<1>2. \A h \in {g, scheduled(g), sent(scheduled(g))} :
         /\ h \in Gateways /\ h.age = g.age /\ h.mPeerTimeouts = g.mPeerTimeouts /\ h.deaf = g.deaf
         /\ h.open = g.open
  <2>1. NodeOK(g, mPeers[n], repairs[n]) BY DEF InvExcused, Inv, NodesOK
  <2>2. scheduled(g) \in Gateways /\ sent(scheduled(g)) \in Gateways BY <2>1, Sending DEF NodeOK
  <2> QED BY <1>1, <2>2 DEF Gateways, scheduled, sent
<1>3. UNCHANGED plugged /\ faults' >= faults BY <1>1 DEF updateState
<1>4. \A k, p \in Nodes : postponed'[k][p] >= postponed[k][p] BY Counted DEF InvExcused, updateState
<1>5. CASE g.open
  <2>1. PICK h \in {g, scheduled(g), sent(scheduled(g))} :
          /\ gateway' = [gateway EXCEPT ![n] = h]
          /\ net \subseteq net' /\ net' \subseteq net \union multicast(n, "alive", mState'[n])
          /\ \/ multicast(n, "alive", mState'[n]) \subseteq net' \/ faults' > faults \/ ~plugged[n]
             \/ g.recent /\ h.mTimer = 1
    <3>1. g.recent => scheduled(g).mTimer = 1 BY <1>1 DEF scheduled, Gateways
    <3> QED BY <1>1, <1>5, <3>1 DEF updateState
  <2>2. g.recent /\ h.mTimer = 1 => \A k \in Nodes : k # n => NoLater(k, n)
    BY <2>1, Counted, Replaced DEF InvExcused, updateState
  <2>3. Excused' /\ \A p \in Nodes : gateway'[p].mPeerTimeouts[p] = off
    BY <1>1, <1>2, <1>3, <1>4, <2>1, <2>2, ExcusedSending
  <2>4. Messaged' BY <2>1, <2>3, ToOthers DEF InvExcused
  <2>5. Connected' BY <1>2, <1>3, <2>1, Replaced DEF InvExcused, Connected
  <2> QED BY <2>3, <2>4, <2>5
<1>6. CASE ~g.open
  <2>1. UNCHANGED <<gateway, net>> BY <1>6 DEF updateState
  <2>2. gateway' = [gateway EXCEPT ![n] = g] BY <2>1 DEF InvExcused, Inv, NodesOK
  <2>3. Excused' BY <1>1, <1>3, <1>4, <2>1, <2>2, Unconcerned
  <2> QED BY <1>3, <2>1, <2>3 DEF InvExcused, Messaged, Connected
<1> QED BY <1>5, <1>6

\* A step that changes what does not matter here.
LEMMA AsideExcused ==
  ASSUME InvExcused, Inv', PostponedType', NEW n \in Nodes, NEW g \in Gateways, gateway' = [gateway EXCEPT ![n] = g],
         g.age \in {0, gateway[n].age}, \A p \in Nodes : g.mPeerTimeouts[p] \in {gateway[n].mPeerTimeouts[p], off},
         g.age = 0 \/ (g.mTimer = gateway[n].mTimer /\ (gateway[n].deaf => g.deaf) /\ g.open = gateway[n].open
                         /\ plugged'[n] = plugged[n]),
         \A p \in Nodes : p # n => plugged'[p] = plugged[p],
         net \subseteq net', \A m \in net' \ net : m.from # m.to, faults' >= faults, UNCHANGED postponed
  PROVE  Messaged' /\ Connected' /\ Excused'
<1>1. gateway'[n] = g /\ \A p \in Nodes : p # n => gateway'[p] = gateway[p]
  BY Replaced DEF InvExcused
<1>2. Excused' /\ \A p \in Nodes : gateway'[p].mPeerTimeouts[p] = off
  BY Unconcerned, NotCounted DEF InvExcused
<1>3. Messaged' BY <1>2 DEF InvExcused, Messaged
<1>4. Connected' BY <1>1 DEF InvExcused, Connected
<1> QED BY <1>2, <1>3, <1>4

\* Pruning, an interface and a purge.
LEMMA LocalExcused ==
  ASSUME InvExcused, Inv', PostponedType', NEW n \in Nodes,
         pruneExpiredPeers(n) \/ Plug(n) \/ \E p \in Nodes : Purge(n, p)
  PROVE  Messaged' /\ Connected' /\ Excused'
<1> DEFINE g == gateway'[n]
<1>1. gateway[n] \in Gateways /\ g \in Gateways BY DEF InvExcused, Inv, NodesOK
<1>2. faults' >= faults
  <2>1. UNCHANGED bounds \/ (event /\ UNCHANGED faults) \/ (event /\ faults' = faults + 1)
    BY DEF pruneExpiredPeers, Plug, Purge, fault
  <2> QED BY <2>1, FaultsGrow DEF InvExcused
<1>3. UNCHANGED <<net, postponed>> BY DEF pruneExpiredPeers, Plug, Purge
<1>4. /\ gateway' = [gateway EXCEPT ![n] = g]
      /\ g.age \in {0, gateway[n].age}
      /\ \A p \in Nodes : g.mPeerTimeouts[p] \in {gateway[n].mPeerTimeouts[p], off}
      /\ g.age = 0 \/ (g.mTimer = gateway[n].mTimer /\ g.deaf = gateway[n].deaf /\ g.open = gateway[n].open
                         /\ plugged'[n] = plugged[n])
      /\ \A p \in Nodes : p # n => plugged'[p] = plugged[p]
  <2>1. CASE Plug(n) BY <1>1, <2>1 DEF Plug, InvExcused, Inv, NodesOK, Gateways, OthersType
  <2>2. CASE \E p \in Nodes : Purge(n, p) BY <1>1, <2>2 DEF Purge, others, InvExcused, Inv, NodesOK
  <2>3. CASE pruneExpiredPeers(n)
    <3> DEFINE left == [p \in Nodes |-> IF gateway[n].mPeerTimeouts[p] < 0 THEN off
                                        ELSE gateway[n].mPeerTimeouts[p]]
               h == [gateway[n] EXCEPT !.mPruneTimer = off, !.mPeerTimeouts = left]
    <3>1. gateway' = [gateway EXCEPT ![n] = scheduleNextPruning(h)] /\ UNCHANGED plugged
      BY <1>1, <2>3 DEF pruneExpiredPeers, others, Gateways
    <3>2. \A p \in Nodes : left[p] \in {gateway[n].mPeerTimeouts[p], off} OBVIOUS
    <3> HIDE DEF left
    <3>3. h.age = gateway[n].age /\ h.mPeerTimeouts = left /\ h.open = gateway[n].open
          /\ h.mTimer = gateway[n].mTimer /\ h.deaf = gateway[n].deaf
      BY <1>1 DEF Gateways
    <3>4. LET k == scheduleNextPruning(h)
          IN  k.age = h.age /\ k.mPeerTimeouts = h.mPeerTimeouts /\ k.mTimer = h.mTimer /\ k.deaf = h.deaf
              /\ k.open = h.open
      <4>1. \A x : LET k == [h EXCEPT !.mPruneTimer = x]
                   IN  k.age = h.age /\ k.mPeerTimeouts = h.mPeerTimeouts /\ k.mTimer = h.mTimer /\ k.deaf = h.deaf
                       /\ k.open = h.open
        BY <1>1 DEF Gateways
      <4> HIDE DEF h
      <4> QED BY <4>1 DEF scheduleNextPruning
    <3>5. g = scheduleNextPruning(h) BY <3>1, Replaced DEF InvExcused
    <3> HIDE DEF h
    <3> QED BY <3>1, <3>2, <3>3, <3>4, <3>5
  <2> QED BY <2>1, <2>2, <2>3
<1> HIDE DEF g
<1> QED BY <1>1, <1>2, <1>3, <1>4, AsideExcused DEF g

\* A gateway that is opened or closed starts with an empty list and no periods.
LEMMA OpenExcused ==
  ASSUME InvExcused, Inv', PostponedType', NEW n \in Nodes, NEW said, \A m \in said : m.from # m.to,
         open(n, said) \/ (close(n) /\ net' = net \union said /\ faults' >= faults),
         UNCHANGED <<plugged, postponed>>
  PROVE  Messaged' /\ Connected' /\ Excused'
<1> DEFINE opened == sent(scheduled([closed EXCEPT !.open = TRUE]))
<1>1. \A h \in {opened, closed} : h.age = 0 /\ \A p \in Nodes : h.mPeerTimeouts[p] = off
  <2> DEFINE g == [closed EXCEPT !.open = TRUE]
  <2>1. closed \in Gateways /\ closed.age = 0 /\ closed.mPeerTimeouts = [p \in Nodes |-> off]
    BY Closed DEF NodeOK, closed
  <2>2. g \in Gateways /\ g.age = 0 /\ g.mPeerTimeouts = closed.mPeerTimeouts BY <2>1 DEF Gateways
  <2> HIDE DEF g
  <2>3. opened.age = 0 /\ opened.mPeerTimeouts = closed.mPeerTimeouts
    BY <2>2 DEF Gateways, sent, scheduled, opened, g
  <2> QED BY <2>1, <2>3
<1> HIDE DEF opened
<1>2. PICK h \in {opened, closed} : gateway' = [gateway EXCEPT ![n] = h]
  BY DEF open, close, opened
<1>3. net \subseteq net' /\ \A m \in net' \ net : m.from # m.to
  <2>1. \A m \in multicast(n, "alive", mState[n]) : m.from # m.to BY DEF multicast
  <2> QED BY <2>1 DEF open
<1>4. faults' >= faults
  <2>1. CASE open(n, said)
    <3>1. UNCHANGED bounds \/ (event /\ faults' = faults + 1) BY <2>1 DEF open, sends, throws, fault
    <3> QED BY <3>1, FaultsGrow DEF InvExcused
  <2> QED BY <2>1
<1>5. h \in Gateways BY <1>2, Replaced DEF InvExcused, Inv, NodesOK
<1> QED BY <1>1, <1>2, <1>3, <1>4, <1>5, AsideExcused

\* Scanning, repairing and enabling.
LEMMA GatewayExcused ==
  ASSUME InvExcused, Inv', PostponedType', NEW n \in Nodes, scan(n) \/ repairGateway(n) \/ enable(n)
  PROVE  Messaged' /\ Connected' /\ Excused'
<1>1. UNCHANGED <<plugged, postponed>> BY DEF scan, repairGateway, enable, others
<1>2. \A m \in farewell(n) : m.from # m.to BY DEF farewell, multicast
<1>3. ASSUME UNCHANGED bounds \/ (event /\ UNCHANGED faults) PROVE faults' >= faults
  BY <1>3, FaultsGrow DEF InvExcused
<1>4. CASE scan(n)
  <2>1. open(n, {}) \/ (close(n) /\ net' = net \union {} /\ UNCHANGED bounds) BY <1>4 DEF scan
  <2> QED BY <1>1, <1>3, <2>1, OpenExcused
<1>5. CASE repairGateway(n) /\ gateway[n].open
  <2>1. open(n, farewell(n)) \/ (close(n) /\ net' = net \union {} /\ UNCHANGED bounds)
    BY <1>5 DEF repairGateway
  <2>2. CASE open(n, farewell(n)) BY <1>1, <1>2, <2>2, OpenExcused
  <2>3. CASE close(n) /\ net' = net \union {} /\ UNCHANGED bounds
    <3> DEFINE said == {}
    <3>1. \A m \in said : m.from # m.to OBVIOUS
    <3>2. close(n) /\ net' = net \union said /\ faults' >= faults BY <1>3, <2>3
    <3> HIDE DEF said
    <3> QED BY <1>1, <3>1, <3>2, OpenExcused
  <2> QED BY <2>1, <2>2, <2>3
<1>6. CASE repairGateway(n) /\ ~gateway[n].open
  <2>1. UNCHANGED <<gateway, net, bounds>> BY <1>6 DEF repairGateway
  <2>2. gateway' = [gateway EXCEPT ![n] = gateway[n]] /\ gateway[n] \in Gateways
    BY <2>1 DEF InvExcused, Inv, NodesOK
  <2> QED BY <1>1, <1>3, <2>1, <2>2, AsideExcused
<1>7. CASE enable(n) /\ ~enabled[n] /\ plugged[n]
  <2>1. open(n, {}) BY <1>7 DEF enable
  <2> QED BY <1>1, <2>1, OpenExcused
<1>8. CASE enable(n) /\ ~(~enabled[n] /\ plugged[n])
  <2>1. close(n) /\ net' = net \union farewell(n) /\ (UNCHANGED bounds \/ (event /\ UNCHANGED faults))
    BY <1>8 DEF enable
  <2> QED BY <1>1, <1>2, <1>3, <2>1, OpenExcused
<1> QED BY <1>4, <1>5, <1>6, <1>7, <1>8

\* A message leaves the network: it was heard, or something went wrong, or nobody listened.
LEMMA Delivered ==
  ASSUME InvExcused, Inv', PostponedType', NEW m \in net, NEW g \in Gateways,
         gateway' = [gateway EXCEPT ![m.to] = g], UNCHANGED plugged, faults' >= faults,
         net \ {m} \subseteq net', \A k \in net' \ net : k.from # k.to,
         g.age = gateway[m.to].age, g.mTimer = gateway[m.to].mTimer, g.open = gateway[m.to].open,
         gateway[m.to].deaf => g.deaf,
         \A p \in Nodes : g.mPeerTimeouts[p] \in {gateway[m.to].mPeerTimeouts[p], off}
                          \/ (p = m.from /\ g.mPeerTimeouts[p] = Ttl),
         m.type # "alive" \/ g.mPeerTimeouts[m.from] = Ttl \/ faults' > faults \/ g.deaf \/ g.age = 0,
         \A k, p \in Nodes : \/ postponed'[k][p] = postponed[k][p]
                             \/ k = m.to /\ p = m.from /\ g.mPeerTimeouts[m.from] = Ttl
  PROVE  Messaged' /\ Connected' /\ Excused'
<1>1. m.to \in Nodes /\ m.from \in Nodes /\ m.from # m.to
  BY DEF InvExcused, Messaged, Inv, NetType, Messages
<1>2. gateway'[m.to] = g /\ \A p \in Nodes : p # m.to => gateway'[p] = gateway[p]
  BY <1>1, Replaced DEF InvExcused
<1>3. ASSUME NEW n \in Nodes, NEW p \in Nodes PROVE ExcusedPair(n, p)'
  <2>1. ExcusedPair(n, p) BY DEF InvExcused, Excused
  <2>2. /\ gateway'[n].age \in {0, gateway[n].age} /\ gateway'[p].age \in {0, gateway[p].age}
        /\ gateway'[n].mPeerTimeouts[p] \in {gateway[n].mPeerTimeouts[p], off, Ttl}
    BY <1>1, <1>2
  <2>3. gateway'[p].mTimer = gateway[p].mTimer /\ (gateway[n].deaf => gateway'[n].deaf) BY <1>1, <1>2
  <2>4. CASE n = m.to /\ p = m.from /\ g.mPeerTimeouts[m.from] = Ttl
    BY <1>2, <2>1, <2>2, <2>4, StillExcused DEF InvExcused
  <2>5. CASE ~(n = m.to /\ p = m.from /\ g.mPeerTimeouts[m.from] = Ttl)
    <3>1. postponed'[n][p] = postponed[n][p] /\ postponed[n][p] \in Int
      BY <2>5, DiscoveryAssumption DEF InvExcused, PostponedType
    <3>2. NoLater(n, p) BY <2>3, <3>1, KeptOnTime DEF InvExcused
    <3>3. gateway'[n].age = 0 \/ faults' > faults \/ (awaited(n, p) => awaited(n, p)')
      <4>1. CASE m.type = "alive" /\ m.from = p /\ m.to = n
        <5>1. g.deaf => awaited(n, p)' BY <1>2, <4>1 DEF awaited
        <5> QED BY <1>2, <2>5, <4>1, <5>1
      <4>2. CASE ~(m.type = "alive" /\ m.from = p /\ m.to = n)
        BY <2>3, <4>2 DEF awaited
      <4> QED BY <4>1, <4>2
    <3> QED BY <2>1, <2>2, <3>1, <3>2, <3>3, StillExcused DEF InvExcused
  <2> QED BY <2>4, <2>5
<1>4. Excused' BY <1>3 DEF Excused
<1>5. Messaged'
  <2>1. \A p \in Nodes : gateway'[p].mPeerTimeouts[p] = off
    BY <1>1, <1>2 DEF InvExcused, Messaged
  <2> QED BY <2>1 DEF InvExcused, Messaged
<1>6. Connected' BY <1>2 DEF InvExcused, Connected
<1> QED BY <1>4, <1>5, <1>6

\* Receiving a message.
LEMMA ReceiveExcused ==
  ASSUME InvExcused, Inv', PostponedType', NEW n \in Nodes, NEW m \in net, Receive(n, m)
  PROVE  Messaged' /\ Connected' /\ Excused'
<1> DEFINE g == gateway[n]
<1>1. /\ m.to = n /\ m.from \in Nodes /\ m.from # n /\ g \in Gateways /\ plugged[n] /\ UNCHANGED plugged
      /\ faults \in Int /\ gateway'[n] \in Gateways
  BY DEF InvExcused, Messaged, Inv, NodesOK, NetType, Messages, BoundsType, Receive, hears, others
<1>2. ASSUME NEW h \in Gateways, h.age = g.age, h.mTimer = g.mTimer, h.open = g.open, h.deaf = g.deaf,
             h.mPeerTimeouts = g.mPeerTimeouts
      PROVE  LET k == onPeerState(h, m.from)
             IN  /\ k.age = g.age /\ k.mTimer = g.mTimer /\ k.open = g.open /\ k.deaf = g.deaf
                 /\ k.mPeerTimeouts = [g.mPeerTimeouts EXCEPT ![m.from] = Ttl]
  <2> DEFINE i == [h EXCEPT !.mPeerTimeouts[m.from] = Ttl]
  <2>1. i.age = g.age /\ i.mTimer = g.mTimer /\ i.open = g.open /\ i.deaf = g.deaf
        /\ i.mPeerTimeouts = [g.mPeerTimeouts EXCEPT ![m.from] = Ttl]
    BY <1>2 DEF Gateways
  <2>2. \A x : LET k == [i EXCEPT !.mPruneTimer = x]
               IN  k.age = i.age /\ k.mTimer = i.mTimer /\ k.open = i.open /\ k.deaf = i.deaf
                   /\ k.mPeerTimeouts = i.mPeerTimeouts
    BY <1>2 DEF Gateways
  <2> HIDE DEF i
  <2> QED BY <2>1, <2>2 DEF onPeerState, scheduleNextPruning, i
<1>3. sent(g) \in Gateways /\ sent(g).age = g.age /\ sent(g).mTimer = g.mTimer /\ sent(g).open = g.open
      /\ sent(g).deaf = g.deaf /\ sent(g).mPeerTimeouts = g.mPeerTimeouts
  BY <1>1 DEF sent, Gateways
<1> DEFINE Becomes(h) ==
             /\ gateway' = [gateway EXCEPT ![n] = h]
             /\ h.age = g.age /\ h.mTimer = g.mTimer /\ h.open = g.open /\ (g.deaf => h.deaf)
             /\ \A p \in Nodes : h.mPeerTimeouts[p] \in {g.mPeerTimeouts[p], off}
                                 \/ (p = m.from /\ h.mPeerTimeouts[p] = Ttl)
             /\ m.type # "alive" \/ h.mPeerTimeouts[m.from] = Ttl \/ faults' > faults
             /\ UNCHANGED postponed \/ (heard(n, m.from) /\ h.mPeerTimeouts[m.from] = Ttl)
<1>4. \E h \in Gateways : Becomes(h)
  <2>1. CASE unanswered(n, m)
    <3> DEFINE h == [g EXCEPT !.deaf = TRUE]
    <3>1. gateway' = [gateway EXCEPT ![n] = h] /\ faults' = faults + 1 /\ UNCHANGED postponed
      BY <1>1, <2>1 DEF unanswered, throws, fault, InvExcused, Inv, NodesOK, Gateways
    <3>2. h \in Gateways /\ h.age = g.age /\ h.mTimer = g.mTimer /\ h.open = g.open /\ h.deaf
          /\ h.mPeerTimeouts = g.mPeerTimeouts
      BY <1>1 DEF Gateways
    <3>3. faults' > faults BY <1>1, <3>1
    <3> HIDE DEF h
    <3>4. Becomes(h) BY <3>1, <3>2, <3>3
    <3> QED BY <3>2, <3>4
  <2>2. ASSUME NEW h \in {g, sent(g)}, gateway' = [gateway EXCEPT ![n] = onPeerState(h, m.from)], heard(n, m.from)
        PROVE  \E k \in Gateways : Becomes(k)
    <3> DEFINE k == onPeerState(h, m.from)
    <3>1. /\ k.age = g.age /\ k.mTimer = g.mTimer /\ k.open = g.open /\ k.deaf = g.deaf
          /\ k.mPeerTimeouts = [g.mPeerTimeouts EXCEPT ![m.from] = Ttl]
      BY <1>1, <1>2, <1>3
    <3>2. gateway' = [gateway EXCEPT ![n] = k] BY <2>2
    <3> HIDE DEF k
    <3>3. k \in Gateways BY <1>1, <3>2, Replaced DEF InvExcused
    <3>4. \A p \in Nodes : k.mPeerTimeouts[p] = IF p = m.from THEN Ttl ELSE g.mPeerTimeouts[p]
      BY <1>1, <3>1 DEF Gateways
    <3>5. Becomes(k) BY <1>1, <2>2, <3>1, <3>2, <3>4
    <3> QED BY <3>3, <3>5
  <2>3. CASE m.type = "byebye" /\ onByeBye(n, m.from) /\ UNCHANGED postponed
    <3> DEFINE h == [g EXCEPT !.mPeerTimeouts[m.from] = off]
    <3>1. gateway' = [gateway EXCEPT ![n] = g] \/ gateway' = [gateway EXCEPT ![n] = h]
      BY <1>1, <2>3 DEF onByeBye, InvExcused, Inv, NodesOK, Gateways
    <3>2. h.age = g.age /\ h.mTimer = g.mTimer /\ h.open = g.open /\ h.deaf = g.deaf
          /\ \A p \in Nodes : h.mPeerTimeouts[p] = IF p = m.from THEN off ELSE g.mPeerTimeouts[p]
      BY <1>1 DEF Gateways
    <3> HIDE DEF h
    <3>3. CASE gateway' = [gateway EXCEPT ![n] = g]
      <4>1. Becomes(g) BY <2>3, <3>3
      <4> QED BY <1>1, <4>1
    <3>4. CASE gateway' = [gateway EXCEPT ![n] = h]
      <4>1. Becomes(h) BY <2>3, <3>2, <3>4
      <4>2. h \in Gateways BY <1>1, <3>4, Replaced DEF InvExcused
      <4> QED BY <4>1, <4>2
    <3> QED BY <3>1, <3>3, <3>4
  <2> HIDE DEF Becomes
  <2> QED BY <2>1, <2>2, <2>3 DEF Receive, receive
<1>5. PICK h \in Gateways : Becomes(h) BY <1>4
<1>6. faults' >= faults
  <2>1. UNCHANGED bounds \/ (event /\ faults' = faults + 1)
    BY DEF Receive, receive, unanswered, sends, throws, fault
  <2> QED BY <2>1, FaultsGrow DEF InvExcused
<1>7. net \ {m} \subseteq net' /\ \A k \in net' \ net : k.from # k.to
  <2>1. ASSUME NEW s
        PROVE  LET k == [m EXCEPT !.type = "response", !.from = n, !.to = m.from, !.state = s]
               IN  k.from = n /\ k.to = m.from
    BY DEF InvExcused, Inv, NetType, Messages
  <2> QED BY <1>1, <2>1 DEF Receive, receive, unanswered
<1>8. /\ gateway' = [gateway EXCEPT ![m.to] = h]
      /\ h.age = gateway[m.to].age /\ h.mTimer = gateway[m.to].mTimer /\ h.open = gateway[m.to].open
      /\ gateway[m.to].deaf => h.deaf
      /\ \A p \in Nodes : h.mPeerTimeouts[p] \in {gateway[m.to].mPeerTimeouts[p], off}
                          \/ (p = m.from /\ h.mPeerTimeouts[p] = Ttl)
      /\ m.type # "alive" \/ h.mPeerTimeouts[m.from] = Ttl \/ faults' > faults
  BY <1>1, <1>5
<1>9. \A k, p \in Nodes : \/ postponed'[k][p] = postponed[k][p]
                          \/ k = m.to /\ p = m.from /\ h.mPeerTimeouts[m.from] = Ttl
  <2>1. CASE UNCHANGED postponed BY <2>1
  <2>2. CASE heard(n, m.from) /\ h.mPeerTimeouts[m.from] = Ttl
    BY <1>1, <2>2 DEF heard, InvExcused, PostponedType
  <2> QED BY <1>5, <2>1, <2>2
<1> HIDE DEF g, Becomes
<1> QED BY <1>1, <1>6, <1>7, <1>8, <1>9, Delivered

\* Losing one.
LEMMA LoseExcused ==
  ASSUME InvExcused, Inv', PostponedType', NEW m \in net, Lose(m) PROVE Messaged' /\ Connected' /\ Excused'
<1> DEFINE g == gateway[m.to]
<1>1. m.to \in Nodes /\ g \in Gateways /\ g.age \in Nat BY DEF InvExcused, Inv, NetType, Messages, NodesOK, Gateways
<1>2. gateway' = [gateway EXCEPT ![m.to] = g] /\ UNCHANGED <<plugged, postponed>> /\ net' = net \ {m}
  BY <1>1 DEF Lose, others, InvExcused, Inv, NodesOK
<1>3. faults' >= faults
  <2>1. UNCHANGED bounds \/ (event /\ faults' = faults + 1) BY DEF Lose, fault
  <2> QED BY <2>1, FaultsGrow DEF InvExcused
<1>4. faults' > faults \/ g.deaf \/ g.age = 0
  <2>1. CASE hears(m.to, m) BY <2>1 DEF Lose, fault, InvExcused, Inv, BoundsType
  <2>2. CASE ~hears(m.to, m) BY <1>1, <2>2 DEF hears, InvExcused, Connected
  <2> QED BY <2>1, <2>2
<1> QED BY <1>1, <1>2, <1>3, <1>4, Delivered

\* Answering another node.
LEMMA AnswerExcused ==
  ASSUME InvExcused, Inv', PostponedType', NEW n \in Nodes, answerOthers(n)
  PROVE  Messaged' /\ Connected' /\ Excused'
<1> DEFINE g == gateway[n]
           deafened == [g EXCEPT !.deaf = TRUE]
<1>1. g \in Gateways BY DEF InvExcused, Inv, NodesOK
<1>2. faults' >= faults
  <2>1. UNCHANGED bounds \/ (event /\ faults' = faults + 1) BY DEF answerOthers, sends, throws, fault
  <2> QED BY <2>1, FaultsGrow DEF InvExcused
<1>3. UNCHANGED <<net, postponed, plugged>> BY DEF answerOthers, others
<1>4. \A h \in {sent(g), deafened} :
        /\ h \in Gateways /\ h.age = g.age /\ h.mPeerTimeouts = g.mPeerTimeouts
        /\ h.mTimer = g.mTimer /\ (g.deaf => h.deaf) /\ h.open = g.open
  BY <1>1 DEF sent, Gateways
<1>5. PICK h \in {sent(g), deafened} : gateway' = [gateway EXCEPT ![n] = h]
  BY DEF answerOthers, InvExcused, Inv, NodesOK, Gateways
<1> HIDE DEF g, deafened
<1> QED BY <1>2, <1>3, <1>4, <1>5, AsideExcused DEF g

\* Time passes: whoever was awaited has been heard, or something went wrong.
LEMMA TickExcused == ASSUME InvExcused, Inv', PostponedType', Tick PROVE Messaged' /\ Connected' /\ Excused'
<1>1. ASSUME NEW n \in Nodes
      PROVE  LET g == gateway[n]
                 h == gateway'[n]
             IN  /\ g.open = h.open /\ g.age \in Nat
                 /\ ~g.open => h = g
                 /\ g.open => /\ g.mTimer \in 1 .. Period /\ h.mTimer = g.mTimer - 1
                              /\ \A p \in Nodes : h.mPeerTimeouts[p] = less(g.mPeerTimeouts[p])
                 /\ h.age = g.age \/ (plugged[n] /\ g.open /\ h.age = g.age + 1)
                 /\ ~g.deaf
  <2>1. gateway[n] \in Gateways /\ repairs[n] = 0 /\ NodeOK(gateway[n], mPeers[n], repairs[n])
    BY DEF InvExcused, Inv, NodesOK, Tick, calm
  <2>2. ~gateway[n].deaf BY <2>1 DEF NodeOK
  <2>3. gateway'[n] = elapsed(gateway[n], plugged[n]) /\ calm(n) BY DEF Tick
  <2> QED BY <2>1, <2>2, <2>3 DEF elapsed, calm, Gateways
<1>2. net = {} /\ UNCHANGED <<net, faults, plugged, postponed>> BY DEF Tick, others, bounds
<1>3. Connected' BY <1>1, <1>2 DEF InvExcused, Connected
<1>4. Messaged' BY <1>1, <1>2 DEF InvExcused, Messaged, less
<1>5. ASSUME NEW n \in Nodes, NEW p \in Nodes PROVE ExcusedPair(n, p)'
  <2> SUFFICES ASSUME NEW j \in 1 .. Ttl + 1, j <= gateway'[n].age, j <= gateway'[p].age,
                      j <= Ttl - gateway'[n].mPeerTimeouts[p]
               PROVE  j + due(n, p)' <= allowed' + postponed'[n][p]
    BY DEF ExcusedPair
  <2>1. /\ j \in Nat \ {0} /\ Ttl \in Nat /\ Period \in Nat
        /\ postponed'[n][p] = postponed[n][p] /\ postponed[n][p] \in Nat
    BY <1>2, DiscoveryAssumption DEF InvExcused, PostponedType
  <2>2. allowed' = allowed /\ allowed \in Nat /\ allowed >= Period
    <3>1. faults' >= faults BY <1>2 DEF InvExcused, Inv, BoundsType
    <3>2. allowed' = allowed BY <1>2 DEF allowed
    <3> QED BY <3>1, <3>2, Allowed DEF InvExcused
  <2> HIDE DEF allowed
  <2>3. gateway'[n].open /\ gateway'[p].open
    <3>1. gateway'[n].age > 0 /\ gateway'[p].age > 0
      <4>1. gateway'[n].age \in Nat /\ gateway'[p].age \in Nat BY DEF Inv, NodesOK, Gateways
      <4> QED BY <2>1, <4>1
    <3> QED BY <1>3, <3>1 DEF Connected
  <2>4. gateway[n].open /\ gateway[p].open BY <1>1, <2>3
  <2>5. ~awaited(n, p) /\ ~awaited(n, p)'
    <3>1. gateway[n] \in Gateways /\ gateway'[n] = elapsed(gateway[n], plugged[n])
      BY DEF InvExcused, Inv, NodesOK, Tick
    <3>2. ~gateway'[n].deaf BY <1>1, <2>4, <3>1 DEF elapsed, Gateways
    <3> QED BY <1>1, <1>2, <3>2 DEF awaited
  <2>6. due(n, p)' = due(n, p) - 1 /\ due(n, p) \in 1 .. Period BY <1>1, <2>4, <2>5 DEF due
  <2>7. CASE j = 1 BY <2>1, <2>2, <2>6, <2>7
  <2>8. CASE j # 1
    <3>1. j - 1 \in 1 .. Ttl + 1 BY <2>1, <2>8
    <3>2. j - 1 <= gateway[n].age /\ j - 1 <= gateway[p].age BY <1>1, <2>1
    <3>3. j - 1 <= Ttl - gateway[n].mPeerTimeouts[p]
      <4>1. gateway[n].mPeerTimeouts[p] \in Timeouts BY DEF InvExcused, Inv, NodesOK, Gateways, Timeouts
      <4>2. gateway'[n].mPeerTimeouts[p] = less(gateway[n].mPeerTimeouts[p]) BY <1>1, <2>4
      <4> QED BY <2>1, <4>1, <4>2, DiscoveryAssumption DEF Timeouts, less, off
    <3>4. (j - 1) + due(n, p) <= allowed + postponed[n][p]
      BY <3>1, <3>2, <3>3 DEF InvExcused, Excused, ExcusedPair
    <3> QED BY <2>1, <2>2, <2>6, <3>4
  <2> QED BY <2>7, <2>8
<1> QED BY <1>3, <1>4, <1>5 DEF Excused

\* Nobody is there at the start.
LEMMA ExcusedInit == Init => InvExcused
<1> SUFFICES ASSUME Init PROVE InvExcused OBVIOUS
<1>1. \A n \in Nodes : gateway[n] = closed /\ gateway[n].age = 0 /\ \A p \in Nodes : gateway[n].mPeerTimeouts[p] = off
  BY DEF Init, closed
<1>2. Messaged BY <1>1 DEF Init, Messaged
<1>3. Connected BY <1>1 DEF Connected
<1>4. Excused BY <1>1, DiscoveryAssumption DEF Excused, ExcusedPair
<1> QED BY <1>2, <1>3, <1>4, InvInit, PostponedInit DEF InvExcused

\* Every step keeps all of it.
LEMMA ExcusedStep == InvExcused /\ [Next]_vars => InvExcused'
<1> SUFFICES ASSUME InvExcused, [Next]_vars PROVE Messaged' /\ Connected' /\ Excused'
  BY InvStep, PostponedStep DEF InvExcused
<1>1. Inv' /\ PostponedType' BY InvStep, PostponedStep DEF InvExcused
<1>2. CASE UNCHANGED vars
  BY <1>2 DEF vars, bounds, InvExcused, Messaged, Connected, Excused, ExcusedPair, awaited, due,
       allowed
<1>3. CASE Next
  BY <1>1, <1>3, BroadcastExcused, UpdateExcused, LocalExcused, GatewayExcused, ReceiveExcused, AnswerExcused,
     LoseExcused, TickExcused DEF Next
<1> QED BY <1>2, <1>3
-----------------------------------------------------------------------------
\* Every variable has a value of its type; nobody in a list is overdue by more than the padding.
THEOREM DiscoveryTypeCorrect == Spec => []TypeOK
BY InvInit, InvStep, PostponedInit, PostponedStep, InvImplies, PTL DEF Spec

\* Every cached peer is in its gateway's list, and the one timer fires in time for all of them
\* (PeerGateway::scheduleNextPruning, onByeBye, pruneExpiredPeers).
THEOREM NobodyStaysForEver == Spec => []NobodyStays
BY InvInit, InvStep, PostponedInit, PostponedStep, InvImplies, PTL DEF Spec

\* Whenever a gateway has stopped listening, its repair is posted (UdpSendExceptionHandler).
THEOREM DeafIsRepaired == Spec => []DeafRepaired
BY InvInit, InvStep, PostponedInit, PostponedStep, InvImplies, PTL DEF Spec

\* Of two nodes that stay connected, one is overdue with the other only if so many of its broadcasts and answers
\* went wrong, or its broadcasts were postponed so often by answers to others, that they make up for a time to
\* live (mTtl and mTtlRatio, the rate limit of broadcastState, sendResponse), however many nodes there are.
THEOREM OverdueExcused == Spec => []NotOverdue
<1>1. ASSUME InvExcused PROVE NotOverdue
  <2> SUFFICES ASSUME NEW n \in Nodes, NEW p \in Nodes, overdue(n, p)
               PROVE  Ttl < allowed + postponed[n][p]
    BY DEF NotOverdue, allowed
  <2> DEFINE j == Ttl + 1
  <2>1. /\ j \in 1 .. Ttl + 1 /\ gateway[n].age \in Nat /\ gateway[p].age \in Nat
        /\ gateway[n].mPeerTimeouts[p] \in Timeouts /\ gateway[p].mTimer \in 0 .. Period
        /\ postponed[n][p] \in Nat
    BY <1>1, DiscoveryAssumption DEF InvExcused, Inv, NodesOK, Gateways, Timeouts, PostponedType
  <2>2. j <= gateway[n].age /\ j <= gateway[p].age /\ j <= Ttl - gateway[n].mPeerTimeouts[p]
    BY <2>1, DiscoveryAssumption DEF Timeouts, off, overdue
  <2>3. j + due(n, p) <= allowed + postponed[n][p]
    BY <1>1, <2>1, <2>2 DEF InvExcused, Excused, ExcusedPair
  <2>4. due(n, p) \in Nat BY <2>1, DiscoveryAssumption DEF due
  <2>5. allowed \in Int BY <1>1, DiscoveryAssumption DEF InvExcused, Inv, BoundsType, allowed
  <2> HIDE DEF allowed
  <2> QED BY <2>1, <2>3, <2>4, <2>5, DiscoveryAssumption
<1> QED BY <1>1, ExcusedInit, ExcusedStep, PTL DEF Spec
=============================================================================
