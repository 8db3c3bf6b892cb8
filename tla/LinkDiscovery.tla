--------------------------- MODULE LinkDiscovery ----------------------------
(***************************************************************************)
(* Ableton Link's discovery service: how the nodes of a network learn of   *)
(* each other's state and of each other's absence.  While discovery is     *)
(* enabled the scanner opens a gateway on the node's network interface.    *)
(* Its UdpMessenger multicasts the node's state, answers the state of      *)
(* others with its own, and says bye bye when the gateway closes; its      *)
(* PeerGateway keeps a time to live for every peer it hears and reports    *)
(* arrivals and departures to the cache of Peers.  A send that throws      *)
(* makes the Link thread discard the gateway and scan again.               *)
(*                                                                         *)
(* Time passes in units of minBroadcastPeriod: timers are rounded to them; *)
(* what is due or posted, and the messages sent, are handled within one,   *)
(* in any order.  A broadcast that is due after an answer is postponed to  *)
(* the next unit, as often as there is an answer before it.                *)
(* Every node has one interface and keeps its id.  Nodes are those whose   *)
(* news of each other is followed; there may be any others on the network. *)
(***************************************************************************)
EXTENDS Integers, FiniteSets

CONSTANTS Nodes,
          Period,     \* nominalBroadcastPeriod, in units of minBroadcastPeriod, as are all times
          Ttl,        \* the time to live of a state
          Pad,        \* the second of padding of the prune timer
          MaxUpdates, \* bound on new states of a node
          MaxEvents   \* bound on messages lost, sends that throw, purges of the cache, new states,
                      \* nodes disabled, and interfaces that come and go, together

ASSUME DiscoveryAssumption ==
  /\ Period \in Nat \ {0} /\ Ttl \in Nat \ {0} /\ Pad \in Nat \ {0}
  /\ MaxUpdates \in Nat /\ MaxEvents \in Nat

VARIABLES enabled, plugged,
          mState,    \* the node state, by its version
          gateway,   \* the gateway of each node
          mPeers,    \* Peers: the states of the peers seen
          repairs,   \* handlers posted by UdpSendExceptionHandler
          net,
          faults,    \* history: messages lost, sends that threw
          postponed, \* history: for each node, how often the broadcast of each peer was postponed since
                     \* it last heard that peer, up to Ttl + 1
          events

bounds == <<faults, events>>
vars == <<enabled, plugged, mState, gateway, mPeers, repairs, net, postponed, bounds>>

off == Ttl + Pad + 1           \* no timeout, a timer that is not set
unseen == -1
nobody == [p \in Nodes |-> unseen]

closed == [open |-> FALSE,
           mTimer |-> Period,  \* the time to the next broadcast
           recent |-> FALSE,   \* a state was sent within minBroadcastPeriod
           deaf |-> FALSE,     \* the multicast socket is not listened to
           mPeerTimeouts |-> [p \in Nodes |-> off],
           mPruneTimer |-> off,
           age |-> 0]          \* history: how long it has been open and connected, up to Ttl + 1

Messages == [type : {"alive", "response", "byebye"}, from : Nodes, to : Nodes, state : 0 .. MaxUpdates]
multicast(n, type, s) ==
  {[type |-> type, from |-> n, to |-> m, state |-> s] : m \in Nodes \ {n}}

Init ==
  /\ enabled = [n \in Nodes |-> FALSE] /\ plugged = [n \in Nodes |-> TRUE]
  /\ mState = [n \in Nodes |-> 0]
  /\ gateway = [n \in Nodes |-> closed]
  /\ mPeers = [n \in Nodes |-> nobody]
  /\ repairs = [n \in Nodes |-> 0]
  /\ net = {} /\ faults = 0 /\ events = 0 /\ postponed = [n \in Nodes |-> [p \in Nodes |-> 0]]

\* A send throws when the interface is gone; that it throws otherwise is a fault.
event == events < MaxEvents /\ events' = events + 1
fault == faults' = faults + 1 /\ event
sends(n) == plugged[n] /\ UNCHANGED bounds
throws(n) == IF plugged[n] THEN fault ELSE UNCHANGED bounds
others == UNCHANGED <<enabled, plugged, mState>>
-----------------------------------------------------------------------------
(***************************************************************************)
(* UdpMessenger: broadcasts and answers.                                   *)
(***************************************************************************)
\* mutant of scheduled: a broadcast that is too early waits for a whole period
scheduledLate(g) == [g EXCEPT !.mTimer = Period]

\* The next broadcast is scheduled before this one is sent; one that is too early is only scheduled.
scheduled(g) == [g EXCEPT !.mTimer = IF g.recent THEN 1 ELSE Period]
sent(g) == [g EXCEPT !.recent = TRUE]

postpone(p) ==
  IF gateway[p].recent /\ gateway[p].mTimer = 0
  THEN postponed' = [n \in Nodes |-> [postponed[n] EXCEPT ![p] = IF n # p /\ @ <= Ttl THEN @ + 1 ELSE @]]
  ELSE UNCHANGED postponed

\* the broadcast timer: a send that throws has the gateway repaired
broadcastState(n) ==
  LET g == gateway[n]
  IN  /\ g.open /\ g.mTimer = 0
      /\ \/ /\ ~g.recent /\ sends(n)
            /\ gateway' = [gateway EXCEPT ![n] = sent(scheduled(g))]
            /\ net' = net \union multicast(n, "alive", mState[n])
            /\ UNCHANGED repairs
         \/ /\ ~g.recent /\ throws(n)
            /\ gateway' = [gateway EXCEPT ![n] = scheduled(g)]
            /\ repairs' = [repairs EXCEPT ![n] = @ + 1]
            /\ UNCHANGED net
         \/ /\ g.recent
            /\ gateway' = [gateway EXCEPT ![n] = scheduled(g)]
            /\ UNCHANGED <<repairs, net, bounds>>
      /\ postpone(n)
      /\ others /\ UNCHANGED mPeers

\* updateState of PeerGateway: a broadcast that throws is only logged
updateState(n) ==
  LET g == gateway[n]
  IN  /\ mState[n] < MaxUpdates /\ event
      /\ mState' = [mState EXCEPT ![n] = @ + 1]
      /\ \/ /\ g.open /\ ~g.recent /\ plugged[n] /\ UNCHANGED faults
            /\ gateway' = [gateway EXCEPT ![n] = sent(scheduled(g))]
            /\ net' = net \union multicast(n, "alive", mState'[n])
         \/ /\ g.open /\ ~g.recent
            /\ faults' = IF plugged[n] THEN faults + 1 ELSE faults
            /\ gateway' = [gateway EXCEPT ![n] = scheduled(g)]
            /\ UNCHANGED net
         \/ /\ g.open /\ g.recent
            /\ gateway' = [gateway EXCEPT ![n] = scheduled(g)]
            /\ UNCHANGED <<net, faults>>
         \/ ~g.open /\ UNCHANGED <<gateway, net, faults>>
      /\ postpone(n)
      /\ UNCHANGED <<enabled, plugged, mPeers, repairs>>
-----------------------------------------------------------------------------
(***************************************************************************)
(* PeerGateway: peers and their time to live.                              *)
(***************************************************************************)
\* mutant of scheduleNextPruning: twice the padding
scheduleLatePruning(g) ==
  LET next == CHOOSE t \in {g.mPeerTimeouts[p] : p \in Nodes} : \A p \in Nodes : t <= g.mPeerTimeouts[p]
  IN  IF next = off THEN g ELSE [g EXCEPT !.mPruneTimer = next + 2 * Pad]

\* the next to expire, and the padding; the timer is left alone when there is nobody to expire
scheduleNextPruning(g) ==
  LET next == CHOOSE t \in {g.mPeerTimeouts[p] : p \in Nodes} : \A p \in Nodes : t <= g.mPeerTimeouts[p]
  IN  IF next = off THEN g ELSE [g EXCEPT !.mPruneTimer = next + Pad]

onPeerState(g, p) == scheduleNextPruning([g EXCEPT !.mPeerTimeouts[p] = Ttl])

\* mutant of sawPeer: a peer that is known keeps its state
sawPeerOnce(n, p, s) == mPeers' = [mPeers EXCEPT ![n][p] = IF @ = unseen THEN s ELSE @]

sawPeer(n, p, s) == mPeers' = [mPeers EXCEPT ![n][p] = s]

\* mutant of onByeBye: the observer is not told
onByeByeUntold(n, p) == gateway' = [gateway EXCEPT ![n].mPeerTimeouts[p] = off] /\ UNCHANGED mPeers

onByeBye(n, p) ==
  IF gateway[n].mPeerTimeouts[p] = off THEN UNCHANGED <<gateway, mPeers>>
  ELSE /\ gateway' = [gateway EXCEPT ![n].mPeerTimeouts[p] = off]
       /\ mPeers' = [mPeers EXCEPT ![n][p] = unseen]

\* mutant of unanswered: the exception is swallowed
unansweredSwallowed(n, m) ==
  /\ throws(n)
  /\ net' = net \ {m}
  /\ gateway' = [gateway EXCEPT ![n].deaf = TRUE]
  /\ UNCHANGED <<repairs, mPeers, postponed>>

\* an answer that throws: the state is not looked at, and the socket not listened to again
unanswered(n, m) ==
  /\ throws(n)
  /\ net' = net \ {m}
  /\ gateway' = [gateway EXCEPT ![n].deaf = TRUE]
  /\ repairs' = [repairs EXCEPT ![n] = @ + 1]
  /\ UNCHANGED <<mPeers, postponed>>

heard(n, p) == postponed' = [postponed EXCEPT ![n][p] = 0]

\* the operator() of UdpMessenger with the handlers of PeerGateway
receive(n, m) ==
  LET g == gateway[n]
  IN  \/ /\ m.type = "alive"        \* answered first
         /\ \/ /\ sends(n)
               /\ net' = (net \ {m}) \union {[m EXCEPT !.type = "response", !.from = n, !.to = m.from,
                                                       !.state = mState[n]]}
               /\ gateway' = [gateway EXCEPT ![n] = onPeerState(sent(g), m.from)]
               /\ sawPeer(n, m.from, m.state) /\ heard(n, m.from)
               /\ UNCHANGED repairs
            \/ unanswered(n, m)
      \/ /\ m.type = "response"
         /\ net' = net \ {m}
         /\ gateway' = [gateway EXCEPT ![n] = onPeerState(g, m.from)]
         /\ sawPeer(n, m.from, m.state) /\ heard(n, m.from)
         /\ UNCHANGED <<repairs, bounds>>
      \/ /\ m.type = "byebye"
         /\ net' = net \ {m} /\ onByeBye(n, m.from)
         /\ UNCHANGED <<repairs, postponed, bounds>>

hears(n, m) == plugged[n] /\ gateway[n].open /\ (gateway[n].deaf => m.type = "response")
Receive(n, m) == m.to = n /\ hears(n, m) /\ receive(n, m) /\ others

\* The state of a node that is not one of Nodes is answered like any other; its time to live is not followed.
answerOthers(n) ==
  /\ gateway[n].open /\ plugged[n] /\ ~gateway[n].deaf
  /\ \/ /\ sends(n)
        /\ gateway' = [gateway EXCEPT ![n] = sent(@)]
        /\ UNCHANGED <<repairs, mPeers, net, postponed>>
     \/ /\ throws(n)
        /\ gateway' = [gateway EXCEPT ![n].deaf = TRUE]
        /\ repairs' = [repairs EXCEPT ![n] = @ + 1]
        /\ UNCHANGED <<mPeers, net, postponed>>
  /\ others

\* mutant of pruneExpiredPeers: the observer is not told
pruneExpiredPeersUntold(n) ==
  LET g == gateway[n]
  IN  /\ g.open /\ g.mPruneTimer = 0
      /\ gateway' = [gateway EXCEPT ![n] = scheduleNextPruning(
           [g EXCEPT !.mPruneTimer = off,
                     !.mPeerTimeouts = [p \in Nodes |-> IF @[p] < 0 THEN off ELSE @[p]]])]
      /\ others /\ UNCHANGED <<mPeers, repairs, net, postponed, bounds>>

pruneExpiredPeers(n) ==
  LET g == gateway[n]
      expired == {p \in Nodes : g.mPeerTimeouts[p] < 0}
  IN  /\ g.open /\ g.mPruneTimer = 0
      /\ mPeers' = [mPeers EXCEPT ![n] = [p \in Nodes |-> IF p \in expired THEN unseen ELSE @[p]]]
      /\ gateway' = [gateway EXCEPT ![n] = scheduleNextPruning(
           [g EXCEPT !.mPruneTimer = off,
                     !.mPeerTimeouts = [p \in Nodes |-> IF p \in expired THEN off ELSE @[p]]])]
      /\ others /\ UNCHANGED <<repairs, net, postponed, bounds>>
-----------------------------------------------------------------------------
(***************************************************************************)
(* PeerGateways: gateways come and go with the interface.                  *)
(***************************************************************************)
\* GatewayObserver's destructor empties the cache; bye bye is said if it can be
close(n) ==
  /\ gateway' = [gateway EXCEPT ![n] = closed]
  /\ mPeers' = [mPeers EXCEPT ![n] = nobody]
farewell(n) == IF gateway[n].open /\ plugged[n] THEN multicast(n, "byebye", 0) ELSE {}

\* a gateway that cannot broadcast when it is made is not added
open(n, said) ==
  /\ mPeers' = [mPeers EXCEPT ![n] = nobody]
  /\ \/ /\ sends(n)
        /\ gateway' = [gateway EXCEPT ![n] = sent(scheduled([closed EXCEPT !.open = TRUE]))]
        /\ net' = net \union said \union multicast(n, "alive", mState[n])
     \/ /\ throws(n)
        /\ gateway' = [gateway EXCEPT ![n] = closed] /\ net' = net \union said

scan(n) ==
  /\ enabled[n] /\ plugged[n] # gateway[n].open
  /\ IF plugged[n] THEN open(n, {}) ELSE close(n) /\ UNCHANGED <<net, bounds>>
  /\ others /\ UNCHANGED <<repairs, postponed>>

repairGateway(n) ==
  /\ repairs[n] > 0 /\ repairs' = [repairs EXCEPT ![n] = @ - 1]
  /\ IF ~gateway[n].open THEN UNCHANGED <<gateway, mPeers, net, bounds>>
     ELSE IF plugged[n] THEN open(n, farewell(n)) ELSE close(n) /\ UNCHANGED <<net, bounds>>
  /\ others /\ UNCHANGED postponed

enable(n) ==
  /\ enabled' = [enabled EXCEPT ![n] = ~@]
  /\ IF ~enabled[n] /\ plugged[n] THEN open(n, {}) ELSE close(n) /\ net' = net \union farewell(n)
  /\ IF enabled[n] THEN event /\ UNCHANGED faults ELSE plugged[n] \/ UNCHANGED bounds
  /\ UNCHANGED <<plugged, mState, repairs, postponed>>
-----------------------------------------------------------------------------
(***************************************************************************)
(* What surrounds the service.                                             *)
(***************************************************************************)
Plug(n) ==
  /\ event
  /\ plugged' = [plugged EXCEPT ![n] = ~@]
  /\ gateway' = [gateway EXCEPT ![n].age = 0]
  /\ UNCHANGED <<enabled, mState, mPeers, repairs, net, postponed, faults>>

\* resetPeers and forgetSession of the Controller
Purge(n, p) ==
  /\ mPeers[n][p] # unseen /\ fault
  /\ mPeers' = [mPeers EXCEPT ![n][p] = unseen]
  /\ others /\ UNCHANGED <<gateway, repairs, net, postponed>>

Lose(m) == /\ IF hears(m.to, m) THEN fault ELSE UNCHANGED bounds
           /\ net' = net \ {m}
           /\ others /\ UNCHANGED <<gateway, mPeers, repairs, postponed>>

\* Nothing is due or posted.
calm(n) ==
  LET g == gateway[n]
  IN  repairs[n] = 0 /\ (g.open => g.mTimer # 0 /\ g.mPruneTimer # 0)
less(t) == IF t = off THEN off ELSE t - 1
elapsed(g, connected) ==
  IF ~g.open THEN g
  ELSE [g EXCEPT !.mTimer = @ - 1, !.recent = FALSE, !.mPruneTimer = less(@),
                 !.mPeerTimeouts = [p \in Nodes |-> less(@[p])],
                 !.age = IF connected /\ @ <= Ttl THEN @ + 1 ELSE @]
Tick ==
  /\ net = {} /\ \A n \in Nodes : calm(n)
  /\ gateway' = [n \in Nodes |-> elapsed(gateway[n], plugged[n])]
  /\ others /\ UNCHANGED <<mPeers, repairs, net, postponed, bounds>>

Next ==
  \/ \E n \in Nodes : \/ broadcastState(n) \/ updateState(n) \/ pruneExpiredPeers(n)
                      \/ scan(n) \/ repairGateway(n) \/ enable(n) \/ Plug(n)
                      \/ answerOthers(n)
                      \/ \E m \in net : Receive(n, m)
                      \/ \E p \in Nodes : Purge(n, p)
  \/ \E m \in net : Lose(m)
  \/ Tick

Spec == Init /\ [][Next]_vars

\* timers fire, posted handlers run, messages arrive or are lost, time passes and interfaces are scanned again
Fairness ==
  /\ \A n \in Nodes : /\ WF_vars(broadcastState(n)) /\ WF_vars(pruneExpiredPeers(n))
                      /\ WF_vars(scan(n)) /\ WF_vars(repairGateway(n))
  /\ \A m \in Messages : WF_vars(m \in net /\ (Receive(m.to, m) \/ Lose(m)))
  /\ WF_vars(Tick)
LiveSpec == Spec /\ Fairness
-----------------------------------------------------------------------------
Gateways ==
  [open : BOOLEAN, mTimer : 0 .. Period, recent : BOOLEAN, deaf : BOOLEAN,
   mPeerTimeouts : [Nodes -> (-Pad .. Ttl) \union {off}], mPruneTimer : 0 .. off, age : 0 .. Ttl + 1]

TypeOK ==
  /\ enabled \in [Nodes -> BOOLEAN] /\ plugged \in [Nodes -> BOOLEAN]
  /\ mState \in [Nodes -> 0 .. MaxUpdates]
  /\ gateway \in [Nodes -> Gateways]
  /\ mPeers \in [Nodes -> [Nodes -> {unseen} \union 0 .. MaxUpdates]]
  /\ repairs \in [Nodes -> Nat]
  /\ net \subseteq Messages
  /\ postponed \in [Nodes -> [Nodes -> 0 .. Ttl + 1]]
  /\ faults \in 0 .. MaxEvents /\ events \in 0 .. MaxEvents

\* Nobody stays for ever: every cached peer is in the list of timeouts, and the prune timer is set to
\* fire before anybody in the list is overdue by more than the padding (PeerGateway::scheduleNextPruning).
NobodyStays ==
  \A n, p \in Nodes :
    /\ mPeers[n][p] # unseen => gateway[n].mPeerTimeouts[p] # off
    /\ gateway[n].mPeerTimeouts[p] # off => gateway[n].mPruneTimer <= gateway[n].mPeerTimeouts[p] + Pad

\* A gateway that has stopped listening is about to be repaired (UdpSendExceptionHandler).
DeafRepaired == \A n \in Nodes : gateway[n].deaf => repairs[n] > 0

\* One of two nodes that stay connected is overdue with the other only if so many of its broadcasts and
\* answers went wrong, or its broadcasts were postponed so often by answers to others, that they make up
\* for a time to live (mTtl and mTtlRatio, the rate limit of broadcastState, sendResponse).
overdue(n, p) == gateway[n].age > Ttl /\ gateway[p].age > Ttl /\ gateway[n].mPeerTimeouts[p] < 0
NotOverdue ==
  \A n, p \in Nodes : overdue(n, p) => Ttl < Period * (faults + 1) + postponed[n][p]

\* Whoever broadcasts is seen, with its newest state, whatever was lost or thrown before, unless other nodes
\* keep it from broadcasting for a time to live again and again.
up(n) == enabled[n] /\ plugged[n]
starved(n, p) == postponed[n][p] + Period > Ttl
Seen == \A n, p \in Nodes : n # p =>
          (<>[](up(n) /\ up(p)) => <>[](mPeers[n][p] = mState[p]) \/ []<>starved(n, p))

\* Whoever left, with a bye bye or without, is forgotten, even when an older message of it comes late.
Forgotten == \A n, p \in Nodes : <>[]~up(p) => <>[](mPeers[n][p] = unseen)
=============================================================================
