---------------------------- MODULE StreamProofs ----------------------------
(***************************************************************************)
(* Proofs about Stream, for any number of clients, ids and patterns.       *)
(***************************************************************************)
EXTENDS Stream, WellFoundedInduction, TLAPS

\* Putting an entry into a play map gives a play map.
LEMMA InsertType ==
  ASSUME NEW m, isPlayMap(m), NEW k \in Ids, NEW ps \in PlayState
  PROVE  isPlayMap(insert(m, k, ps)) /\ insert(m, k, ps)[k] = ps
BY DEF isPlayMap, insert

\* Pushing a sound keeps a history a history.
LEMMA PushType ==
  ASSUME NEW h \in Seq(Sounds), NEW s \in Sounds
  PROVE  <<s>> \o h \in Seq(Sounds) /\ <<s>> \o h # << >>
OBVIOUS

\* A pattern with its tags, or without, is a sound made of that pattern.
LEMMA TagType ==
  ASSUME NEW p
  PROVE  /\ p \in Patterns => tagged(p) \in Sounds /\ untagged(p) \in Sounds
         /\ patterns(tagged(p)) = {p} /\ patterns(untagged(p)) = {p}
BY DEF tagged, untagged, patterns, Sounds, Sources

\* streamReplace leaves a play map.
LEMMA UpdateType ==
  ASSUME NEW m, isPlayMap(m), NEW k \in Ids, NEW p \in Patterns
  PROVE  isPlayMap(updatePattern(m, k, p))
<1>0. tagged(p) \in Sounds /\ untagged(p) \in Sounds BY TagType
<1>1. CASE k \in DOMAIN m
  <2>1. m[k] \in PlayState BY <1>1 DEF isPlayMap
  <2>2. [m[k] EXCEPT !.psPattern = tagged(p), !.psHistory = <<untagged(p)>> \o @] \in PlayState
    BY <1>0, <2>1, PushType DEF PlayState
  <2> QED BY <1>1, <2>2, InsertType DEF updatePattern
<1>2. CASE k \notin DOMAIN m
  <2>1. <<tagged(p)>> \in Seq(Sounds) BY <1>0
  <2>2. [psPattern |-> tagged(p), psMute |-> FALSE, psSolo |-> FALSE, psHistory |-> <<tagged(p)>>] \in PlayState
    BY <1>0, <2>1 DEF PlayState
  <2> QED BY <1>2, <2>2, InsertType DEF updatePattern
<1> QED BY <1>1, <1>2

\* Setting a flag, and silencing, leave a play map.
LEMMA FlagType ==
  ASSUME NEW m, isPlayMap(m), NEW ks, NEW b \in BOOLEAN
  PROVE  isPlayMap(muted(m, ks, b)) /\ isPlayMap(soloed(m, ks, b))
BY DEF isPlayMap, muted, soloed, withPatIds, PlayState

\* Silencing leaves a play map.
LEMMA SilencedType ==
  ASSUME NEW m, isPlayMap(m), NEW ks
  PROVE  isPlayMap(silenced(m, ks))
<1>1. silence \in Sounds BY DEF silence, Sounds
<1>2. \A i \in DOMAIN m : [m[i] EXCEPT !.psPattern = silence, !.psHistory = <<silence>> \o @] \in PlayState
  BY <1>1, PushType DEF isPlayMap, PlayState
<1> QED BY <1>2 DEF silenced, withPatIds, isPlayMap

\* A rollback leaves a play map.
LEMMA RollbackType ==
  ASSUME NEW m, isPlayMap(m)
  PROVE  isPlayMap(setPreviousPatternOrSilence(m))
<1>1. silence \in Sounds /\ <<silence>> \in Seq(Sounds) BY DEF silence, Sounds
<1>2. ASSUME NEW i \in DOMAIN m
      PROVE setPreviousPatternOrSilence(m)[i] \in PlayState
  <2>1. m[i] \in PlayState BY <1>2 DEF isPlayMap
  <2>2. CASE Len(m[i].psHistory) >= 2
    <3>1. m[i].psHistory \in Seq(Sounds) BY <2>1 DEF PlayState
    <3>2. m[i].psHistory[2] \in Sounds /\ Tail(m[i].psHistory) \in Seq(Sounds)
      BY <2>2, <3>1
    <3> QED BY <2>1, <2>2, <3>2 DEF PlayState, setPreviousPatternOrSilence
  <2>3. CASE ~(Len(m[i].psHistory) >= 2)
    BY <1>1, <2>1, <2>3 DEF PlayState, setPreviousPatternOrSilence
  <2> QED BY <2>2, <2>3
<1> QED BY <1>2 DEF isPlayMap, setPreviousPatternOrSilence

\* A transition leaves a play map, whatever its mapper makes of the history.
LEMMA TransitionType ==
  ASSUME NEW m, isPlayMap(m), NEW k \in Ids, NEW flag \in BOOLEAN, NEW p \in Sounds,
         NEW n \in transitioned(m, k, flag, p)
  PROVE  isPlayMap(n)
<1> DEFINE ps == transitionState(m, k, flag, p)
           pats == IF flag THEN ps.psHistory ELSE <<p>> \o ps.psHistory
<1>1. silence \in Sounds /\ <<silence>> \in Seq(Sounds) BY DEF silence, Sounds
<1>2. ps \in PlayState
  BY <1>1, PushType DEF transitionState, PlayState, isPlayMap
<1>3. pats \in Seq(Sounds) /\ pats # << >>
  <2>1. CASE flag
    BY <1>1, <1>2, <2>1, PushType DEF transitionState, PlayState, isPlayMap
  <2>2. CASE ~flag
    BY <1>2, <2>2, PushType DEF PlayState
  <2> QED BY <2>1, <2>2
<1>4. ASSUME NEW s \in mapped(pats) PROVE s \in Sounds
  BY <1>3, <1>4 DEF mapped, Sounds
<1>5. PICK s \in mapped(pats) : n = insert(m, k, [ps EXCEPT !.psPattern = s])
  BY DEF transitioned
<1>6. [ps EXCEPT !.psPattern = s] \in PlayState BY <1>2, <1>4 DEF PlayState
<1> QED BY <1>5, <1>6, InsertType

-----------------------------------------------------------------------------
\* What a call does to the map it took is again a play map.
LEMMA ResultType ==
  ASSUME NEW t, call[t] \in Call \cup {tick, rollback}, call[t].op \in updating, isPlayMap(pMap[t])
  PROVE  isPlayMap(result(t))
<1>1. CASE call[t].op = "replace"
  <2>1. call[t].pat \in Patterns /\ \E k \in Ids : call[t].ids = {k}
    BY <1>1 DEF Call, tick, rollback
  <2>2. (CHOOSE k \in Ids : call[t].ids = {k}) \in Ids BY <2>1
  <2> QED BY <1>1, <2>1, <2>2, UpdateType DEF result
<1>2. CASE call[t].op \in {"mute", "unmute"} BY <1>2, FlagType DEF result
<1>3. CASE call[t].op \in {"solo", "unsolo"} BY <1>3, FlagType DEF result
<1>4. CASE call[t].op = "silence" BY <1>4, SilencedType DEF result
<1>5. CASE call[t].op = "rollback" BY <1>5, RollbackType DEF result
<1> QED BY <1>1, <1>2, <1>3, <1>4, <1>5 DEF updating

\* Writing a controller value or stepping the counter leaves a ValueMap.
LEMMA ValueMapType ==
  ASSUME NEW m \in ValueMaps
  PROVE  (\A v \in Values : ctrlSet(m, v) \in ValueMaps) /\ ticked(m) \subseteq ValueMaps
BY PlayMapAssumption DEF ValueMaps, ctrlSet, ticked

\* Type correctness is kept by every step of every thread.
LEMMA TypeStep == TypeOK /\ [StreamNext]_svars => TypeOK'
<1> SUFFICES ASSUME TypeOK, [StreamNext]_svars PROVE TypeOK'
  OBVIOUS
<1> USE DEF TypeOK
<1>0. CASE UNCHANGED svars
  BY <1>0 DEF svars, mvars, calling, isMVar, isPlayMap
<1>1. ASSUME NEW t \in Threads, Begin(t) PROVE TypeOK'
  <2>1. PICK c \in Call \cup {tick} :
           Goto(t, "idle", first(c.op)) /\ call' = [call EXCEPT ![t] = c]
    BY <1>1, StreamAssumption DEF Begin, Threads
  <2>2. UNCHANGED <<playMV, stateMV, globalMV, pMap, sMap>> BY <1>1 DEF Begin, mvars
  <2>3. /\ first(c.op) \in PC
        /\ first(c.op) \in {"eval", "snap", "all", "state", "play"}
        /\ first(c.op) = "eval" => c.op = "replace"
        /\ first(c.op) = "play" => c.op \in updating
        /\ first(c.op) = "snap" => c.op \in {"transition", "overlay"}
        /\ first(c.op) = "all" => c.op = "all"
        /\ first(c.op) = "state" => c.op \in {"set", "once", "tick"}
    BY <2>1 DEF first, PC, Call, tick, updating
  <2>4. \A u \in Threads : calling(u)'
    BY <2>1, <2>2, <2>3 DEF calling, Goto
  <2>5. pc' \in [Threads -> PC] BY <2>1, <2>3 DEF Goto
  <2> QED BY <2>1, <2>2, <2>4, <2>5
<1>2. ASSUME NEW t \in Threads, Eval(t) PROVE TypeOK'
  <2>1. Goto(t, "eval", "play") /\ UNCHANGED <<playMV, stateMV, globalMV, pMap, sMap>>
    BY <1>2 DEF Eval, mvars
  <2>2. call' = call \/ call' = [call EXCEPT ![t] = rollback] BY <1>2 DEF Eval
  <2>3. \A u \in Threads : calling(u)'
    BY <2>1, <2>2 DEF calling, Goto, updating, rollback
  <2> QED BY <2>1, <2>2, <2>3 DEF Goto, PC
<1>3. ASSUME NEW t \in Threads, TakePlay(t) PROVE TypeOK'
  <2>1. /\ Goto(t, "play", "put") /\ playMV' = Taken(playMV)
        /\ pMap' = [pMap EXCEPT ![t] = playMV.val]
        /\ UNCHANGED <<stateMV, globalMV, call, sMap>>
    BY <1>3 DEF TakePlay
  <2>2. playMV'.val = playMV.val /\ isMVar(playMV)' BY <2>1 DEF Taken, isMVar
  <2>3. \A u \in Threads : calling(u)' BY <2>1, <2>2 DEF calling, Goto, isPlayMap
  <2> QED BY <2>1, <2>2, <2>3 DEF Goto, PC, isMVar, isPlayMap
<1>4. ASSUME NEW t \in Threads, PutPlay(t) PROVE TypeOK'
  <2>1. /\ Goto(t, "put", "idle") /\ playMV' = Full(result(t))
        /\ pMap' = [pMap EXCEPT ![t] = gone]
        /\ UNCHANGED <<stateMV, globalMV, call, sMap>>
    BY <1>4 DEF PutPlay
  <2>2. isPlayMap(result(t))
    <3>1. calling(t) /\ pc[t] = "put" BY <2>1 DEF Goto
    <3> QED BY <3>1, ResultType DEF calling
  <2>3. isMVar(playMV)' /\ isPlayMap(playMV.val)' BY <2>1, <2>2 DEF Full, isMVar, isPlayMap
  <2>4. \A u \in Threads : calling(u)' BY <2>1 DEF calling, Goto, isPlayMap
  <2> QED BY <2>1, <2>3, <2>4 DEF Goto, PC, isMVar
<1>5. ASSUME NEW t \in Threads, ReadPlay(t) PROVE TypeOK'
  <2>1. /\ Goto(t, "snap", "swap") /\ pMap' = [pMap EXCEPT ![t] = playMV.val]
        /\ UNCHANGED <<playMV, stateMV, globalMV, call, sMap>>
    BY <1>5 DEF ReadPlay, mvars
  <2>2. \A u \in Threads : calling(u)' BY <2>1 DEF calling, Goto, isPlayMap
  <2> QED BY <2>1, <2>2 DEF Goto, PC
<1>6. ASSUME NEW t \in Threads, SwapPlay(t) PROVE TypeOK'
  <2>1. /\ Goto(t, "swap", "idle")
        /\ pMap' = [pMap EXCEPT ![t] = gone]
        /\ UNCHANGED <<stateMV, globalMV, call, sMap>>
    BY <1>6 DEF SwapPlay
  <2>2. PICK k \in Ids : \E m \in transitioned(pMap[t], k, call[t].op = "transition", untagged(call[t].pat)) :
          playMV' = Full(m)
    BY <1>6 DEF SwapPlay
  <2>3. PICK m \in transitioned(pMap[t], k, call[t].op = "transition", untagged(call[t].pat)) :
          playMV' = Full(m)
    BY <2>2
  <2>4. calling(t) /\ pc[t] = "swap" BY <2>1 DEF Goto
  <2>5. untagged(call[t].pat) \in Sounds BY <2>4, TagType DEF calling, Call, tick, rollback
  <2>6. isPlayMap(m) BY <2>3, <2>4, <2>5, TransitionType DEF calling
  <2>7. isMVar(playMV)' /\ isPlayMap(playMV.val)' BY <2>3, <2>6 DEF Full, isMVar, isPlayMap
  <2>8. \A u \in Threads : calling(u)' BY <2>1 DEF calling, Goto, isPlayMap
  <2> QED BY <2>1, <2>7, <2>8 DEF Goto, PC, isMVar
<1>7. ASSUME NEW t \in Threads, SwapGlobal(t) PROVE TypeOK'
  <2>1. /\ Goto(t, "all", "idle") /\ globalMV' = call[t].fn
        /\ UNCHANGED <<playMV, stateMV, call, pMap, sMap>>
    BY <1>7 DEF SwapGlobal
  <2>2. calling(t) /\ pc[t] = "all" BY <2>1 DEF Goto
  <2>3. globalMV' \in Globals BY <2>1, <2>2 DEF calling, Call, tick, rollback
  <2>4. \A u \in Threads : calling(u)' BY <2>1 DEF calling, Goto, isPlayMap
  <2> QED BY <2>1, <2>3, <2>4 DEF Goto, PC
<1>8. ASSUME NEW t \in Threads, TakeState(t) PROVE TypeOK'
  <2>1. /\ Goto(t, "state", IF call[t].op = "set" THEN "done" ELSE "read")
        /\ stateMV' = Taken(stateMV)
        /\ sMap' = [sMap EXCEPT ![t] = stateMV.val]
        /\ UNCHANGED <<playMV, globalMV, call, pMap>>
    BY <1>8 DEF TakeState
  <2>2. stateMV'.val = stateMV.val /\ isMVar(stateMV)' BY <2>1 DEF Taken, isMVar
  <2>3. \A u \in Threads : calling(u)' BY <2>1 DEF calling, Goto, isPlayMap
  <2> QED BY <2>1, <2>2, <2>3 DEF Goto, PC, isMVar
<1>9. ASSUME NEW t \in Threads, TickRead(t) PROVE TypeOK'
  <2>1. /\ Goto(t, "read", "query") /\ \E m : pMap' = [pMap EXCEPT ![t] = m]
        /\ UNCHANGED <<playMV, stateMV, globalMV, call, sMap>>
    BY <1>9 DEF TickRead, mvars
  <2>2. \A u \in Threads : calling(u)' BY <2>1 DEF calling, Goto, isPlayMap
  <2> QED BY <2>1, <2>2 DEF Goto, PC
<1>10. ASSUME NEW t \in Threads, TickQuery(t) PROVE TypeOK'
  <2>1. /\ Goto(t, "query", "done") /\ pMap' = [pMap EXCEPT ![t] = gone]
        /\ UNCHANGED <<playMV, stateMV, globalMV, call, sMap>>
    BY <1>10 DEF TickQuery, mvars
  <2>2. \A u \in Threads : calling(u)' BY <2>1 DEF calling, Goto, isPlayMap
  <2> QED BY <2>1, <2>2 DEF Goto, PC
<1>11. ASSUME NEW t \in Threads, TickThrow(t) PROVE TypeOK'
  <2>1. /\ Goto(t, "query", IF call[t].op = "tick" THEN "play" ELSE "idle")
        /\ pMap' = [pMap EXCEPT ![t] = gone] /\ sMap' = [sMap EXCEPT ![t] = gone]
        /\ UNCHANGED <<playMV, stateMV, globalMV>>
    BY <1>11 DEF TickThrow, mvars
  <2>2. call' = [call EXCEPT ![t] = IF call[t].op = "tick" THEN rollback ELSE call[t]]
    BY <1>11 DEF TickThrow
  <2>3. \A u \in Threads : calling(u)'
    BY <2>1, <2>2 DEF calling, Goto, isPlayMap, updating, rollback
  <2>4. DOMAIN call' = Threads /\ \A u \in Threads : call'[u] \in Call \cup {tick, rollback}
    BY <2>2
  <2> QED BY <2>1, <2>3, <2>4 DEF Goto, PC
<1>12. ASSUME NEW t \in Threads, PutState(t) PROVE TypeOK'
  <2>1. /\ Goto(t, "done", "idle")
        /\ stateMV' \in {Full(m) : m \in written(t)}
        /\ sMap' = [sMap EXCEPT ![t] = gone]
        /\ UNCHANGED <<playMV, globalMV, call, pMap>>
    BY <1>12 DEF PutState
  <2>2. calling(t) /\ pc[t] = "done" BY <2>1 DEF Goto
  <2>3. sMap[t] \in ValueMaps /\ (call[t].op = "set" => call[t].val \in Values)
    BY <2>2 DEF calling, Call, tick, rollback
  <2>4. isMVar(stateMV)' /\ stateMV'.val \in ValueMaps
    <3>1. written(t) \subseteq ValueMaps BY <2>3, ValueMapType DEF written
    <3>2. PICK m \in written(t) : stateMV' = Full(m) BY <2>1
    <3> QED BY <3>1, <3>2 DEF Full, isMVar
  <2>5. \A u \in Threads : calling(u)' BY <2>1 DEF calling, Goto, isPlayMap
  <2> QED BY <2>1, <2>4, <2>5 DEF Goto, PC
<1> QED
  BY <1>0, <1>1, <1>2, <1>3, <1>4, <1>5, <1>6, <1>7, <1>8, <1>9, <1>10, <1>11, <1>12
  DEF StreamNext, Step, Update, Transit, doTick

\* A stream starts in a state of its type.
LEMMA TypeInit == Init => TypeOK
<1> SUFFICES ASSUME Init PROVE TypeOK
  OBVIOUS
<1>1. isMVar(playMV) /\ isPlayMap(playMV.val)
  BY DEF Init, Full, isMVar, isPlayMap, emptyMap, PlayState
<1>2. isMVar(stateMV) /\ stateMV.val \in ValueMaps
  <2>1. PICK m \in [ctrl : Values, count : {0}] : stateMV = [full |-> TRUE, val |-> m]
    BY DEF Init, Full
  <2>2. m \in ValueMaps BY PlayMapAssumption DEF ValueMaps
  <2> QED BY <2>1, <2>2 DEF isMVar
<1>3. pc \in [Threads -> PC] /\ globalMV \in Globals BY DEF Init, PC
<1>4. \A t \in Threads : call[t] \in Call \cup {tick, rollback} /\ calling(t)
  BY DEF Init, calling
<1>5. DOMAIN call = Threads /\ DOMAIN pMap = Threads /\ DOMAIN sMap = Threads BY DEF Init
<1> QED BY <1>1, <1>2, <1>3, <1>4, <1>5 DEF TypeOK

\* Every variable of a stream keeps its type, and every thread the locals its place needs.
THEOREM TypeCorrect == StreamSpec => []TypeOK
<1> QED BY TypeInit, TypeStep, PTL DEF StreamSpec
-----------------------------------------------------------------------------
\* Ownership of the two MVars is kept by every step.  PlayOwned and StateOwned are inductive
\* together with the types: a thread leaves "put" only by putting back, and enters it only by
\* emptying a full MVar.
Owned == PlayOwned /\ StateOwned

\* Every step of every thread keeps the two MVars owned.
LEMMA OwnedStep == TypeOK /\ Owned /\ [StreamNext]_svars => Owned'
<1> SUFFICES ASSUME TypeOK, Owned, [StreamNext]_svars PROVE Owned'
  OBVIOUS
<1> USE DEF TypeOK, Owned, PlayOwned, StateOwned, playHolders, stateHolders
<1>0. CASE UNCHANGED svars BY <1>0 DEF svars, mvars
<1>1. ASSUME NEW t \in Threads, Begin(t) PROVE Owned'
  <2>1. PICK p \in {"eval", "snap", "all", "state", "play"} : Goto(t, "idle", p)
    BY <1>1 DEF Begin, first
  <2>2. UNCHANGED <<playMV, stateMV, pMap, sMap>> BY <1>1 DEF Begin, mvars
  <2> QED BY <2>1, <2>2 DEF Goto
<1>2. ASSUME NEW t \in Threads, Eval(t) PROVE Owned'
  BY <1>2 DEF Eval, Goto, mvars
<1>3. ASSUME NEW t \in Threads, TakePlay(t) PROVE Owned'
  <2>1. playHolders = {} /\ playHolders' = {t} BY <1>3 DEF TakePlay, Goto
  <2>2. ~playMV'.full /\ pMap'[t] = playMV'.val BY <1>3 DEF TakePlay, Taken, isMVar
  <2>3. stateHolders' = stateHolders /\ UNCHANGED <<stateMV, sMap>> BY <1>3 DEF TakePlay, Goto
  <2> QED BY <2>1, <2>2, <2>3
<1>4. ASSUME NEW t \in Threads, PutPlay(t) PROVE Owned'
  <2>1. playHolders = {t} BY <1>4 DEF PutPlay, Goto
  <2>2. playHolders' = {} /\ playMV'.full BY <1>4, <2>1 DEF PutPlay, Goto, Full
  <2>3. stateHolders' = stateHolders /\ UNCHANGED <<stateMV, sMap>> BY <1>4 DEF PutPlay, Goto
  <2> QED BY <2>2, <2>3
<1>5. ASSUME NEW t \in Threads, ReadPlay(t) PROVE Owned'
  BY <1>5 DEF ReadPlay, Goto, mvars
<1>6. ASSUME NEW t \in Threads, SwapPlay(t) PROVE Owned'
  <2>1. playHolders' = playHolders /\ playMV.full BY <1>6 DEF SwapPlay, Goto
  <2>2. playMV'.full BY <1>6 DEF SwapPlay, Full
  <2>3. stateHolders' = stateHolders /\ UNCHANGED <<stateMV, sMap>> BY <1>6 DEF SwapPlay, Goto
  <2> QED BY <2>1, <2>2, <2>3
<1>7. ASSUME NEW t \in Threads, SwapGlobal(t) PROVE Owned'
  BY <1>7 DEF SwapGlobal, Goto
<1>8. ASSUME NEW t \in Threads, TakeState(t) PROVE Owned'
  <2>1. stateHolders = {} /\ stateHolders' = {t} BY <1>8 DEF TakeState, Goto
  <2>2. ~stateMV'.full /\ sMap'[t] = stateMV'.val BY <1>8 DEF TakeState, Taken, isMVar
  <2>3. playHolders' = playHolders /\ UNCHANGED <<playMV, pMap>> BY <1>8 DEF TakeState, Goto
  <2> QED BY <2>1, <2>2, <2>3
<1>9. ASSUME NEW t \in Threads, TickRead(t) PROVE Owned'
  BY <1>9 DEF TickRead, Goto, mvars
<1>10. ASSUME NEW t \in Threads, TickQuery(t) PROVE Owned'
  BY <1>10 DEF TickQuery, Goto, mvars
<1>11. ASSUME NEW t \in Threads, TickThrow(t) PROVE Owned'
  <2>1. stateHolders = {t} /\ stateHolders' = {} BY <1>11 DEF TickThrow, Goto
  <2>2. playHolders' = playHolders /\ t \notin playHolders BY <1>11 DEF TickThrow, Goto
  <2>3. UNCHANGED playMV /\ \A u \in playHolders : pMap'[u] = pMap[u]
    BY <1>11, <2>2 DEF TickThrow, mvars
  <2> QED BY <2>1, <2>2, <2>3
<1>12. ASSUME NEW t \in Threads, PutState(t) PROVE Owned'
  <2>1. stateHolders = {t} /\ stateHolders' = {} BY <1>12 DEF PutState, Goto
  <2>2. playHolders' = playHolders /\ UNCHANGED <<playMV, pMap>> BY <1>12 DEF PutState, Goto
  <2> QED BY <2>1, <2>2
<1> QED
  BY <1>0, <1>1, <1>2, <1>3, <1>4, <1>5, <1>6, <1>7, <1>8, <1>9, <1>10, <1>11, <1>12
  DEF StreamNext, Step, Update, Transit, doTick

\* Nobody owns an MVar at the start, and both are full.
LEMMA OwnedInit == Init => Owned
BY DEF Init, Owned, PlayOwned, StateOwned, playHolders, stateHolders, Full

\* Whatever patterns throw and however the threads interleave, sPMapMV is empty only while one
\* thread works on the map it held last, which that thread will put back.
THEOREM PlayMapOwned == StreamSpec => []PlayOwned
<1> QED BY TypeInit, TypeStep, OwnedInit, OwnedStep, PTL DEF StreamSpec, Owned

\* At most one doTick, streamSet or /ctrl works on the ValueMap at a time.
THEOREM ValueMapOwned == StreamSpec => []StateOwned
<1> QED BY TypeInit, TypeStep, OwnedInit, OwnedStep, PTL DEF StreamSpec, Owned
-----------------------------------------------------------------------------
\* The clients of this instance make no transitions, whose read and swap are not atomic.
NoTransitions == \A t \in Clients : \A c \in Requests[t] : c.op \notin {"transition", "overlay"}
Untransited == \A t \in Threads : call[t].op \notin {"transition", "overlay"}

\* Where no client asks for a transition, no thread is ever in one.
LEMMA UntransitedStep ==
  ASSUME NoTransitions
  PROVE  TypeOK /\ Untransited /\ [StreamNext]_svars => Untransited'
<1> SUFFICES ASSUME TypeOK, Untransited, [StreamNext]_svars PROVE Untransited'
  OBVIOUS
<1>1. CASE UNCHANGED svars BY <1>1 DEF Untransited, svars
<1>2. ASSUME NEW t \in Threads, Begin(t) PROVE Untransited'
  <2>1. PICK c : c.op \notin {"transition", "overlay"} /\ call' = [call EXCEPT ![t] = c]
    BY <1>2, NoTransitions, StreamAssumption DEF Begin, NoTransitions, tick, Threads
  <2> QED BY <2>1 DEF Untransited, TypeOK
<1>3. ASSUME NEW t \in Threads, Step(t) PROVE Untransited'
  <2>1. call' = call \/ call' = [call EXCEPT ![t] = rollback] \/ call' = [call EXCEPT ![t] = call[t]]
    BY <1>3 DEF Step, Update, Transit, doTick, Eval, TakePlay, PutPlay, ReadPlay, SwapPlay,
                SwapGlobal, TakeState, TickRead, TickQuery, TickThrow, PutState
  <2> QED BY <2>1 DEF Untransited, TypeOK, rollback
<1> QED BY <1>1, <1>2, <1>3 DEF StreamNext

\* The operators of PlayMapOps seen through the instance are the operators themselves.
LEMMA SameOperators ==
  ASSUME NEW m, NEW k, NEW s, NEW b, NEW v
  PROVE  /\ Abstract!emptyMap = emptyMap
         /\ Abstract!transitioned(m, k, b, s) = transitioned(m, k, b, s)
         /\ Abstract!updatePattern(m, k, s) = updatePattern(m, k, s)
         /\ Abstract!untagged(s) = untagged(s)
         /\ Abstract!muted(m, k, b) = muted(m, k, b)
         /\ Abstract!soloed(m, k, b) = soloed(m, k, b)
         /\ Abstract!silenced(m, k) = silenced(m, k)
         /\ Abstract!setPreviousPatternOrSilence(m) = setPreviousPatternOrSilence(m)
         /\ Abstract!ctrlSet(m, v) = ctrlSet(m, v)
         /\ Abstract!ticked(m) = ticked(m)
<1>1. Abstract!emptyMap = emptyMap
  BY DEF Abstract!emptyMap, emptyMap, Abstract!silence, silence
<1>2. Abstract!updatePattern(m, k, s) = updatePattern(m, k, s)
  BY DEF Abstract!updatePattern, updatePattern, Abstract!insert, insert, Abstract!tagged, tagged,
         Abstract!untagged, untagged
<1>3. Abstract!muted(m, k, b) = muted(m, k, b)
  BY DEF Abstract!muted, muted, Abstract!withPatIds, withPatIds
<1>4. Abstract!soloed(m, k, b) = soloed(m, k, b)
  BY DEF Abstract!soloed, soloed, Abstract!withPatIds, withPatIds
<1>5. Abstract!silenced(m, k) = silenced(m, k)
  BY DEF Abstract!silenced, silenced, Abstract!withPatIds, withPatIds, Abstract!silence, silence
<1>6. Abstract!setPreviousPatternOrSilence(m) = setPreviousPatternOrSilence(m)
  BY DEF Abstract!setPreviousPatternOrSilence, setPreviousPatternOrSilence, Abstract!silence, silence
<1>7. Abstract!ctrlSet(m, v) = ctrlSet(m, v) /\ Abstract!ticked(m) = ticked(m)
  BY DEF Abstract!ctrlSet, ctrlSet, Abstract!ticked, ticked
<1>8. Abstract!transitioned(m, k, b, s) = transitioned(m, k, b, s)
  BY DEF Abstract!transitioned, transitioned, Abstract!transitionState, transitionState,
         Abstract!mapped, mapped, Abstract!insert, insert, Abstract!silence, silence
<1>9. Abstract!untagged(s) = untagged(s) BY DEF Abstract!untagged, untagged
<1> QED BY <1>1, <1>2, <1>3, <1>4, <1>5, <1>6, <1>7, <1>8, <1>9

\* Each step of a thread is an operation of PlayMap on both maps, leaves them as they are, or
\* is the swap of a transition that read an older map.
LEMMA AtomicStep ==
  TypeOK /\ Owned /\ [StreamNext]_svars
    => [Abstract!Next \/ staleSwap]_<<playMV.val, stateMV.val>>
<1> SUFFICES ASSUME TypeOK, Owned, [StreamNext]_svars
             PROVE  Abstract!Next \/ staleSwap \/ UNCHANGED <<playMV.val, stateMV.val>>
  OBVIOUS
<1>0. CASE UNCHANGED svars BY <1>0 DEF svars, mvars
<1>1. ASSUME NEW t \in Threads, Begin(t) \/ Eval(t) \/ TakePlay(t) \/ ReadPlay(t) \/ SwapGlobal(t)
                              \/ TakeState(t) \/ TickRead(t) \/ TickQuery(t) \/ TickThrow(t)
      PROVE  UNCHANGED <<playMV.val, stateMV.val>>
  BY <1>1 DEF Begin, Eval, TakePlay, ReadPlay, SwapGlobal, TakeState, TickRead, TickQuery,
              TickThrow, Taken, mvars, TypeOK, isMVar
<1>2. ASSUME NEW t \in Threads, SwapPlay(t) PROVE Abstract!Next \/ staleSwap
  <2>1. CASE pMap[t] # playMV.val BY <1>2, <2>1 DEF staleSwap
  <2>2. CASE pMap[t] = playMV.val
    <3> DEFINE flag == call[t].op = "transition"
    <3>1. PICK k \in Ids : \E m \in transitioned(pMap[t], k, flag, untagged(call[t].pat)) : playMV' = Full(m)
      BY <1>2 DEF SwapPlay
    <3>2. call[t].pat \in Patterns
      BY <1>2 DEF SwapPlay, Goto, TypeOK, calling, Call, tick, rollback
    <3>3. playMV'.val \in Abstract!transitioned(playMV.val, k, flag, Abstract!untagged(call[t].pat))
      BY <2>2, <3>1, SameOperators DEF Full
    <3>4. stateMV'.val = stateMV.val /\ flag \in BOOLEAN BY <1>2 DEF SwapPlay
    <3>5. Abstract!Transition(k) BY <3>2, <3>3, <3>4 DEF Abstract!Transition
    <3> QED BY <3>5 DEF Abstract!Next
  <2> QED BY <2>1, <2>2
<1>3. ASSUME NEW t \in Threads, PutPlay(t) PROVE Abstract!Next
  <2>1. pMap[t] = playMV.val
    BY <1>3 DEF PutPlay, Goto, TypeOK, Owned, PlayOwned, playHolders
  <2>2. playMV'.val = result(t) /\ stateMV'.val = stateMV.val BY <1>3 DEF PutPlay, Full
  <2>3. call[t] \in Call \cup {tick, rollback} /\ call[t].op \in updating
    BY <1>3 DEF PutPlay, Goto, TypeOK, calling
  <2>4. CASE call[t].op = "replace"
    <3>1. PICK k \in Ids : call[t].ids = {k} BY <2>3, <2>4 DEF Call, tick, rollback
    <3>2. (CHOOSE j \in Ids : call[t].ids = {j}) = k BY <3>1
    <3>3. call[t].pat \in Patterns BY <2>3, <2>4 DEF Call, tick, rollback
    <3>4. playMV'.val = updatePattern(playMV.val, k, call[t].pat)
      BY <2>1, <2>2, <2>4, <3>2 DEF result
    <3>5. Abstract!Replace(k) BY <2>2, <3>3, <3>4, SameOperators DEF Abstract!Replace
    <3> QED BY <3>5 DEF Abstract!Next
  <2>5. CASE call[t].op \in {"mute", "unmute"}
    <3>1. call[t].ids \in SUBSET Ids BY <2>3, <2>5 DEF Call, tick, rollback
    <3>2. \E b \in BOOLEAN : playMV'.val = muted(playMV.val, call[t].ids, b)
      BY <2>1, <2>2, <2>5 DEF result
    <3>3. Abstract!Mute(call[t].ids) BY <2>2, <3>2, SameOperators DEF Abstract!Mute
    <3> QED BY <3>1, <3>3 DEF Abstract!Next
  <2>6. CASE call[t].op \in {"solo", "unsolo"}
    <3>1. call[t].ids \in SUBSET Ids BY <2>3, <2>6 DEF Call, tick, rollback
    <3>2. \E b \in BOOLEAN : playMV'.val = soloed(playMV.val, call[t].ids, b)
      BY <2>1, <2>2, <2>6 DEF result
    <3>3. Abstract!Solo(call[t].ids) BY <2>2, <3>2, SameOperators DEF Abstract!Solo
    <3> QED BY <3>1, <3>3 DEF Abstract!Next
  <2>7. CASE call[t].op = "silence"
    <3>1. call[t].ids \in SUBSET Ids BY <2>3, <2>7 DEF Call, tick, rollback
    <3>2. playMV'.val = silenced(playMV.val, call[t].ids) BY <2>1, <2>2, <2>7 DEF result
    <3>3. Abstract!Silence(call[t].ids) BY <2>2, <3>2, SameOperators DEF Abstract!Silence
    <3> QED BY <3>1, <3>3 DEF Abstract!Next
  <2>8. CASE call[t].op = "rollback"
    <3>1. playMV'.val = setPreviousPatternOrSilence(playMV.val) BY <2>1, <2>2, <2>8 DEF result
    <3>2. Abstract!Rollback BY <2>2, <3>1, SameOperators DEF Abstract!Rollback
    <3> QED BY <3>2 DEF Abstract!Next
  <2> QED BY <2>3, <2>4, <2>5, <2>6, <2>7, <2>8 DEF updating
<1>4. ASSUME NEW t \in Threads, PutState(t) PROVE Abstract!Next
  <2>1. sMap[t] = stateMV.val
    BY <1>4 DEF PutState, Goto, TypeOK, Owned, StateOwned, stateHolders
  <2>2. /\ stateMV'.val \in IF call[t].op = "set" THEN {ctrlSet(sMap[t], call[t].val)} ELSE ticked(sMap[t])
        /\ playMV'.val = playMV.val
    BY <1>4 DEF PutState, Full, written
  <2>3. CASE call[t].op = "set"
    <3>1. call[t].val \in Values
      BY <1>4, <2>3 DEF TypeOK, Call, tick, rollback
    <3>2. Abstract!Set BY <2>1, <2>2, <2>3, <3>1, SameOperators DEF Abstract!Set
    <3> QED BY <3>2 DEF Abstract!Next
  <2>4. CASE call[t].op # "set"
    <3>1. Abstract!Tick BY <2>1, <2>2, <2>4, SameOperators DEF Abstract!Tick
    <3> QED BY <3>1 DEF Abstract!Next
  <2> QED BY <2>3, <2>4
<1> QED BY <1>0, <1>1, <1>2, <1>3, <1>4 DEF StreamNext, Step, Update, Transit, doTick

\* A stream starts where PlayMap does.
LEMMA AtomicInit == Init => Abstract!Init
BY SameOperators DEF Init, Abstract!Init, Full

\* Without transitions the threads of a stream implement the atomic operations of PlayMap:
\* no mute, solo, silence, replacement, rollback, controller value or count is ever lost.
THEOREM NoLostUpdate == ASSUME NoTransitions PROVE StreamSpec => OperationsAtomic
<1>1. Init => Untransited BY DEF Init, Untransited, tick
<1>2. TypeOK /\ Untransited /\ [Abstract!Next \/ staleSwap]_<<playMV.val, stateMV.val>>
        => [Abstract!Next]_<<playMV.val, stateMV.val>>
  BY DEF staleSwap, SwapPlay, Goto, Untransited, TypeOK, calling
<1> QED
  BY <1>1, <1>2, TypeInit, TypeStep, OwnedInit, OwnedStep, UntransitedStep, AtomicInit, AtomicStep, PTL
  DEF StreamSpec, OperationsAtomic, Abstract!Spec, Abstract!vars

\* With transitions, a step that is no atomic operation is the swap of an outdated play map:
\* nothing else ever undoes what another thread did.
THEOREM OnlySwapsLose == StreamSpec => OnlyTransitionsLose
<1> QED
  BY TypeInit, TypeStep, OwnedInit, OwnedStep, AtomicStep, PTL DEF StreamSpec, OnlyTransitionsLose
-----------------------------------------------------------------------------
\* A change of the play map that keeps every id, and the flags of each id whose pattern or
\* history it changes.
keepsFlags(m, n) ==
  \A i \in DOMAIN m :
    /\ i \in DOMAIN n
    /\ n[i].psPattern # m[i].psPattern \/ n[i].psHistory # m[i].psHistory =>
         n[i].psMute = m[i].psMute /\ n[i].psSolo = m[i].psSolo

\* Putting in an entry with the flags the id had changes no other id.
LEMMA FlagsInsert ==
  ASSUME NEW m, NEW k, NEW ps,
         k \in DOMAIN m => ps.psMute = m[k].psMute /\ ps.psSolo = m[k].psSolo
  PROVE  keepsFlags(m, insert(m, k, ps))
BY DEF keepsFlags, insert

\* No operation changes the flags of an id together with what it plays.
LEMMA FlagsKept ==
  ASSUME NEW m, isPlayMap(m)
  PROVE  /\ \A k, s : keepsFlags(m, updatePattern(m, k, s))
         /\ \A ks, b : keepsFlags(m, muted(m, ks, b)) /\ keepsFlags(m, soloed(m, ks, b))
         /\ \A ks : keepsFlags(m, silenced(m, ks))
         /\ keepsFlags(m, setPreviousPatternOrSilence(m))
         /\ \A k, b, s : \A n \in transitioned(m, k, b, s) : keepsFlags(m, n)
<1>1. ASSUME NEW k, NEW s PROVE keepsFlags(m, updatePattern(m, k, s))
  BY FlagsInsert DEF updatePattern, isPlayMap, PlayState
<1>2. ASSUME NEW ks, NEW b PROVE keepsFlags(m, muted(m, ks, b)) /\ keepsFlags(m, soloed(m, ks, b))
  BY DEF keepsFlags, muted, soloed, withPatIds, isPlayMap, PlayState
<1>3. ASSUME NEW ks PROVE keepsFlags(m, silenced(m, ks))
  BY DEF keepsFlags, silenced, withPatIds, isPlayMap, PlayState
<1>4. keepsFlags(m, setPreviousPatternOrSilence(m))
  BY DEF keepsFlags, setPreviousPatternOrSilence, isPlayMap, PlayState
<1>5. ASSUME NEW k, NEW b, NEW s, NEW n \in transitioned(m, k, b, s) PROVE keepsFlags(m, n)
  <2> DEFINE ps == transitionState(m, k, b, s)
  <2>1. PICK p : n = insert(m, k, [ps EXCEPT !.psPattern = p]) BY DEF transitioned
  <2>2. k \in DOMAIN m => [ps EXCEPT !.psPattern = p].psMute = m[k].psMute
                          /\ [ps EXCEPT !.psPattern = p].psSolo = m[k].psSolo
    BY DEF transitionState, isPlayMap, PlayState
  <2> HIDE DEF ps
  <2> QED BY <2>1, <2>2, FlagsInsert
<1> QED BY <1>1, <1>2, <1>3, <1>4, <1>5

\* Ids stay, and flags stay with them, but for a transition that read an older map.
THEOREM FlagsStayPut == StreamSpec => FlagsStay
<1>1. ASSUME TypeOK, Abstract!Next PROVE keepsFlags(playMV.val, playMV'.val)
  <2>1. CASE playMV'.val = playMV.val BY <2>1 DEF keepsFlags
  <2>2. ASSUME NEW k \in Ids, Abstract!Replace(k) PROVE keepsFlags(playMV.val, playMV'.val)
    <3>1. PICK p : playMV'.val = Abstract!updatePattern(playMV.val, k, p) BY <2>2 DEF Abstract!Replace
    <3>2. playMV'.val = updatePattern(playMV.val, k, p) BY <3>1, SameOperators
    <3> QED BY <1>1, <3>2, FlagsKept DEF TypeOK
  <2>3. ASSUME NEW k \in Ids, Abstract!Transition(k) PROVE keepsFlags(playMV.val, playMV'.val)
    <3>1. PICK p \in Patterns, b \in BOOLEAN :
             playMV'.val \in Abstract!transitioned(playMV.val, k, b, Abstract!untagged(p))
      BY <2>3 DEF Abstract!Transition
    <3>2. playMV'.val \in transitioned(playMV.val, k, b, untagged(p)) BY <3>1, SameOperators
    <3> QED BY <1>1, <3>2, FlagsKept DEF TypeOK
  <2>5. ASSUME NEW ks, Abstract!Mute(ks) \/ Abstract!Solo(ks) PROVE keepsFlags(playMV.val, playMV'.val)
    <3>1. PICK b : \/ playMV'.val = Abstract!muted(playMV.val, ks, b)
                   \/ playMV'.val = Abstract!soloed(playMV.val, ks, b)
      BY <2>5 DEF Abstract!Mute, Abstract!Solo
    <3>2. playMV'.val = muted(playMV.val, ks, b) \/ playMV'.val = soloed(playMV.val, ks, b)
      BY <3>1, SameOperators
    <3> QED BY <1>1, <3>2, FlagsKept DEF TypeOK
  <2>6. ASSUME NEW ks, Abstract!Silence(ks) PROVE keepsFlags(playMV.val, playMV'.val)
    BY <1>1, <2>6, SameOperators, FlagsKept DEF Abstract!Silence, TypeOK
  <2>4. CASE Abstract!Rollback
    BY <1>1, <2>4, SameOperators, FlagsKept DEF Abstract!Rollback, TypeOK
  <2> QED BY <1>1, <2>1, <2>2, <2>3, <2>4, <2>5, <2>6 DEF Abstract!Next, Abstract!Set, Abstract!Tick
<1>2. TypeOK /\ [Abstract!Next \/ staleSwap]_<<playMV.val, stateMV.val>> /\ ~staleSwap
        => keepsFlags(playMV.val, playMV'.val)
  BY <1>1 DEF keepsFlags
<1>3. TypeOK /\ [Abstract!Next \/ staleSwap]_<<playMV.val, stateMV.val>>
        => [~staleSwap => \A i \in DOMAIN playMV.val :
              /\ i \in DOMAIN playMV'.val
              /\ playMV'.val[i].psPattern # playMV.val[i].psPattern
                   \/ playMV'.val[i].psHistory # playMV.val[i].psHistory =>
                 playMV'.val[i].psMute = playMV.val[i].psMute
                   /\ playMV'.val[i].psSolo = playMV.val[i].psSolo]_playMV
  BY <1>2 DEF keepsFlags
<1> QED
  BY <1>3, TypeInit, TypeStep, OwnedInit, OwnedStep, AtomicStep, PTL DEF StreamSpec, FlagsStay
-----------------------------------------------------------------------------
\* Without transitions, what an id plays is the head of its history but for the tags: the
\* strengthening that makes UndoRestores inductive.
headPlays(m) ==
  \A i \in DOMAIN m :
    m[i].psHistory # << >> /\ patterns(m[i].psPattern) = patterns(m[i].psHistory[1])
HeadPlays == headPlays(playMV.val)

\* After a replacement the head of the history is what plays, tagged or not.
LEMMA HeadUpdate ==
  ASSUME NEW m, isPlayMap(m), headPlays(m), NEW k \in Ids, NEW p \in Patterns
  PROVE  headPlays(updatePattern(m, k, p))
<1>1. ASSUME NEW i \in DOMAIN updatePattern(m, k, p)
      PROVE  LET e == updatePattern(m, k, p)[i]
             IN  e.psHistory # << >> /\ patterns(e.psPattern) = patterns(e.psHistory[1])
  <2>0. tagged(p) \in Sounds /\ untagged(p) \in Sounds /\ patterns(tagged(p)) = patterns(untagged(p))
    BY TagType
  <2>1. CASE i # k BY <1>1, <2>1 DEF updatePattern, insert, headPlays
  <2>2. CASE i = k /\ k \in DOMAIN m
    <3>1. m[k].psHistory \in Seq(Sounds) /\ m[k] \in PlayState BY <2>2 DEF isPlayMap, PlayState
    <3>2. /\ (<<untagged(p)>> \o m[k].psHistory)[1] = untagged(p)
          /\ <<untagged(p)>> \o m[k].psHistory # << >>
      BY <2>0, <3>1
    <3>3. updatePattern(m, k, p)[i]
            = [m[k] EXCEPT !.psPattern = tagged(p), !.psHistory = <<untagged(p)>> \o @]
      BY <2>2 DEF updatePattern, insert
    <3>4. /\ updatePattern(m, k, p)[i].psPattern = tagged(p)
          /\ updatePattern(m, k, p)[i].psHistory = <<untagged(p)>> \o m[k].psHistory
      BY <3>1, <3>3 DEF PlayState
    <3> QED BY <2>0, <3>2, <3>4
  <2>3. CASE i = k /\ k \notin DOMAIN m BY <2>3 DEF updatePattern, insert
  <2> QED BY <2>1, <2>2, <2>3
<1> QED BY <1>1 DEF headPlays

\* Setting a flag changes neither.
LEMMA HeadFlags ==
  ASSUME NEW m, isPlayMap(m), headPlays(m), NEW ks, NEW b \in BOOLEAN
  PROVE  headPlays(muted(m, ks, b)) /\ headPlays(soloed(m, ks, b))
BY DEF isPlayMap, headPlays, muted, soloed, withPatIds, PlayState

\* After a silencing the head of the history is the silence that plays.
LEMMA HeadSilenced ==
  ASSUME NEW m, isPlayMap(m), headPlays(m), NEW ks
  PROVE  headPlays(silenced(m, ks))
<1>1. ASSUME NEW i \in DOMAIN m, i \in ks
      PROVE  silenced(m, ks)[i].psHistory # << >>
             /\ patterns(silenced(m, ks)[i].psPattern) = patterns(silenced(m, ks)[i].psHistory[1])
  <2>1. m[i] \in PlayState /\ m[i].psHistory \in Seq(Sounds) BY <1>1 DEF isPlayMap, PlayState
  <2>2. silence \in Sounds BY DEF silence, Sounds
  <2>3. (<<silence>> \o m[i].psHistory)[1] = silence /\ <<silence>> \o m[i].psHistory # << >>
    BY <2>1, <2>2
  <2>4. silenced(m, ks)[i] = [m[i] EXCEPT !.psPattern = silence, !.psHistory = <<silence>> \o @]
    BY <1>1 DEF silenced, withPatIds
  <2> QED BY <2>1, <2>3, <2>4 DEF PlayState
<1> QED BY <1>1 DEF headPlays, silenced, withPatIds

\* After a rollback the head of the history is what plays.
LEMMA HeadRollback ==
  ASSUME NEW m, isPlayMap(m)
  PROVE  headPlays(setPreviousPatternOrSilence(m))
<1>1. ASSUME NEW i \in DOMAIN m
      PROVE  LET e == setPreviousPatternOrSilence(m)[i]
             IN  e.psHistory # << >> /\ patterns(e.psPattern) = patterns(e.psHistory[1])
  <2>1. m[i] \in PlayState /\ m[i].psHistory \in Seq(Sounds) BY <1>1 DEF isPlayMap, PlayState
  <2>2. CASE Len(m[i].psHistory) >= 2
    <3>1. Tail(m[i].psHistory) # << >> /\ Tail(m[i].psHistory)[1] = m[i].psHistory[2]
      BY <2>1, <2>2
    <3> QED BY <2>1, <2>2, <3>1 DEF setPreviousPatternOrSilence, PlayState
  <2>3. CASE ~(Len(m[i].psHistory) >= 2)
    BY <2>1, <2>3 DEF setPreviousPatternOrSilence, PlayState
  <2> QED BY <2>2, <2>3
<1> QED BY <1>1 DEF headPlays, setPreviousPatternOrSilence

\* Every step of a thread keeps what plays at the head of the history.
LEMMA HeadStep ==
  TypeOK /\ Owned /\ Untransited /\ HeadPlays /\ [StreamNext]_svars => HeadPlays'
<1> SUFFICES ASSUME TypeOK, Owned, Untransited, HeadPlays, [StreamNext]_svars PROVE HeadPlays'
  OBVIOUS
<1>0. CASE UNCHANGED svars BY <1>0 DEF svars, mvars, HeadPlays, headPlays
<1>1. ASSUME NEW t \in Threads, Begin(t) \/ Eval(t) \/ TakePlay(t) \/ ReadPlay(t) \/ SwapGlobal(t)
                              \/ doTick(t)
      PROVE  playMV'.val = playMV.val
  BY <1>1 DEF Begin, Eval, TakePlay, ReadPlay, SwapGlobal, doTick, TakeState, TickRead, TickQuery,
              TickThrow, PutState, Taken, mvars, TypeOK, isMVar
<1>2. ASSUME NEW t \in Threads, SwapPlay(t) PROVE FALSE
  BY <1>2 DEF SwapPlay, Goto, Untransited, TypeOK, calling
<1>3. ASSUME NEW t \in Threads, PutPlay(t) PROVE headPlays(playMV'.val)
  <2>1. pMap[t] = playMV.val BY <1>3 DEF PutPlay, Goto, TypeOK, Owned, PlayOwned, playHolders
  <2>2. playMV'.val = result(t) BY <1>3 DEF PutPlay, Full
  <2>3. isPlayMap(pMap[t]) /\ headPlays(pMap[t]) BY <2>1 DEF TypeOK, HeadPlays
  <2>4. call[t] \in Call \cup {tick, rollback} /\ call[t].op \in updating
    BY <1>3 DEF PutPlay, Goto, TypeOK, calling
  <2>5. CASE call[t].op = "replace"
    <3>1. call[t].pat \in Patterns /\ \E k \in Ids : call[t].ids = {k}
      BY <2>4, <2>5 DEF Call, tick, rollback
    <3>2. (CHOOSE k \in Ids : call[t].ids = {k}) \in Ids BY <3>1
    <3> QED BY <2>2, <2>3, <2>5, <3>1, <3>2, HeadUpdate DEF result
  <2>6. CASE call[t].op \in {"mute", "unmute"} BY <2>2, <2>3, <2>6, HeadFlags DEF result
  <2>7. CASE call[t].op \in {"solo", "unsolo"} BY <2>2, <2>3, <2>7, HeadFlags DEF result
  <2>8. CASE call[t].op = "silence" BY <2>2, <2>3, <2>8, HeadSilenced DEF result
  <2>9. CASE call[t].op = "rollback" BY <2>2, <2>3, <2>9, HeadRollback DEF result
  <2> QED BY <2>4, <2>5, <2>6, <2>7, <2>8, <2>9 DEF updating
<1> QED BY <1>0, <1>1, <1>2, <1>3 DEF StreamNext, Step, Update, Transit, HeadPlays, headPlays

\* A rollback right after a replacement gives the id back its flags and its history, and it plays
\* the head of that.
LEMMA HeadUndo ==
  ASSUME NEW m, isPlayMap(m), headPlays(m), NEW k \in DOMAIN m, NEW p \in Patterns
  PROVE  undone(m, k, p) = [m[k] EXCEPT !.psPattern = m[k].psHistory[1]]
<1> DEFINE h == m[k].psHistory
           e == updatePattern(m, k, p)[k]
<1>0. tagged(p) \in Sounds /\ untagged(p) \in Sounds BY TagType
<1>1. k \in Ids /\ m[k] \in PlayState /\ h \in Seq(Sounds) /\ h # << >>
  BY DEF isPlayMap, PlayState, headPlays
<1>2. /\ e = [m[k] EXCEPT !.psPattern = tagged(p), !.psHistory = <<untagged(p)>> \o @]
      /\ k \in DOMAIN updatePattern(m, k, p)
  BY DEF updatePattern, insert
<1>3. e.psHistory = <<untagged(p)>> \o h /\ e.psMute = m[k].psMute /\ e.psSolo = m[k].psSolo
  BY <1>1, <1>2 DEF PlayState
<1>4. /\ Len(<<untagged(p)>> \o h) >= 2 /\ (<<untagged(p)>> \o h)[2] = h[1]
      /\ Tail(<<untagged(p)>> \o h) = h
  BY <1>0, <1>1
<1>5. undone(m, k, p) = [e EXCEPT !.psPattern = h[1], !.psHistory = h]
  BY <1>2, <1>3, <1>4 DEF undone, setPreviousPatternOrSilence
<1> HIDE DEF h
<1>6. [e EXCEPT !.psPattern = h[1], !.psHistory = h] = [m[k] EXCEPT !.psPattern = h[1]]
  BY <1>1, <1>2 DEF PlayState, h
<1> QED BY <1>5, <1>6 DEF h

\* Without transitions, evaluating a pattern on an id and rolling back is an undo but for the
\* tags, whatever the threads did before.
THEOREM UndoWorks == ASSUME NoTransitions PROVE StreamSpec => []UndoRestores
<1>1. Init => Untransited /\ HeadPlays
  BY DEF Init, Untransited, tick, HeadPlays, headPlays, Full, emptyMap
<1>2. TypeOK /\ HeadPlays => UndoRestores
  <2> SUFFICES ASSUME TypeOK, HeadPlays, NEW k \in DOMAIN playMV.val, NEW p \in Patterns
               PROVE  LET ps == playMV.val[k]
                          un == undone(playMV.val, k, p)
                      IN  /\ un = [ps EXCEPT !.psPattern = un.psPattern]
                          /\ patterns(un.psPattern) = patterns(ps.psPattern)
    BY DEF UndoRestores
  <2>1. playMV.val[k] \in PlayState BY DEF TypeOK, isPlayMap
  <2>2. undone(playMV.val, k, p) = [playMV.val[k] EXCEPT !.psPattern = playMV.val[k].psHistory[1]]
    BY HeadUndo DEF TypeOK, HeadPlays
  <2>3. undone(playMV.val, k, p).psPattern = playMV.val[k].psHistory[1] BY <2>1, <2>2 DEF PlayState
  <2>4. patterns(playMV.val[k].psPattern) = patterns(playMV.val[k].psHistory[1])
    BY DEF HeadPlays, headPlays
  <2> QED BY <2>2, <2>3, <2>4
<1> QED
  BY <1>1, <1>2, TypeInit, TypeStep, OwnedInit, OwnedStep, UntransitedStep, HeadStep, PTL
  DEF StreamSpec
-----------------------------------------------------------------------------
\* Play maps all of whose entries, the ones of the histories included, were evaluated or are what
\* some transition was asked for: what a rollback goes back to is one of them.
Evaluated == SUBSET {x \in Sources : x.pat \notin EvalFails \ transitional}
evaluated(m) == \A i \in DOMAIN m : m[i].psPattern \in Evaluated /\ m[i].psHistory \in Seq(Evaluated)

\* An entry of evaluated patterns can be put into an evaluated map.
LEMMA EvaluatedInsert ==
  ASSUME NEW m, evaluated(m), NEW k, NEW ps, ps.psPattern \in Evaluated, ps.psHistory \in Seq(Evaluated)
  PROVE  evaluated(insert(m, k, ps))
BY DEF evaluated, insert

\* The operations that install no pattern of a call.
LEMMA EvaluatedRest ==
  ASSUME NEW m, isPlayMap(m), evaluated(m)
  PROVE  /\ \A ks, b : evaluated(muted(m, ks, b)) /\ evaluated(soloed(m, ks, b))
         /\ \A ks : evaluated(silenced(m, ks))
         /\ evaluated(setPreviousPatternOrSilence(m))
<1>1. ASSUME NEW ks, NEW b PROVE evaluated(muted(m, ks, b)) /\ evaluated(soloed(m, ks, b))
  BY DEF evaluated, muted, soloed, withPatIds, isPlayMap, PlayState
<1>2. silence \in Evaluated /\ <<silence>> \in Seq(Evaluated) BY DEF silence, Evaluated
<1>3. ASSUME NEW ks PROVE evaluated(silenced(m, ks))
  <2>1. \A h \in Seq(Evaluated) : <<silence>> \o h \in Seq(Evaluated) BY <1>2
  <2> QED BY <1>2, <2>1 DEF evaluated, silenced, withPatIds, isPlayMap, PlayState
<1>4. evaluated(setPreviousPatternOrSilence(m))
  <2>1. ASSUME NEW i \in DOMAIN m
        PROVE  LET e == setPreviousPatternOrSilence(m)[i]
               IN  e.psPattern \in Evaluated /\ e.psHistory \in Seq(Evaluated)
    <3>1. m[i] \in PlayState /\ m[i].psHistory \in Seq(Evaluated) BY <2>1 DEF isPlayMap, evaluated
    <3>2. CASE Len(m[i].psHistory) >= 2
      <4>1. m[i].psHistory[2] \in Evaluated /\ Tail(m[i].psHistory) \in Seq(Evaluated) BY <3>1, <3>2
      <4> QED BY <3>1, <3>2, <4>1 DEF PlayState, setPreviousPatternOrSilence
    <3>3. CASE ~(Len(m[i].psHistory) >= 2)
      BY <1>2, <3>1, <3>3 DEF PlayState, setPreviousPatternOrSilence
    <3> QED BY <3>2, <3>3
  <2> QED BY <2>1 DEF evaluated, setPreviousPatternOrSilence
<1> QED BY <1>1, <1>3, <1>4

\* A replacement by an evaluated pattern.
LEMMA EvaluatedUpdate ==
  ASSUME NEW m, isPlayMap(m), evaluated(m), NEW k, NEW p \in Patterns \ EvalFails
  PROVE  evaluated(updatePattern(m, k, p))
<1>0. tagged(p) \in Evaluated /\ untagged(p) \in Evaluated
  BY DEF tagged, untagged, Evaluated, Sources
<1>1. CASE k \in DOMAIN m
  <2> DEFINE e == [m[k] EXCEPT !.psPattern = tagged(p), !.psHistory = <<untagged(p)>> \o @]
  <2>1. m[k] \in PlayState /\ m[k].psHistory \in Seq(Evaluated) BY <1>1 DEF isPlayMap, evaluated
  <2>2. <<untagged(p)>> \o m[k].psHistory \in Seq(Evaluated) BY <1>0, <2>1
  <2>3. e.psPattern \in Evaluated /\ e.psHistory \in Seq(Evaluated) BY <1>0, <2>1, <2>2 DEF PlayState
  <2> QED BY <1>1, <2>3, EvaluatedInsert DEF updatePattern
<1>2. CASE k \notin DOMAIN m
  <2>1. <<tagged(p)>> \in Seq(Evaluated) BY <1>0
  <2> QED BY <1>0, <1>2, <2>1, EvaluatedInsert DEF updatePattern
<1> QED BY <1>1, <1>2

\* A transition to a pattern that some transition was asked for, whatever its mapper makes of the history.
LEMMA EvaluatedTransit ==
  ASSUME NEW m, isPlayMap(m), evaluated(m), NEW k, NEW flag \in BOOLEAN, NEW p \in Evaluated,
         NEW n \in transitioned(m, k, flag, p)
  PROVE  evaluated(n)
<1> DEFINE ps == transitionState(m, k, flag, p)
           pats == IF flag THEN ps.psHistory ELSE <<p>> \o ps.psHistory
           old == IF k \in DOMAIN m THEN m[k]
                  ELSE [psPattern |-> silence, psMute |-> FALSE, psSolo |-> FALSE, psHistory |-> <<silence>>]
<1>1. silence \in Evaluated /\ <<silence>> \in Seq(Evaluated) BY DEF silence, Evaluated
<1>2. old.psHistory \in Seq(Evaluated) /\ (k \in DOMAIN m => m[k] \in PlayState)
  BY <1>1 DEF evaluated, isPlayMap
<1>3. <<p>> \o old.psHistory \in Seq(Evaluated) /\ <<p>> \o old.psHistory # << >> BY <1>2
<1>4. ps.psHistory = IF flag THEN <<p>> \o old.psHistory ELSE old.psHistory
  BY DEF transitionState, PlayState, isPlayMap
<1>5. pats = <<p>> \o old.psHistory /\ ps.psHistory \in Seq(Evaluated) BY <1>2, <1>3, <1>4
<1>6. ASSUME NEW s \in mapped(pats) PROVE s \in Evaluated
  BY <1>3, <1>5, <1>6 DEF mapped, Evaluated
<1>7. PICK s \in mapped(pats) : n = insert(m, k, [ps EXCEPT !.psPattern = s])
  BY DEF transitioned
<1>8. [ps EXCEPT !.psPattern = s].psPattern = s
      /\ [ps EXCEPT !.psPattern = s].psHistory = ps.psHistory
  BY DEF transitionState, PlayState, isPlayMap
<1> HIDE DEF ps, pats, old
<1> QED BY <1>5, <1>6, <1>7, <1>8, EvaluatedInsert

\* Every entry was evaluated or came by a transition, and so did what every thread is about to
\* install: the strengthening of ReplacementsEvaluated.
AllEvaluated ==
  /\ evaluated(playMV.val)
  /\ \A t \in Threads :
       /\ pc[t] \in {"put", "swap"} => evaluated(pMap[t])
       /\ call[t].op = "replace" /\ pc[t] \in {"play", "put"} => call[t].pat \notin EvalFails
       /\ call[t].op \in {"transition", "overlay"} => call[t].pat \in transitional

\* Every step keeps it: a replacement passes by updatePattern's seq before its take.
LEMMA EvaluatedStep == TypeOK /\ AllEvaluated /\ [StreamNext]_svars => AllEvaluated'
<1> SUFFICES ASSUME TypeOK, AllEvaluated, [StreamNext]_svars PROVE AllEvaluated'
  OBVIOUS
<1> USE DEF TypeOK, AllEvaluated
<1>0. CASE UNCHANGED svars BY <1>0 DEF svars, mvars
<1>1. ASSUME NEW t \in Threads, Begin(t) PROVE AllEvaluated'
  <2> DEFINE calls == IF t = clock THEN {tick} ELSE Requests[t]
  <2>0. PICK c \in calls : Goto(t, "idle", first(c.op)) /\ call' = [call EXCEPT ![t] = c]
    BY <1>1 DEF Begin
  <2>1. c.op \in {"transition", "overlay"} => c.pat \in transitional
    <3>1. CASE t = clock BY <3>1 DEF tick
    <3>2. CASE t # clock BY <3>2 DEF transitional, Threads
    <3> QED BY <3>1, <3>2
  <2>2. UNCHANGED <<playMV, pMap>> BY <1>1 DEF Begin, mvars
  <2>3. /\ first(c.op) \in {"eval", "snap", "all", "state", "play"}
        /\ c.op = "replace" => first(c.op) = "eval"
    BY DEF first
  <2> QED BY <2>0, <2>1, <2>2, <2>3 DEF Goto
<1>2. ASSUME NEW t \in Threads, Eval(t) PROVE AllEvaluated'
  BY <1>2 DEF Eval, Goto, mvars, rollback
<1>3. ASSUME NEW t \in Threads, TakePlay(t) PROVE AllEvaluated'
  BY <1>3 DEF TakePlay, Goto, Taken
<1>4. ASSUME NEW t \in Threads, PutPlay(t) PROVE AllEvaluated'
  <2>1. /\ Goto(t, "put", "idle") /\ playMV' = Full(result(t))
        /\ pMap' = [pMap EXCEPT ![t] = gone] /\ call' = call
    BY <1>4 DEF PutPlay
  <2>2. /\ isPlayMap(pMap[t]) /\ evaluated(pMap[t])
        /\ call[t] \in Call \cup {tick, rollback} /\ call[t].op \in updating
    BY <2>1 DEF Goto, calling
  <2>3. evaluated(result(t))
    <3>1. CASE call[t].op = "replace"
      <4>1. call[t].pat \in Patterns \ EvalFails
        BY <2>1, <2>2, <3>1 DEF Goto, Call, tick, rollback
      <4> QED BY <2>2, <3>1, <4>1, EvaluatedUpdate DEF result
    <3>2. CASE call[t].op \in {"mute", "unmute"} BY <2>2, <3>2, EvaluatedRest DEF result
    <3>3. CASE call[t].op \in {"solo", "unsolo"} BY <2>2, <3>3, EvaluatedRest DEF result
    <3>4. CASE call[t].op \in {"silence", "rollback"} BY <2>2, <3>4, EvaluatedRest DEF result
    <3> QED BY <2>2, <3>1, <3>2, <3>3, <3>4 DEF updating
  <2>4. playMV'.val = result(t) BY <2>1 DEF Full
  <2> QED BY <2>1, <2>3, <2>4 DEF Goto
<1>5. ASSUME NEW t \in Threads, ReadPlay(t) PROVE AllEvaluated'
  <2>1. /\ Goto(t, "snap", "swap") /\ pMap' = [pMap EXCEPT ![t] = playMV.val]
        /\ UNCHANGED <<playMV, call>>
    BY <1>5 DEF ReadPlay, mvars
  <2> QED BY <2>1 DEF Goto
<1>6. ASSUME NEW t \in Threads, SwapPlay(t) PROVE AllEvaluated'
  <2>1. /\ Goto(t, "swap", "idle") /\ pMap' = [pMap EXCEPT ![t] = gone] /\ call' = call
    BY <1>6 DEF SwapPlay
  <2> DEFINE flag == call[t].op = "transition"
  <2>2. PICK k \in Ids : \E m \in transitioned(pMap[t], k, flag, untagged(call[t].pat)) : playMV' = Full(m)
    BY <1>6 DEF SwapPlay
  <2>3. /\ isPlayMap(pMap[t]) /\ evaluated(pMap[t]) /\ calling(t)
        /\ call[t].op \in {"transition", "overlay"} /\ call[t] \in Call \cup {tick, rollback}
    BY <2>1 DEF Goto, calling
  <2>4. untagged(call[t].pat) \in Evaluated
    BY <2>3 DEF untagged, Evaluated, Sources, Call, tick, rollback
  <2>5. PICK m \in transitioned(pMap[t], k, flag, untagged(call[t].pat)) : playMV' = Full(m) BY <2>2
  <2>6. flag \in BOOLEAN OBVIOUS
  <2> HIDE DEF flag
  <2>7. evaluated(m) BY <2>3, <2>4, <2>5, <2>6, EvaluatedTransit
  <2>8. playMV'.val = m BY <2>5 DEF Full
  <2> QED BY <2>1, <2>7, <2>8 DEF Goto
<1>7. ASSUME NEW t \in Threads, SwapGlobal(t) PROVE AllEvaluated'
  BY <1>7 DEF SwapGlobal, Goto
<1>8. ASSUME NEW t \in Threads, TakeState(t) PROVE AllEvaluated'
  <2>1. \E p \in {"done", "read"} : Goto(t, "state", p) BY <1>8 DEF TakeState
  <2>2. UNCHANGED <<playMV, call, pMap>> BY <1>8 DEF TakeState
  <2> QED BY <2>1, <2>2 DEF Goto
<1>9. ASSUME NEW t \in Threads, TickRead(t) \/ TickQuery(t) PROVE AllEvaluated'
  <2>1. \E p \in {"query", "done"}, q \in {"read", "query"} : Goto(t, q, p) BY <1>9 DEF TickRead, TickQuery
  <2>2. UNCHANGED <<playMV, call>> /\ \E m : pMap' = [pMap EXCEPT ![t] = m]
    BY <1>9 DEF TickRead, TickQuery, mvars
  <2> QED BY <2>1, <2>2 DEF Goto
<1>10. ASSUME NEW t \in Threads, TickThrow(t) PROVE AllEvaluated'
  <2>1. \E p \in {"play", "idle"} : Goto(t, "query", p) /\ (p = "play" => call[t].op = "tick")
    BY <1>10 DEF TickThrow
  <2>2. /\ UNCHANGED playMV /\ pMap' = [pMap EXCEPT ![t] = gone]
        /\ call' = [call EXCEPT ![t] = rollback] \/ call' = [call EXCEPT ![t] = call[t]]
    BY <1>10 DEF TickThrow, mvars
  <2>3. pc[t] = "query" /\ call[t].op \in {"once", "tick"} BY <2>1 DEF Goto, calling
  <2> QED BY <2>1, <2>2, <2>3 DEF Goto, rollback
<1>11. ASSUME NEW t \in Threads, PutState(t) PROVE AllEvaluated'
  BY <1>11 DEF PutState, Goto
<1> QED
  BY <1>0, <1>1, <1>2, <1>3, <1>4, <1>5, <1>6, <1>7, <1>8, <1>9, <1>10, <1>11
  DEF StreamNext, Step, Update, Transit, doTick

\* Whatever the clients ask for, a pattern that plays and throws when evaluated came by a
\* transition: a replacement installs none, and no rollback brings one back.
THEOREM OnlyEvaluated == StreamSpec => []ReplacementsEvaluated
<1>1. Init => AllEvaluated
  BY DEF Init, AllEvaluated, evaluated, Full, emptyMap, tick
<1>2. AllEvaluated => ReplacementsEvaluated
  BY DEF AllEvaluated, evaluated, Evaluated, ReplacementsEvaluated, throwing, patterns
<1> QED BY <1>1, <1>2, TypeInit, TypeStep, EvaluatedStep, PTL DEF StreamSpec
-----------------------------------------------------------------------------
\* Induction over the natural numbers, for a set of them.
LEMMA SetInduction ==
  ASSUME NEW S, 0 \in S, \A n \in Nat : n \in S => n + 1 \in S
  PROVE  Nat \subseteq S
<1> SUFFICES ASSUME Nat \ S # {} PROVE FALSE
  OBVIOUS
<1> DEFINE R == {e \in Nat \X Nat : e[1] < e[2]}
<1>0. IsWellFoundedOn(R, Nat) BY NatLessThanWellFounded DEF OpToRel
<1> HIDE DEF R
<1>1. PICK n \in Nat \ S : \A k \in Nat \ S : <<k, n>> \notin R
  <2>1. Nat \ S \subseteq Nat OBVIOUS
  <2> QED BY <1>0, <2>1, WFMin
<1>2. n # 0 /\ n - 1 \in Nat BY <1>1
<1>3. <<n - 1, n>> \in R BY <1>2 DEF R
<1>4. n - 1 \in S BY <1>1, <1>2, <1>3
<1> QED BY <1>1, <1>2, <1>4

\* f[j] is the play map m after j rollbacks, for j up to n.
rollbacks(f, m, n) == f = [j \in 0 .. n |-> IF j = 0 THEN m ELSE setPreviousPatternOrSilence(f[j - 1])]

\* There is such a function for every number of rollbacks.
LEMMA RollbacksExist ==
  ASSUME NEW m, NEW n \in Nat
  PROVE  \E f : rollbacks(f, m, n)
<1> DEFINE S == {k \in Nat : \E f : rollbacks(f, m, k)}
<1>1. 0 \in S
  <2>1. rollbacks([j \in 0 .. 0 |-> m], m, 0) BY DEF rollbacks
  <2> QED BY <2>1
<1>2. ASSUME NEW k \in Nat, k \in S PROVE k + 1 \in S
  <2>1. PICK f : rollbacks(f, m, k) BY <1>2
  <2> DEFINE g == [j \in 0 .. k + 1 |-> IF j = 0 THEN m ELSE setPreviousPatternOrSilence(f[j - 1])]
  <2>2. \A j \in 0 .. k : g[j] = f[j] BY <2>1 DEF rollbacks
  <2>3. ASSUME NEW j \in 0 .. k + 1
        PROVE  g[j] = IF j = 0 THEN m ELSE setPreviousPatternOrSilence(g[j - 1])
    <3>1. CASE j = 0 BY <3>1
    <3>2. CASE j # 0
      <4>1. j - 1 \in 0 .. k BY <3>2
      <4>2. g[j - 1] = f[j - 1] BY <2>2, <4>1
      <4>3. g[j] = setPreviousPatternOrSilence(f[j - 1]) BY <3>2
      <4> QED BY <3>2, <4>2, <4>3
    <3> QED BY <3>1, <3>2
  <2>4. g = [j \in 0 .. k + 1 |-> g[j]] OBVIOUS
  <2> HIDE DEF g
  <2>5. rollbacks(g, m, k + 1) BY <2>3, <2>4 DEF rollbacks
  <2> QED BY <2>5
<1> HIDE DEF S
<1>3. n \in S BY <1>1, <1>2, SetInduction
<1> QED BY <1>3 DEF S

\* A rollback is a function on the play maps with the same ids.
LEMMA RollbackFunction ==
  ASSUME NEW m, NEW h \in [DOMAIN m -> PlayState], isPlayMap(m)
  PROVE  setPreviousPatternOrSilence(h) \in [DOMAIN m -> PlayState]
<1>1. isPlayMap(h) /\ DOMAIN h = DOMAIN m BY DEF isPlayMap
<1>2. DOMAIN setPreviousPatternOrSilence(h) = DOMAIN h BY DEF setPreviousPatternOrSilence
<1> QED BY <1>1, <1>2, RollbackType DEF isPlayMap

\* An id whose history has at most n entries, and at least one, is silent after n rollbacks: each
\* takes one entry off its history, down to the last, which silence replaces.
LEMMA RolledBack ==
  ASSUME NEW m, isPlayMap(m), \A i \in DOMAIN m : m[i].psHistory # << >>,
         NEW n \in Nat, NEW f, rollbacks(f, m, n), NEW i \in DOMAIN m, Len(m[i].psHistory) <= n
  PROVE  f[n][i].psPattern = silence /\ f[n][i].psHistory = <<silence>>
<1> DEFINE L == Len(m[i].psHistory)
           at(e, j) == /\ j < L => Len(e.psHistory) = L - j
                       /\ j >= L => e.psPattern = silence /\ e.psHistory = <<silence>>
           S == {j \in Nat : j <= n => f[j] \in [DOMAIN m -> PlayState] /\ at(f[j][i], j)}
<1>0. L \in Nat /\ L > 0 /\ m \in [DOMAIN m -> PlayState] /\ L <= n BY DEF isPlayMap, PlayState
<1>1. 0 \in S
  <2>1. f[0] = m BY DEF rollbacks
  <2> QED BY <1>0, <2>1
<1> HIDE DEF L
<1>2. ASSUME NEW j \in Nat, j \in S PROVE j + 1 \in S
  <2>1. SUFFICES ASSUME j + 1 <= n
                 PROVE  f[j + 1] \in [DOMAIN m -> PlayState] /\ at(f[j + 1][i], j + 1)
    OBVIOUS
  <2>2. f[j] \in [DOMAIN m -> PlayState] /\ at(f[j][i], j) BY <1>2, <2>1
  <2>3. f[j + 1] = setPreviousPatternOrSilence(f[j]) BY <2>1 DEF rollbacks
  <2>4. f[j + 1] \in [DOMAIN m -> PlayState] BY <2>2, <2>3, RollbackFunction
  <2>5. PICK e \in PlayState : e = f[j][i] BY <2>2
  <2>6. PICK d : d = f[j + 1][i] OBVIOUS
  <2>7. d = IF Len(e.psHistory) >= 2
            THEN [e EXCEPT !.psPattern = e.psHistory[2], !.psHistory = Tail(@)]
            ELSE [e EXCEPT !.psPattern = silence, !.psHistory = <<silence>>]
    BY <2>2, <2>3, <2>5, <2>6 DEF setPreviousPatternOrSilence
  <2>8. /\ Len(e.psHistory) >= 2 => d.psHistory = Tail(e.psHistory)
        /\ Len(e.psHistory) < 2 => d.psPattern = silence /\ d.psHistory = <<silence>>
        /\ e.psHistory \in Seq(Sounds)
    BY <2>5, <2>7 DEF PlayState
  <2>9. CASE j + 1 < L
    <3>1. Len(e.psHistory) = L - j /\ L - j >= 2 BY <1>0, <2>2, <2>5, <2>9
    <3>2. Len(d.psHistory) = Len(e.psHistory) - 1
      <4>1. \A h \in Seq(Sounds) : Len(h) >= 2 => Len(Tail(h)) = Len(h) - 1 OBVIOUS
      <4>2. Len(e.psHistory) >= 2 BY <1>0, <3>1
      <4> QED BY <2>8, <4>1, <4>2
    <3>3. Len(d.psHistory) = L - (j + 1) BY <1>0, <3>1, <3>2
    <3> QED BY <1>0, <2>4, <2>6, <2>9, <3>3
  <2>10. CASE j + 1 >= L
    <3>1. Len(e.psHistory) = 1
      <4>1. CASE j >= L BY <2>2, <2>5, <4>1
      <4>2. CASE j + 1 = L
        <5>1. j < L /\ L - j = 1 BY <1>0, <4>2
        <5> QED BY <2>2, <2>5, <5>1
      <4> QED BY <1>0, <2>10, <4>1, <4>2
    <3>2. d.psPattern = silence /\ d.psHistory = <<silence>> BY <2>8, <3>1
    <3> QED BY <1>0, <2>4, <2>6, <2>10, <3>2
  <2> QED BY <1>0, <2>9, <2>10
<1> HIDE DEF S
<1>3. n \in S BY <1>1, <1>2, SetInduction
<1> QED BY <1>0, <1>3 DEF S

\* Every id of a play map has a history: the first thing installed under an id is pushed.
storied(m) == \A i \in DOMAIN m : m[i].psHistory # << >>

\* Every operation on play maps keeps it.
LEMMA StoriedOperations ==
  ASSUME NEW m, isPlayMap(m), storied(m)
  PROVE  /\ \A k \in Ids, p \in Patterns : storied(updatePattern(m, k, p))
         /\ \A ks, b : storied(muted(m, ks, b)) /\ storied(soloed(m, ks, b))
         /\ \A ks : storied(silenced(m, ks))
         /\ storied(setPreviousPatternOrSilence(m))
         /\ \A k \in Ids, b \in BOOLEAN, s \in Sounds : \A n \in transitioned(m, k, b, s) : storied(n)
<1> USE DEF storied
<1>0. \A i \in DOMAIN m : m[i] \in PlayState /\ m[i].psHistory \in Seq(Sounds) BY DEF isPlayMap, PlayState
<1>1. ASSUME NEW k \in Ids, NEW p \in Patterns PROVE storied(updatePattern(m, k, p))
  <2>1. CASE k \in DOMAIN m
    <3>0. untagged(p) \in Sounds BY TagType
    <3>1. [m[k] EXCEPT !.psPattern = tagged(p), !.psHistory = <<untagged(p)>> \o @].psHistory # << >>
      BY <1>0, <2>1, <3>0, PushType DEF PlayState
    <3> QED BY <2>1, <3>1 DEF updatePattern, insert
  <2>2. CASE k \notin DOMAIN m BY <2>2 DEF updatePattern, insert
  <2> QED BY <2>1, <2>2
<1>2. ASSUME NEW ks, NEW b PROVE storied(muted(m, ks, b)) /\ storied(soloed(m, ks, b))
  BY <1>0 DEF muted, soloed, withPatIds, PlayState
<1>3. ASSUME NEW ks PROVE storied(silenced(m, ks))
  <2>1. silence \in Sounds BY DEF silence, Sounds
  <2>2. ASSUME NEW i \in DOMAIN m PROVE silenced(m, ks)[i].psHistory # << >>
    BY <1>0, <2>1, PushType DEF silenced, withPatIds, PlayState
  <2> QED BY <2>2 DEF silenced, withPatIds
<1>4. storied(setPreviousPatternOrSilence(m))
  <2>1. ASSUME NEW i \in DOMAIN m PROVE setPreviousPatternOrSilence(m)[i].psHistory # << >>
    <3> DEFINE h == m[i].psHistory
    <3>1. CASE Len(h) >= 2
      <4>1. h \in Seq(Sounds) BY <1>0
      <4>2. setPreviousPatternOrSilence(m)[i].psHistory = Tail(h)
        BY <1>0, <3>1 DEF setPreviousPatternOrSilence, PlayState
      <4> HIDE DEF h
      <4>3. Tail(h) \in Seq(Sounds) BY <3>1, <4>1
      <4>4. Len(Tail(h)) = Len(h) - 1 BY <3>1, <4>1
      <4>5. PICK u \in Seq(Sounds) : u = Tail(h) /\ Len(u) = Len(h) - 1 BY ZenonT(20), <4>3, <4>4
      <4>6. Len(h) \in Nat BY <4>1
      <4>7. Len(u) >= 1 BY <3>1, <4>5, <4>6
      <4>8. u # << >> BY <4>7
      <4> QED BY <4>2, <4>5, <4>8
    <3>2. CASE ~(Len(h) >= 2) BY <1>0, <3>2 DEF setPreviousPatternOrSilence, PlayState
    <3> QED BY <3>1, <3>2
  <2> QED BY <2>1 DEF setPreviousPatternOrSilence
<1>5. ASSUME NEW k \in Ids, NEW b \in BOOLEAN, NEW s \in Sounds, NEW n \in transitioned(m, k, b, s)
      PROVE  storied(n)
  <2> DEFINE old == IF k \in DOMAIN m THEN m[k]
                    ELSE [psPattern |-> silence, psMute |-> FALSE, psSolo |-> FALSE, psHistory |-> <<silence>>]
             ps == transitionState(m, k, b, s)
  <2>1. silence \in Sounds /\ <<silence>> \in Seq(Sounds) BY DEF silence, Sounds
  <2>2. old \in PlayState /\ old.psHistory \in Seq(Sounds) /\ old.psHistory # << >>
    BY <1>0, <2>1 DEF PlayState
  <2>3. ps = IF b THEN [old EXCEPT !.psHistory = <<s>> \o @] ELSE old BY DEF transitionState
  <2> HIDE DEF old, ps
  <2>4. ps \in PlayState /\ ps.psHistory # << >> BY <2>2, <2>3, PushType DEF PlayState
  <2>5. PICK p : n = insert(m, k, [ps EXCEPT !.psPattern = p]) BY DEF transitioned, ps
  <2>6. [ps EXCEPT !.psPattern = p].psHistory # << >> BY <2>4 DEF PlayState
  <2> QED BY <2>5, <2>6 DEF insert
<1> QED BY <1>1, <1>2, <1>3, <1>4, <1>5

\* Every thread works on play maps whose ids have histories: the strengthening of
\* RollbacksEndInSilence.
Storied == storied(playMV.val) /\ \A t \in Threads : pc[t] \in {"put", "swap"} => storied(pMap[t])

\* Every step of every thread keeps the histories.
LEMMA StoriedStep == TypeOK /\ Storied /\ [StreamNext]_svars => Storied'
<1> SUFFICES ASSUME TypeOK, Storied, [StreamNext]_svars PROVE Storied'
  OBVIOUS
<1> USE DEF TypeOK, Storied
<1>0. CASE UNCHANGED svars BY <1>0 DEF svars, mvars
<1>1. ASSUME NEW t \in Threads, Begin(t) PROVE Storied'
  <2>1. PICK p \in {"eval", "snap", "all", "state", "play"} : Goto(t, "idle", p)
    BY <1>1 DEF Begin, first
  <2> QED BY <1>1, <2>1 DEF Begin, Goto, mvars
<1>2. ASSUME NEW t \in Threads, Eval(t) PROVE Storied' BY <1>2 DEF Eval, Goto, mvars
<1>3. ASSUME NEW t \in Threads, TakePlay(t) PROVE Storied' BY <1>3 DEF TakePlay, Goto, Taken
<1>4. ASSUME NEW t \in Threads, PutPlay(t) PROVE Storied'
  <2>1. /\ Goto(t, "put", "idle") /\ playMV' = Full(result(t))
        /\ pMap' = [pMap EXCEPT ![t] = gone]
    BY <1>4 DEF PutPlay
  <2>2. isPlayMap(pMap[t]) /\ storied(pMap[t]) /\ call[t] \in Call \cup {tick, rollback}
        /\ call[t].op \in updating
    BY <2>1 DEF Goto, calling
  <2>3. storied(result(t))
    <3>1. CASE call[t].op = "replace"
      <4>1. PICK k \in Ids : call[t].ids = {k} /\ call[t].pat \in Patterns
        BY <2>2, <3>1 DEF Call, tick, rollback
      <4>2. (CHOOSE j \in Ids : call[t].ids = {j}) \in Ids BY <4>1
      <4> QED BY <2>2, <3>1, <4>1, <4>2, StoriedOperations DEF result
    <3>2. CASE call[t].op \in {"mute", "unmute"} BY <2>2, <3>2, StoriedOperations DEF result
    <3>3. CASE call[t].op \in {"solo", "unsolo"} BY <2>2, <3>3, StoriedOperations DEF result
    <3>4. CASE call[t].op \in {"silence", "rollback"} BY <2>2, <3>4, StoriedOperations DEF result
    <3> QED BY <2>2, <3>1, <3>2, <3>3, <3>4 DEF updating
  <2>4. playMV'.val = result(t) BY <2>1 DEF Full
  <2> QED BY <2>1, <2>3, <2>4 DEF Goto
<1>5. ASSUME NEW t \in Threads, ReadPlay(t) PROVE Storied'
  BY <1>5 DEF ReadPlay, Goto, mvars
<1>6. ASSUME NEW t \in Threads, SwapPlay(t) PROVE Storied'
  <2> DEFINE flag == call[t].op = "transition"
  <2>1. Goto(t, "swap", "idle") /\ pMap' = [pMap EXCEPT ![t] = gone] BY <1>6 DEF SwapPlay
  <2>2. PICK k \in Ids : \E m \in transitioned(pMap[t], k, flag, untagged(call[t].pat)) : playMV' = Full(m)
    BY <1>6 DEF SwapPlay
  <2>3. PICK m \in transitioned(pMap[t], k, flag, untagged(call[t].pat)) : playMV' = Full(m) BY <2>2
  <2>4. isPlayMap(pMap[t]) /\ storied(pMap[t]) /\ call[t] \in Call \cup {tick, rollback}
        /\ call[t].op \in {"transition", "overlay"}
    BY <2>1 DEF Goto, calling
  <2>5. untagged(call[t].pat) \in Sounds BY <2>4, TagType DEF Call, tick, rollback
  <2>6. flag \in BOOLEAN OBVIOUS
  <2> HIDE DEF flag
  <2>7. storied(m) BY <2>3, <2>4, <2>5, <2>6, StoriedOperations
  <2>8. playMV'.val = m BY <2>3 DEF Full
  <2> QED BY <2>1, <2>7, <2>8 DEF Goto
<1>7. ASSUME NEW t \in Threads, SwapGlobal(t) \/ PutState(t) PROVE Storied'
  BY <1>7 DEF SwapGlobal, PutState, Goto
<1>8. ASSUME NEW t \in Threads, TakeState(t) PROVE Storied' BY <1>8 DEF TakeState, Goto
<1>9. ASSUME NEW t \in Threads, TickRead(t) \/ TickQuery(t) \/ TickThrow(t) PROVE Storied'
  <2>1. PICK q \in {"read", "query"}, p \in {"query", "done", "play", "idle"} : Goto(t, q, p)
    BY <1>9 DEF TickRead, TickQuery, TickThrow
  <2>2. UNCHANGED playMV /\ \E m : pMap' = [pMap EXCEPT ![t] = m]
    BY <1>9 DEF TickRead, TickQuery, TickThrow, mvars
  <2> QED BY <2>1, <2>2 DEF Goto
<1> QED BY <1>0, <1>1, <1>2, <1>3, <1>4, <1>5, <1>6, <1>7, <1>8, <1>9
  DEF StreamNext, Step, Update, Transit, doTick

\* However the threads interleaved, and whatever transitions did to the histories, a stream whose
\* patterns keep throwing is silent after as many rollbacks as its longest history has entries.
THEOREM SilenceInTheEnd == StreamSpec => []RollbacksEndInSilence
<1>1. Init => Storied BY DEF Init, Storied, storied, Full, emptyMap
<1>2. TypeOK /\ Storied => RollbacksEndInSilence
  <2>1. SUFFICES ASSUME TypeOK, Storied, NEW k \in DOMAIN playMV.val
        PROVE  LET longest == Len(playMV.val[k].psHistory)
                   after[n \in 0 .. longest] ==
                     IF n = 0 THEN playMV.val ELSE setPreviousPatternOrSilence(after[n - 1])
               IN  (\A i \in DOMAIN playMV.val : Len(playMV.val[i].psHistory) <= longest) =>
                     \A i \in DOMAIN playMV.val :
                       after[longest][i].psPattern = silence /\ after[longest][i].psHistory = <<silence>>
    BY DEF RollbacksEndInSilence
  <2> DEFINE m == playMV.val
             longest == Len(m[k].psHistory)
             after[n \in 0 .. longest] == IF n = 0 THEN m ELSE setPreviousPatternOrSilence(after[n - 1])
  <2>2. longest \in Nat /\ isPlayMap(m) /\ storied(m) BY <2>1 DEF TypeOK, Storied, isPlayMap, PlayState
  <2> HIDE DEF m, longest
  <2>3. rollbacks(after, m, longest)
    <3> DEFINE P(f) == f = [n \in 0 .. longest |-> IF n = 0 THEN m ELSE setPreviousPatternOrSilence(f[n - 1])]
    <3>1. PICK f : rollbacks(f, m, longest) BY <2>2, RollbacksExist
    <3>2. P(f) BY <3>1 DEF rollbacks
    <3>3. after = CHOOSE g : P(g) BY Zenon DEF after, P
    <3> HIDE DEF after, P
    <3>4. P(after) BY <3>2, <3>3
    <3> QED BY <3>4 DEF rollbacks, P
  <2> HIDE DEF after
  <2>4. ASSUME \A i \in DOMAIN m : Len(m[i].psHistory) <= longest, NEW i \in DOMAIN m
        PROVE  after[longest][i].psPattern = silence /\ after[longest][i].psHistory = <<silence>>
    BY <2>2, <2>3, <2>4, RolledBack DEF storied
  <2> QED BY <2>4 DEF m, longest, after
<1> QED BY <1>1, <1>2, TypeInit, TypeStep, StoriedStep, PTL DEF StreamSpec
=============================================================================
