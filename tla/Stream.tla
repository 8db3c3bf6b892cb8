------------------------------- MODULE Stream -------------------------------
(***************************************************************************)
(* The threads of a running Tidal stream and the MVars they share          *)
(* (Stream/Types.hs):                                                      *)
(*                                                                         *)
(*   playMV    sPMapMV, the PlayMap                                        *)
(*   stateMV   sStateMV, the ValueMap                                      *)
(*   globalMV  sGlobalFMV, the function streamAll applies to the stack     *)
(*                                                                         *)
(* The clock thread runs doTick again and again; each client (the thread   *)
(* of ctrlResponder, an interpreter) runs one library call after another.  *)
(* Every takeMVar, readMVar, putMVar and swapMVar is a step of its own.    *)
(* The bus MVar is swapped and read only, and left out.                    *)
(***************************************************************************)
EXTENDS PlayMapOps

CONSTANTS
  Clients,      \* threads that call the library
  clock,        \* the clock thread
  Requests,     \* Requests[t]: the calls client t makes in this instance
  EvalFails,    \* patterns whose query of the empty arc throws
  TickFails,    \* patterns whose query of a tick's arc, or conversion to OSC, may throw
  Globals,      \* functions given to streamAll
  GlobalFails,  \* those that make the stacked pattern throw
  MaxHistory    \* bound: a call that pushes is made while histories are shorter than this

Threads == Clients \cup {clock}

Call ==
  [op : {"replace"}, ids : {{k} : k \in Ids}, pat : Patterns]
  \cup [op : {"mute", "unmute", "solo", "unsolo", "silence"}, ids : SUBSET Ids]
  \cup [op : {"transition", "overlay"}, ids : {{k} : k \in Ids}, pat : Patterns]
  \cup [op : {"set"}, val : Values]
  \cup [op : {"once"}, pat : Patterns]
  \cup [op : {"all"}, fn : Globals]
tick == [op |-> "tick"]
rollback == [op |-> "rollback"]
gone == << >>  \* the local of a thread that has none

ASSUME StreamAssumption ==
  /\ clock \notin Clients
  /\ Requests \in [Clients -> SUBSET Call]
  /\ EvalFails \subseteq TickFails /\ TickFails \subseteq Patterns /\ GlobalFails \subseteq Globals

VARIABLES
  playMV, stateMV,  \* [full, val]: val outlives a take, as what the MVar held last
  globalMV,
  pc,               \* where each thread is
  call,             \* the call each thread is in
  pMap, sMap        \* the values each thread took or read

mvars == <<playMV, stateMV, globalMV>>
svars == <<mvars, pc, call, pMap, sMap>>

isMVar(mv) == mv \in [full : BOOLEAN, val : {mv.val}]
Full(v) == [full |-> TRUE, val |-> v]
Taken(mv) == [mv EXCEPT !.full = FALSE]

\* eval: updatePattern before its take; state, play: before a take; read, snap: before a readMVar
\* query: doTick after its reads; done: before doTick's or streamSet's putMVar; put: before putMVar of the play map
PC == {"idle", "eval", "play", "put", "snap", "swap", "all", "state", "read", "query", "done"}

\* the play map a completed call puts back, from the one it took
result(t) ==
  LET c == call[t]
      m == pMap[t]
  IN  CASE c.op = "replace"  -> updatePattern(m, CHOOSE k \in Ids : c.ids = {k}, c.pat)
        [] c.op = "mute"     -> muted(m, c.ids, TRUE)
        [] c.op = "unmute"   -> muted(m, c.ids, FALSE)
        [] c.op = "solo"     -> soloed(m, c.ids, TRUE)
        [] c.op = "unsolo"   -> soloed(m, c.ids, FALSE)
        [] c.op = "silence"  -> silenced(m, c.ids)
        [] c.op = "rollback" -> setPreviousPatternOrSilence(m)

\* the map onSingleTick makes up for its pattern; its id is never looked at
fake(pat) == [k \in {"fake"} |->
               [psPattern |-> untagged(pat), psMute |-> FALSE, psSolo |-> FALSE, psHistory |-> << >>]]
-----------------------------------------------------------------------------
Init ==
  /\ playMV = Full(emptyMap)
  /\ stateMV \in {Full(m) : m \in [ctrl : Values, count : {0}]}
  /\ globalMV \in Globals \ GlobalFails
  /\ pc = [t \in Threads |-> "idle"]
  /\ call = [t \in Threads |-> tick]
  /\ pMap = [t \in Threads |-> gone]
  /\ sMap = [t \in Threads |-> gone]

Goto(t, here, there) == pc[t] = here /\ pc' = [pc EXCEPT ![t] = there]

pushes == {"replace", "transition", "silence"}
first(op) == CASE op = "replace" -> "eval"
               [] op \in {"transition", "overlay"} -> "snap"
               [] op = "all" -> "all"
               [] op \in {"set", "once", "tick"} -> "state"
               [] OTHER -> "play"

Begin(t) ==
  \E c \in IF t = clock THEN {tick} ELSE Requests[t] :
    /\ c.op \in pushes => \A i \in c.ids \cap DOMAIN playMV.val :
                            Len(playMV.val[i].psHistory) < MaxHistory
    /\ Goto(t, "idle", first(c.op))
    /\ call' = [call EXCEPT ![t] = c]
    /\ UNCHANGED <<mvars, pMap, sMap>>

\* mutant of Eval: the pattern is not evaluated before it is installed
EvalLazy(t) ==
  /\ Goto(t, "eval", "play")
  /\ UNCHANGED <<mvars, call, pMap, sMap>>

\* mutant of Eval: the handler tries the same replacement again
EvalRetry(t) ==
  /\ Goto(t, "eval", IF call[t].pat \in EvalFails THEN "eval" ELSE "play")
  /\ UNCHANGED <<mvars, call, pMap, sMap>>

\* updatePattern's seq of queryArc pat (Arc 0 0), outside the take; streamReplace's handler
Eval(t) ==
  /\ Goto(t, "eval", "play")
  /\ call' = IF call[t].pat \in EvalFails THEN [call EXCEPT ![t] = rollback] ELSE call
  /\ UNCHANGED <<mvars, pMap, sMap>>

\* mutant of TakePlay: readMVar instead of takeMVar
TakePlayRead(t) ==
  /\ Goto(t, "play", "put")
  /\ playMV.full
  /\ pMap' = [pMap EXCEPT ![t] = playMV.val]
  /\ UNCHANGED <<mvars, call, sMap>>

\* mutant of TakePlay: tryTakeMVar, and the call starts over if the MVar is empty
TakePlayTry(t) ==
  /\ Goto(t, "play", IF playMV.full THEN "put" ELSE first(call[t].op))
  /\ playMV' = Taken(playMV)
  /\ pMap' = [pMap EXCEPT ![t] = IF playMV.full THEN playMV.val ELSE gone]
  /\ UNCHANGED <<stateMV, globalMV, call, sMap>>

TakePlay(t) ==
  /\ Goto(t, "play", "put")
  /\ playMV.full
  /\ playMV' = Taken(playMV)
  /\ pMap' = [pMap EXCEPT ![t] = playMV.val]
  /\ UNCHANGED <<stateMV, globalMV, call, sMap>>

PutPlay(t) ==
  /\ Goto(t, "put", "idle")
  /\ ~playMV.full
  /\ playMV' = Full(result(t))
  /\ pMap' = [pMap EXCEPT ![t] = gone]
  /\ UNCHANGED <<stateMV, globalMV, call, sMap>>

\* transition reads the play map and, once its mapper ran, swaps the updated snapshot in
ReadPlay(t) ==
  /\ Goto(t, "snap", "swap")
  /\ playMV.full
  /\ pMap' = [pMap EXCEPT ![t] = playMV.val]
  /\ UNCHANGED <<mvars, call, sMap>>

\* mutant of SwapPlay: the history is restarted with the new pattern
SwapPlayRestart(t) ==
  /\ Goto(t, "swap", "idle")
  /\ playMV.full
  /\ \E k \in Ids :
       /\ call[t].ids = {k}
       /\ playMV' \in {Full([m EXCEPT ![k].psHistory = <<untagged(call[t].pat)>>]) :
            m \in transitioned(pMap[t], k, call[t].op = "transition", untagged(call[t].pat))}
  /\ pMap' = [pMap EXCEPT ![t] = gone]
  /\ UNCHANGED <<stateMV, globalMV, call, sMap>>

SwapPlay(t) ==
  /\ Goto(t, "swap", "idle")
  /\ playMV.full
  /\ \E k \in Ids :
       /\ call[t].ids = {k}
       /\ playMV' \in {Full(m) : m \in transitioned(pMap[t], k, call[t].op = "transition", untagged(call[t].pat))}
  /\ pMap' = [pMap EXCEPT ![t] = gone]
  /\ UNCHANGED <<stateMV, globalMV, call, sMap>>

SwapGlobal(t) ==
  /\ Goto(t, "all", "idle")
  /\ globalMV' = call[t].fn
  /\ UNCHANGED <<playMV, stateMV, call, pMap, sMap>>

\* mutant of TakeState: doTick reads the ValueMap and leaves it in the MVar
TakeStateRead(t) ==
  /\ Goto(t, "state", IF call[t].op = "set" THEN "done" ELSE "read")
  /\ stateMV.full
  /\ stateMV' = IF call[t].op = "set" THEN Taken(stateMV) ELSE stateMV
  /\ sMap' = [sMap EXCEPT ![t] = stateMV.val]
  /\ UNCHANGED <<playMV, globalMV, call, pMap>>

\* mutant of TakeState: streamSet goes through doTick's reads
TakeStateTick(t) ==
  /\ Goto(t, "state", "read")
  /\ stateMV.full
  /\ stateMV' = Taken(stateMV)
  /\ sMap' = [sMap EXCEPT ![t] = stateMV.val]
  /\ UNCHANGED <<playMV, globalMV, call, pMap>>

\* mutant of TakeState: tryTakeMVar, a call that finds the MVar empty gives up
TakeStateTry(t) ==
  /\ Goto(t, "state", IF ~stateMV.full THEN "idle" ELSE IF call[t].op = "set" THEN "done" ELSE "read")
  /\ stateMV' = Taken(stateMV)
  /\ sMap' = [sMap EXCEPT ![t] = IF stateMV.full THEN stateMV.val ELSE gone]
  /\ UNCHANGED <<playMV, globalMV, call, pMap>>

TakeState(t) ==
  /\ Goto(t, "state", IF call[t].op = "set" THEN "done" ELSE "read")
  /\ stateMV.full
  /\ stateMV' = Taken(stateMV)
  /\ sMap' = [sMap EXCEPT ![t] = stateMV.val]
  /\ UNCHANGED <<playMV, globalMV, call, pMap>>

\* doTick's readMVar playMV: the shared map for the clock, the fake one for streamOnce
TickRead(t) ==
  /\ Goto(t, "read", "query")
  /\ \/ call[t].op = "tick" /\ playMV.full /\ pMap' = [pMap EXCEPT ![t] = playMV.val]
     \/ call[t].op = "once" /\ pMap' = [pMap EXCEPT ![t] = fake(call[t].pat)]
  /\ UNCHANGED <<mvars, call, sMap>>

playing(t) == patterns(UNION {pMap[t][i].psPattern : i \in playStack(pMap[t])})

\* readMVar globalFMV, the query, and the sending whose own exceptions are caught
TickQuery(t) ==
  /\ Goto(t, "query", "done")
  /\ globalMV \notin GlobalFails
  /\ pMap' = [pMap EXCEPT ![t] = gone]
  /\ UNCHANGED <<mvars, call, sMap>>

\* an exception outside sending: the handler rolls the tick's play map back.  The fake
\* map of streamOnce is dropped with the call.  stateMV is not put back.
TickThrow(t) ==
  /\ globalMV \in GlobalFails \/ playing(t) \cap TickFails # {}
  /\ Goto(t, "query", IF call[t].op = "tick" THEN "play" ELSE "idle")
  /\ call' = [call EXCEPT ![t] = IF @.op = "tick" THEN rollback ELSE @]
  /\ pMap' = [pMap EXCEPT ![t] = gone]
  /\ sMap' = [sMap EXCEPT ![t] = gone]
  /\ UNCHANGED mvars

\* what streamSet, or a tick through resolveState, makes of the ValueMap it took
written(t) == IF call[t].op = "set" THEN {ctrlSet(sMap[t], call[t].val)} ELSE ticked(sMap[t])

\* mutant of PutState: streamSet starts a new map instead of inserting into the old one
PutStateSingleton(t) ==
  /\ Goto(t, "done", "idle")
  /\ ~stateMV.full
  /\ stateMV' \in {Full(m) : m \in IF call[t].op = "set" THEN {[ctrl |-> call[t].val, count |-> 0]}
                                   ELSE ticked(sMap[t])}
  /\ sMap' = [sMap EXCEPT ![t] = gone]
  /\ UNCHANGED <<playMV, globalMV, call, pMap>>

PutState(t) ==
  /\ Goto(t, "done", "idle")
  /\ ~stateMV.full
  /\ stateMV' \in {Full(m) : m \in written(t)}
  /\ sMap' = [sMap EXCEPT ![t] = gone]
  /\ UNCHANGED <<playMV, globalMV, call, pMap>>

Update(t) == Eval(t) \/ TakePlay(t) \/ PutPlay(t)
Transit(t) == ReadPlay(t) \/ SwapPlay(t) \/ SwapGlobal(t)
doTick(t) == TakeState(t) \/ TickRead(t) \/ TickQuery(t) \/ TickThrow(t) \/ PutState(t)

Step(t) == Update(t) \/ Transit(t) \/ doTick(t)
StreamNext == \E t \in Threads : Begin(t) \/ Step(t)
StreamSpec == Init /\ [][StreamNext]_svars

\* The clock thread never stops calling doTick.  A thread that can take its next step again
\* and again takes it: GHC's scheduler is fair and wakes the threads waiting on an MVar in order.
Fairness == WF_svars(Begin(clock)) /\ \A t \in Threads : SF_svars(Step(t))
LiveSpec == StreamSpec /\ Fairness
-----------------------------------------------------------------------------
updating == {"replace", "mute", "unmute", "solo", "unsolo", "silence", "rollback"}

\* the calls a thread at each place may be in, and the locals it has there
calling(t) ==
  LET op == call[t].op IN
  /\ pc[t] = "eval" => op = "replace"
  /\ pc[t] \in {"play", "put"} => op \in updating
  /\ pc[t] \in {"snap", "swap"} => op \in {"transition", "overlay"}
  /\ pc[t] = "all" => op = "all"
  /\ pc[t] \in {"state", "done"} => op \in {"set", "once", "tick"}
  /\ pc[t] \in {"read", "query"} => op \in {"once", "tick"}
  /\ pc[t] \in {"put", "swap"} => isPlayMap(pMap[t])
  /\ pc[t] \in {"read", "query", "done"} => sMap[t] \in ValueMaps

TypeOK ==
  /\ isMVar(playMV) /\ isPlayMap(playMV.val)
  /\ isMVar(stateMV) /\ stateMV.val \in ValueMaps
  /\ globalMV \in Globals
  /\ pc \in [Threads -> PC]
  /\ DOMAIN call = Threads /\ DOMAIN pMap = Threads /\ DOMAIN sMap = Threads
  /\ \A t \in Threads : call[t] \in Call \cup {tick, rollback} /\ calling(t)

playHolders == {t \in Threads : pc[t] = "put"}
stateHolders == {t \in Threads : pc[t] \in {"read", "query", "done"}}

\* The play map's MVar is empty exactly while one thread is between its take and its put, and
\* that thread works on the map the MVar held last: whatever a pattern throws, sPMapMV is
\* never left empty and never put back twice.
PlayOwned ==
  IF playMV.full THEN playHolders = {}
  ELSE \E t \in Threads : playHolders = {t} /\ pMap[t] = playMV.val

\* At most one doTick, streamSet or /ctrl works on the ValueMap, on the map the MVar held last.
StateOwned ==
  \A t \in stateHolders : ~stateMV.full /\ stateHolders = {t} /\ sMap[t] = stateMV.val

\* the entry of an id after a replacement and a rollback
undone(m, k, p) == setPreviousPatternOrSilence(updatePattern(m, k, p))[k]

\* The head of the history is what plays but for its tags, so that the rollback of a pattern that
\* failed is an undo: evaluating a pattern on an id and rolling back gives the id the flags and the
\* history it had, and it plays the same patterns again (their tags do not come back: updatePattern
\* pushes the pattern without them on the history of an id that exists).
UndoRestores ==
  \A k \in DOMAIN playMV.val, p \in Patterns :
    LET ps == playMV.val[k]
        un == undone(playMV.val, k, p)
    IN  /\ un = [ps EXCEPT !.psPattern = un.psPattern]
        /\ patterns(un.psPattern) = patterns(ps.psPattern)

\* A performance whose patterns keep throwing ends in silence: as many rollbacks as the longest
\* history has entries leave every id silent, with nothing to go back to but silence.
RollbacksEndInSilence ==
  \A k \in DOMAIN playMV.val :
    LET longest == Len(playMV.val[k].psHistory)
        after[n \in 0 .. longest] ==
          IF n = 0 THEN playMV.val ELSE setPreviousPatternOrSilence(after[n - 1])
    IN  (\A i \in DOMAIN playMV.val : Len(playMV.val[i].psHistory) <= longest) =>
          \A i \in DOMAIN playMV.val :
            after[longest][i].psPattern = silence /\ after[longest][i].psHistory = <<silence>>

\* a transition puts the play map it read back over what another thread did since then
staleSwap == \E t \in Threads : SwapPlay(t) /\ pMap[t] # playMV.val

\* Only a call that sets flags changes a flag, but for a transition that read an older map: an id
\* that was ever played keeps its entry, and a mute or a solo stays with it through replacements,
\* silences, fresh transitions and the rollbacks of others.
FlagsStay ==
  [][~staleSwap => \A i \in DOMAIN playMV.val :
       /\ i \in DOMAIN playMV'.val
       /\ playMV'.val[i].psPattern # playMV.val[i].psPattern
            \/ playMV'.val[i].psHistory # playMV.val[i].psHistory =>
          playMV'.val[i].psMute = playMV.val[i].psMute /\ playMV'.val[i].psSolo = playMV.val[i].psSolo]_playMV

\* Every operation of every thread takes effect atomically on both maps: no update is lost.
Abstract == INSTANCE PlayMap WITH play <- playMV.val, state <- stateMV.val
OperationsAtomic == Abstract!Spec

\* A transition may undo what happened since it read the play map, and nothing else does: each
\* change of the maps is an atomic operation on them or the swap of an outdated snapshot.
OnlyTransitionsLose == [][Abstract!Next \/ staleSwap]_<<playMV.val, stateMV.val>>

\* The clock keeps playing: doTick completes again and again.
TicksGoOn == []<>(pc[clock] = "done")

\* Every call of a client returns.
CallsReturn == \A t \in Clients : (pc[t] # "idle") ~> (pc[t] = "idle")

\* Calls on the play map return and rollbacks are carried out even if patterns throw.
PlayCallsReturn ==
  \A t \in Threads : (pc[t] \in {"eval", "play", "put", "snap", "swap"}) ~> (pc[t] = "idle")

\* doTick's comment: it "resets the current pattern to the previous one (or to silence if
\* there isn't one) and continues".  After a throw, the clock thread enters another tick.
ContinuesAfterThrow == (call[clock] = rollback) ~> (pc[clock] = "read")

throwing(i) == patterns(playMV.val[i].psPattern) \cap EvalFails

\* the patterns clients ask transitions to
transitional ==
  {c.pat : c \in {d \in UNION {Requests[t] : t \in Clients} : d.op \in {"transition", "overlay"}}}

\* No replacement installs a pattern that throws when it is evaluated (the seq of updatePattern,
\* before its take), and no rollback brings one back: one that plays came by a transition.
ReplacementsEvaluated == \A i \in DOMAIN playMV.val : throwing(i) \subseteq transitional

\* transition's comment: "Evaluation of pat is forced so exceptions are picked up here,
\* before replacing the existing pattern".  No pattern that throws when evaluated gets to play.
OnlyEvaluatedPlay == \A i \in DOMAIN playMV.val : throwing(i) = {}
=============================================================================
