-------------------------- MODULE OVNRefreshProofs --------------------------
(* The passes of the refresh loop and of the main goroutine never overlap,    *)
(* and what a pass publishes holds what it promised: OVNRefresh implements    *)
(* SnapshotService for any sets of changes and any faults.                    *)
EXTENDS OVNRefresh, TLAPS

(* Who may be reading: the loop between its select cases, the main goroutine  *)
(* before the loop starts and after it has stopped.                           *)
Exclusive ==
  /\ pass["loop"].at # "off" <=> loop \in {"debounced", "immediate"}
  /\ pass["main"].at # "off" <=> main \in {"initial", "postDrain"}
  /\ loop = "unstarted" <=> main \in {"connect", "initial", "discard"}
  /\ main \in {"postDrain", "cleanup", "done"} => loop = "stopped"

(* What a pass has read so far. *)
Progress(p) ==
  /\ pass[p].at = "off" => pass[p] = NoPass
  /\ pass[p].at # "off" => pass[p].seq = refreshSeq /\ state \subseteq pass[p].base
  /\ pass[p].base \subseteq server /\ pass[p].read \subseteq server
  /\ pass[p].at = "rows" /\ pass[p].checked => pass[p].base \cap Rebinding \subseteq pass[p].read
  /\ pass[p].at = "publish" /\ pass[p].checked => pass[p].base \subseteq pass[p].read

IInv == TypeOK /\ Exclusive /\ (\A p \in Refresher : Progress(p))

-----------------------------------------------------------------------------
LEMMA InitIInv == Init => IInv
<1> SUFFICES ASSUME Init PROVE IInv
  OBVIOUS
<1>1. NoPass \in Pass
  BY DEF NoPass, Pass, Steps
<1>2. TypeOK
  <2>1. /\ handler \in [at : {"idle", "stamp", "signal"}, gen : 0..refreshSeq, of : SUBSET Rebinding]
        /\ failoverObserved \in [gen : 0..refreshSeq, of : SUBSET Rebinding]
    BY DEF Init, NoHandler, Nothing
  <2>2. pass \in [Refresher -> Pass]
    BY <1>1 DEF Init
  <2>3. loop \in LoopSteps /\ main \in MainSteps /\ gen \in 0..refreshSeq
    BY DEF Init, LoopSteps, MainSteps
  <2>4. /\ server \in SUBSET Change /\ lost \in SUBSET server /\ cache \in SUBSET server
        /\ events \in SUBSET cache /\ state \in SUBSET server /\ snap \in SUBSET server
        /\ applied \in SUBSET server /\ faults \in SUBSET FaultKinds /\ refreshSeq \in Nat
    BY DEF Init
  <2>. QED BY <2>1, <2>2, <2>3, <2>4 DEF Init, TypeOK
<1>3. Exclusive
  BY DEF Init, Exclusive, NoPass, Refresher
<1>4. \A p \in Refresher : Progress(p)
  BY DEF Init, Progress, NoPass
<1>. QED BY <1>2, <1>3, <1>4 DEF IInv

(* Steps that leave the passes alone. *)
Still == UNCHANGED <<refreshSeq, pass, state, gen>>

LEMMA StillProgress ==
  ASSUME IInv, Still, server \subseteq server'
  PROVE  \A p \in Refresher : Progress(p)'
  BY DEF IInv, Still, Progress

LEMMA DatabaseSteps ==
  ASSUME IInv, NEW k \in Change, Commit(k) \/ LoseUpdate(k) \/ MonitorUpdate(k)
  PROVE  IInv'
<1>1. Still /\ server \subseteq server' /\ UNCHANGED <<loop, main>>
  BY DEF Commit, LoseUpdate, MonitorUpdate, Still, passVars
<1>2. Exclusive'
  BY <1>1 DEF IInv, Exclusive, Still
<1>3. TypeOK'
  <2>1. CASE Commit(k)
    BY <2>1 DEF Commit, IInv, TypeOK, obsVars, passVars, chVars, workVars
  <2>2. CASE LoseUpdate(k)
    BY <2>2 DEF LoseUpdate, Fault, FaultKinds, IInv, TypeOK, obsVars, passVars, chVars, workVars
  <2>3. CASE MonitorUpdate(k)
    BY <2>3 DEF MonitorUpdate, IInv, TypeOK, obsVars, passVars, chVars, workVars
  <2>. QED BY <2>1, <2>2, <2>3
<1>. QED BY <1>1, <1>2, <1>3, StillProgress DEF IInv

LEMMA HandlerSteps ==
  ASSUME IInv, NEW k,
         (k \in Change /\ (SBEvent(k) \/ NBEvent(k))) \/ StampObservation \/ immediateStateRefresh
  PROVE  IInv'
<1>1. Still /\ UNCHANGED <<server, loop, main>>
  BY DEF SBEvent, NBEvent, StampObservation, immediateStateRefresh, Still, passVars, dbVars
<1>2. Exclusive'
  BY <1>1 DEF IInv, Exclusive, Still
<1>3. TypeOK'
  <2>1. CASE SBEvent(k)
    BY <2>1 DEF SBEvent, IInv, TypeOK, passVars, chVars, workVars
  <2>2. CASE NBEvent(k)
    BY <2>2 DEF NBEvent, Queued, IInv, TypeOK, obsVars, passVars, workVars
  <2>3. CASE StampObservation
    BY <2>3 DEF StampObservation, IInv, TypeOK, dbVars, passVars, chVars, workVars
  <2>4. CASE immediateStateRefresh
    BY <2>4 DEF immediateStateRefresh, NoHandler, IInv, TypeOK, dbVars, passVars, workVars
  <2>. QED BY <2>1, <2>2, <2>3, <2>4
<1>. QED BY <1>1, <1>2, <1>3, StillProgress DEF IInv

-----------------------------------------------------------------------------
(* The passes. *)

LEMMA BeginPassStep ==
  ASSUME IInv, NEW p \in Refresher, BeginPass(p), UNCHANGED <<server, state>>,
         pass[p].at = "off"
  PROVE  /\ pass' \in [Refresher -> Pass] /\ refreshSeq' \in Nat
         /\ refreshSeq' = refreshSeq + 1
         /\ pass'[p].at = "bindings"
         /\ \A q \in Refresher \ {p} : pass'[q] = pass[q]
         /\ (\A q \in Refresher \ {p} : pass[q].at = "off") => \A q \in Refresher : Progress(q)'
<1>1. pass' \in [Refresher -> Pass] /\ refreshSeq' \in Nat
  BY DEF IInv, TypeOK, BeginPass, Pass, Steps
<1>2. pass'[p] = [at |-> "bindings", seq |-> refreshSeq + 1, read |-> {},
                  base |-> server, checked |-> TRUE]
  BY DEF IInv, TypeOK, BeginPass
<1>3. \A q \in Refresher \ {p} : pass'[q] = pass[q]
  BY DEF IInv, TypeOK, BeginPass
<1>4. ASSUME \A q \in Refresher \ {p} : pass[q].at = "off"
      PROVE  \A q \in Refresher : Progress(q)'
  <2>1. Progress(p)'
    BY <1>2 DEF IInv, TypeOK, BeginPass, Progress
  <2>2. ASSUME NEW q \in Refresher \ {p}
        PROVE  Progress(q)'
    BY <1>3, <1>4, <2>2 DEF IInv, Progress, NoPass
  <2>. QED BY <2>1, <2>2
<1>. QED BY <1>1, <1>2, <1>3, <1>4 DEF BeginPass

LEMMA CachedRows ==
  ASSUME IInv, NEW T, NEW rows \in SUBSET T, NEW answered \in BOOLEAN,
         cachedList(T, rows, answered)
  PROVE  /\ rows \subseteq server
         /\ answered => rows = server \cap T
         /\ faults' \in SUBSET FaultKinds
  BY DEF IInv, TypeOK, cachedList, Fault, NoFault, FaultKinds

LEMMA ReadStep ==
  ASSUME IInv, NEW p \in Refresher, ReadBindings(p) \/ ReadRows(p)
  PROVE  IInv'
<1>1. PICK at \in {"bindings", "rows"}, next \in {"rows", "publish"}, T \in {Rebinding, RowChange} :
        /\ Read(p, at, T, next)
        /\ \/ at = "bindings" /\ T = Rebinding /\ next = "rows"
           \/ at = "rows" /\ T = RowChange /\ next = "publish"
  BY DEF ReadBindings, ReadRows
<1>2. PICK rows \in SUBSET T, answered \in BOOLEAN :
        /\ cachedList(T, rows, answered)
        /\ pass' = [pass EXCEPT ![p].at = next, ![p].read = @ \cup rows,
                                 ![p].checked = @ /\ answered]
  BY <1>1 DEF Read
<1>3. /\ rows \subseteq server
      /\ answered => rows = server \cap T
      /\ faults' \in SUBSET FaultKinds
  BY <1>2, CachedRows
<1>4. /\ pass'[p].at = next /\ pass'[p].seq = pass[p].seq
      /\ pass'[p].read = pass[p].read \cup rows /\ pass'[p].base = pass[p].base
      /\ pass'[p].checked = (pass[p].checked /\ answered)
      /\ \A q \in Refresher \ {p} : pass'[q] = pass[q]
      /\ pass[p].at = at /\ pass[p].at # "off" /\ next # "off"
  BY <1>1, <1>2 DEF Read, IInv, TypeOK, Pass
<1>5. pass' \in [Refresher -> Pass]
  <2>1. next \in Steps /\ pass[p].read \cup rows \in SUBSET Change
        /\ (pass[p].checked /\ answered) \in BOOLEAN
    BY <1>3 DEF IInv, TypeOK, Pass, Steps, Progress
  <2>2. pass[p] \in Pass
    BY DEF IInv, TypeOK
  <2>3. [pass[p] EXCEPT !.at = next] \in Pass
    BY <2>1, <2>2 DEF Pass
  <2>4. [pass[p] EXCEPT !.at = next, !.read = @ \cup rows] \in Pass
    BY <2>1, <2>2, <2>3 DEF Pass
  <2>5. [pass[p] EXCEPT !.at = next, !.read = @ \cup rows, !.checked = @ /\ answered] \in Pass
    BY <2>1, <2>2, <2>4 DEF Pass
  <2>. QED BY <1>2, <2>5 DEF IInv, TypeOK
<1>6. UNCHANGED <<server, lost, cache, events, ready, handler, failoverObserved,
                  refreshSeq, state, gen, debounceCh, immediateCh, reconcileCh,
                  debounceTimer, reconcileTimer, loop, main, cancelled, snap, applied>>
  BY <1>1 DEF Read, dbVars, obsVars, chVars, workVars
<1>7. TypeOK'
  BY <1>3, <1>5, <1>6 DEF IInv, TypeOK
<1>8. Exclusive'
  BY <1>4, <1>6 DEF IInv, Exclusive, Refresher
<1>9. Progress(p)'
  BY <1>1, <1>3, <1>4, <1>6 DEF IInv, Progress, TypeOK, Change
<1>10. \A q \in Refresher \ {p} : Progress(q)'
  BY <1>4, <1>6 DEF IInv, Progress
<1>. QED BY <1>7, <1>8, <1>9, <1>10 DEF IInv

LEMMA EndPassStep ==
  ASSUME IInv, NEW p \in Refresher, Publish(p) \/ ListFails(p)
  PROVE  IInv'
<1>1. /\ pass[p].at # "off"
      /\ pass' = [pass EXCEPT ![p] = NoPass]
      /\ ReturnTo(p)
  BY DEF Publish, ListFails
<1>2. UNCHANGED <<server, lost, cache, events, ready, handler, failoverObserved, refreshSeq,
                  debounceCh, immediateCh, debounceTimer, cancelled, snap, applied>>
  BY <1>1 DEF ReturnTo, dbVars, obsVars, workVars
<1>3. /\ pass' \in [Refresher -> Pass]
      /\ pass'[p] = NoPass
      /\ \A q \in Refresher \ {p} : pass'[q] = pass[q]
  BY <1>1 DEF IInv, TypeOK, NoPass, Pass, Steps
<1>4. /\ p = "loop" => loop' = "select" /\ main' = main /\ loop \in {"debounced", "immediate"}
      /\ p = "main" => /\ main \in {"initial", "postDrain"}
                       /\ main' = IF main = "initial" THEN "discard" ELSE "cleanup"
                       /\ loop' = loop
  BY <1>1 DEF ReturnTo, IInv, Exclusive
<1>5. \A q \in Refresher \ {p} : pass[q].at = "off"
  BY <1>4 DEF IInv, Exclusive, Refresher
<1>6. state' \subseteq server /\ gen' \in 0..refreshSeq
  <2>1. CASE Publish(p)
    BY <1>1, <2>1 DEF Publish, publishedGen, IInv, TypeOK, Progress
  <2>2. CASE ListFails(p)
    BY <2>2 DEF ListFails, IInv, TypeOK
  <2>. QED BY <2>1, <2>2
<1>7. faults' \in SUBSET FaultKinds
  BY DEF Publish, ListFails, NoFault, Fault, FaultKinds, IInv, TypeOK
<1>8. /\ loop' \in LoopSteps /\ main' \in MainSteps
      /\ reconcileCh' \in BOOLEAN /\ reconcileTimer' \in BOOLEAN
  BY <1>1, <1>4 DEF ReturnTo, IInv, TypeOK, LoopSteps, MainSteps, Refresher
<1>9. TypeOK'
  BY <1>2, <1>3, <1>6, <1>7, <1>8 DEF IInv, TypeOK
<1>10. Exclusive'
  BY <1>3, <1>4, <1>5 DEF IInv, Exclusive, Refresher, NoPass
<1>11. \A q \in Refresher : Progress(q)'
  <2>1. \A q \in Refresher : pass'[q] = NoPass
    BY <1>3, <1>5 DEF IInv, Progress
  <2>. QED BY <2>1 DEF Progress, NoPass
<1>. QED BY <1>9, <1>10, <1>11 DEF IInv

-----------------------------------------------------------------------------
(* The refresh loop. *)

LEMMA LoopBegins ==
  ASSUME IInv, DebounceFire \/ TakeImmediate
  PROVE  IInv'
<1>1. /\ loop = "select" /\ loop' \in {"debounced", "immediate"} /\ main' = main
      /\ BeginPass("loop")
  BY DEF DebounceFire, TakeImmediate
<1>2. \A q \in Refresher : pass[q].at = "off"
  BY <1>1 DEF IInv, Exclusive, Refresher
<1>3. UNCHANGED <<server, lost, cache, events, ready, handler, failoverObserved,
                  debounceCh, reconcileCh, reconcileTimer, cancelled, snap, applied, faults>>
  BY DEF DebounceFire, TakeImmediate, dbVars, obsVars, workVars
<1>4. UNCHANGED <<state, gen>> /\ "loop" \in Refresher
  BY <1>1 DEF BeginPass, Refresher
<1>5. /\ pass' \in [Refresher -> Pass] /\ refreshSeq' \in Nat /\ refreshSeq' = refreshSeq + 1
      /\ pass'["loop"].at = "bindings" /\ pass'["main"] = pass["main"]
      /\ \A q \in Refresher : Progress(q)'
  BY <1>1, <1>2, <1>3, <1>4, BeginPassStep DEF Refresher
<1>6. /\ debounceTimer' \in BOOLEAN /\ immediateCh' \in BOOLEAN
      /\ loop' \in LoopSteps /\ main' \in MainSteps
  BY <1>1 DEF DebounceFire, TakeImmediate, IInv, TypeOK, LoopSteps
<1>7. 0..refreshSeq \subseteq 0..refreshSeq'
  BY <1>5 DEF IInv, TypeOK
<1>8. /\ handler' \in [at : {"idle", "stamp", "signal"}, gen : 0..refreshSeq', of : SUBSET Rebinding]
      /\ failoverObserved' \in [gen : 0..refreshSeq', of : SUBSET Rebinding]
      /\ gen' \in 0..refreshSeq'
  BY <1>3, <1>4, <1>7 DEF IInv, TypeOK
<1>9. TypeOK'
  BY <1>3, <1>4, <1>5, <1>6, <1>8 DEF IInv, TypeOK
<1>10. Exclusive'
  BY <1>1, <1>5 DEF IInv, Exclusive
<1>. QED BY <1>5, <1>9, <1>10 DEF IInv

LEMMA LoopSelects ==
  ASSUME IInv, TakeDebounce \/ ReconcileFire \/ LoopExit
  PROVE  IInv'
<1>1. /\ Still /\ UNCHANGED <<server, main>>
      /\ loop = "select" /\ loop' \in {"select", "stopped"}
  BY DEF TakeDebounce, ReconcileFire, LoopExit, Still, passVars, dbVars
<1>2. Exclusive'
  BY <1>1 DEF IInv, Exclusive, Still
<1>3. TypeOK'
  <2>1. CASE TakeDebounce
    BY <2>1 DEF TakeDebounce, IInv, TypeOK, dbVars, obsVars, passVars, workVars
  <2>2. CASE ReconcileFire
    BY <2>2 DEF ReconcileFire, IInv, TypeOK, dbVars, obsVars, passVars, workVars
  <2>3. CASE LoopExit
    BY <2>3 DEF LoopExit, IInv, TypeOK, LoopSteps, dbVars, obsVars, passVars, workVars
  <2>. QED BY <2>1, <2>2, <2>3
<1>. QED BY <1>1, <1>2, <1>3, StillProgress DEF IInv

-----------------------------------------------------------------------------
(* The main goroutine. *)

LEMMA MainBegins ==
  ASSUME IInv, Connect \/ (Shutdown /\ main' = "postDrain")
  PROVE  IInv'
<1>1. /\ \/ main = "connect" /\ main' = "initial" /\ ready' = TRUE
         \/ main = "run" /\ main' = "postDrain" /\ ready' = ready /\ loop = "stopped"
      /\ loop' = loop
      /\ BeginPass("main")
  BY DEF Connect, Shutdown, waitRefreshLoopStopped
<1>2. \A q \in Refresher : pass[q].at = "off"
  BY <1>1 DEF IInv, Exclusive, Refresher
<1>3. UNCHANGED <<server, lost, cache, events, handler, failoverObserved, debounceCh,
                  immediateCh, reconcileCh, debounceTimer, reconcileTimer, cancelled,
                  snap, applied, faults>>
  BY DEF Connect, Shutdown, dbVars, obsVars, chVars, workVars
<1>4. UNCHANGED <<state, gen>> /\ "main" \in Refresher
  BY <1>1 DEF BeginPass, Refresher
<1>5. /\ pass' \in [Refresher -> Pass] /\ refreshSeq' \in Nat /\ refreshSeq' = refreshSeq + 1
      /\ pass'["main"].at = "bindings" /\ pass'["loop"] = pass["loop"]
      /\ \A q \in Refresher : Progress(q)'
  BY <1>1, <1>2, <1>3, <1>4, BeginPassStep DEF Refresher
<1>6. ready' \in BOOLEAN /\ main' \in MainSteps
  BY <1>1 DEF IInv, TypeOK, MainSteps
<1>7. 0..refreshSeq \subseteq 0..refreshSeq'
  BY <1>5 DEF IInv, TypeOK
<1>8. /\ handler' \in [at : {"idle", "stamp", "signal"}, gen : 0..refreshSeq', of : SUBSET Rebinding]
      /\ failoverObserved' \in [gen : 0..refreshSeq', of : SUBSET Rebinding]
      /\ gen' \in 0..refreshSeq'
  BY <1>3, <1>4, <1>7 DEF IInv, TypeOK
<1>9. TypeOK'
  BY <1>1, <1>3, <1>4, <1>5, <1>6, <1>8 DEF IInv, TypeOK
<1>10. Exclusive'
  BY <1>1, <1>5 DEF IInv, Exclusive
<1>. QED BY <1>5, <1>9, <1>10 DEF IInv

LEMMA MainGoesOn ==
  ASSUME IInv,
         \/ drainSignals \/ StartupReconcile \/ TakeReconcile \/ Tick \/ reconcile
         \/ DiscardReconcile \/ (Shutdown /\ main' = "cleanup") \/ Close \/ Sigterm
  PROVE  IInv'
<1>1. Still /\ UNCHANGED <<server, lost, cache, events, handler, faults>>
  BY DEF drainSignals, StartupReconcile, TakeReconcile, Tick, TakeSnapshot, reconcile,
         DiscardReconcile, Shutdown, BeginPass, Close, Sigterm, Still, dbVars, obsVars, passVars
<1>2. Exclusive'
  BY <1>1 DEF drainSignals, StartupReconcile, TakeReconcile, Tick, TakeSnapshot, reconcile,
         DiscardReconcile, Shutdown, waitRefreshLoopStopped, Close, Sigterm, IInv, Exclusive, Still
<1>3. TypeOK'
  <2>1. CASE drainSignals
    BY <2>1 DEF drainSignals, IInv, TypeOK, LoopSteps, MainSteps, dbVars, obsVars, passVars, workVars
  <2>2. CASE StartupReconcile \/ TakeReconcile \/ Tick
    <3>1. /\ main' \in MainSteps /\ reconcileCh' \in BOOLEAN
          /\ snap' \in SUBSET server
      BY <2>2 DEF StartupReconcile, TakeReconcile, Tick, TakeSnapshot, IInv, TypeOK, MainSteps
    <3>2. failoverObserved' \in [gen : 0..refreshSeq, of : SUBSET Rebinding]
      BY <2>2 DEF StartupReconcile, TakeReconcile, Tick, TakeSnapshot, Nothing, IInv, TypeOK
    <3>. QED BY <1>1, <2>2, <3>1, <3>2
         DEF StartupReconcile, TakeReconcile, Tick, TakeSnapshot, Still, IInv, TypeOK
  <2>3. CASE reconcile
    BY <2>3 DEF reconcile, IInv, TypeOK, MainSteps, dbVars, obsVars, passVars, chVars
  <2>4. CASE DiscardReconcile
    BY <2>4 DEF DiscardReconcile, IInv, TypeOK, MainSteps, dbVars, obsVars, passVars, workVars
  <2>5. CASE Shutdown /\ main' = "cleanup"
    BY <1>1, <2>5 DEF Shutdown, Still, IInv, TypeOK, MainSteps, dbVars, obsVars, chVars, workVars
  <2>6. CASE Close
    BY <2>6 DEF Close, IInv, TypeOK, MainSteps, dbVars, obsVars, passVars, chVars, workVars
  <2>7. CASE Sigterm
    BY <2>7 DEF Sigterm, IInv, TypeOK, dbVars, obsVars, passVars, chVars, workVars
  <2>. QED BY <2>1, <2>2, <2>3, <2>4, <2>5, <2>6, <2>7
<1>. QED BY <1>1, <1>2, <1>3, StillProgress DEF IInv

LEMMA IInvInductive == IInv /\ [Next]_vars => IInv'
<1> SUFFICES ASSUME IInv, [Next]_vars PROVE IInv'
  OBVIOUS
<1>1. ASSUME NEW k \in Change, Commit(k) \/ LoseUpdate(k) PROVE IInv'
  BY <1>1, DatabaseSteps
<1>2. CASE Monitor
  BY <1>2, DatabaseSteps DEF Monitor
<1>3. CASE Handlers
  <2>1. ASSUME NEW k \in Change, SBEvent(k) \/ NBEvent(k) PROVE IInv'
    BY <2>1, HandlerSteps
  <2>2. CASE StampObservation \/ immediateStateRefresh
    BY <2>2, HandlerSteps
  <2>. QED BY <1>3, <2>1, <2>2 DEF Handlers
<1>4. CASE refreshLoop
  BY <1>4, LoopSelects, LoopBegins, ReadStep, EndPassStep DEF refreshLoop, refreshState, Refresher
<1>5. CASE Run
  <2>1. CASE Shutdown
    BY <2>1, MainBegins, MainGoesOn DEF Shutdown
  <2>2. CASE refreshState("main")
    BY <2>2, ReadStep, EndPassStep DEF refreshState, Refresher
  <2>. QED BY <1>5, <2>1, <2>2, MainBegins, MainGoesOn DEF Run
<1>6. CASE Tick \/ Sigterm
  BY <1>6, MainGoesOn
<1>7. CASE UNCHANGED vars
  <2>1. /\ Still /\ UNCHANGED <<server, loop, main>>
    BY <1>7 DEF vars, Still
  <2>2. TypeOK'
    BY <1>7 DEF vars, IInv, TypeOK
  <2>3. Exclusive'
    BY <2>1 DEF IInv, Exclusive, Still
  <2>. QED BY <2>1, <2>2, <2>3, StillProgress DEF IInv
<1>. QED BY <1>1, <1>2, <1>3, <1>4, <1>5, <1>6, <1>7 DEF Next

(* Everything in OVNRefresh keeps its type, for any sets of changes and any   *)
(* faults; published and reconciled snapshots hold committed changes only.    *)
THEOREM TypeCorrect == Spec => []TypeOK
<1>1. IInv => TypeOK
  BY DEF IInv
<1>. QED BY <1>1, InitIInv, IInvInductive, PTL DEF Spec

-----------------------------------------------------------------------------
(* What a published state is. *)
LEMMA PublishedState ==
  ASSUME IInv, NEW p \in Refresher, Publish(p)
  PROVE  /\ state \subseteq pass[p].base
         /\ pass[p].checked => pass[p].base \subseteq state'
         /\ state' \subseteq server
         /\ gen' = refreshSeq /\ gen <= gen'
BY DEF Publish, publishedGen, IInv, TypeOK, Progress

(* Only Publish changes the published state. *)
LEMMA OnlyPublish ==
  ASSUME IInv, [Next]_vars, ~(\E p \in Refresher : Publish(p))
  PROVE  UNCHANGED <<state, gen>>
<1>1. CASE \E k \in Change : Commit(k) \/ LoseUpdate(k)
  BY <1>1 DEF Commit, LoseUpdate, passVars
<1>2. CASE Monitor \/ Handlers
  BY <1>2 DEF Monitor, MonitorUpdate, Handlers, SBEvent, NBEvent, StampObservation,
              immediateStateRefresh, passVars
<1>3. CASE \E p \in Refresher : ReadBindings(p) \/ ReadRows(p) \/ ListFails(p)
  BY <1>3 DEF ReadBindings, ReadRows, Read, ListFails
<1>4. CASE TakeDebounce \/ DebounceFire \/ ReconcileFire \/ TakeImmediate \/ LoopExit
  BY <1>4 DEF TakeDebounce, DebounceFire, ReconcileFire, TakeImmediate, LoopExit, BeginPass, passVars
<1>5. CASE \/ Connect \/ drainSignals \/ StartupReconcile \/ TakeReconcile \/ Tick \/ reconcile
           \/ DiscardReconcile \/ Shutdown \/ Close \/ Sigterm
  BY <1>5 DEF Connect, drainSignals, StartupReconcile, TakeReconcile, Tick, TakeSnapshot,
         reconcile, DiscardReconcile, Shutdown, Close, Sigterm, BeginPass, passVars
<1>6. CASE UNCHANGED vars
  BY <1>6 DEF vars
<1>. QED BY <1>1, <1>2, <1>3, <1>4, <1>5, <1>6
     DEF Next, refreshLoop, Run, refreshState, Refresher

(* However the two goroutines that run refreshState interleave with the       *)
(* databases, a published state loses nothing an earlier one reflected, as    *)
(* long as the server answered the pass.                                      *)
THEOREM SnapshotsOnlyAdvance == Spec => SnapshotsAdvance
<1> DEFINE Adv ==
      /\ gen <= gen'
      /\ (\A p \in Refresher : Publishes(p) => pass[p].checked) => state \subseteq state'
<1>1. IInv /\ [Next]_vars => [Adv]_vars
  <2> SUFFICES ASSUME IInv, [Next]_vars PROVE Adv
    OBVIOUS
  <2>1. CASE \E p \in Refresher : Publish(p)
    <3>1. PICK p \in Refresher : Publish(p)
      BY <2>1
    <3>2. Publishes(p)
      BY <3>1 DEF Publish, Publishes, IInv, TypeOK, NoPass
    <3>. QED BY <3>1, <3>2, PublishedState
  <2>2. CASE ~(\E p \in Refresher : Publish(p))
    BY <2>2, OnlyPublish DEF IInv, TypeOK
  <2>. QED BY <2>1, <2>2
<1>. QED BY <1>1, InitIInv, IInvInductive, PTL DEF Spec, SnapshotsAdvance

-----------------------------------------------------------------------------
(* What is known of a rebinding that was stamped with the number of a pass:   *)
(* the later passes that have read the bindings saw it.                       *)
SeenSince(o) ==
  /\ o.of \subseteq cache /\ o.of \subseteq Rebinding
  /\ gen > o.gen => o.of \subseteq state
  /\ \A p \in Refresher :
       pass[p].at \in {"rows", "publish"} /\ pass[p].seq > o.gen => o.of \subseteq pass[p].read

Observed == SeenSince(handler) /\ SeenSince(failoverObserved)

LEMMA NothingSeen ==
  /\ NoHandler.of = {} /\ Nothing.of = {}
  /\ SeenSince(NoHandler) /\ SeenSince(Nothing)
  /\ SeenSince(NoHandler)' /\ SeenSince(Nothing)'
BY DEF SeenSince, NoHandler, Nothing

(* Steps outside the passes. *)
LEMMA SameSeen ==
  ASSUME NEW o, SeenSince(o), cache \subseteq cache', Still
  PROVE  /\ o.of \subseteq cache' /\ o.of \subseteq Rebinding
         /\ gen' > o.gen => o.of \subseteq state'
         /\ \A p \in Refresher :
              pass'[p].at \in {"rows", "publish"} /\ pass'[p].seq > o.gen =>
                o.of \subseteq pass'[p].read
BY DEF SeenSince, Still

LEMMA StillObserved ==
  ASSUME Observed, cache \subseteq cache', Still, UNCHANGED obsVars
  PROVE  Observed'
<1>1. handler' = handler /\ failoverObserved' = failoverObserved
  BY DEF obsVars
<1>2. SeenSince(handler)'
  BY <1>1, SameSeen DEF Observed, SeenSince
<1>3. SeenSince(failoverObserved)'
  BY <1>1, SameSeen DEF Observed, SeenSince
<1>. QED BY <1>2, <1>3 DEF Observed

LEMMA HandlerObserved ==
  ASSUME IInv, Observed,
         (\E k \in Change : SBEvent(k) \/ NBEvent(k)) \/ StampObservation \/ immediateStateRefresh
  PROVE  Observed'
<1>1. Still /\ cache' = cache
  BY DEF SBEvent, NBEvent, StampObservation, immediateStateRefresh, Still, passVars, dbVars
<1>2. CASE \E k \in Change : NBEvent(k)
  BY <1>1, <1>2, StillObserved DEF NBEvent
<1>3. ASSUME NEW k \in Change, SBEvent(k) PROVE Observed'
  <2>1. failoverObserved' = failoverObserved /\ k \in cache /\ k \in Rebinding
    BY <1>3 DEF SBEvent, IInv, TypeOK
  <2>2. SeenSince(failoverObserved)'
    BY <1>1, <2>1, SameSeen DEF Observed, SeenSince
  <2>3. CASE handler' = handler
    BY <1>1, <2>1, <2>3, StillObserved DEF obsVars
  <2>4. CASE handler' = [at |-> "stamp", gen |-> refreshSeq, of |-> {k}]
    <3>1. ~(gen' > refreshSeq) /\ \A p \in Refresher : pass'[p].at # "off" => ~(pass'[p].seq > refreshSeq)
      BY <1>1 DEF Still, IInv, TypeOK, Progress
    <3>2. SeenSince(handler)'
      BY <1>1, <2>1, <2>4, <3>1 DEF SeenSince
    <3>. QED BY <2>2, <3>2 DEF Observed
  <2>. QED BY <1>3, <2>3, <2>4 DEF SBEvent
<1>4. CASE StampObservation
  <2>1. /\ handler'.gen = handler.gen /\ handler'.of = handler.of
        /\ \/ failoverObserved' = failoverObserved
           \/ failoverObserved'.gen = handler.gen /\ failoverObserved'.of = handler.of
    BY <1>4 DEF StampObservation, IInv, TypeOK
  <2>2. SeenSince(handler)'
    BY <1>1, <2>1, SameSeen DEF Observed, SeenSince
  <2>3. SeenSince(failoverObserved)'
    <3>1. CASE failoverObserved' = failoverObserved
      BY <1>1, <3>1, SameSeen DEF Observed, SeenSince
    <3>2. CASE failoverObserved'.gen = handler.gen /\ failoverObserved'.of = handler.of
      BY <1>1, <3>2, SameSeen DEF Observed, SeenSince
    <3>. QED BY <2>1, <3>1, <3>2
  <2>. QED BY <2>2, <2>3 DEF Observed
<1>5. CASE immediateStateRefresh
  <2>1. handler' = NoHandler /\ failoverObserved' = failoverObserved
    BY <1>5 DEF immediateStateRefresh
  <2>2. SeenSince(failoverObserved)'
    BY <1>1, <2>1, SameSeen DEF Observed, SeenSince
  <2>3. SeenSince(handler)'
    BY <2>1, NothingSeen DEF SeenSince
  <2>. QED BY <2>2, <2>3 DEF Observed
<1>. QED BY <1>2, <1>3, <1>4, <1>5

(* A pass that begins has read nothing yet; one that reads the bindings sees  *)
(* what the cache or the server has.                                          *)
LEMMA PassObserved ==
  ASSUME IInv, Observed, NEW p \in Refresher, UNCHANGED <<cache, obsVars>>,
         BeginPass(p) \/ ReadBindings(p) \/ ReadRows(p) \/ Publish(p) \/ ListFails(p)
  PROVE  Observed'
<1>1. handler' = handler /\ failoverObserved' = failoverObserved /\ cache' = cache
  BY DEF obsVars
<1>2. SUFFICES ASSUME NEW o, SeenSince(o), o.gen \in 0..refreshSeq
               PROVE  /\ gen' > o.gen => o.of \subseteq state'
                      /\ \A q \in Refresher :
                           pass'[q].at \in {"rows", "publish"} /\ pass'[q].seq > o.gen =>
                             o.of \subseteq pass'[q].read
  <2>1. SeenSince(handler) /\ handler.gen \in 0..refreshSeq
    BY DEF Observed, IInv, TypeOK
  <2>2. SeenSince(failoverObserved) /\ failoverObserved.gen \in 0..refreshSeq
    BY DEF Observed, IInv, TypeOK
  <2>3. SeenSince(handler)'
    BY <1>1, <1>2, <2>1 DEF SeenSince
  <2>4. SeenSince(failoverObserved)'
    BY <1>1, <1>2, <2>2 DEF SeenSince
  <2>. QED BY <2>3, <2>4 DEF Observed
<1>3. CASE BeginPass(p)
  <2>1. /\ pass'[p].at = "bindings" /\ UNCHANGED <<state, gen>>
        /\ \A q \in Refresher \ {p} : pass'[q] = pass[q]
    BY <1>3 DEF BeginPass, IInv, TypeOK
  <2>. QED BY <1>2, <2>1 DEF SeenSince
<1>4. CASE ReadBindings(p)
  <2>1. PICK rows \in SUBSET Rebinding, answered \in BOOLEAN :
          /\ cachedList(Rebinding, rows, answered)
          /\ pass' = [pass EXCEPT ![p].at = "rows", ![p].read = @ \cup rows,
                                   ![p].checked = @ /\ answered]
    BY <1>4 DEF ReadBindings, Read
  <2>2. o.of \subseteq rows
    BY <1>2, <2>1 DEF cachedList, SeenSince, IInv, TypeOK
  <2>3. UNCHANGED <<state, gen>>
    BY <1>4 DEF ReadBindings, Read
  <2>4. /\ pass'[p].read = pass[p].read \cup rows
        /\ \A q \in Refresher \ {p} : pass'[q] = pass[q]
    BY <2>1 DEF IInv, TypeOK, Pass
  <2>. QED BY <1>2, <2>2, <2>3, <2>4 DEF SeenSince
<1>5. CASE ReadRows(p)
  <2>1. PICK rows \in SUBSET RowChange, answered \in BOOLEAN :
          pass' = [pass EXCEPT ![p].at = "publish", ![p].read = @ \cup rows,
                                ![p].checked = @ /\ answered]
    BY <1>5 DEF ReadRows, Read
  <2>2. pass[p].at = "rows" /\ UNCHANGED <<state, gen>>
    BY <1>5 DEF ReadRows, Read
  <2>3. /\ pass'[p].seq = pass[p].seq /\ pass'[p].read = pass[p].read \cup rows
        /\ \A q \in Refresher \ {p} : pass'[q] = pass[q]
    BY <2>1 DEF IInv, TypeOK, Pass
  <2>. QED BY <1>2, <2>2, <2>3 DEF SeenSince
<1>6. CASE Publish(p) \/ ListFails(p)
  <2>1. /\ pass'[p].at = "off" /\ \A q \in Refresher \ {p} : pass'[q] = pass[q]
        /\ \/ UNCHANGED <<state, gen>>
           \/ pass[p].at = "publish" /\ state' = pass[p].read /\ gen' = pass[p].seq
    BY <1>6 DEF Publish, publishedGen, ListFails, NoPass, IInv, TypeOK
  <2>. QED BY <1>2, <2>1 DEF SeenSince
<1>. QED BY <1>3, <1>4, <1>5, <1>6

(* A snapshot takes the observation away only if a later pass published it.   *)
LEMMA SnapshotObserved ==
  ASSUME IInv, Observed, StartupReconcile \/ TakeReconcile \/ Tick
  PROVE  /\ Observed'
         /\ failoverObserved.of # {} /\ failoverObserved'.of = {} =>
              failoverObserved.of \subseteq snap'
<1>1. /\ snap' = state /\ Still /\ cache' = cache /\ handler' = handler
      /\ failoverObserved' = IF gen > failoverObserved.gen THEN Nothing ELSE failoverObserved
  BY DEF StartupReconcile, TakeReconcile, Tick, TakeSnapshot, reflectsObservation, Still,
         dbVars, passVars
<1>2. SeenSince(handler)'
  BY <1>1, SameSeen DEF Observed, SeenSince
<1>3. SeenSince(failoverObserved)'
  <2>1. CASE gen > failoverObserved.gen
    BY <1>1, <2>1, NothingSeen DEF SeenSince
  <2>2. CASE ~(gen > failoverObserved.gen)
    BY <1>1, <2>2, SameSeen DEF Observed, SeenSince
  <2>. QED BY <2>1, <2>2
<1>. QED BY <1>1, <1>2, <1>3 DEF Observed, SeenSince

Reflected ==
  failoverObserved.of # {} /\ failoverObserved'.of = {} => failoverObserved.of \subseteq snap'

LEMMA ObservedInductive ==
  ASSUME IInv, Observed, [Next]_vars
  PROVE  Observed' /\ Reflected
<1>1. CASE StartupReconcile \/ TakeReconcile \/ Tick
  BY <1>1, SnapshotObserved DEF Reflected
<1>2. CASE Handlers
  <2>1. failoverObserved.of # {} => failoverObserved'.of = failoverObserved.of
    BY <1>2 DEF Handlers, SBEvent, NBEvent, StampObservation, immediateStateRefresh, obsVars
  <2>. QED BY <1>2, <2>1, HandlerObserved DEF Handlers, Reflected
<1>3. CASE \/ \E k \in Change : Commit(k) \/ LoseUpdate(k)
           \/ Monitor
           \/ TakeDebounce \/ ReconcileFire \/ LoopExit
           \/ drainSignals \/ reconcile \/ DiscardReconcile \/ Close \/ Sigterm
           \/ UNCHANGED vars
  <2>1. Still /\ UNCHANGED obsVars /\ cache \subseteq cache'
    BY <1>3 DEF Commit, LoseUpdate, Monitor, MonitorUpdate, TakeDebounce, ReconcileFire, LoopExit,
           drainSignals, reconcile, DiscardReconcile, Close, Sigterm, vars, Still, dbVars, obsVars,
           passVars
  <2>. QED BY <2>1, StillObserved DEF Reflected, obsVars
<1>4. CASE \/ DebounceFire \/ TakeImmediate \/ Connect
           \/ \E p \in Refresher : refreshState(p)
  <2>1. UNCHANGED <<cache, obsVars>>
    BY <1>4 DEF DebounceFire, TakeImmediate, Connect, refreshState, ReadBindings, ReadRows, Read,
           Publish, ListFails, ReturnTo, dbVars
  <2>2. \E p \in Refresher :
          BeginPass(p) \/ ReadBindings(p) \/ ReadRows(p) \/ Publish(p) \/ ListFails(p)
    BY <1>4 DEF DebounceFire, TakeImmediate, Connect, refreshState, Refresher
  <2>. QED BY <2>1, <2>2, PassObserved DEF Reflected, obsVars
<1>5. CASE Shutdown
  <2>1. UNCHANGED <<cache, obsVars>> /\ (BeginPass("main") \/ Still)
    BY <1>5 DEF Shutdown, Still, dbVars, passVars
  <2>2. CASE BeginPass("main")
    BY <2>1, <2>2, PassObserved DEF Refresher, Reflected, obsVars
  <2>3. CASE Still
    BY <2>1, <2>3, StillObserved DEF Reflected, obsVars
  <2>. QED BY <2>1, <2>2, <2>3
<1>. QED BY <1>1, <1>2, <1>3, <1>4, <1>5 DEF Next, refreshLoop, Run, Refresher

(* A failover measurement ends only with a reconcile that worked on the       *)
(* rebinding: the number stamped on it is that of a pass which may have read  *)
(* the bindings already, so only a later pass counts.                         *)
THEOREM ObservationsReflected == Spec => ObservationReflected
<1>1. Init => IInv /\ Observed
  BY InitIInv DEF Init, Observed, SeenSince, NoHandler, Nothing, NoPass
<1>2. IInv /\ Observed /\ [Next]_vars => IInv' /\ Observed'
  BY IInvInductive, ObservedInductive
<1>3. IInv /\ Observed /\ [Next]_vars => [Reflected]_vars
  BY ObservedInductive
<1>. QED BY <1>1, <1>2, <1>3, PTL DEF Spec, ObservationReflected, Reflected

-----------------------------------------------------------------------------
(* The refinement. *)

Since == pass["loop"].base \cup pass["main"].base

(* At most one pass reads, and it alone decides what the service is doing. *)
LEMMA WhoReads ==
  ASSUME IInv, NEW p \in Refresher, pass[p].at # "off"
  PROVE  /\ Since = pass[p].base
         /\ Reading = IF pass[p].checked THEN "yes" ELSE "doubtful"
         /\ \A q \in Refresher \ {p} : pass[q] = NoPass
<1>1. \A q \in Refresher \ {p} : pass[q] = NoPass
  BY DEF IInv, Exclusive, Progress, Refresher
<1>2. Since = pass[p].base
  BY <1>1 DEF Since, NoPass, Refresher
<1>3. (\A q \in Refresher : pass[q].checked) <=> pass[p].checked
  BY <1>1 DEF NoPass
<1>. QED BY <1>1, <1>2, <1>3 DEF Reading

LEMMA NobodyReads ==
  ASSUME IInv, \A p \in Refresher : pass[p].at = "off"
  PROVE  Since = {} /\ Reading = "no"
<1>1. pass["loop"] = NoPass /\ pass["main"] = NoPass
  BY DEF IInv, Progress, Refresher
<1>. QED BY <1>1 DEF Since, Reading, NoPass

(* Everything the service shows. *)
Visible == <<server, refreshSeq, Reading, Since, state, gen, snap, applied>>

LEMMA InitService == Init => Service!Init
<1> SUFFICES ASSUME Init PROVE Service!Init
  OBVIOUS
<1>1. Reading = "no" /\ Since = {}
  BY InitIInv, NobodyReads DEF Init, NoPass
<1>. QED BY <1>1 DEF Init, Since, Service!Init

(* A pass that leaves state and generation alone hides its reads.             *)
LEMMA HiddenSteps ==
  ASSUME UNCHANGED <<server, refreshSeq, pass, state, gen, snap, applied>>
  PROVE  UNCHANGED Visible
BY DEF Visible, Reading, Since

LEMMA BeginService ==
  ASSUME IInv, IInv', NEW p \in Refresher, BeginPass(p),
         \A q \in Refresher : pass[q].at = "off",
         UNCHANGED <<server, snap, applied>>
  PROVE  Service!Begin
<1>1. Reading = "no"
  BY NobodyReads
<1>2. pass'[p].at = "bindings" /\ pass'[p].base = server /\ pass'[p].checked
  BY DEF BeginPass, IInv, TypeOK
<1>3. /\ Since' = pass'[p].base
      /\ Reading' = IF pass'[p].checked THEN "yes" ELSE "doubtful"
  <2>1. \A q \in Refresher \ {p} : pass'[q] = NoPass
    BY DEF BeginPass, IInv, TypeOK, Progress
  <2>2. Since' = pass'[p].base
    BY <2>1 DEF Since, NoPass, Refresher
  <2>3. (\A q \in Refresher : pass'[q].checked) <=> pass'[p].checked
    BY <2>1 DEF NoPass
  <2>. QED BY <1>2, <2>2, <2>3 DEF Reading
<1>. QED BY <1>1, <1>2, <1>3 DEF BeginPass, Since, Service!Begin

LEMMA ReadService ==
  ASSUME IInv, NEW p \in Refresher, ReadBindings(p) \/ ReadRows(p)
  PROVE  Service!Doubt \/ UNCHANGED Visible
<1>1. PICK answered \in BOOLEAN :
        /\ pass'[p].at # "off" /\ pass[p].at # "off" /\ pass'[p].base = pass[p].base
        /\ pass'[p].checked = (pass[p].checked /\ answered)
        /\ \A q \in Refresher \ {p} : pass'[q] = pass[q]
  <2>1. PICK at \in {"bindings", "rows"}, next \in {"rows", "publish"}, T \in {Rebinding, RowChange} :
          Read(p, at, T, next)
    BY DEF ReadBindings, ReadRows
  <2>2. PICK rows \in SUBSET T, answered \in BOOLEAN :
          pass' = [pass EXCEPT ![p].at = next, ![p].read = @ \cup rows,
                                ![p].checked = @ /\ answered]
    BY <2>1 DEF Read
  <2>3. /\ pass'[p].at = next /\ pass'[p].base = pass[p].base
        /\ pass'[p].checked = (pass[p].checked /\ answered)
        /\ \A q \in Refresher \ {p} : pass'[q] = pass[q]
        /\ pass[p].at = at
    BY <2>1, <2>2 DEF Read, IInv, TypeOK, Pass
  <2>. QED BY <2>1, <2>3
<1>2. UNCHANGED <<server, refreshSeq, state, gen, snap, applied>>
  BY DEF ReadBindings, ReadRows, Read, dbVars, workVars
<1>3. Since' = Since
  BY <1>1 DEF Since, Refresher
<1>4. /\ Reading = IF pass[p].checked THEN "yes" ELSE "doubtful"
      /\ \A q \in Refresher \ {p} : pass[q] = NoPass
  BY <1>1, WhoReads
<1>5. Reading' = IF pass'[p].checked THEN "yes" ELSE "doubtful"
  <2>1. (\A q \in Refresher : pass'[q].checked) <=> pass'[p].checked
    BY <1>1, <1>4 DEF NoPass
  <2>. QED BY <1>1, <2>1 DEF Reading
<1>6. CASE Reading' = Reading
  BY <1>2, <1>3, <1>6 DEF Visible
<1>7. CASE Reading' # Reading
  <2>1. Reading = "yes" /\ Reading' = "doubtful"
    BY <1>1, <1>4, <1>5, <1>7
  <2>. QED BY <1>2, <1>3, <2>1 DEF Since, Service!Doubt
<1>. QED BY <1>6, <1>7

LEMMA EndPassService ==
  ASSUME IInv, IInv', NEW p \in Refresher, Publish(p) \/ ListFails(p)
  PROVE  Service!Publish \/ Service!Abandon
<1>1. /\ pass[p].at # "off" /\ pass' = [pass EXCEPT ![p] = NoPass]
      /\ UNCHANGED <<server, refreshSeq, snap, applied>>
  BY DEF Publish, ListFails, ReturnTo, dbVars, workVars
<1>2. /\ Since = pass[p].base
      /\ Reading = IF pass[p].checked THEN "yes" ELSE "doubtful"
      /\ \A q \in Refresher \ {p} : pass[q] = NoPass
  BY <1>1, WhoReads
<1>3. pass'["loop"] = NoPass /\ pass'["main"] = NoPass
  BY <1>1, <1>2 DEF IInv, TypeOK, Refresher
<1>4. Since' = {} /\ Reading' = "no"
  BY <1>3 DEF Since, Reading, NoPass, Refresher
<1>5. CASE Publish(p)
  <2>1. pass[p].checked => pass[p].base \subseteq state'
    BY <1>5, PublishedState
  <2>2. state' \subseteq server /\ gen' = refreshSeq
    BY <1>1, <1>5, PublishedState DEF IInv, TypeOK
  <2>. QED BY <1>1, <1>2, <1>4, <2>1, <2>2 DEF Since, Service!Publish
<1>6. CASE ListFails(p)
  BY <1>1, <1>2, <1>4, <1>6 DEF ListFails, Since, Service!Abandon
<1>. QED BY <1>5, <1>6

LEMMA StepService ==
  ASSUME IInv, IInv', [Next]_vars
  PROVE  Service!Next \/ UNCHANGED Visible
<1>1. ASSUME NEW k \in Change, Commit(k)
      PROVE  Service!Commit
  <2>1. /\ k \in Change \ server /\ server' = server \cup {k}
        /\ UNCHANGED <<refreshSeq, pass, state, gen, snap, applied>>
    BY <1>1 DEF Commit, passVars, workVars
  <2>2. Reading' = Reading
    BY <2>1 DEF Reading
  <2>. QED BY <2>1, <2>2 DEF Service!Commit
<1>2. ASSUME NEW k \in Change, LoseUpdate(k)
      PROVE  UNCHANGED Visible
  BY <1>2, HiddenSteps DEF LoseUpdate, passVars, workVars
<1>3. CASE Monitor \/ Handlers
  BY <1>3, HiddenSteps DEF Monitor, MonitorUpdate, Handlers, SBEvent, NBEvent,
       StampObservation, immediateStateRefresh, dbVars, passVars, workVars
<1>4. CASE TakeDebounce \/ ReconcileFire \/ LoopExit
  BY <1>4, HiddenSteps DEF TakeDebounce, ReconcileFire, LoopExit, dbVars, passVars, workVars
<1>5. CASE drainSignals \/ DiscardReconcile \/ Close \/ Sigterm \/ (Shutdown /\ main' = "cleanup")
  <2>1. UNCHANGED <<server, refreshSeq, pass, state, gen, snap, applied>>
    BY <1>5 DEF drainSignals, DiscardReconcile, Close, Sigterm, Shutdown, dbVars, passVars, workVars
  <2>. QED BY <2>1, HiddenSteps
<1>6. CASE StartupReconcile \/ TakeReconcile \/ Tick
  <2>1. /\ snap' = state
        /\ UNCHANGED <<server, refreshSeq, pass, state, gen, applied>>
    BY <1>6 DEF StartupReconcile, TakeReconcile, Tick, TakeSnapshot, dbVars, passVars
  <2>2. Reading' = Reading
    BY <2>1 DEF Reading
  <2>3. Service!Take
    BY <2>1, <2>2 DEF Service!Take
  <2>. QED BY <2>3 DEF Service!Next
<1>7. CASE reconcile
  <2>1. /\ applied' = snap
        /\ UNCHANGED <<server, refreshSeq, pass, state, gen, snap>>
    BY <1>7 DEF reconcile, dbVars, passVars
  <2>2. Reading' = Reading
    BY <2>1 DEF Reading
  <2>3. Service!Act
    BY <2>1, <2>2 DEF Service!Act
  <2>. QED BY <2>3 DEF Service!Next
<1>8. CASE DebounceFire \/ TakeImmediate
  <2>1. /\ loop = "select" /\ BeginPass("loop") /\ "loop" \in Refresher
        /\ UNCHANGED <<server, snap, applied>>
    BY <1>8 DEF DebounceFire, TakeImmediate, dbVars, workVars, Refresher
  <2>2. \A q \in Refresher : pass[q].at = "off"
    BY <2>1 DEF IInv, Exclusive, Refresher
  <2>. QED BY <2>1, <2>2, BeginService DEF Service!Next
<1>9. CASE Connect \/ (Shutdown /\ main' = "postDrain")
  <2>1. /\ main = "connect" \/ (main = "run" /\ loop = "stopped")
        /\ BeginPass("main") /\ "main" \in Refresher
        /\ UNCHANGED <<server, snap, applied>>
    BY <1>9 DEF Connect, Shutdown, waitRefreshLoopStopped, dbVars, workVars, Refresher
  <2>2. \A q \in Refresher : pass[q].at = "off"
    BY <2>1 DEF IInv, Exclusive, Refresher
  <2>. QED BY <2>1, <2>2, BeginService DEF Service!Next
<1>10. ASSUME NEW p \in Refresher, refreshState(p)
       PROVE  Service!Next \/ UNCHANGED Visible
  BY <1>10, ReadService, EndPassService DEF refreshState, Service!Next
<1>11. CASE refreshLoop
  BY <1>4, <1>8, <1>10, <1>11 DEF refreshLoop, Refresher
<1>12. CASE Run
  <2>1. Shutdown => main' \in {"postDrain", "cleanup"}
    BY DEF Shutdown
  <2>. QED BY <1>5, <1>6, <1>7, <1>9, <1>10, <1>12, <2>1 DEF Run, Refresher
<1>13. CASE UNCHANGED vars
  BY <1>13, HiddenSteps DEF vars
<1>. QED BY <1>1, <1>2, <1>3, <1>5, <1>6, <1>11, <1>12, <1>13 DEF Next, Service!Next

(* The cache, the two goroutines, their channels and timers implement the     *)
(* abstract service: one refresh at a time, and what it publishes holds       *)
(* everything committed before it began if the server answered it.            *)
THEOREM Implements == Spec => ImplementsService
<1>1. IInv /\ IInv' /\ [Next]_vars => [Service!Next]_(Service!vars)
  <2> SUFFICES ASSUME IInv, IInv', [Next]_vars
      PROVE  Service!Next \/ UNCHANGED Service!vars
    OBVIOUS
  <2>1. UNCHANGED Visible => UNCHANGED Service!vars
    BY DEF Visible, Since, Service!vars
  <2>. QED BY <2>1, StepService
<1>. QED BY <1>1, InitService, InitIInv, IInvInductive, PTL DEF Spec, ImplementsService, Service!Spec
=============================================================================
