----------------------------- MODULE OVNRefresh -----------------------------
(* How a change in the OVN databases reaches the reconcile of one agent       *)
(* (src/ovn.go, src/ovn_cache.go, src/agent.go): monitor cache, event         *)
(* handlers, signal channels, debounce timers, the refresh loop and its       *)
(* numbered passes, the published snapshot, the main loop, and the start and  *)
(* the end of the process, where the refresh loop does not run.               *)
(*                                                                            *)
(* A database is the set of changes committed to it; a snapshot is the set of *)
(* changes it reflects.  Changes of chassisredirect bindings take the         *)
(* immediate path, changes of any other monitored row the debounced one.      *)
(* Timers may expire at any time once they are armed.                         *)
EXTENDS Integers, FiniteSets

CONSTANTS
  Rebinding,   \* chassisredirect rebindings that may happen (SB)
  RowChange,   \* other changes that may happen (NB)
  Faults,      \* the kinds of fault that may happen
  MaxFaults    \* bound: how many kinds of fault happen, each once

FaultKinds ==
  {"lost",     \* the monitor cache never receives an update
   "select",   \* a direct select fails while the context is live
   "list",     \* listing the cache fails
   "cancel"}   \* SIGTERM (not counted against MaxFaults)

ASSUME ConstantsAssumption ==
  /\ Rebinding \cap RowChange = {}
  /\ Faults \subseteq FaultKinds
  /\ MaxFaults \in Nat

Change == Rebinding \cup RowChange
Nothing == [gen |-> 0, of |-> {}]     \* no failover observation pending

VARIABLES
  \* databases and their monitor caches
  server,        \* committed changes
  lost,          \* changes the monitor never delivers to the cache
  cache,         \* changes the monitor cache has applied
  events,        \* applied changes whose event handler has not run
  \* OVNClient
  ready,
  handler,       \* the SB event handler: the rebinding it handles, its refreshSeq
  failoverObserved,
  refreshSeq,
  pass,          \* pass[p]: the refreshState in progress of p
  state,         \* changes the published state reflects
  gen,           \* OVNState.Gen
  \* channels (capacity 1) and timers
  debounceCh, immediateCh, reconcileCh, debounceTimer, reconcileTimer,
  \* the two goroutines
  loop, main,
  cancelled,
  snap,          \* the snapshot the reconcile in progress works on
  applied,       \* changes the last completed reconcile acted on
  faults         \* the kinds of fault that have happened

dbVars == <<server, lost, cache, events>>
obsVars == <<handler, failoverObserved>>
passVars == <<refreshSeq, pass, state, gen>>
chVars == <<debounceCh, immediateCh, reconcileCh, debounceTimer, reconcileTimer>>
workVars == <<snap, applied>>
vars == <<server, lost, cache, events, ready, handler, failoverObserved, refreshSeq,
          pass, state, gen, debounceCh, immediateCh, reconcileCh, debounceTimer,
          reconcileTimer, loop, main, cancelled, snap, applied, faults>>

Refresher == {"loop", "main"}
Steps == {"off", "bindings", "rows", "publish"}
NoPass == [at |-> "off", seq |-> 0, read |-> {}, base |-> {}, checked |-> TRUE]
(* base: what was committed when the pass began; checked: the server answered. *)
Pass == [at : Steps, seq : Nat, read : SUBSET Change, base : SUBSET Change,
         checked : BOOLEAN]
NoHandler == [at |-> "idle", gen |-> 0, of |-> {}]
LoopSteps == {"unstarted", "select", "debounced", "immediate", "stopped"}
MainSteps == {"connect", "initial", "discard", "startup", "startupReconcile",
              "discardReconcile", "run", "reconcile", "drain", "postDrain",
              "cleanup", "done"}

TypeOK ==
  /\ server \in SUBSET Change
  /\ lost \in SUBSET server
  /\ cache \in SUBSET server
  /\ events \in SUBSET cache
  /\ ready \in BOOLEAN
  /\ handler \in [at : {"idle", "stamp", "signal"}, gen : 0..refreshSeq,
                  of : SUBSET Rebinding]
  /\ failoverObserved \in [gen : 0..refreshSeq, of : SUBSET Rebinding]
  /\ refreshSeq \in Nat
  /\ pass \in [Refresher -> Pass]
  /\ state \in SUBSET server
  /\ gen \in 0..refreshSeq
  /\ debounceCh \in BOOLEAN /\ immediateCh \in BOOLEAN /\ reconcileCh \in BOOLEAN
  /\ debounceTimer \in BOOLEAN /\ reconcileTimer \in BOOLEAN
  /\ loop \in LoopSteps
  /\ main \in MainSteps
  /\ cancelled \in BOOLEAN
  /\ snap \in SUBSET server
  /\ applied \in SUBSET server
  /\ faults \in SUBSET FaultKinds

Init ==
  /\ server = {} /\ lost = {} /\ cache = {} /\ events = {}
  /\ ready = FALSE
  /\ handler = NoHandler
  /\ failoverObserved = Nothing
  /\ refreshSeq = 0
  /\ pass = [p \in Refresher |-> NoPass]
  /\ state = {} /\ gen = 0
  /\ debounceCh = FALSE /\ immediateCh = FALSE /\ reconcileCh = FALSE
  /\ debounceTimer = FALSE /\ reconcileTimer = FALSE
  /\ loop = "unstarted"
  /\ main = "connect"
  /\ cancelled = FALSE
  /\ snap = {} /\ applied = {}
  /\ faults = {}

Fault(kind) ==
  /\ kind \in Faults
  /\ Cardinality(faults) < MaxFaults
  /\ kind \notin faults
  /\ faults' = faults \cup {kind}

NoFault == UNCHANGED faults

-----------------------------------------------------------------------------
(* The databases and the monitor. *)

Commit(k) ==
  /\ k \notin server
  /\ server' = server \cup {k}
  /\ UNCHANGED <<lost, cache, events, ready, obsVars, passVars, chVars, loop, main,
                 cancelled, workVars, faults>>

(* The cache applies an update before the event handler hears of it. *)
MonitorUpdate(k) ==
  /\ k \in server \ (cache \cup lost)
  /\ cache' = cache \cup {k}
  /\ events' = events \cup {k}
  /\ UNCHANGED <<server, lost, ready, obsVars, passVars, chVars, loop, main,
                 cancelled, workVars, faults>>

(* The cache drops an update: it stays without the row, and no event follows. *)
LoseUpdate(k) ==
  /\ k \in server \ (cache \cup lost)
  /\ Fault("lost")
  /\ lost' = lost \cup {k}
  /\ UNCHANGED <<server, cache, events, ready, obsVars, passVars, chVars, loop,
                 main, cancelled, workVars>>

-----------------------------------------------------------------------------
(* The event handlers, in the goroutines of the caches.  Before Connect has   *)
(* set ready they do nothing.                                                 *)

(* sbEventHandler on a rebound chassisredirect port: immediateStateRefresh    *)
(* reads refreshSeq, stamps an empty failoverObserved, signals the loop.      *)
SBEvent(k) ==
  /\ handler.at = "idle"
  /\ k \in events \cap Rebinding
  /\ events' = events \ {k}
  /\ handler' = IF ready THEN [at |-> "stamp", gen |-> refreshSeq, of |-> {k}]
                ELSE handler
  /\ UNCHANGED <<server, lost, cache, ready, failoverObserved, passVars, chVars,
                 loop, main, cancelled, workVars, faults>>

StampObservation ==
  /\ handler.at = "stamp"
  /\ handler' = [handler EXCEPT !.at = "signal"]
  /\ failoverObserved' = IF failoverObserved.of = {}
                         THEN [gen |-> handler.gen, of |-> handler.of]
                         ELSE failoverObserved
  /\ UNCHANGED <<dbVars, ready, passVars, chVars, loop, main, cancelled,
                 workVars, faults>>

immediateStateRefresh ==
  /\ handler.at = "signal"
  /\ handler' = NoHandler
  /\ immediateCh' = TRUE
  /\ UNCHANGED <<dbVars, ready, failoverObserved, passVars, debounceCh,
                 reconcileCh, debounceTimer, reconcileTimer, loop, main,
                 cancelled, workVars, faults>>

(* A send on a channel of capacity 1 that nobody has to be waiting for. *)
Unbuffered(ch) == ch \/ loop = "select"    \* variant: lost while the loop works
Queued(ch) == TRUE

(* debounceStateRefresh for every other row. *)
NBEvent(k) ==
  /\ k \in events \cap RowChange
  /\ events' = events \ {k}
  /\ debounceCh' = IF ready THEN Queued(debounceCh) ELSE debounceCh
  /\ UNCHANGED <<server, lost, cache, ready, obsVars, passVars, immediateCh,
                 reconcileCh, debounceTimer, reconcileTimer, loop, main,
                 cancelled, workVars, faults>>

-----------------------------------------------------------------------------
(* refreshState of the loop or of the main goroutine (p): number the pass,    *)
(* read the bindings, read the other tables, publish.                         *)

BeginPass(p) ==
  /\ refreshSeq' = refreshSeq + 1
  /\ pass' = [pass EXCEPT ![p] = [at |-> "bindings", seq |-> refreshSeq + 1,
                                  read |-> {}, base |-> server,
                                  checked |-> TRUE]]
  /\ UNCHANGED <<state, gen>>

(* A pass runs under the context of the process; only the refresh after a     *)
(* drain, which no other pass overlaps, has a context of its own.             *)
contextDone == cancelled /\ main # "postDrain"

(* cachedList: the cache is compared with the server and replaced by it when  *)
(* they differ; the cache stands when the select fails, as every select of a  *)
(* cancelled context does.                                                    *)
TrustCache(T, rows, answered) ==             \* variant: no check
  answered /\ rows = cache \cap T /\ NoFault
cachedList(T, rows, answered) ==
  \/ answered /\ ~contextDone /\ rows = server \cap T /\ NoFault
  \/ ~answered /\ ~contextDone /\ rows = cache \cap T /\ Fault("select")
  \/ ~answered /\ contextDone /\ rows = cache \cap T /\ NoFault

Read(p, at, T, next) ==
  /\ pass[p].at = at
  /\ \E rows \in SUBSET T, answered \in BOOLEAN :
       /\ cachedList(T, rows, answered)
       /\ pass' = [pass EXCEPT ![p].at = next, ![p].read = @ \cup rows,
                                ![p].checked = @ /\ answered]
  /\ UNCHANGED <<dbVars, ready, obsVars, refreshSeq, state, gen, chVars, loop,
                 main, cancelled, workVars>>

ReadBindings(p) == Read(p, "bindings", Rebinding, "rows")
ReadRows(p) == Read(p, "rows", RowChange, "publish")

(* What the caller does when refreshState returns: after a debounced refresh  *)
(* the loop arms the reconcile timer, after an immediate one it triggers the  *)
(* reconcile itself; the main goroutine goes on connecting or shutting down.  *)
ReturnTo(p) ==
  /\ p = "loop" => /\ loop' = "select"
                   /\ reconcileTimer' = (reconcileTimer \/ loop = "debounced")
                   /\ reconcileCh' = (reconcileCh \/ loop = "immediate")
                   /\ UNCHANGED main
  /\ p = "main" => /\ main' = IF main = "initial" THEN "discard" ELSE "cleanup"
                   /\ UNCHANGED <<loop, reconcileTimer, reconcileCh>>
  /\ UNCHANGED <<dbVars, ready, obsVars, refreshSeq, debounceCh, immediateCh,
                 debounceTimer, cancelled, workVars>>

(* Variant: the pass is numbered when it publishes. *)
numberAtPublish(p) == refreshSeq + 1
publishedGen(p) == pass[p].seq

Publish(p) ==
  /\ pass[p].at = "publish"
  /\ state' = pass[p].read
  /\ gen' = publishedGen(p)
  /\ pass' = [pass EXCEPT ![p] = NoPass]
  /\ NoFault
  /\ ReturnTo(p)

(* A table that cannot be listed ends the pass; the old state stays. *)
ListFails(p) ==
  /\ pass[p].at \in {"bindings", "rows"}
  /\ Fault("list")
  /\ pass' = [pass EXCEPT ![p] = NoPass]
  /\ UNCHANGED <<state, gen>>
  /\ ReturnTo(p)

refreshState(p) == ReadBindings(p) \/ ReadRows(p) \/ Publish(p) \/ ListFails(p)

-----------------------------------------------------------------------------
(* refreshLoop: one case of its select at a time. *)

TakeDebounce ==
  /\ loop = "select"
  /\ debounceCh
  /\ debounceCh' = FALSE
  /\ debounceTimer' = TRUE
  /\ UNCHANGED <<dbVars, ready, obsVars, passVars, immediateCh, reconcileCh,
                 reconcileTimer, loop, main, cancelled, workVars, faults>>

DebounceFire ==
  /\ loop = "select"
  /\ debounceTimer
  /\ debounceTimer' = FALSE
  /\ loop' = "debounced"
  /\ BeginPass("loop")
  /\ UNCHANGED <<dbVars, ready, obsVars, debounceCh, immediateCh, reconcileCh,
                 reconcileTimer, main, cancelled, workVars, faults>>

ReconcileFire ==
  /\ loop = "select"
  /\ reconcileTimer
  /\ reconcileTimer' = FALSE
  /\ reconcileCh' = TRUE
  /\ UNCHANGED <<dbVars, ready, obsVars, passVars, debounceCh, immediateCh,
                 debounceTimer, loop, main, cancelled, workVars, faults>>

(* An immediate refresh supersedes a pending debounced one. *)
TakeImmediate ==
  /\ loop = "select"
  /\ immediateCh
  /\ immediateCh' = FALSE
  /\ debounceTimer' = FALSE
  /\ loop' = "immediate"
  /\ BeginPass("loop")
  /\ UNCHANGED <<dbVars, ready, obsVars, debounceCh, reconcileCh,
                 reconcileTimer, main, cancelled, workVars, faults>>

(* Variant: the context is only looked at after a signal. *)
LoopExitOnSignal ==
  /\ loop = "select"
  /\ cancelled
  /\ debounceCh \/ immediateCh
  /\ loop' = "stopped"
  /\ debounceTimer' = FALSE
  /\ reconcileTimer' = FALSE
  /\ UNCHANGED <<dbVars, ready, obsVars, passVars, debounceCh, immediateCh,
                 reconcileCh, main, cancelled, workVars, faults>>

LoopExit ==
  /\ loop = "select"
  /\ cancelled
  /\ loop' = "stopped"
  /\ debounceTimer' = FALSE
  /\ reconcileTimer' = FALSE
  /\ UNCHANGED <<dbVars, ready, obsVars, passVars, debounceCh, immediateCh,
                 reconcileCh, main, cancelled, workVars, faults>>

refreshLoop ==
  \/ TakeDebounce \/ DebounceFire \/ ReconcileFire \/ TakeImmediate \/ LoopExit
  \/ refreshState("loop")

-----------------------------------------------------------------------------
(* The main goroutine: Connect, the startup reconcile, the main loop, the end. *)

(* Connect after both databases are monitored. *)
Connect ==
  /\ main = "connect"
  /\ main' = "initial"
  /\ ready' = TRUE
  /\ BeginPass("main")
  /\ UNCHANGED <<dbVars, obsVars, chVars, loop, cancelled, workVars, faults>>

(* Connect empties the signal channels and starts the refresh loop. *)
drainSignals ==
  /\ main = "discard"
  /\ main' = "startup"
  /\ debounceCh' = FALSE
  /\ immediateCh' = FALSE
  /\ loop' = "select"
  /\ UNCHANGED <<dbVars, ready, obsVars, passVars, reconcileCh, debounceTimer,
                 reconcileTimer, cancelled, workVars, faults>>

(* takeFailoverObservedAt: a snapshot consumes the observation it reflects. *)
notOlder == gen >= failoverObserved.gen      \* variant: also the pass under way
reflectsObservation == gen > failoverObserved.gen

TakeSnapshot ==
  /\ snap' = state
  /\ failoverObserved' = IF reflectsObservation THEN Nothing ELSE failoverObserved
  /\ UNCHANGED <<dbVars, ready, handler, passVars, debounceCh, immediateCh,
                 debounceTimer, reconcileTimer, loop, cancelled, applied, faults>>

StartupReconcile ==
  /\ main = "startup"
  /\ main' = "startupReconcile"
  /\ TakeSnapshot
  /\ UNCHANGED reconcileCh

TakeReconcile ==
  /\ main = "run"
  /\ reconcileCh
  /\ main' = "reconcile"
  /\ reconcileCh' = FALSE
  /\ TakeSnapshot

Tick ==
  /\ main = "run"
  /\ main' = "reconcile"
  /\ TakeSnapshot
  /\ UNCHANGED reconcileCh

reconcile ==
  /\ main \in {"startupReconcile", "reconcile"}
  /\ main' = IF main = "startupReconcile" THEN "discardReconcile" ELSE "run"
  /\ applied' = snap
  /\ UNCHANGED <<dbVars, ready, obsVars, passVars, chVars, loop, cancelled, snap,
                 faults>>

(* Run drops a reconcile signal queued during the startup. *)
DiscardReconcile ==
  /\ main = "discardReconcile"
  /\ main' = "run"
  /\ reconcileCh' = FALSE
  /\ UNCHANGED <<dbVars, ready, obsVars, passVars, debounceCh, immediateCh,
                 debounceTimer, reconcileTimer, loop, cancelled, workVars, faults>>

Sigterm ==
  /\ "cancel" \in Faults
  /\ ~cancelled
  /\ cancelled' = TRUE
  /\ UNCHANGED <<dbVars, ready, obsVars, passVars, chVars, loop, main, workVars,
                 faults>>

loopNotAwaited == TRUE                       \* variant: shut down at once
waitRefreshLoopStopped == loop = "stopped"

(* The main loop sees the cancelled context and waits for the refresh loop;   *)
(* after a drain it refreshes the state itself.                               *)
Shutdown ==
  /\ main = "run"
  /\ cancelled
  /\ waitRefreshLoopStopped
  /\ \/ /\ main' = "postDrain"
        /\ BeginPass("main")
     \/ /\ main' = "cleanup"
        /\ UNCHANGED passVars
  /\ UNCHANGED <<dbVars, ready, obsVars, chVars, loop, cancelled, workVars, faults>>

(* cleanup works on the state; then Close. *)
Close ==
  /\ main = "cleanup"
  /\ loop = "stopped"
  /\ main' = "done"
  /\ ready' = FALSE
  /\ UNCHANGED <<dbVars, obsVars, passVars, chVars, loop, cancelled, workVars,
                 faults>>

Run ==
  \/ Connect \/ drainSignals \/ StartupReconcile \/ TakeReconcile
  \/ reconcile \/ DiscardReconcile \/ Shutdown \/ Close
  \/ refreshState("main")

Handlers ==
  \/ \E k \in Change : SBEvent(k) \/ NBEvent(k)
  \/ StampObservation
  \/ immediateStateRefresh

Monitor == \E k \in Change : MonitorUpdate(k)

Next ==
  \/ \E k \in Change : Commit(k) \/ LoseUpdate(k)
  \/ Monitor
  \/ Handlers
  \/ refreshLoop
  \/ Run
  \/ Tick
  \/ Sigterm

Spec == Init /\ [][Next]_vars

(* Every goroutine that can run does; the periodic reconcile is not counted   *)
(* on.  The main loop's select picks at random among ready cases, so a        *)
(* cancelled context is seen in the end although the ticker is ready too.     *)
(* With the changes bounded, this is enough for every case of the loop.       *)
Fairness ==
  /\ WF_vars(Monitor)
  /\ WF_vars(Handlers)
  /\ WF_vars(refreshLoop)
  /\ WF_vars(Run)
  /\ SF_vars(Shutdown)

FairSpec == Spec /\ Fairness

(* With the periodic reconcile counted on. *)
PeriodicSpec == FairSpec /\ WF_vars(Tick)

-----------------------------------------------------------------------------
(* PROPERTIES                                                                 *)

Publishes(p) == pass[p].at = "publish" /\ pass'[p].at = "off"

(* Generations grow, and a published state loses no change an earlier one     *)
(* reflected unless the server did not answer the pass, although two          *)
(* goroutines run refreshState: waitRefreshLoopStopped keeps the passes apart.*)
SnapshotsAdvance ==
  [][/\ gen <= gen'
     /\ (\A p \in Refresher : Publishes(p) => pass[p].checked) => state \subseteq state']_vars

(* One pass reads at a time, though two goroutines run refreshState; and if   *)
(* the server answered it, its state reflects everything committed before it  *)
(* began, rows the cache dropped included (cachedList, authoritativeList).    *)
Reading ==
  IF \A p \in Refresher : pass[p].at = "off" THEN "no"
  ELSE IF \A p \in Refresher : pass[p].checked THEN "yes" ELSE "doubtful"

Service ==
  INSTANCE SnapshotService WITH
    committed <- server, seq <- refreshSeq, reading <- Reading,
    since <- pass["loop"].base \cup pass["main"].base,
    published <- state, acted <- applied

ImplementsService == Service!Spec

(* A failover observation is consumed only by a reconcile whose snapshot      *)
(* reflects the rebinding that was observed (takeFailoverObservedAt), however *)
(* handler, refresh loop and reconcile interleave.                            *)
ObservationReflected ==
  [][failoverObserved.of # {} /\ failoverObserved'.of = {} =>
       failoverObserved.of \subseteq snap']_vars

(* Every event that is delivered while the main loop runs is reconciled, the  *)
(* periodic reconcile not counted on: no coalescing, superseded timer or busy *)
(* goroutine swallows it.                                                     *)
EventReconciled ==
  \A k \in Change :
    k \in events /\ main \in {"run", "reconcile"} ~>
      k \in applied \/ cancelled \/ "list" \in faults

(* The process ends. *)
ShutdownEnds == cancelled ~> main = "done"

(* Every change is reconciled in the end: the initial refresh "already        *)
(* captured the current state" when its signals are dropped, and the agent    *)
(* reconciles "periodically as a safety net".                                 *)
ChangeReconciled ==
  \A k \in Change : k \in server ~> k \in applied \/ cancelled
=============================================================================
