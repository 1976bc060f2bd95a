---------------------------- MODULE GatewayDrain ----------------------------
(* Graceful drain, takeover handshake and priority lead of the agents of one  *)
(* OVN region (src/ovn_gateway.go, src/agent.go).                             *)
(*                                                                            *)
(* Every chassis runs one agent. An agent reconciles what it sees of OVN into *)
(* the NB database and into BGP; on SIGTERM it lowers its Gateway_Chassis     *)
(* priorities, waits for the gateway ports to leave, waits for the takeover   *)
(* chassis to stamp its marker on the routers' default routes, and only then  *)
(* withdraws its own routes.  The NB and SB servers are shared state; OVN's   *)
(* own election of the gateway ports is the environment.                      *)
(*                                                                            *)
(* A router stands for its gateway port (LRP), its chassisredirect port, its  *)
(* agent-managed default route row and the set of /32 routes announced for    *)
(* it.  A reconcile is split where another agent, OVN or a signal can come in *)
(* between: snapshot, NB routing, BGP announce, marker, priority plan, boost. *)
EXTENDS Integers, FiniteSets, FiniteSetsExt

CONSTANTS
  Chassis,        \* the gateway chassis, one agent each
  Router,         \* routers with a gateway port
  NoChassis,      \* "no chassis": unbound port, absent row, empty marker
  Cand,           \* Cand[r]: the chassis with a Gateway_Chassis row for r
  External,       \* routers whose default route the agent does not manage
  InitPrio,       \* the priorities the operator configured
  InitBound,      \* the bindings OVN has elected before the agents start
  DrainModes,     \* values drain_on_shutdown may have at a shutdown
  CleanupModes,   \* values cleanup_on_shutdown may have at a shutdown
  Settle,         \* drain_settle_delay > 0: the handshake is enabled
  Faults,         \* the kinds of fault that may happen
  MaxFaults,      \* bound: how many faults happen in a behaviour
  MaxStops,       \* bound: how many SIGTERMs are sent in a behaviour
  MaxAway,        \* bound: an agent is stopped while fewer agents are away
  MaxPrio         \* bound: no priority is boosted beyond it

FaultKinds ==
  {"route",     \* a route change or the BGP refresh fails
   "txn",       \* an NB transaction fails, other than
   "restore",   \* the one of RestoreDrainedGateways
   "sb",        \* an SB query fails
   "nb",        \* an NB read fails or is answered by a cache that misses rows
   "ovn",       \* ovn-controller (or its BFD sessions) of a chassis fails
   "tie",       \* OVN resolves a priority tie against the current binding
   "crash",     \* the agent process dies
   "host",      \* the host dies with everything on it
   "cache",     \* the NB cache misses Gateway_Chassis rows of this chassis
   "refresh",   \* a state refresh fails and leaves the old state
   "deadline"}  \* drain_timeout expires (not counted against MaxFaults)

ASSUME ConstantsAssumption ==
  /\ NoChassis \notin Chassis
  /\ Cand \in [Router -> SUBSET Chassis]
  /\ External \subseteq Router
  /\ DrainModes \subseteq BOOLEAN
  /\ CleanupModes \subseteq BOOLEAN
  /\ Settle \in BOOLEAN
  /\ Faults \subseteq FaultKinds
  /\ MaxFaults \in Nat /\ MaxStops \in Nat /\ MaxAway \in Nat
  /\ MaxPrio \in Nat /\ MaxPrio >= 1
  /\ InitPrio \in [Router -> [Chassis -> 0..MaxPrio]]
  /\ InitBound \in [Router -> Chassis \cup {NoChassis}]

(* The minimum priority an active chassis maintains: one above the priority a *)
(* drained chassis comes back with.  A drained row is below every standby's.  *)
minActivePriority == 2
restoredAsActive == 2                     \* variant: level with the active one
standbyPriority == 1
belowZero == -1                           \* variant: below the schema's minimum
drainedPriority == 0

VARIABLES
  \* NB database
  prio,       \* prio[r][c]: Gateway_Chassis.priority of c's row for r
  tag,        \* tag[r]: chassis tag of r's managed default route, NoChassis: no row
  marker,     \* marker[r]: takeover-ready marker on that row
  \* SB database and OVN
  bound,      \* bound[r]: the chassis r's chassisredirect port is bound to
  ovnUp,      \* chassis whose ovn-controller takes part in the election
  \* agents
  pc,         \* the step an agent is at
  term,       \* agents whose main context is cancelled (SIGTERM)
  view,       \* o.state: the local routers of the last refresh
  snap,       \* the snapshot the reconcile in progress works on
  announced,  \* routers whose /32 routes the chassis announces in BGP
  plan,       \* priority boosts computed and not yet written (0: none)
  waiting,    \* default-route rows whose marker the drain waits for
  outcome,    \* what drainOutcome will report of the drain
  hidden,     \* own Gateway_Chassis rows missing from the agent's NB cache
  \* bounds
  faults, stops

nbVars == <<prio, tag, marker>>
envVars == <<bound, ovnUp>>
drainVars == <<waiting, outcome>>
vars == <<prio, tag, marker, bound, ovnUp, pc, term, view, snap, announced,
          plan, waiting, outcome, hidden, faults, stops>>

Reconciling ==
  {"due", "idle", "routing", "announce", "mark", "lead", "confirm", "boost"}
Running == {"restore"} \cup Reconciling
Draining == {"drain", "migrate", "await", "margin"}
Stopping == {"refresh", "stop", "nbclean"}
Phases == {"down"} \cup Running \cup Draining \cup Stopping
Outcomes == {"none", "noop", "completed", "timeout", "error"}

TypeOK ==
  /\ prio \in [Router -> [Chassis -> 0..MaxPrio]]
  /\ tag \in [Router -> Chassis \cup {NoChassis}]
  /\ marker \in [Router -> Chassis \cup {NoChassis}]
  /\ bound \in [Router -> Chassis \cup {NoChassis}]
  /\ ovnUp \in SUBSET Chassis
  /\ pc \in [Chassis -> Phases]
  /\ term \in SUBSET Chassis
  /\ view \in [Chassis -> SUBSET Router]
  /\ snap \in [Chassis -> SUBSET Router]
  /\ announced \in [Chassis -> SUBSET Router]
  /\ plan \in [Chassis -> [Router -> 0..MaxPrio]]
  /\ waiting \in [Chassis -> SUBSET Router]
  /\ outcome \in [Chassis -> Outcomes]
  /\ hidden \in [Chassis -> SUBSET Router]
  /\ faults \in 0..MaxFaults
  /\ stops \in 0..MaxStops

-----------------------------------------------------------------------------
NoPlan == [r \in Router |-> 0]

Init ==
  /\ prio = InitPrio
  /\ tag = [r \in Router |-> NoChassis]
  /\ marker = [r \in Router |-> NoChassis]
  /\ bound = InitBound
  /\ ovnUp = Chassis
  /\ pc = [c \in Chassis |-> "down"]
  /\ term = {}
  /\ view = [c \in Chassis |-> {}]
  /\ snap = [c \in Chassis |-> {}]
  /\ announced = [c \in Chassis |-> {}]
  /\ plan = [c \in Chassis |-> NoPlan]
  /\ waiting = [c \in Chassis |-> {}]
  /\ outcome = [c \in Chassis |-> "none"]
  /\ hidden = [c \in Chassis |-> {}]
  /\ faults = 0
  /\ stops = 0

Goto(c, phase) == pc' = [pc EXCEPT ![c] = phase]

(* A fault of the given kind happens, within the bound. *)
Fault(kind) ==
  /\ kind \in Faults
  /\ faults < MaxFaults
  /\ faults' = faults + 1

NoFault == UNCHANGED faults

(* An NB transaction under the main context: it fails once SIGTERM cancelled  *)
(* the context, and may fail by a fault before that.                          *)
TxnSucceeds(c) == c \notin term /\ NoFault
TxnFails(c, kind) == IF c \in term THEN NoFault ELSE Fault(kind)

(* The local routers a refresh of c's state finds: the ones bound to c. *)
LocalRouters(c) == {r \in Router : bound[r] = c}

(* The Gateway_Chassis rows of c, the ones its NB cache holds, and the ones   *)
(* an operation works on: the server is asked only if the cache holds none.   *)
OwnRows(c) == {r \in Router : c \in Cand[r]}
CachedRows(c) == OwnRows(c) \ hidden[c]
CacheOnlyRows(c) == CachedRows(c)          \* variant: the cache is trusted
SeenRows(c) == IF CachedRows(c) = {} THEN OwnRows(c) ELSE CachedRows(c)

(* Ports of the (frozen) state with no standby. *)
noPortIsSole(c) == {}                     \* variant: every port has a standby
soleCandidatePorts(c) == {r \in view[c] : Cand[r] = {c}}

(* Managed default routes of the given routers. *)
unmarkedDefaultRoutes(R) ==               \* variant: a marker is written once
  {r \in R : tag[r] # NoChassis /\ marker[r] = NoChassis}
localManagedDefaultRoutes(R) == {r \in R : tag[r] # NoChassis}

-----------------------------------------------------------------------------
(* The environment: OVN's gateway election and the hosts.                     *)

Electable(r) == Cand[r] \cap ovnUp
Best(r) == {c \in Electable(r) : \A d \in Electable(r) : prio[r][d] <= prio[r][c]}

(* OVN binds a gateway port to a live candidate of highest priority; it moves *)
(* a port that is not with one.                                               *)
Elect(r) ==
  /\ bound[r] \notin Best(r)
  /\ \E c \in Best(r) : bound' = [bound EXCEPT ![r] = c]
  /\ UNCHANGED <<nbVars, ovnUp, pc, term, view, snap, announced, plan,
                 drainVars, hidden, faults, stops>>

(* A tie at the top resolves against the current binding. *)
TieFlap(r) ==
  /\ bound[r] \in Best(r)
  /\ \E c \in Best(r) \ {bound[r]} : bound' = [bound EXCEPT ![r] = c]
  /\ Fault("tie")
  /\ UNCHANGED <<nbVars, ovnUp, pc, term, view, snap, announced, plan,
                 drainVars, hidden, stops>>

OvnDown(c) ==
  /\ c \in ovnUp
  /\ ovnUp' = ovnUp \ {c}
  /\ Fault("ovn")
  /\ UNCHANGED <<nbVars, bound, pc, term, view, snap, announced, plan,
                 drainVars, hidden, stops>>

OvnUp(c) ==
  /\ c \notin ovnUp
  /\ ovnUp' = ovnUp \cup {c}
  /\ UNCHANGED <<nbVars, bound, pc, term, view, snap, announced, plan,
                 drainVars, hidden, faults, stops>>

-----------------------------------------------------------------------------
(* Start of the process, the refresh loop and the signal.                     *)

(* Connect resolves the chassis and refreshes the state once. With a "cache"  *)
(* fault, some own Gateway_Chassis INSERTs never reach this process's cache.  *)
Start(c) ==
  /\ pc[c] = "down"
  /\ Goto(c, "restore")
  /\ view' = [view EXCEPT ![c] = LocalRouters(c)]
  /\ outcome' = [outcome EXCEPT ![c] = "none"]
  /\ \E H \in SUBSET OwnRows(c) :
       /\ hidden' = [hidden EXCEPT ![c] = H]
       /\ IF H = {} THEN NoFault ELSE Fault("cache")
  /\ UNCHANGED <<nbVars, envVars, term, snap, announced, plan, waiting, stops>>

(* RestoreDrainedGateways lifts the rows a previous drain left at 0. *)
RestoreDrainedGateways(c) ==
  /\ pc[c] = "restore"
  /\ Goto(c, "due")
  /\ \/ /\ TxnSucceeds(c)
        /\ prio' = [r \in Router |->
             IF r \in SeenRows(c) /\ prio[r][c] = drainedPriority
             THEN [prio[r] EXCEPT ![c] = standbyPriority] ELSE prio[r]]
     \/ /\ TxnFails(c, "restore")
        /\ UNCHANGED prio
  /\ UNCHANGED <<tag, marker, envVars, term, view, snap, announced, plan,
                 drainVars, hidden, stops>>

(* The refresh loop replaces the state while the agent does anything else,    *)
(* until the shutdown has waited for it to stop.                              *)
refreshState(c) ==
  /\ pc[c] \in Running
  /\ view[c] # LocalRouters(c)
  /\ view' = [view EXCEPT ![c] = LocalRouters(c)]
  /\ UNCHANGED <<nbVars, envVars, pc, term, snap, announced, plan,
                 drainVars, hidden, faults, stops>>

(* Agents that are stopping, down or starting.  MaxAway = 1 is a rolling      *)
(* restart: the next node is taken when every other one is back.              *)
Away == {d \in Chassis : pc[d] \notin Reconciling \/ d \in term}

Sigterm(c) ==
  /\ pc[c] \in Running
  /\ c \notin term
  /\ stops < MaxStops
  /\ Cardinality(Away) < MaxAway
  /\ term' = term \cup {c}
  /\ stops' = stops + 1
  /\ UNCHANGED <<nbVars, envVars, pc, view, snap, announced, plan,
                 drainVars, hidden, faults>>

-----------------------------------------------------------------------------
(* One reconcile, as the main loop runs it.  It runs to its end even when the *)
(* context is cancelled meanwhile, and the main loop may pick another cycle   *)
(* before it picks the cancelled context.                                     *)

TakeSnapshot(c) ==
  /\ pc[c] \in {"due", "idle"}
  /\ snap' = [snap EXCEPT ![c] = view[c]]
  /\ Goto(c, IF view[c] = {} THEN "announce" ELSE "routing")
  /\ UNCHANGED <<nbVars, envVars, term, view, announced, plan, drainVars,
                 hidden, faults, stops>>

(* EnsureGatewayRouting: per router, ensureDefaultRoute creates the managed   *)
(* default route without a marker, or retags the one that is there and keeps  *)
(* its marker.  A failing router does not stop the others.                    *)
EnsureGatewayRouting(c) ==
  /\ pc[c] = "routing"
  /\ Goto(c, "announce")
  /\ \E done \in SUBSET (snap[c] \ External) :
       /\ IF done = snap[c] \ External /\ c \notin term THEN NoFault
          ELSE TxnFails(c, "txn")
       /\ tag' = [r \in Router |-> IF r \in done THEN c ELSE tag[r]]
  /\ UNCHANGED <<prio, marker, envVars, term, view, snap, announced, plan,
                 drainVars, hidden, stops>>

(* Variant: the readiness of the announce is ignored. *)
ensureRoutesUnchecked(c) ==
  /\ pc[c] = "announce"
  /\ \E added \in SUBSET snap[c] :
       /\ announced[c] \cap snap[c] \subseteq added
       /\ announced' = [announced EXCEPT ![c] = added]
       /\ IF added = snap[c] THEN NoFault ELSE Fault("route")
       /\ Goto(c, IF snap[c] = {} THEN "idle" ELSE "mark")
  /\ UNCHANGED <<nbVars, envVars, term, view, snap, plan, drainVars, hidden,
                 stops>>

(* ensureRoutes (removeAllRoutes when nothing is local): add what is missing, *)
(* remove what is stale, refresh BGP.  ready reports that every add and the   *)
(* refresh succeeded; failed removals do not clear it.                        *)
ensureRoutes(c) ==
  /\ pc[c] = "announce"
  /\ \E added \in SUBSET snap[c], stale \in SUBSET (announced[c] \ snap[c]),
        ready \in BOOLEAN :
       /\ announced[c] \cap snap[c] \subseteq added
       /\ ready => added = snap[c]
       /\ announced' = [announced EXCEPT ![c] = added \cup stale]
       /\ IF ready /\ stale = {} THEN NoFault ELSE Fault("route")
       /\ Goto(c, IF snap[c] = {} THEN "idle"
                  ELSE IF ready THEN "mark" ELSE "lead")
  /\ UNCHANGED <<nbVars, envVars, term, view, snap, plan, drainVars, hidden,
                 stops>>

(* MarkTakeoverReady: one transaction for the managed default routes of the   *)
(* snapshot's routers.                                                        *)
MarkTakeoverReady(c) ==
  /\ pc[c] = "mark"
  /\ Goto(c, "lead")
  /\ \/ /\ TxnSucceeds(c)
        /\ marker' = [r \in Router |->
             IF r \in localManagedDefaultRoutes(snap[c]) THEN c ELSE marker[r]]
     \/ /\ TxnFails(c, "txn")
        /\ UNCHANGED marker
  /\ UNCHANGED <<prio, tag, envVars, term, view, snap, announced, plan,
                 drainVars, hidden, stops>>

Peers(r, c) == Cand[r] \ {c}

(* c already leads r's HA group with a safe margin. *)
HasLead(r, c) ==
  /\ \A d \in Peers(r, c) : prio[r][d] < prio[r][c]
  /\ prio[r][c] >= minActivePriority

LeadPriority(r, c) ==
  Max({minActivePriority} \cup {prio[r][d] + 1 : d \in Peers(r, c)})

(* EnsureActivePriorityLead reads the rows from the NB cache and computes the *)
(* boosts.  What the others write from here on is not in them.  If the cache  *)
(* holds no own row, the server is asked, and a failing query ends the call.  *)
(* (A boost beyond the bound is left out for a port that is bound elsewhere:  *)
(* it would only wait for the confirmation to drop it.)                       *)
PlanPriorityLead(c) ==
  /\ pc[c] = "lead"
  /\ \/ /\ CachedRows(c) # {} \/ c \notin term
        /\ NoFault
        /\ plan' = [plan EXCEPT ![c] = [r \in Router |->
             IF /\ r \in snap[c] \cap SeenRows(c)
                /\ Peers(r, c) # {}
                /\ ~HasLead(r, c)
                /\ bound[r] \in {c, NoChassis} \/ LeadPriority(r, c) <= MaxPrio
             THEN LeadPriority(r, c) ELSE 0]]
        /\ plan'[c] \in [Router -> 0..MaxPrio]
        /\ Goto(c, "confirm")
     \/ /\ IF CachedRows(c) = {} /\ c \in term THEN NoFault ELSE Fault("nb")
        /\ Goto(c, "idle")
        /\ UNCHANGED plan
  /\ UNCHANGED <<nbVars, envVars, term, view, snap, announced, drainVars,
                 hidden, stops>>

(* The SB server confirms the bindings: no boost for a port that is bound to  *)
(* another chassis by now.  A failed query trusts the snapshot.               *)
ConfirmBinding(c) ==
  /\ pc[c] = "confirm"
  /\ Goto(c, "boost")
  /\ \/ /\ NoFault
        /\ plan' = [plan EXCEPT ![c] = [r \in Router |->
             IF bound[r] \in {c, NoChassis} THEN plan[c][r] ELSE 0]]
     \/ /\ IF c \in term THEN NoFault ELSE Fault("sb")
        /\ UNCHANGED plan
  /\ UNCHANGED <<nbVars, envVars, term, view, snap, announced, drainVars,
                 hidden, stops>>

(* One transaction with the boosts, written blindly. *)
BoostPriority(c) ==
  /\ pc[c] = "boost"
  /\ Goto(c, "idle")
  /\ plan' = [plan EXCEPT ![c] = NoPlan]
  /\ \/ /\ plan[c] = NoPlan
        /\ NoFault
        /\ UNCHANGED prio
     \/ /\ plan[c] # NoPlan
        /\ TxnSucceeds(c)
        /\ prio' = [r \in Router |->
             IF plan[c][r] > 0 THEN [prio[r] EXCEPT ![c] = plan[c][r]]
             ELSE prio[r]]
     \/ /\ plan[c] # NoPlan
        /\ TxnFails(c, "txn")
        /\ UNCHANGED prio
  /\ UNCHANGED <<tag, marker, envVars, term, view, snap, announced, drainVars,
                 hidden, stops>>

Reconcile(c) ==
  \/ TakeSnapshot(c)
  \/ EnsureGatewayRouting(c)
  \/ ensureRoutes(c)
  \/ MarkTakeoverReady(c)
  \/ PlanPriorityLead(c)
  \/ ConfirmBinding(c)
  \/ BoostPriority(c)

-----------------------------------------------------------------------------
(* Shutdown: drain, post-drain refresh, cleanup.  The refresh loop has ended, *)
(* so the state is frozen until the post-drain refresh.                       *)

(* The main loop sees the cancelled context. *)
Shutdown(c) ==
  /\ pc[c] = "idle"
  /\ c \in term
  /\ \E drain \in DrainModes : Goto(c, IF drain THEN "drain" ELSE "stop")
  /\ UNCHANGED <<nbVars, envVars, term, view, snap, announced, plan, drainVars,
                 hidden, faults, stops>>

drainCandidates(c) ==
  {r \in SeenRows(c) : prio[r][c] > 0} \ soleCandidatePorts(c)

(* DrainGateways, first half: all candidates go to priority 0 at once. *)
DrainGateways(c) ==
  /\ pc[c] = "drain"
  /\ \/ /\ drainCandidates(c) = {}
        /\ outcome' = [outcome EXCEPT ![c] = "noop"]
        /\ Goto(c, "refresh")
        /\ NoFault
        /\ UNCHANGED prio
     \/ /\ drainCandidates(c) # {}
        /\ Goto(c, "migrate")
        /\ NoFault
        /\ prio' = [r \in Router |->
             IF r \in drainCandidates(c) THEN [prio[r] EXCEPT ![c] = drainedPriority]
             ELSE prio[r]]
        /\ UNCHANGED outcome
     \/ /\ outcome' = [outcome EXCEPT ![c] = "error"]
        /\ Goto(c, "refresh")
        /\ \/ Fault("nb")
           \/ drainCandidates(c) # {} /\ Fault("txn")
        /\ UNCHANGED prio
  /\ UNCHANGED <<tag, marker, envVars, term, view, snap, announced, plan,
                 waiting, hidden, stops>>

(* The migration wait is over once no port but the sole candidates is bound   *)
(* here; awaitTakeoverReady then resolves the rows it waits for.  A row that  *)
(* the read misses is not waited for; a failed read leaves only the margin.   *)
MigrationDone(c) ==
  /\ pc[c] = "migrate"
  /\ LocalRouters(c) \subseteq soleCandidatePorts(c)
  /\ \/ /\ ~Settle
        /\ NoFault
        /\ Goto(c, "refresh")
        /\ outcome' = [outcome EXCEPT ![c] = "completed"]
        /\ UNCHANGED waiting
     \/ /\ Settle
        /\ LET rows == localManagedDefaultRoutes(view[c] \ soleCandidatePorts(c))
           IN  \E read \in SUBSET rows :
                 /\ IF read = rows THEN NoFault ELSE Fault("nb")
                 /\ waiting' = [waiting EXCEPT ![c] = read]
                 /\ Goto(c, IF read = {} THEN "margin" ELSE "await")
        /\ UNCHANGED outcome
  /\ UNCHANGED <<nbVars, envVars, term, view, snap, announced, plan, hidden,
                 stops>>

(* The query of the migration wait fails and ends the drain. *)
MigrationError(c) ==
  /\ pc[c] = "migrate"
  /\ Goto(c, "refresh")
  /\ outcome' = [outcome EXCEPT ![c] = "error"]
  /\ Fault("sb")
  /\ UNCHANGED <<nbVars, envVars, term, view, snap, announced, plan, waiting,
                 hidden, stops>>

(* The marker satisfies c's wait for r: it names another chassis. *)
anyMarkerSatisfies(r, c) == marker[r] # NoChassis  \* variant: the own one too
markerSatisfies(r, c) == marker[r] \notin {NoChassis, c}

(* Every row still waited for carries another chassis's marker.  A row that   *)
(* vanished has left waiting (see RemoveManagedNBEntries); to a read that     *)
(* misses rows they have vanished, and a failed read is repeated.             *)
takeoverMarkersReady(c) == \A r \in waiting[c] : markerSatisfies(r, c)

AwaitTakeoverReady(c) ==
  /\ pc[c] = "await"
  /\ IF takeoverMarkersReady(c) THEN NoFault ELSE Fault("nb")
  /\ Goto(c, "margin")
  /\ waiting' = [waiting EXCEPT ![c] = {}]
  /\ UNCHANGED <<nbVars, envVars, term, view, snap, announced, plan, outcome,
                 hidden, stops>>

holdSettleMargin(c) ==
  /\ pc[c] = "margin"
  /\ Goto(c, "refresh")
  /\ outcome' = [outcome EXCEPT ![c] = "completed"]
  /\ UNCHANGED <<nbVars, envVars, term, view, snap, announced, plan, waiting,
                 hidden, faults, stops>>

(* drain_timeout expires in one of the waits. *)
WaitsWithDeadline == {"migrate", "await", "margin"}
DrainTimeout(c) ==
  /\ "deadline" \in Faults
  /\ pc[c] \in WaitsWithDeadline
  /\ Goto(c, "refresh")
  /\ waiting' = [waiting EXCEPT ![c] = {}]
  /\ outcome' = [outcome EXCEPT ![c] = "timeout"]
  /\ UNCHANGED <<nbVars, envVars, term, view, snap, announced, plan, hidden,
                 faults, stops>>

(* Variant: the state stays frozen. *)
NoPostDrainRefresh(c) ==
  /\ pc[c] = "refresh"
  /\ Goto(c, "stop")
  /\ UNCHANGED <<nbVars, envVars, term, view, snap, announced, plan, drainVars,
                 hidden, faults, stops>>

PostDrainRefresh(c) ==
  /\ pc[c] = "refresh"
  /\ Goto(c, "stop")
  /\ \/ /\ view' = [view EXCEPT ![c] = LocalRouters(c)]
        /\ NoFault
     \/ /\ UNCHANGED view
        /\ Fault("refresh")
  /\ UNCHANGED <<nbVars, envVars, term, snap, announced, plan, drainVars,
                 hidden, stops>>

(* What a dead process leaves of its own state. *)
Exit(c) ==
  /\ Goto(c, "down")
  /\ term' = term \ {c}
  /\ snap' = [snap EXCEPT ![c] = {}]
  /\ plan' = [plan EXCEPT ![c] = NoPlan]
  /\ hidden' = [hidden EXCEPT ![c] = {}]
  /\ view' = [view EXCEPT ![c] = {}]

(* cleanup withdraws every route before it touches NB; without                *)
(* cleanup_on_shutdown the routes stay.                                       *)
Stop(c) ==
  /\ pc[c] = "stop"
  /\ \/ /\ TRUE \in CleanupModes
        /\ Goto(c, "nbclean")
        /\ announced' = [announced EXCEPT ![c] = {}]
        /\ UNCHANGED <<term, view, snap, plan, hidden>>
     \/ /\ FALSE \in CleanupModes
        /\ Exit(c)
        /\ UNCHANGED announced
  /\ UNCHANGED <<nbVars, envVars, drainVars, faults, stops>>

(* RemoveManagedNBEntries deletes the managed default routes of the routers   *)
(* the state calls local, whoever tagged them, in a transaction per router;   *)
(* no property relates two routers, so the transactions are one step.  One    *)
(* that fails is logged, a failing read ends the clean-up.  A deleted row     *)
(* leaves every wait set: takeoverMarkersReady counts it as satisfied.        *)
RemoveManagedNBEntries(c) ==
  /\ pc[c] = "nbclean"
  /\ Exit(c)
  /\ \E gone \in SUBSET localManagedDefaultRoutes(view[c]) :
       /\ IF gone = localManagedDefaultRoutes(view[c]) THEN NoFault
          ELSE Fault("nb") \/ Fault("txn")
       /\ tag' = [r \in Router |-> IF r \in gone THEN NoChassis ELSE tag[r]]
       /\ marker' = [r \in Router |->
            IF r \in gone THEN NoChassis ELSE marker[r]]
       /\ waiting' = [d \in Chassis |-> waiting[d] \ gone]
  /\ UNCHANGED <<prio, envVars, announced, outcome, stops>>

-----------------------------------------------------------------------------
(* The process dies: what it wrote to NB, FRR and the kernel stays. *)
Crash(c) ==
  /\ pc[c] # "down"
  /\ Exit(c)
  /\ waiting' = [waiting EXCEPT ![c] = {}]
  /\ Fault("crash")
  /\ UNCHANGED <<nbVars, envVars, announced, outcome, stops>>

(* The host dies: its BGP session and its ovn-controller are gone too. *)
HostFailure(c) ==
  /\ c \in ovnUp
  /\ Exit(c)
  /\ waiting' = [waiting EXCEPT ![c] = {}]
  /\ announced' = [announced EXCEPT ![c] = {}]
  /\ ovnUp' = ovnUp \ {c}
  /\ Fault("host")
  /\ UNCHANGED <<nbVars, bound, outcome, stops>>

(* The agent's own work: every step that is not a signal or a failure. *)
AgentStep(c) ==
  \/ Start(c)
  \/ RestoreDrainedGateways(c)
  \/ Reconcile(c)
  \/ Shutdown(c)
  \/ DrainGateways(c)
  \/ MigrationDone(c)
  \/ MigrationError(c)
  \/ AwaitTakeoverReady(c)
  \/ holdSettleMargin(c)
  \/ DrainTimeout(c)
  \/ PostDrainRefresh(c)
  \/ Stop(c)
  \/ RemoveManagedNBEntries(c)

Next ==
  \/ \E r \in Router : Elect(r) \/ TieFlap(r)
  \/ \E c \in Chassis :
       \/ AgentStep(c)
       \/ refreshState(c)
       \/ Sigterm(c)
       \/ OvnDown(c)
       \/ OvnUp(c)
       \/ Crash(c)
       \/ HostFailure(c)

Spec == Init /\ [][Next]_vars

(* OVN elects and recovers, processes are restarted and run, the refresh loop *)
(* catches up; the main loop's select picks among ready cases at random, so a *)
(* cancelled context is picked in the end although other cases are ready too. *)
Fairness ==
  /\ \A r \in Router : WF_vars(Elect(r))
  /\ \A c \in Chassis :
       /\ WF_vars(AgentStep(c))
       /\ WF_vars(refreshState(c))
       /\ WF_vars(OvnUp(c))
       /\ SF_vars(Shutdown(c))

FairSpec == Spec /\ Fairness

-----------------------------------------------------------------------------
(* PROPERTIES                                                                 *)

(* Once a router was ready on some chassis, some chassis announces its routes *)
(* at any time: a leaving agent withdraws (cleanup) only after the takeover   *)
(* agent announced (ensureRoutes, MarkTakeoverReady, takeoverMarkersReady).   *)
(* Sole candidates have nobody to hand over to.                               *)
AlwaysForwarded ==
  \A r \in Router :
    /\ marker[r] # NoChassis
    /\ Cardinality(Cand[r]) > 1
    => \E c \in Chassis : r \in announced[c]

(* A drain that the markers release (awaitTakeoverReady) leaves every router  *)
(* it announces and waited for announced by another chassis too: "external    *)
(* traffic is never withdrawn before the takeover node can forward it".       *)
TruthfulRelease ==
  [][\A c \in Chassis :
       pc[c] = "await" /\ pc'[c] = "margin" =>
         \A r \in waiting[c] \cap announced[c] :
           \E d \in Chassis \ {c} : r \in announced[d]]_vars

(* After a completed reconcile an active chassis leads each of its HA groups, *)
(* whatever its peers do afterwards: EnsureActivePriorityLead keeps it at     *)
(* least one above RestoreDrainedGateways.                                    *)
ActiveKeepsLead ==
  \A c \in Chassis : \A r \in snap[c] :
    /\ pc[c] = "idle"
    /\ c \notin term
    /\ bound[r] = c
    => \A d \in Peers(r, c) : prio[r][d] < prio[r][c]

(* The cleanup of a completed drain deletes no default route of a router that *)
(* has moved away: RemoveManagedNBEntries works on the post-drain state.      *)
CleanupSparesTakeover ==
  [][\A c \in Chassis :
       /\ pc[c] = "nbclean" /\ pc'[c] = "down"
       /\ outcome[c] = "completed"
       => \A r \in Router : tag[r] # tag'[r] => bound[r] = c]_vars

(* A chassis whose agent runs takes part in each of its HA groups: no row is  *)
(* left at the priority 0 of an earlier drain, whether that process finished  *)
(* its drain or died in it, and whatever its drain_on_shutdown was.           *)
RunningNotStranded ==
  \A c \in Chassis :
    pc[c] \in Reconciling /\ c \notin term =>
      \A r \in OwnRows(c) : prio[r][c] > 0

(* A marker is only ever written for routes the writer announces, although    *)
(* BGP, NB and the bindings may fail or change between the reconcile's steps. *)
MarkerAfterAnnounce ==
  [][\A r \in Router :
       marker'[r] \notin {marker[r], NoChassis} => r \in announced[marker'[r]]]_vars

(* A shutdown ends. *)
ShutdownEnds == \A c \in Chassis : c \in term ~> pc[c] = "down"

(* When the stops and faults are over, every router with a live candidate is  *)
(* owned, announced and marked by one running chassis.                        *)
Settled ==
  \A r \in Router \ External : \E c \in Cand[r] :
    /\ bound[r] = c
    /\ r \in announced[c]
    /\ marker[r] = c
    /\ \A d \in Chassis \ {c} : r \notin announced[d]
Converges == <>[]Settled
=============================================================================
