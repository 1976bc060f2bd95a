---------------------------- MODULE StaleChassis ----------------------------
(* The managed default routes and MAC bindings in the NB database, written by *)
(* the agents of all chassis (src/ovn_gateway.go), and the cleanup in which   *)
(* every surviving agent removes what a vanished chassis left                 *)
(* (src/agent.go, cleanupStaleChassis).                                       *)
(*                                                                            *)
(* The agents share nothing but the database.  Each reads rows in one step    *)
(* and writes what it derived from them in a later one, so another agent's    *)
(* write, or the return of the chassis, may come between.                     *)
EXTENDS Naturals, FiniteSets, Functions

CONSTANTS
  Chassis,
  Router,         \* logical routers, each with one external port
  RowId,          \* bound: identities of Logical_Router_Static_Route rows
  NoChassis,
  Gone,           \* the chassis that were lost before the start
  Faults,         \* the kinds of fault that may happen
  MaxFaults,      \* bound: how many faults happen in a behaviour
  MaxMoves        \* bound: how often chassis leave, return, or lose a gateway

FaultKinds ==
  {"txn",         \* a transaction fails
   "cache",       \* a plain cache listing misses the router's route
   "list",        \* a listing fails
   "restart"}     \* an agent restarts, its tracker is lost

ASSUME ConstantsAssumption ==
  /\ NoChassis \notin Chassis /\ Gone \subseteq Chassis
  /\ Faults \subseteq FaultKinds
  /\ MaxFaults \in Nat /\ MaxMoves \in Nat

VARIABLES
  up,          \* the chassis that have a record in the SB database
  bound,       \* the chassis each router's gateway port is bound to
  row,         \* the managed default routes: router, chassis tag, marker
  mac,         \* whose MAC the static binding of the virtual gateway IP holds
  pc,          \* the step of each agent's reconcile
  view,        \* AllChassisNames and LocalRouters of its snapshot
  todo,        \* the routers the present loop has yet to handle
  copies,      \* the rows it read, and has yet to write or to delete
  missing,     \* missingChassis: when a chassis was first seen absent
  stale,       \* the chassis this cleanup removes
  waited,      \* history: absences that outlasted the grace period
  faults, moves

nbVars == <<row, mac>>
envVars == <<up, bound, moves>>
trackVars == <<missing, stale, waited>>
vars == <<up, bound, row, mac, pc, view, todo, copies, missing, stale, waited,
          faults, moves>>

NoRow == [router |-> NoChassis, tag |-> NoChassis, ready |-> NoChassis]
Rows == [router : Router, tag : Chassis, ready : Chassis \cup {NoChassis}]
Phases == {"off", "idle", "route", "write", "mark", "stamp", "scan",
           "list", "delete", "unbind"}

TypeOK ==
  /\ up \in SUBSET Chassis
  /\ bound \in [Router -> Chassis]
  /\ row \in [RowId -> Rows \cup {NoRow}]
  /\ mac \in [Router -> Chassis \cup {NoChassis}]
  /\ pc \in [Chassis -> Phases]
  /\ view \in [Chassis -> [all : SUBSET Chassis, local : SUBSET Router]]
  /\ todo \in [Chassis -> SUBSET Router]
  /\ copies \in [Chassis -> SUBSET (RowId \X Rows)]
  /\ missing \in [Chassis -> [Chassis -> {"no", "new", "old"}]]
  /\ stale \in [Chassis -> SUBSET Chassis]
  /\ \A x \in Chassis : pc[x] = "delete" =>
       \A d \in copies[x] : d[2].tag \in stale[x]
  /\ waited \in [Chassis -> SUBSET Chassis]
  /\ faults \in 0..MaxFaults /\ moves \in 0..MaxMoves

NoView == [all |-> {}, local |-> {}]

(* A fresh deployment, or a running one whose lost chassis left routes, have  *)
(* been missing for long, and may be back just now.                           *)
Init ==
  /\ up \in {Chassis, Chassis \ Gone}
  /\ bound \in [Router -> Chassis]
  /\ \/ row = [u \in RowId |-> NoRow] /\ mac = [r \in Router |-> NoChassis]
     \/ \E tag \in [Router -> Chassis] :
          /\ row = LET id == CHOOSE id \in [Router -> RowId] : IsInjective(id) IN
             [u \in RowId |-> IF \E r \in Router : id[r] = u
                THEN LET r == CHOOSE r \in Router : id[r] = u
                     IN  [router |-> r, tag |-> tag[r], ready |-> tag[r]]
                ELSE NoRow]
          /\ mac = tag
  /\ pc = [x \in Chassis |-> IF x \in Gone THEN "off" ELSE "idle"]
  /\ view = [x \in Chassis |-> NoView]
  /\ todo = [x \in Chassis |-> {}]
  /\ copies = [x \in Chassis |-> {}]
  /\ missing = [x \in Chassis |-> [c \in Chassis |->
       IF c \in Gone /\ x \notin Gone THEN "old" ELSE "no"]]
  /\ waited = [x \in Chassis |-> IF x \in Gone THEN {} ELSE Gone]
  /\ stale = [x \in Chassis |-> {}]
  /\ faults = 0 /\ moves = 0

Set(f, x, value) == [f EXCEPT ![x] = value]
Goto(x, phase) == pc' = Set(pc, x, phase)
NoFault == UNCHANGED faults
Fault(kind) ==
  /\ kind \in Faults
  /\ faults < MaxFaults
  /\ faults' = faults + 1
Move ==
  /\ moves < MaxMoves
  /\ moves' = moves + 1

Existing == {u \in RowId : row[u] # NoRow}
RowsOf(r) == {u \in Existing : row[u].router = r}
Copy(S) == {<<u, row[u]>> : u \in S}

-----------------------------------------------------------------------------
(* The environment. *)

AgentReset(x, phase) ==
  /\ Goto(x, phase)
  /\ view' = Set(view, x, NoView)
  /\ todo' = Set(todo, x, {})
  /\ copies' = Set(copies, x, {})
  /\ stale' = Set(stale, x, {})
  /\ missing' = Set(missing, x, [c \in Chassis |-> "no"])
  /\ waited' = Set(waited, x, {})

AgentKept == UNCHANGED <<pc, view, todo, copies, trackVars>>

(* A node is lost, or its ovn-controller is stopped under a running agent.    *)
Leave(c) ==
  /\ c \in up
  /\ up' = up \ {c}
  /\ Move
  /\ \/ AgentReset(c, "off")
     \/ AgentKept
  /\ UNCHANGED <<bound, nbVars, faults>>

Return(c) ==
  /\ c \notin up
  /\ up' = up \cup {c}
  /\ Move
  /\ AgentKept
  /\ UNCHANGED <<bound, nbVars, faults>>

AgentStart(c) ==
  /\ pc[c] = "off" /\ c \in up
  /\ AgentReset(c, "idle")
  /\ Move
  /\ UNCHANGED <<up, bound, nbVars, faults>>

(* OVN moves a gateway off a chassis that is gone, or for its own reasons.    *)
Rebind(r) ==
  /\ \E c \in up \ {bound[r]} : bound' = Set(bound, r, c)
  /\ IF bound[r] \in up THEN Move ELSE UNCHANGED moves
  /\ AgentKept
  /\ UNCHANGED <<up, nbVars, faults>>

AgentRestart(x) ==
  /\ pc[x] # "off"
  /\ Fault("restart")
  /\ AgentReset(x, "idle")
  /\ UNCHANGED <<envVars, nbVars>>

(* StaleChassisGracePeriod and the agent's jitter have passed.                *)
GraceOver(x, c) ==
  /\ missing[x][c] = "new"
  /\ missing' = [missing EXCEPT ![x][c] = "old"]
  /\ waited' = Set(waited, x, waited[x] \cup {c})
  /\ UNCHANGED <<envVars, nbVars, pc, view, todo, copies, stale, faults>>

-----------------------------------------------------------------------------
(* reconcile: the gateway routing of the local routers. *)

NextRouter(S) == CHOOSE r \in S : TRUE
AfterRouter(x) ==
  LET rest == todo[x] \ {NextRouter(todo[x])}
  IN  /\ todo' = Set(todo, x, rest)
      /\ Goto(x, IF rest = {} THEN "mark" ELSE "route")

TakeSnapshot(x) ==
  /\ pc[x] = "idle"
  /\ LET local == {r \in Router : bound[r] = x /\ x \in up}
     IN  /\ view' = Set(view, x, [all |-> up, local |-> local])
         /\ todo' = Set(todo, x, local)
         /\ Goto(x, IF local = {} THEN "scan" ELSE "route")
  /\ UNCHANGED <<envVars, nbVars, copies, trackVars, faults>>

(* Variant: a binding that exists is left as it is. *)
BindingOnlyCreated(x) ==
  LET r == NextRouter(todo[x])
  IN  \/ /\ mac' = IF mac[r] = NoChassis THEN Set(mac, r, x) ELSE mac
         /\ NoFault
      \/ mac[r] # x /\ Fault("txn") /\ UNCHANGED mac

(* One write of the binding; it follows the route of its router.              *)
ensureStaticMACBinding(x) ==
  LET r == NextRouter(todo[x])
  IN  \/ mac' = Set(mac, r, x) /\ NoFault
      \/ mac[r] # x /\ Fault("txn") /\ UNCHANGED mac

(* What ensureDefaultRoute finds: it takes the first default route of the     *)
(* router, and a route with its own tag is left as it is.                     *)
FindDefaultRoute(x) ==
  /\ pc[x] = "route"
  /\ LET found == RowsOf(NextRouter(todo[x]))
     IN  \/ /\ IF found = {} THEN NoFault ELSE Fault("cache")
            /\ copies' = Set(copies, x, {})
            /\ Goto(x, "write")
            /\ UNCHANGED <<mac, todo>>
         \/ \E u \in found :
              IF row[u].tag = x
                THEN /\ ensureStaticMACBinding(x)
                     /\ AfterRouter(x)
                     /\ UNCHANGED copies
                ELSE /\ copies' = Set(copies, x, Copy({u}))
                     /\ Goto(x, "write")
                     /\ NoFault
                     /\ UNCHANGED <<mac, todo>>
  /\ UNCHANGED <<envVars, row, view, trackVars>>

(* A row identity is not used again while someone remembers it.              *)
Remembered == {d[1] : d \in UNION {copies[x] : x \in Chassis}}
NewId == CHOOSE u \in RowId : u \notin Existing \cup Remembered

(* The row as one transaction leaves it: an update writes the whole map, and  *)
(* an update of a row that is gone changes nothing.                           *)
Retag(x, d) == IF d[1] \in Existing
                 THEN Set(row, d[1], [d[2] EXCEPT !.tag = x]) ELSE row
Create(x, r, u) == Set(row, u, [router |-> r, tag |-> x, ready |-> NoChassis])

WriteDefaultRoute(x) ==
  /\ pc[x] = "write"
  /\ \/ /\ \/ \E d \in copies[x] : row' = Retag(x, d)
           \/ /\ copies[x] = {}
              /\ RowId \ (Existing \cup Remembered) # {}
              /\ row' = Create(x, NextRouter(todo[x]), NewId)
        /\ ensureStaticMACBinding(x)
     \/ Fault("txn") /\ UNCHANGED <<row, mac>>
  /\ AfterRouter(x)
  /\ copies' = Set(copies, x, {})
  /\ UNCHANGED <<envVars, view, trackVars>>

(* MarkTakeoverReady lists through the guard, then writes all in one go.      *)
FindUnmarked(x) ==
  /\ pc[x] = "mark"
  /\ LET S == {u \in Existing : /\ row[u].router \in view[x].local
                                /\ row[u].ready # x}
     IN  /\ copies' = Set(copies, x, Copy(S))
         /\ Goto(x, IF S = {} THEN "scan" ELSE "stamp")
  /\ NoFault
  /\ UNCHANGED <<envVars, nbVars, view, todo, trackVars>>

Stamp(x) == [u \in RowId |->
  IF \E d \in copies[x] : d[1] = u /\ u \in Existing
    THEN [(CHOOSE d \in copies[x] : d[1] = u)[2] EXCEPT !.ready = x]
    ELSE row[u]]

MarkTakeoverReady(x) ==
  /\ pc[x] = "stamp"
  /\ \/ row' = Stamp(x) /\ NoFault
     \/ Fault("txn") /\ UNCHANGED row
  /\ copies' = Set(copies, x, {})
  /\ Goto(x, "scan")
  /\ UNCHANGED <<envVars, mac, view, todo, trackVars>>

-----------------------------------------------------------------------------
(* reconcile: cleanupStaleChassis and CleanupStaleChassisManagedEntries. *)

(* The cycle is over; what it read is forgotten.                              *)
EndCycle(x) ==
  /\ Goto(x, "idle")
  /\ view' = Set(view, x, NoView)
  /\ todo' = Set(todo, x, {})
  /\ copies' = Set(copies, x, {})
  /\ stale' = Set(stale, x, {})

ListManagedRouteChassis == {row[u].tag : u \in Existing}

(* Variant: a chassis that is back stays tracked. *)
TrackNeverCleared(x) == [c \in Chassis |->
  IF c \notin ListManagedRouteChassis THEN "no"
  ELSE IF c \in view[x].all THEN missing[x][c]
  ELSE IF missing[x][c] = "no" THEN "new" ELSE missing[x][c]]

(* Variant: every look starts the grace period again. *)
TrackFromLastLook(x) == [c \in Chassis |->
  IF c \in view[x].all \/ c \notin ListManagedRouteChassis THEN "no" ELSE "new"]

(* missingChassis after a look: what has returned and what no route refers to *)
(* any more is dropped, what is newly missing is added.                       *)
Track(x) == [c \in Chassis |->
  IF c \in view[x].all \/ c \notin ListManagedRouteChassis THEN "no"
  ELSE IF missing[x][c] = "no" THEN "new" ELSE missing[x][c]]

Scan(x) ==
  /\ pc[x] = "scan"
  /\ \/ /\ NoFault
        /\ missing' = Set(missing, x, Track(x))
        /\ waited' = Set(waited, x, waited[x] \ view[x].all)
        /\ LET S == {c \in Chassis : Track(x)[c] = "old"}
           IN  IF S = {} THEN EndCycle(x)
               ELSE /\ Goto(x, "list")
                    /\ stale' = Set(stale, x, S)
                    /\ UNCHANGED <<view, todo, copies>>
     \/ Fault("list") /\ EndCycle(x) /\ UNCHANGED <<missing, waited>>
  /\ UNCHANGED <<envVars, nbVars>>

(* Variant: every other chassis is taken for stale. *)
OthersRows(x) == {u \in Existing : row[u].tag # x}

(* The routes to delete, and the ports nobody alive has a route on.           *)
StaleRows(x) == {u \in Existing : row[u].tag \in stale[x]}
liveOutputPorts(x) == {row[u].router : u \in Existing \ StaleRows(x)}
staleBindingKeys(x) == {row[u].router : u \in StaleRows(x)} \ liveOutputPorts(x)

ListStale(x) ==
  /\ pc[x] = "list"
  /\ \/ /\ NoFault
        /\ copies' = Set(copies, x, Copy(StaleRows(x)))
        /\ todo' = Set(todo, x, staleBindingKeys(x))
        /\ Goto(x, "delete")
        /\ UNCHANGED <<view, stale>>
     \/ Fault("list") /\ EndCycle(x)
  /\ UNCHANGED <<envVars, nbVars, missing, waited>>

(* One transaction per route; a failed one is logged and passed over.         *)
DeleteStaleRoute(x) ==
  /\ pc[x] = "delete"
  /\ \E d \in copies[x] :
       /\ copies' = Set(copies, x, copies[x] \ {d})
       /\ \/ row' = Set(row, d[1], NoRow) /\ NoFault
          \/ Fault("txn") /\ UNCHANGED row
  /\ UNCHANGED <<envVars, mac, pc, view, todo, trackVars>>

(* The bindings are listed and deleted; only then the chassis are forgotten.  *)
(* A failed listing keeps them tracked.                                       *)
Forget(x) == [c \in Chassis |-> IF c \in stale[x] THEN "no" ELSE missing[x][c]]

DeleteStaleBindings(x) ==
  /\ pc[x] = "delete" /\ copies[x] = {}
  /\ \/ /\ mac' = [r \in Router |-> IF r \in todo[x] THEN NoChassis ELSE mac[r]]
        /\ NoFault
        /\ missing' = Set(missing, x, Forget(x))
     \/ /\ todo[x] # {}
        /\ Fault("txn")
        /\ missing' = Set(missing, x, Forget(x))
        /\ UNCHANGED mac
     \/ /\ todo[x] # {}
        /\ Fault("list")
        /\ UNCHANGED <<mac, missing>>
  /\ EndCycle(x)
  /\ UNCHANGED <<envVars, row, waited>>

Reconcile(x) ==
  \/ TakeSnapshot(x) \/ FindDefaultRoute(x) \/ WriteDefaultRoute(x)
  \/ FindUnmarked(x) \/ MarkTakeoverReady(x)
  \/ Scan(x) \/ ListStale(x) \/ DeleteStaleRoute(x) \/ DeleteStaleBindings(x)

Next ==
  \/ \E c \in Chassis : Leave(c) \/ Return(c) \/ AgentStart(c) \/ AgentRestart(c)
  \/ \E r \in Router : Rebind(r)
  \/ \E x, c \in Chassis : GraceOver(x, c)
  \/ \E x \in Chassis : Reconcile(x)

Spec == Init /\ [][Next]_vars

(* Agents reconcile periodically, grace periods pass, and OVN moves a gateway *)
(* off a lost chassis.                                                        *)
FairSpec ==
  /\ Spec
  /\ \A x \in Chassis : WF_vars(Reconcile(x))
  /\ \A x, c \in Chassis : WF_vars(GraceOver(x, c))
  /\ \A r \in Router : WF_vars(Rebind(r) /\ bound[r] \notin up)

-----------------------------------------------------------------------------
(* PROPERTIES                                                                 *)

(* A chassis whose routes an agent deletes has been absent for a whole grace  *)
(* period since that agent last saw it: an earlier absence does not count     *)
(* (agent.go, the tracker is cleared when a chassis is back).                 *)
WaitsOutGrace == [][\A x \in Chassis : stale[x]' \subseteq waited[x]']_vars

(* A running gateway ends up with its route, its MAC and its marker, whatever *)
(* other agents deleted or overwrote meanwhile (EnsureGatewayRouting,         *)
(* MarkTakeoverReady, against the cleanup of its returned or former owner).   *)
OwnerServed ==
  <>[](\A r \in Router : pc[bound[r]] # "off" /\ bound[r] \in up =>
         /\ mac[r] = bound[r]
         /\ \E u \in RowsOf(r) : row[u].tag = bound[r] /\ row[u].ready = bound[r])

(* The routes of a chassis that stays away are removed, failed transactions,  *)
(* agents that restart and other agents at the same work notwithstanding, as  *)
(* long as an agent runs (cleanupStaleChassis).                               *)
StaleRemoved ==
  (\E x \in Chassis : []<>(pc[x] = "idle")) =>
    <>[](\A u \in Existing : row[u].tag \in up)
=============================================================================
