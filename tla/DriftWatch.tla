----------------------------- MODULE DriftWatch -----------------------------
(* The route watch of one agent (src/drift_watch.go, src/route_watch.go)      *)
(* beside the reconcile it triggers: which deletions count as drift, how they *)
(* become triggers, and what is seen of them while no subscription is open.   *)
(*                                                                            *)
(* The kernel reports the deletion of a route to an open subscription, the    *)
(* agent's own deletions included; the watch counts an event as drift if the  *)
(* route is owned when it takes the event.  A foreign replace takes the route *)
(* from the agent like a deletion does.  verifyRoutes, which runs in some     *)
(* cycles and re-adds what is still missing, is in RouteSync.                 *)
EXTENDS Integers, FiniteSets

CONSTANTS
  IP,
  Intents,        \* the sets of routes a reconcile may want
  Faults,         \* the kinds of fault that may happen
  MaxFaults,      \* bound: how many faults happen in a behaviour
  MaxChanges      \* bound: how often the intent changes

FaultKinds ==
  {"foreign",     \* another writer deletes a route
   "early",       \* one does before the watch has subscribed
   "subscribe",   \* a subscribe fails
   "ended",       \* a subscription ends and drops its events
   "list",        \* the listing of a cycle fails
   "add",         \* routes cannot be added, or are rolled back
   "del"}         \* routes cannot be removed

ASSUME ConstantsAssumption ==
  /\ Intents \subseteq SUBSET IP
  /\ Faults \subseteq FaultKinds
  /\ MaxFaults \in Nat /\ MaxChanges \in Nat

VARIABLES
  intent,      \* the routes OVN asks for
  routes,      \* agent-tagged routes in the kernel
  owned,       \* the ownership the last reconcile published
  pc,          \* the step of the reconcile
  want, cur,   \* the routes this reconcile wants and found
  left,        \* what the last reconcile failed to change, nobody being told
  trigger,     \* reconcileCh
  watch,       \* the subscription
  events,      \* notifications on their way: the address, and who deleted it
  timer,       \* the drift timer is armed
  recent,      \* the last trigger is less than driftMinInterval ago
  outage,      \* the watch has lost, and not regained, its subscription
  faults, changes

cycleVars == <<pc, want, cur, left, owned>>
watchVars == <<watch, timer, recent, outage>>
vars == <<intent, routes, owned, pc, want, cur, left, trigger, watch, events, timer,
          recent, outage, faults, changes>>

Writers == {"agent", "other"}

TypeOK ==
  /\ intent \in Intents /\ want \in Intents /\ owned \in SUBSET IP
  /\ routes \in SUBSET IP /\ cur \in SUBSET IP /\ left \in SUBSET IP
  /\ pc \in {"startup", "idle", "list", "add", "remove"}
  /\ trigger \in BOOLEAN
  /\ watch \in {"off", "first", "open", "backoff", "again"}
  /\ events \in SUBSET (IP \X Writers)
  /\ watch # "open" => events = {} /\ ~timer
  /\ timer \in BOOLEAN /\ recent \in BOOLEAN /\ outage \in BOOLEAN
  /\ faults \in 0..MaxFaults /\ changes \in 0..MaxChanges

Init ==
  /\ intent \in Intents /\ want = intent
  /\ routes \in SUBSET IP
  /\ owned = {} /\ cur = {} /\ left = {}
  /\ pc = "startup"
  /\ trigger = FALSE
  /\ watch = "off" /\ events = {}
  /\ timer = FALSE /\ recent = FALSE /\ outage = FALSE
  /\ faults = 0 /\ changes = 0

Fault(kind) ==
  /\ kind \in Faults
  /\ faults < MaxFaults
  /\ faults' = faults + 1

FaultUnless(fine, kind) == IF fine THEN UNCHANGED faults ELSE Fault(kind)

(* Deletions reach the subscription that is open. *)
Notify(ips, writer) ==
  events' = IF watch = "open" THEN events \cup (ips \X {writer}) ELSE events

-----------------------------------------------------------------------------
(* OVN and the other writers. *)

(* Changes come after the startup reconcile; OVNRefresh has the start. *)
ChangeIntent ==
  /\ watch # "off"
  /\ changes < MaxChanges
  /\ changes' = changes + 1
  /\ intent' \in Intents \ {intent}
  /\ trigger' = TRUE
  /\ UNCHANGED <<routes, cycleVars, events, watchVars, faults>>

ForeignDelete(ip) ==
  /\ ip \in routes
  /\ routes' = routes \ {ip}
  /\ Notify({ip}, "other")
  /\ Fault(IF watch \in {"off", "first"} THEN "early" ELSE "foreign")
  /\ UNCHANGED <<intent, cycleVars, trigger, watchVars, changes>>

-----------------------------------------------------------------------------
(* The reconcile: it publishes what it owns, lists, adds what is missing and  *)
(* removes what is stale.                                                     *)

(* Variant: the ownership is published when the routes are in place. *)
BeginUnpublished ==
  /\ pc = "startup" \/ (pc = "idle" /\ trigger)
  /\ pc' = "list"
  /\ trigger' = FALSE
  /\ want' = intent
  /\ owned' = cur
  /\ left' = {}
  /\ UNCHANGED <<intent, routes, cur, events, watchVars, faults, changes>>

BeginReconcile ==
  /\ pc = "startup" \/ (pc = "idle" /\ trigger)
  /\ pc' = "list"
  /\ trigger' = FALSE
  /\ want' = intent
  /\ owned' = intent
  /\ left' = {}
  /\ UNCHANGED <<intent, routes, cur, events, watchVars, faults, changes>>

(* A failed listing counts as an empty one: every wanted route is replaced,   *)
(* no stale one is found.                                                     *)
ListRoutes ==
  /\ pc = "list"
  /\ pc' = "add"
  /\ \/ cur' = routes /\ left' = left /\ UNCHANGED faults
     \/ cur' = {} /\ left' = routes \ want /\ Fault("list")
  /\ UNCHANGED <<intent, routes, owned, want, trigger, events, watchVars, changes>>

(* AddKernelRoute for what is missing: the replace of a route may be refused, *)
(* and a route whose ip rule fails is deleted again (rolledBack), which an    *)
(* open subscription hears of.                                                *)
AddRoutes ==
  /\ pc = "add"
  /\ pc' = "remove"
  /\ LET missing == want \ cur
     IN \E refused \in SUBSET missing : \E rolledBack \in SUBSET (missing \ refused) :
          /\ routes' = (routes \cup (missing \ refused)) \ rolledBack
          /\ Notify(rolledBack, "agent")
          /\ left' = left \cup (refused \ routes)
                          \cup (IF watch \in {"off", "first"} THEN rolledBack ELSE {})
          /\ FaultUnless(refused \cup rolledBack = {}, "add")
  /\ UNCHANGED <<intent, owned, want, cur, trigger, watchVars, changes>>

(* The watch starts after the startup reconcile. *)
RemoveRoutes ==
  /\ pc = "remove"
  /\ pc' = "idle"
  /\ LET stale == routes \cap (cur \ want)
     IN \E kept \in SUBSET stale :
          /\ routes' = routes \ (stale \ kept)
          /\ Notify(stale \ kept, "agent")
          /\ left' = left \cup kept
          /\ FaultUnless(kept = {}, "del")
  /\ watch' = IF watch = "off" THEN "first" ELSE watch
  /\ UNCHANGED <<intent, owned, want, cur, trigger, timer, recent, outage, changes>>

-----------------------------------------------------------------------------
(* driftWatcher.run and consume. *)

(* Variant: a watch that is back says nothing. *)
SubscribeSilently ==
  /\ watch \in {"first", "again"}
  /\ watch' = "open"
  /\ outage' = FALSE
  /\ UNCHANGED <<intent, routes, cycleVars, trigger, events, timer, recent, faults,
                 changes>>

Subscribe ==
  /\ watch \in {"first", "again"}
  /\ watch' = "open"
  /\ outage' = FALSE
  /\ trigger' = (trigger \/ outage)
  /\ recent' = (recent \/ outage)
  /\ UNCHANGED <<intent, routes, cycleVars, events, timer, faults, changes>>

SubscribeFails ==
  /\ watch \in {"first", "again"}
  /\ watch' = "backoff"
  /\ outage' = TRUE
  /\ Fault("subscribe")
  /\ UNCHANGED <<intent, routes, cycleVars, trigger, events, timer, recent, changes>>

BackoffOver ==
  /\ watch = "backoff"
  /\ watch' = "again"
  /\ UNCHANGED <<intent, routes, cycleVars, trigger, events, timer, recent, outage,
                 faults, changes>>

(* Variant: the pending timer outlives the subscription. *)
SubscriptionEndsArmed ==
  /\ watch = "open"
  /\ watch' = "backoff"
  /\ events' = {}
  /\ outage' = TRUE
  /\ Fault("ended")
  /\ UNCHANGED <<intent, routes, cycleVars, trigger, timer, recent, changes>>

(* A pending trigger does not wait for its timer when the subscription ends.  *)
SubscriptionEnds ==
  /\ watch = "open"
  /\ watch' = "backoff"
  /\ events' = {}
  /\ outage' = TRUE
  /\ timer' = FALSE
  /\ trigger' = (trigger \/ timer)
  /\ recent' = (recent \/ timer)
  /\ Fault("ended")
  /\ UNCHANGED <<intent, routes, cycleVars, changes>>

drift(e) == e[1] \in owned

(* Drift arms the timer; what arrives while it is pending rides along. *)
TakeEvent(e) ==
  /\ e \in events
  /\ events' = events \ {e}
  /\ timer' = (timer \/ drift(e))
  /\ UNCHANGED <<intent, routes, cycleVars, trigger, watch, recent, outage, faults,
                 changes>>

(* The timer is set so that it fires driftMinInterval after the last trigger  *)
(* at the earliest.                                                           *)
FireTrigger ==
  /\ timer /\ ~recent
  /\ timer' = FALSE
  /\ recent' = TRUE
  /\ trigger' = TRUE
  /\ UNCHANGED <<intent, routes, cycleVars, events, watch, outage, faults, changes>>

MinIntervalOver ==
  /\ recent
  /\ recent' = FALSE
  /\ UNCHANGED <<intent, routes, cycleVars, trigger, events, watch, timer, outage,
                 faults, changes>>

Cycle == BeginReconcile \/ ListRoutes \/ AddRoutes \/ RemoveRoutes

Watch ==
  \/ Subscribe \/ SubscribeFails \/ BackoffOver \/ SubscriptionEnds
  \/ \E e \in events : TakeEvent(e)
  \/ FireTrigger

Next ==
  \/ ChangeIntent
  \/ \E ip \in IP : ForeignDelete(ip)
  \/ Cycle
  \/ Watch
  \/ MinIntervalOver

Spec == Init /\ [][Next]_vars

(* The reconcile and the watch run on their goroutines, time passes.  There   *)
(* is no periodic reconcile: the watch is there not to wait for it.           *)
FairSpec ==
  Spec /\ WF_vars(Cycle) /\ WF_vars(Watch) /\ WF_vars(MinIntervalOver)

-----------------------------------------------------------------------------
(* PROPERTIES                                                                 *)

(* An owned route that is missing is on its way back: this reconcile is yet   *)
(* to add it, or the deletion, the timer, the trigger or the end of an outage *)
(* will bring another one; only a route the last cycle itself could not add   *)
(* waits for the next.  It is what lets the watch replace the periodic        *)
(* reconcile (drift_watch.go, setOwned).                                      *)
YetToAdd(ip) == pc = "list" \/ (pc = "add" /\ ip \notin cur)
NothingUnseen ==
  watch \notin {"off", "first"} =>
    \A ip \in owned \ routes :
      \/ YetToAdd(ip)
      \/ \E w \in Writers : <<ip, w>> \in events
      \/ timer \/ trigger \/ outage
      \/ ip \in left

(* When the faults and changes are over, the kernel has the routes that are   *)
(* wanted, without any periodic reconcile: only what the last cycle itself    *)
(* failed to add or to remove is left to that one.                            *)
Repaired ==
  <>[](\A ip \in IP : (ip \in routes <=> ip \in intent) \/ ip \in left)
=============================================================================
