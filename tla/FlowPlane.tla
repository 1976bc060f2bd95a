------------------------------ MODULE FlowPlane ------------------------------
(* The two flow planes the agent keeps on the provider bridge (src/ovs.go):   *)
(* a MAC-tweak flow per patch port and a hairpin flow per local address, both *)
(* bound to OpenFlow port numbers that ovn-controller changes at will; and    *)
(* what the flow watch (src/flow_watch.go) sees of them.                      *)
(*                                                                            *)
(* Every step of a reconcile is a command of its own, between which other     *)
(* writers, ovn-controller and ovs-vswitchd act.  The watch's debounce and    *)
(* backoff are those of DriftWatch and left out here.                         *)
EXTENDS Naturals, FiniteSets

CONSTANTS
  Segment,       \* localnet segments, Unresolved possibly among them
  Vlan,          \* those with a VLAN tag
  Unresolved,    \* the key of routers whose segment is not known
  Bridge,        \* the bridge device; a VLAN has a device of its own
  IP,
  Router, None,
  SegOf,         \* the segment each address is on
  Intents,       \* what a reconcile may want: segments, and a router per address
  Late,          \* segments whose patch port comes and goes
  Faults,        \* the kinds of fault that may happen
  MaxFaults,     \* bound: how many faults happen in a behaviour
  MaxChanges     \* bound: how often the intent, a port or the process changes

FaultKinds ==
  {"foreign",            \* another writer deletes a flow
   "restart",            \* ovs-vswitchd restarts with an empty flow table
   "downgrade",          \* ovs-ofctl no longer supports bundles
   "crash",              \* the agent dies and starts again
   "discover", "vlan",   \* a discovery command, a VLAN interface fails
   "dump", "add",
   "del",                \* a stale flow cannot be deleted
   "clear"}              \* the flows of a plane cannot be removed at shutdown

ASSUME ConstantsAssumption ==
  /\ IsFiniteSet(Segment) /\ Vlan \subseteq Segment \ {Unresolved}
  /\ Bridge \notin Segment /\ None \notin Router /\ None \notin IP
  /\ SegOf \in [IP -> Segment]
  /\ Intents \subseteq [segs : SUBSET Segment, owner : [IP -> Router \cup {None}]]
  /\ Late \subseteq Segment \ {Unresolved}
  /\ Faults \subseteq FaultKinds
  /\ MaxFaults \in Nat /\ MaxChanges \in Nat

VARIABLES
  intent,      \* the segments and hairpin targets OVN asks for
  port,        \* OpenFlow port of each segment's patch port, 0 if there is none
  flows,       \* the flows with an agent cookie on the bridge
  ofctl,       \* whether the wrapper forwards stdin, whether bundles work
  segs,        \* rm.segments
  bundleOK,    \* ofctlBundleOK is cached
  owned,       \* the keys the flow watch counts as the agent's, per plane
  pc, plane,   \* the step of the reconcile and the plane it is at
  goal, cur,   \* what this reconcile wants, and found and has not dealt with
  failed,      \* history: planes whose last reconcile returned early
  trigger,     \* reconcileCh
  watch,       \* the subscription
  events,      \* deletions on their way to it
  faults, changes

bridgeVars == <<port, ofctl>>
agentVars == <<segs, bundleOK, owned, pc, plane, goal, cur, failed>>
watchVars == <<watch, events, trigger>>
boundVars == <<faults, changes>>
vars == <<intent, flows, bridgeVars, agentVars, watchVars, boundVars>>

Planes == {"mactweak", "hairpin"}
Ports == 0..(MaxChanges + Cardinality(Segment))
NoBinding == [patch |-> None, of |-> 0, dev |-> None, tagged |-> FALSE]
Keys == [plane : Planes, of : Ports, dst : IP \cup {None}]
Flows == [key : Keys, dev : Segment \cup {Bridge}, router : Router \cup {None}]

TypeOK ==
  /\ intent \in Intents /\ goal \in Intents
  /\ port \in [Segment -> Ports]
  /\ flows \in SUBSET Flows /\ cur \in SUBSET Flows
  /\ \A f, g \in flows : f.key = g.key => f = g
  /\ ofctl \in [stdin : BOOLEAN, bundle : BOOLEAN]
  /\ segs \in [Segment -> [patch : Segment \cup {None}, of : Ports,
                           dev : Segment \cup {Bridge, None}, tagged : BOOLEAN]]
  /\ bundleOK \in BOOLEAN
  /\ owned \in [Planes -> SUBSET Keys]
  /\ \A p \in Planes : \A k \in owned[p] : k.plane = p
  /\ pc \in {"down", "idle", "segs", "own", "dump", "add", "del", "rm"}
  /\ plane \in Planes
  /\ failed \in SUBSET Planes
  /\ trigger \in BOOLEAN
  /\ watch \in {"first", "open", "lost"}
  /\ events \in SUBSET Keys
  /\ faults \in 0..MaxFaults /\ changes \in 0..MaxChanges

Unbound == [s \in Segment |-> NoBinding]

(* Which number a port has does not matter, only that no two have the same.   *)
FirstPort == CHOOSE num \in [Segment -> 1..Cardinality(Segment)] :
               \A s, t \in Segment : num[s] = num[t] => s = t

(* The agent starts on a bridge without agent flows, beside patch ports.      *)
Init ==
  /\ intent \in Intents /\ goal = intent
  /\ \E gone \in SUBSET Late :
       port = [s \in Segment |-> IF s \in gone \cup {Unresolved} THEN 0 ELSE FirstPort[s]]
  /\ flows = {} /\ cur = {}
  /\ ofctl \in [stdin : BOOLEAN, bundle : BOOLEAN]
  /\ segs = Unbound /\ bundleOK = FALSE
  /\ owned = [p \in Planes |-> {}]
  /\ pc = "idle" /\ plane = "mactweak"
  /\ failed = {}
  /\ trigger = FALSE /\ watch = "first" /\ events = {}
  /\ faults = 0 /\ changes = 0

NoFault == UNCHANGED faults
Fault(kind) ==
  /\ kind \in Faults
  /\ faults < MaxFaults
  /\ faults' = faults + 1
Change ==
  /\ changes < MaxChanges
  /\ changes' = changes + 1

keys(S) == {f.key : f \in S}
PlaneFlows(p) == {f \in flows : f.key.plane = p}

(* A flow with the key of another takes its place.                            *)
Put(S) == {f \in flows : f.key \notin keys(S)} \cup S
Notify(S) == events' = IF watch = "open" THEN events \cup keys(S) ELSE events

-----------------------------------------------------------------------------
(* OVN, Open vSwitch and other writers. *)

ChangeIntent ==
  /\ Change
  /\ intent' \in Intents \ {intent}
  /\ trigger' = TRUE
  /\ UNCHANGED <<flows, bridgeVars, agentVars, watch, events, faults>>

(* ovn-controller creates, re-creates or removes a patch port.  No flow goes  *)
(* with it.                                                                   *)
MovePort(s) ==
  /\ s # Unresolved
  /\ Change
  /\ \/ port' = [port EXCEPT ![s] = Cardinality(Segment) + changes']
     \/ s \in Late /\ port[s] # 0 /\ port' = [port EXCEPT ![s] = 0]
  /\ UNCHANGED <<intent, flows, ofctl, agentVars, watchVars, faults>>

ForeignDelete(f) ==
  /\ watch # "first"
  /\ Fault("foreign")
  /\ flows' = flows \ {f}
  /\ Notify({f})
  /\ UNCHANGED <<intent, bridgeVars, agentVars, watch, trigger, changes>>

(* The monitor process ends with ovs-vswitchd.                                *)
OvsRestart ==
  /\ watch # "first"
  /\ Fault("restart")
  /\ flows' = {} /\ events' = {} /\ watch' = "lost"
  /\ UNCHANGED <<intent, bridgeVars, agentVars, trigger, changes>>

Downgrade ==
  /\ ofctl.bundle
  /\ Fault("downgrade")
  /\ ofctl' = [ofctl EXCEPT !.bundle = FALSE]
  /\ UNCHANGED <<intent, flows, port, agentVars, watchVars, changes>>

(* The process ends, by SIGTERM between two cycles or by a crash.             *)
Fresh(phase) ==
  /\ pc' = phase /\ plane' = "mactweak"
  /\ segs' = Unbound /\ bundleOK' = FALSE
  /\ owned' = [p \in Planes |-> {}]
  /\ cur' = {} /\ failed' = {}
  /\ watch' = "first" /\ events' = {} /\ trigger' = FALSE

Crash ==
  /\ Fault("crash")
  /\ Fresh("down")
  /\ UNCHANGED <<intent, flows, bridgeVars, goal, changes>>

Shutdown ==
  /\ pc = "idle"
  /\ Change
  /\ Fresh("rm")
  /\ UNCHANGED <<intent, flows, bridgeVars, goal, faults>>

(* The hairpin flows are only removed after the MAC-tweak flows are.          *)
RemoveOVSFlows ==
  /\ pc = "rm"
  /\ \/ /\ flows' = flows \ PlaneFlows(plane)
        /\ NoFault
        /\ IF plane = "mactweak" THEN plane' = "hairpin" /\ UNCHANGED pc
                                 ELSE plane' = "mactweak" /\ pc' = "down"
     \/ Fault("clear") /\ pc' = "down" /\ plane' = "mactweak" /\ UNCHANGED flows
  /\ UNCHANGED <<intent, bridgeVars, segs, bundleOK, owned, goal, cur, failed,
                 watchVars, changes>>

Start ==
  /\ pc = "down"
  /\ pc' = "idle"
  /\ UNCHANGED <<intent, flows, bridgeVars, segs, bundleOK, owned, plane, goal,
                 cur, failed, watchVars, boundVars>>

-----------------------------------------------------------------------------
(* EnsureSegments: the bindings. *)

Bound == {s \in Segment : segs[s] # NoBinding}
PatchPorts == {s \in Segment : port[s] # 0}

trustedBinding(s) == segs[s].tagged = (s \in Vlan)   \* variant: no port is read

(* tagsEqual, and the port number is read again.                              *)
StillBound(s) ==
  /\ segs[s].tagged = (s \in Vlan)
  /\ port[segs[s].patch] = segs[s].of
segmentsCurrent(S) == Bound # {} /\ Bound = S /\ \A s \in S : StillBound(s)

OwnBinding(s) ==
  [patch |-> s, of |-> port[s], dev |-> IF s \in Vlan THEN s ELSE Bridge,
   tagged |-> s \in Vlan]
fallbackBinding ==
  LET first == CHOOSE s \in PatchPorts : TRUE
  IN  [patch |-> first, of |-> port[first], dev |-> Bridge, tagged |-> FALSE]

(* The bindings of the segments S if the interfaces of `noDev` cannot be set  *)
(* up.  A port whose segment cannot be read counts as one that is not there.  *)
Discover(S, noDev) == [s \in Segment |->
  IF s \notin S THEN NoBinding
  ELSE IF s \notin PatchPorts THEN fallbackBinding
  ELSE IF s \in noDev THEN NoBinding ELSE OwnBinding(s)]

NeedsFallback(S) == S \ PatchPorts # {}

refreshSegmentBindings(S) ==
  IF segmentsCurrent(S) THEN NoFault /\ plane' = "mactweak" /\ UNCHANGED segs
  ELSE \/ /\ NoFault
          /\ NeedsFallback(S) => PatchPorts # {}
          /\ segs' = Discover(S, {})
          /\ plane' = "mactweak"
       \/ \E v \in S \cap Vlan \cap PatchPorts :
            /\ NeedsFallback(S) => PatchPorts # {}
            /\ Fault("vlan")
            /\ segs' = Discover(S, {v})
            /\ plane' = "mactweak"
       \/ /\ IF NeedsFallback(S) /\ PatchPorts = {} THEN NoFault
                                                       ELSE Fault("discover")
          /\ segs' = Unbound
          /\ plane' = "hairpin"              \* EnsureSegments returns early

(* On a standby the MAC-tweak plane is given up and the hairpin plane emptied. *)
BeginCycle ==
  /\ pc = "idle"
  /\ goal' = intent
  /\ trigger' = FALSE
  /\ IF intent.segs # {}
       THEN pc' = "segs" /\ UNCHANGED <<plane, owned, failed>>
       ELSE /\ pc' = "own" /\ plane' = "hairpin"
            /\ owned' = [owned EXCEPT !["mactweak"] = {}]
            /\ failed' = failed \ {"mactweak"}
  /\ UNCHANGED <<intent, flows, bridgeVars, segs, bundleOK, cur, watch, events,
                 boundVars>>

EnsureSegments ==
  /\ pc = "segs"
  /\ pc' = "own"
  /\ refreshSegmentBindings(goal.segs)
  /\ failed' = IF plane' = "hairpin" THEN failed \cup {"mactweak"} ELSE failed
  /\ UNCHANGED <<intent, flows, bridgeVars, bundleOK, owned, goal, cur, watchVars,
                 changes>>

-----------------------------------------------------------------------------
(* reconcileFlowPlane. *)

segmentBindingFor(s) ==
  IF segs[s] # NoBinding \/ Unresolved \notin Segment THEN segs[s]
  ELSE segs[Unresolved]

(* One MAC-tweak flow per port, whichever segments share it.                  *)
desiredMACTweakFlows ==
  {LET b == segs[CHOOSE s \in Bound : segs[s].of = n]
   IN  [key |-> [plane |-> "mactweak", of |-> n, dst |-> None], dev |-> b.dev,
        router |-> None] : n \in {segs[s].of : s \in Bound}}

(* Variant: the address is left out of a hairpin flow's match.                *)
hairpinPerPort ==
  {LET b == segmentBindingFor(SegOf[ip])
   IN  [key |-> [plane |-> "hairpin", of |-> b.of, dst |-> None], dev |-> b.dev,
        router |-> goal.owner[ip]] :
     ip \in {i \in IP : goal.owner[i] # None /\ segmentBindingFor(SegOf[i]) # NoBinding}}

desiredHairpinFlows ==
  {LET b == segmentBindingFor(SegOf[ip])
   IN  [key |-> [plane |-> "hairpin", of |-> b.of, dst |-> ip], dev |-> b.dev,
        router |-> goal.owner[ip]] :
     ip \in {i \in IP : goal.owner[i] # None /\ segmentBindingFor(SegOf[i]) # NoBinding}}

desired(p) == IF p = "mactweak" THEN desiredMACTweakFlows ELSE desiredHairpinFlows

(* What follows the plane, also when its reconcile returned early.            *)
NextPlane ==
  IF plane = "mactweak" THEN pc' = "own" /\ plane' = "hairpin"
                        ELSE pc' = "idle" /\ plane' = "mactweak"
PlaneFails ==
  /\ failed' = failed \cup {plane}
  /\ cur' = {}
  /\ NextPlane

(* Variant: the ownership is published when the plane has been brought up.    *)
PublishOwnedLate ==
  /\ pc = "own"
  /\ pc' = IF plane = "hairpin" /\ Bound = {} THEN "idle" ELSE "dump"
  /\ plane' = IF plane = "hairpin" /\ Bound = {} THEN "mactweak" ELSE plane
  /\ owned' = [owned EXCEPT ![plane] = keys(PlaneFlows(plane))]
  /\ failed' = failed \ {plane}
  /\ UNCHANGED <<intent, flows, bridgeVars, segs, bundleOK, goal, cur, watchVars,
                 boundVars>>

(* The ownership is published before the plane is dumped.  Without bindings   *)
(* the hairpin plane is left as it is, and none of it is owned.               *)
PublishOwned ==
  /\ pc = "own"
  /\ IF plane = "hairpin" /\ Bound = {}
       THEN /\ owned' = [owned EXCEPT !["hairpin"] = {}]
            /\ NextPlane
       ELSE /\ owned' = [owned EXCEPT ![plane] = keys(desired(plane))]
            /\ pc' = "dump" /\ UNCHANGED plane
  /\ failed' = failed \ {plane}
  /\ UNCHANGED <<intent, flows, bridgeVars, segs, bundleOK, goal, cur, watchVars,
                 boundVars>>

DumpFlows ==
  /\ pc = "dump"
  /\ \/ /\ cur' = PlaneFlows(plane)
        /\ pc' = "add"
        /\ NoFault
        /\ UNCHANGED <<plane, failed>>
     \/ Fault("dump") /\ PlaneFails
  /\ UNCHANGED <<intent, flows, bridgeVars, segs, bundleOK, owned, goal, watchVars,
                 changes>>

adds == desired(plane) \ cur
changedToo == cur \ desired(plane)              \* variant: and what has changed
dels == {f \in cur : f.key \notin keys(desired(plane))}

(* What one attempt may install: all of it, or with a failure nothing of a    *)
(* bundle and anything of a batch or of single commands.                      *)
bundled == ofctl.stdin /\ (bundleOK \/ ofctl.bundle)

AddsLand ==
  /\ bundled => ofctl.bundle
  /\ flows' = Put(adds)
  /\ bundleOK' = bundled
  /\ cur' = dels
  /\ pc' = "del"
  /\ NoFault
  /\ UNCHANGED <<plane, failed>>

(* A failed bundle drops the cached verdict.                                  *)
AddsFail ==
  /\ IF bundled /\ ~ofctl.bundle THEN NoFault ELSE Fault("add")
  /\ \E S \in IF bundled THEN {{}} ELSE SUBSET adds \ {adds} : flows' = Put(S)
  /\ bundleOK' = FALSE
  /\ PlaneFails

applyFlowAdds ==
  /\ pc = "add"
  /\ IF adds = {}
       THEN /\ cur' = dels /\ pc' = "del"
            /\ NoFault
            /\ UNCHANGED <<flows, bundleOK, plane, failed>>
       ELSE AddsLand \/ AddsFail
  /\ UNCHANGED <<intent, bridgeVars, segs, owned, goal, watchVars, changes>>

(* A stale flow that cannot be deleted does not keep the others.              *)
DeleteStale ==
  /\ pc = "del" /\ cur # {}
  /\ \E f \in cur :
       /\ cur' = cur \ {f}
       /\ \/ LET gone == {g \in flows : g.key = f.key}
             IN  flows' = flows \ gone /\ Notify(gone) /\ NoFault
          \/ Fault("del") /\ UNCHANGED <<flows, events>>
  /\ UNCHANGED <<intent, bridgeVars, segs, bundleOK, owned, pc, plane, goal,
                 failed, watch, trigger, changes>>

EndPlane ==
  /\ pc = "del" /\ cur = {}
  /\ NextPlane
  /\ UNCHANGED <<intent, flows, bridgeVars, segs, bundleOK, owned, goal, cur,
                 failed, watchVars, boundVars>>

-----------------------------------------------------------------------------
(* The flow watch.  It starts after the startup reconcile. *)

Subscribe ==
  /\ watch # "open" /\ pc \notin {"down", "rm"}
  /\ watch' = "open"
  /\ trigger' = (trigger \/ watch = "lost")
  /\ UNCHANGED <<intent, flows, bridgeVars, agentVars, events, boundVars>>

TakeEvent(k) ==
  /\ k \in events
  /\ events' = events \ {k}
  /\ trigger' = (trigger \/ k \in owned[k.plane])
  /\ UNCHANGED <<intent, flows, bridgeVars, agentVars, watch, boundVars>>

Cycle ==
  \/ BeginCycle \/ EnsureSegments \/ PublishOwned \/ DumpFlows \/ applyFlowAdds
  \/ DeleteStale \/ EndPlane

Process == Start \/ RemoveOVSFlows

Next ==
  \/ ChangeIntent \/ \E s \in Segment : MovePort(s)
  \/ \E f \in flows : ForeignDelete(f)
  \/ OvsRestart \/ Downgrade \/ Crash \/ Shutdown
  \/ Process \/ Cycle
  \/ Subscribe \/ \E k \in events : TakeEvent(k)

Spec == Init /\ [][Next]_vars

(* Reconciles run periodically, commands return, the supervisor restarts.     *)
FairSpec == Spec /\ WF_vars(Process) /\ WF_vars(Cycle)

-----------------------------------------------------------------------------
(* PROPERTIES                                                                 *)

Agent == Cycle /\ ~(UNCHANGED flows)
Serves(f, ip, r) == f.key.dst = ip /\ f.key.of = port[SegOf[ip]] /\ f.router = r

(* A reconcile never interrupts a hairpin it wants: while the address keeps   *)
(* its router, and the segment its port and a binding, a flow that reflects   *)
(* the address into that router stays, whatever step of the reconcile fails   *)
(* (reconcileFlowPlane: adds before deletes, replacement in place).           *)
NeverBlanked ==
  [][Agent =>
       \A ip \in IP : \A f \in flows :
         /\ goal.owner[ip] # None /\ Serves(f, ip, goal.owner[ip])
         /\ segmentBindingFor(SegOf[ip]) # NoBinding
         => \E g \in flows' : Serves(g, ip, goal.owner[ip])]_vars

(* This reconcile has yet to come to the key's plane, or to add the key.      *)
YetToAdd(k) ==
  \/ pc = "segs" \/ (pc # "idle" /\ plane = "mactweak" /\ k.plane = "hairpin")
  \/ plane = k.plane /\ (pc \in {"own", "dump"} \/ (pc = "add" /\ k \in keys(adds)))

(* An owned flow that is missing is on its way back: by this reconcile, by an *)
(* event, a trigger or the end of an outage; only a reconcile that failed     *)
(* leaves it to the periodic one (setOwned before the dump, per plane).       *)
NothingUnseen ==
  watch # "first" =>
    \A p \in Planes : \A k \in owned[p] \ keys(flows) :
      YetToAdd(k) \/ k \in events \/ trigger \/ watch = "lost" \/ p \in failed

(* The bindings of an active chassis follow the bridge                        *)
(* (refreshSegmentBindings).                                                  *)
BindingsFollow ==
  <>[](\A s \in intent.segs \ {Unresolved} : port[s] # 0 => segs[s] = OwnBinding(s))

Wanted ==
  {[key |-> [plane |-> "mactweak", of |-> port[s], dst |-> None],
    dev |-> OwnBinding(s).dev, router |-> None] : s \in intent.segs}
  \cup
  {[key |-> [plane |-> "hairpin", of |-> port[SegOf[ip]], dst |-> ip],
    dev |-> OwnBinding(SegOf[ip]).dev, router |-> intent.owner[ip]] :
     ip \in {i \in IP : intent.owner[i] # None}}

(* Afterwards the bridge of an active chassis has exactly the flows of its    *)
(* segments and addresses at their present ports, whatever failed, was        *)
(* deleted, re-created or downgraded; a standby that once was active has no   *)
(* hairpin flow left (EnsureSegments, ReconcileOVSHairpinFlows).              *)
Converges ==
  <>[](/\ intent.segs # {} /\ (\A s \in intent.segs : port[s] # 0) => flows = Wanted
       /\ intent.segs = {} /\ Bound # {} => PlaneFlows("hairpin") = {})
=============================================================================
