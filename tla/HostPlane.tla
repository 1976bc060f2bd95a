------------------------------ MODULE HostPlane ------------------------------
(* The host side of one agent and its life cycle: set-up, first and later     *)
(* reconciles, reloads, shutdown, crash.  The host is the provider bridge's   *)
(* address, the VLAN interfaces, the veth pair with its policy rules and      *)
(* leak routes, the FRR prefix-lists, the managed VIP addresses and the       *)
(* nftables ruleset (src/routing_linux.go, src/nftables_linux.go); what is    *)
(* wanted comes from OVN rows (DesiredState) and the configuration            *)
(* (src/config.go, src/reload.go).                                            *)
(*                                                                            *)
(* The steps of a handler are run one by one from `todo`, so that faults,     *)
(* drift and crashes fall between them.  FIP routes are in RouteSync, flows   *)
(* in FlowPlane, the drain and the NB entries in GatewayDrain, how a refresh  *)
(* is triggered in OVNRefresh; log level, timers, the stale-chassis tracker   *)
(* and dry-run are left out.                                                  *)
EXTENDS DesiredState

CONSTANTS
  History,       \* the worlds OVN goes through, one after the other
  Tag,           \* VLAN tags
  Name,          \* prefix-list names
  Unset,         \* a key a configuration layer does not mention
  Default, Env,  \* configuration layers under and over the file
  Files,         \* contents the configuration file may have
  Foreign,       \* VLAN interfaces and addresses of the operator: [vlan, addr]
  Faults, MaxFaults,  \* bound: the kinds and number of faults
  MaxChanges     \* bound: how often the file changes or the agent is stopped

Key == {"remotes", "network_cidr", "list", "vips", "cleanup"}
VIP == [vip : V4, manage : BOOLEAN, hairpin : BOOLEAN, router : BOOLEAN]
Configs == [remotes : {"none", "one", "both"}, network_cidr : SUBSET Net,
            list : Name, vips : SUBSET VIP, cleanup : BOOLEAN]

(* A layer of the configuration may leave any key open.                       *)
Or(S) == {Unset} \cup S
Layers == [remotes : Or({"none", "one", "both"}), network_cidr : Or(SUBSET Net),
           list : Or(Name), vips : Or(SUBSET VIP), cleanup : Or(BOOLEAN)]

FaultKinds ==
  {"discover", "iface", "alias", "prune",  \* a segment interface
   "vtysh", "addr", "nft", "rule",         \* a prefix-list, VIP, ruleset, rule
   "nftlist",                              \* the question whether the table exists
   "rulelist", "route", "stale", "delete", \* the leak networks, a teardown
   "setup",                                \* a step of the set-up
   "nexthop",                              \* zebra loses the veth's prefix
   "drift",                                \* the operator removes something
   "crash"}

LinkStates == {"none", "ours", "unmarked", "foreign", "wrong"}

ASSUME HostPlaneAssumption ==
  /\ Len(History) \in Nat \ {0} /\ DOMAIN History = 1..Len(History)
  /\ \A n \in DOMAIN History :
       /\ DOMAIN History[n] = Tables
       /\ \A b \in Rows(History[n], "localnet") : b.tag \in Tag \cup {None}
  /\ Default \in Configs /\ Env \in Layers /\ Files \subseteq Layers
  /\ Foreign \in [vlan : [Tag -> {"none", "foreign", "wrong"}], addr : SUBSET V4]
  /\ Faults \subseteq FaultKinds
  /\ MaxFaults \in Nat /\ MaxChanges \in Nat

VARIABLES
  now,                  \* the world OVN is in
  refreshing, signal,   \* first world of the refresh under way or 0; one is due
  view,                 \* the world each table of the snapshot was read in
  file,                 \* the configuration file
  cfg,                  \* the running configuration
  hup,                  \* reloadCh
  phase, todo,          \* what the agent is doing, and the steps left of it
  goal, bound, seen,    \* this cycle's desired state; rm.segments; rules listed
  host,
  spoilt, residue,      \* history, see the properties
  faults, changes

ovnVars == <<now, refreshing, signal, view>>
memVars == <<goal, bound, seen>>
runVars == <<phase, todo>>
histVars == <<spoilt, residue>>
boundVars == <<faults, changes>>
vars == <<ovnVars, file, cfg, hup, runVars, memVars, host, histVars, boundVars>>

-----------------------------------------------------------------------------
(* Configuration. *)

loadWithoutDefaults(f) ==                                          \* variant
  [k \in Key |-> IF Env[k] # Unset THEN Env[k] ELSE f[k]]

(* Flags and environment over file over defaults; a key that is empty in its  *)
(* layer counts as not set.                                                   *)
applyFileConfig(f) == [k \in Key |-> IF f[k] # Unset THEN f[k] ELSE Default[k]]
applyEnvConfig(c) == [k \in Key |-> IF Env[k] # Unset THEN Env[k] ELSE c[k]]
loadConfig(f) == applyEnvConfig(applyFileConfig(f))

PortForwardOnly(c) == c.remotes = "none"

validateMode(c) ==
  /\ c.remotes # "one"
  /\ PortForwardOnly(c) =>
       /\ c.vips # {}
       /\ \A v \in c.vips : ~v.router /\ (v.hairpin => c.network_cidr # {})

validateSettings(c) == \A v, w \in c.vips : v.vip = w.vip => v = w     \* no duplicates

Valid(c) == validateSettings(c) /\ validateMode(c)

VIPs(c) == {v.vip : v \in c.vips}
Managed(c) == {v.vip : v \in {w \in c.vips : w.manage}}

reloadableKeys == {"list", "vips", "cleanup"}

Applied(running, next) ==
  {k \in reloadableKeys :
     /\ running[k] # next[k]
     /\ k = "vips" => (running.vips = {}) = (next.vips = {})}

Merged(running, next) ==
  [k \in Key |-> IF k \in Applied(running, next) THEN next[k] ELSE running[k]]

planReload(f) ==
  IF Valid(loadConfig(f)) /\ Valid(Merged(cfg, loadConfig(f)))
    THEN Merged(cfg, loadConfig(f)) ELSE cfg

withdrawnVIPs(running, next) == Managed(running) \ VIPs(next)      \* variant
withdrawnManagedVIPs(running, next) == Managed(running) \ Managed(next)

-----------------------------------------------------------------------------
(* The steps of the agent's life. *)

PortForwardSteps == IF cfg.vips = {} THEN <<>> ELSE <<"vips", "nft", "dnat">>
LeakSteps == <<"ingress", "routes", "rules", "stale">>

StartSteps ==
  IF PortForwardOnly(cfg)
    THEN <<"veth", "ingress">>
         \o (IF cfg.network_cidr = {} THEN <<>> ELSE LeakSteps)
         \o PortForwardSteps \o <<"first">>
    ELSE <<"bridge", "veth", "ingress">>
         \o (IF cfg.network_cidr = {} THEN <<>> ELSE LeakSteps)
         \o (IF cfg.vips = {} THEN <<>> ELSE <<"nft", "dnat">>)
         \o <<"connect", "first">>

CycleSteps(active) ==
  IF PortForwardOnly(cfg) THEN PortForwardSteps
  ELSE IF active THEN <<"segments", "list">> \o PortForwardSteps \o LeakSteps
  ELSE LeakSteps \o <<"list">> \o PortForwardSteps

UnforwardSteps == IF cfg.vips = {} THEN <<>> ELSE <<"unnft", "undnat", "unvip">>
ingressFirst == <<"uningress", "unrule", "unlink">>                \* variant
UnleakSteps == <<"unrule", "uningress", "unlink">>

keepInterfaces == <<"list">> \o UnforwardSteps \o UnleakSteps       \* variant

StopSteps ==
  IF PortForwardOnly(cfg) THEN <<"list">> \o UnforwardSteps \o UnleakSteps
  ELSE <<"list", "unvlan">> \o UnforwardSteps \o UnleakSteps \o <<"unbridge">>

(* The steps of a start or a cycle, and those of a shutdown.                  *)
UpNames == {"setup", "bridge", "veth", "ingress", "routes", "rules", "stale", "vips",
            "nft", "dnat", "connect", "first", "segments", "list"}
DownNames == {"list", "unvlan", "unnft", "undnat", "unvip", "unrule", "uningress",
              "unlink", "unbridge"}

Idle == phase = "run" /\ todo = <<>>
Step(name) == todo # <<>> /\ Head(todo) = name

NoFault == UNCHANGED faults
Fault(kind) == kind \in Faults /\ faults < MaxFaults /\ faults' = faults + 1
Change == changes < MaxChanges /\ changes' = changes + 1

(* What an agent leaves on a host, and the part of it that an agent running   *)
(* c looks after.                                                             *)
Items(h) ==
  {<<"addr", v>> : v \in h.addr \ Foreign.addr}
    \cup {<<"list", n>> : n \in {m \in Name : h.list[m] # {}}}
    \cup {<<h.vlan[t], t>> : t \in {u \in Tag : h.vlan[u] \in {"ours", "unmarked"}}}
    \cup {<<"veth", part>> : part \in {p \in {"veth", "ingress"} : h[p]}
                                      \cup {p \in {"rules", "routes"} : h[p] # {}}}
    \cup {<<"nat", part>> : part \in {p \in {"nft"} : h[p] # {}} \cup {p \in {"dnat"} : h[p]}}
    \cup {<<"bridge", p>> : p \in {q \in {"address"} : h.bridge}}

Handles(c) ==
  {<<"addr", v>> : v \in Managed(c)} \cup {<<"list", c.list>>}
    \cup {<<"veth", part>> : part \in {"veth", "ingress", "rules", "routes"}}
    \cup (IF c.vips = {} THEN {} ELSE {<<"nat", part>> : part \in {"nft", "dnat"}})
    \cup (IF PortForwardOnly(c) THEN {} ELSE {<<"ours", t>> : t \in Tag} \cup {<<"bridge", "address">>})

NoView == [t \in Tables |-> 0]

(* The snapshot read at the view v (none without OVN), and what a cycle asks  *)
(* for under the configuration c.                                             *)
GetState(v, c) ==
  OVNState([t \in Tables |-> IF v[t] = 0 \/ PortForwardOnly(c) THEN {} ELSE History[v[t]][t]],
           c.network_cidr)

Goal(s, c) ==
  [active |-> s.routers # {},
   nets |-> computeEffectiveNetworks(s, c.network_cidr),
   snat |-> s.snat,
   announce |-> vipRoutesAnnounceable(s, PortForwardOnly(c)),
   desired |-> computeDesiredState(s, VIPs(c), vipRoutesAnnounceable(s, PortForwardOnly(c)))]

NoGoal == [active |-> FALSE, nets |-> {}, snat |-> {}, announce |-> FALSE,
           desired |-> computeDesiredState(OVNState(NoRows, {}), {}, FALSE)]

(* The process is gone, with all it had in memory.                            *)
Down ==
  /\ phase' = "down" /\ todo' = <<>>
  /\ goal' = NoGoal /\ bound' = {} /\ seen' = {}
  /\ view' = NoView /\ refreshing' = 0 /\ signal' = FALSE
  /\ hup' = FALSE

Init ==
  /\ now = 1 /\ refreshing = 0 /\ signal = FALSE /\ view = NoView
  /\ file \in Files /\ Valid(loadConfig(file))
  /\ cfg = loadConfig(file)
  /\ hup = FALSE
  /\ phase = "down" /\ todo = <<>>
  /\ goal = NoGoal /\ bound = {} /\ seen = {}
  /\ host = [bridge |-> FALSE, veth |-> FALSE, ingress |-> FALSE, rules |-> {},
             routes |-> {}, vlan |-> Foreign.vlan, list |-> [n \in Name |-> {}],
             addr |-> Foreign.addr, nft |-> {}, dnat |-> FALSE]
  /\ spoilt = FALSE /\ residue = {}
  /\ faults = 0 /\ changes = 0

-----------------------------------------------------------------------------
(* OVN, the operator and the process. *)

ChangeRows ==
  /\ now < Len(History)
  /\ now' = now + 1
  /\ signal' = (refreshing # 0 \/ view # NoView)     \* once connected
  /\ UNCHANGED <<refreshing, view, file, cfg, hup, runVars, memVars,
                 host, histVars, boundVars>>

EditFile ==
  /\ Change
  /\ file' \in Files \ {file}
  /\ UNCHANGED <<ovnVars, cfg, hup, runVars, memVars, host, histVars, faults>>

RequestReload ==
  /\ phase \in {"start", "run"}
  /\ ~hup
  /\ hup' = TRUE
  /\ UNCHANGED <<ovnVars, file, cfg, runVars, memVars, host, histVars,
                 boundVars>>

(* Something the agent keeps is removed behind its back.                      *)
Drift ==
  /\ Fault("drift")
  /\ \/ \E n \in host.rules : host' = [host EXCEPT !.rules = @ \ {n}] /\ UNCHANGED spoilt
     \/ \E n \in host.routes : host' = [host EXCEPT !.routes = @ \ {n}] /\ UNCHANGED spoilt
     \/ host.ingress /\ host' = [host EXCEPT !.ingress = FALSE] /\ spoilt' = TRUE
     \/ host.nft # {} /\ host' = [host EXCEPT !.nft = {}] /\ UNCHANGED spoilt
     \/ \E v \in host.addr \cap Managed(cfg) :
          host' = [host EXCEPT !.addr = @ \ {v}] /\ UNCHANGED spoilt
  /\ UNCHANGED <<ovnVars, file, cfg, hup, runVars, memVars, residue, changes>>

Crash ==
  /\ phase # "down"
  /\ Fault("crash")
  /\ Down
  /\ UNCHANGED <<now, file, cfg, host, histVars, changes>>

(* main reads the configuration; with one it cannot use it does not start.    *)
(* What an earlier configuration left behind is nobody's from here on.        *)
Start ==
  /\ phase = "down"
  /\ Valid(loadConfig(file))
  /\ cfg' = loadConfig(file)
  /\ phase' = "start" /\ todo' = <<"setup">>
  /\ residue' = Items(host) \ Handles(cfg')
  /\ UNCHANGED <<ovnVars, file, hup, memVars, host, spoilt, boundVars>>

Run ==
  /\ Step("setup")
  /\ todo' = StartSteps
  /\ UNCHANGED <<ovnVars, file, cfg, hup, phase, memVars, host, histVars,
                 boundVars>>

(* A step of the set-up failed: Run returns the error and the process exits.  *)
(* SIGTERM while OVN is not reachable ends Run in the same way.               *)
AbortStart ==
  /\ phase = "start" /\ ~Step("first")
  /\ \/ ~Step("connect") /\ Fault("setup") /\ UNCHANGED changes
     \/ Step("connect") /\ Change /\ NoFault
  /\ Down
  /\ UNCHANGED <<now, file, cfg, host, histVars>>

Sigterm ==
  /\ Idle
  /\ Change
  /\ IF cfg.cleanup
       THEN /\ phase' = "stop" /\ todo' = StopSteps
            /\ refreshing' = 0                   \* the refresh loop is joined
            /\ UNCHANGED <<now, signal, view, hup, memVars>>
       ELSE Down /\ UNCHANGED now
  /\ UNCHANGED <<file, cfg, host, histVars, faults>>

Exit ==
  /\ phase = "stop" /\ todo = <<>>
  /\ Down
  /\ UNCHANGED <<now, file, cfg, host, histVars, boundVars>>

-----------------------------------------------------------------------------
(* The OVN refresh: the tables are read one after another, each in the world  *)
(* of its moment.                                                             *)

Order == <<"pb", "chassis", "lrp", "lr", "nat">>

Reads(first) ==
  {v \in [Tables -> first..now] : \A n \in 1..(Len(Order) - 1) : v[Order[n]] <= v[Order[n + 1]]}

BeginRefresh ==
  /\ signal /\ refreshing = 0 /\ phase \in {"start", "run"}
  /\ refreshing' = now
  /\ signal' = FALSE
  /\ UNCHANGED <<now, view, file, cfg, hup, runVars, memVars, host,
                 histVars, boundVars>>

EndRefresh ==
  /\ refreshing # 0
  /\ refreshing' = 0
  /\ view' \in Reads(refreshing)
  /\ UNCHANGED <<now, signal, file, cfg, hup, runVars, memVars, host, histVars,
                 boundVars>>

(* Connect monitors both databases and ends with a refresh of its own.        *)
Connect ==
  /\ Step("connect")
  /\ view' = [t \in Tables |-> now]
  /\ todo' = Tail(todo)
  /\ UNCHANGED <<now, refreshing, signal, file, cfg, hup, phase, memVars,
                 host, histVars, boundVars>>

(* The cycle of a start has no filter against a reload or a stop before it.   *)
BeginCycle ==
  /\ Idle \/ Step("first")
  /\ phase' = "run"
  /\ goal' = Goal(GetState(view, cfg), cfg)
  /\ todo' = CycleSteps(goal'.active)
  /\ UNCHANGED <<ovnVars, file, cfg, hup, bound, seen, host, histVars, boundVars>>

(* Runs between two cycles.  The host is cleaned up under the old             *)
(* configuration, as far as that succeeds (without the device all addresses   *)
(* are left), and then the new one is used.                                   *)
handleReload ==
  /\ Idle /\ hup
  /\ hup' = FALSE
  /\ LET next == planReload(file)
         gone == withdrawnManagedVIPs(cfg, next) \cap host.addr
         renamed == next.list # cfg.list
     IN  /\ cfg' = next
         /\ \E stuck \in SUBSET gone : \E emptied \in {renamed, FALSE} :
              /\ host' = [host EXCEPT !.addr = @ \ (gone \ stuck),
                            !.list = IF emptied THEN [@ EXCEPT ![cfg.list] = {}] ELSE @]
              /\ residue' = residue \cup {<<"addr", v>> : v \in stuck}
                              \cup (IF emptied = renamed THEN {} ELSE {<<"list", cfg.list>>})
              /\ IF stuck = {} /\ emptied = renamed THEN NoFault
                 ELSE Fault(IF stuck = {} THEN "vtysh" ELSE "addr")
  /\ UNCHANGED <<ovnVars, file, runVars, memVars, spoilt, changes>>

-----------------------------------------------------------------------------
(* The steps.  An error ends the set-up, and of a cycle it skips what is left *)
(* of its group; a teardown goes on.                                          *)

KeepAll == UNCHANGED <<ovnVars, file, cfg, hup, phase, changes>>
Keep == KeepAll /\ UNCHANGED histVars
KeepMem == UNCHANGED memVars
Done == todo' = Tail(todo)
Skip(group) ==
  \E n \in 1..Len(todo) :
    /\ \A k \in 1..n : todo[k] \in group
    /\ n < Len(todo) => todo[n + 1] \notin group
    /\ todo' = SubSeq(todo, n + 1, Len(todo))

PortForwardGroup == {"vips", "nft", "dnat"}
LeakGroup == {"ingress", "routes", "rules", "stale"}

(* A failure in the set-up ends the agent: AbortStart.                        *)
Fails(kind, group) == phase # "start" /\ Fault(kind) /\ Skip(group)

SetUp(name, made) ==
  /\ Step(name) /\ host' = made
  /\ Done /\ NoFault
  /\ Keep /\ KeepMem

EnsureBridgeIP == SetUp("bridge", [host EXCEPT !.bridge = TRUE])
SetupVethLeak == SetUp("veth", [host EXCEPT !.veth = TRUE])

WantedTags == {s.tag : s \in goal.desired.segments} \ {None}
boundTags(b) == {s.tag : s \in b} \ {None}

(* EnsureSegmentInterface for each tag: an interface of the name is adopted   *)
(* if it is the right VLAN, whoever made it, else refused.                    *)
Adoptable(t) == host.vlan[t] # "wrong"
Linked(tags) ==
  [t \in Tag |-> IF t \in tags /\ host.vlan[t] = "none" THEN "ours" ELSE host.vlan[t]]

PrunedAny(vlan, keep) ==                                           \* variant
  [t \in Tag |-> IF t \notin keep THEN "none" ELSE vlan[t]]

(* The agent's interfaces outside `keep` go.                                  *)
Pruned(vlan, keep) ==
  [t \in Tag |-> IF vlan[t] = "ours" /\ t \notin keep THEN "none" ELSE vlan[t]]

(* When the bindings are current nothing is discovered; FlowPlane has the     *)
(* rest of it.  A segment whose interface fails has no binding, and so its    *)
(* interface is pruned.                                                       *)
EnsureSegments ==
  /\ Step("segments")
  /\ \/ /\ bound = goal.desired.segments
        /\ host' = [host EXCEPT !.vlan = Pruned(@, boundTags(bound))]
        /\ NoFault
        /\ UNCHANGED <<bound, residue>>
     \/ /\ bound # goal.desired.segments
        /\ \E S \in SUBSET WantedTags :
             Fault("discover") /\ host' = [host EXCEPT !.vlan = Linked(S)]
        /\ bound' = {}
        /\ UNCHANGED residue
     \/ /\ bound # goal.desired.segments
        /\ \E failed \in {{}} \cup {{t} : t \in WantedTags} :
             LET ok == {t \in WantedTags \ failed : Adoptable(t)}
             IN  /\ bound' = {s \in goal.desired.segments : s.tag = None \/ s.tag \in ok}
                 /\ \/ /\ IF failed = {} THEN NoFault ELSE Fault("iface")
                       /\ host' = [host EXCEPT !.vlan = Pruned(Linked(ok), ok)]
                       /\ UNCHANGED residue
                    \/ /\ failed = {} /\ Fault("prune")
                       /\ host' = [host EXCEPT !.vlan = Linked(ok)]
                       /\ UNCHANGED residue
                    \/ \E t \in ok :
                         /\ failed = {} /\ host.vlan[t] = "none" /\ Fault("alias")
                         /\ host' = [host EXCEPT !.vlan =
                                       [Pruned(Linked(ok), ok) EXCEPT ![t] = "unmarked"]]
                         /\ residue' = residue \cup {<<"unmarked", t>>}
  /\ Done
  /\ KeepAll /\ UNCHANGED <<goal, seen, spoilt>>

(* Empty on a standby and on shutdown.                                        *)
PrefixList ==
  IF phase = "run" /\ goal.active THEN goal.nets \cup goal.desired.announced ELSE {}

ReconcileFRRPrefixList ==
  /\ Step("list")
  /\ Done
  /\ \/ host' = [host EXCEPT !.list[cfg.list] = PrefixList] /\ NoFault /\ UNCHANGED residue
     \/ /\ Fault("vtysh")
        /\ residue' = IF phase = "stop" THEN residue \cup {<<"list", cfg.list>>} ELSE residue
        /\ UNCHANGED host
  /\ KeepAll /\ KeepMem /\ UNCHANGED spoilt

alwaysAnnounce == TRUE                                             \* variant
announceVIPs == phase = "start" \/ goal.announce

(* The first address that cannot be written ends it, and so does a device     *)
(* that is not found or cannot be listed.                                     *)
reconcilePortForwardVIPs ==
  /\ Step("vips")
  /\ LET todoAddr == IF announceVIPs THEN Managed(cfg) \ host.addr
                                     ELSE Managed(cfg) \cap host.addr
         write(S) == IF announceVIPs THEN host.addr \cup S ELSE host.addr \ S
     IN  \/ host' = [host EXCEPT !.addr = write(todoAddr)] /\ Done /\ NoFault
         \/ \E S \in {{}} \cup (SUBSET todoAddr \ {todoAddr}) :
              /\ host' = [host EXCEPT !.addr = write(S)]
              /\ Fails("addr", PortForwardGroup)
  /\ Keep /\ KeepMem

collectHairpinVIPs(vips) == {v.vip : v \in {w \in vips : w.hairpin}}
collectRouterMasqVIPs(vips) == {v.vip : v \in {w \in vips : w.router}}

(* The translated VIPs, whose packets are also marked and zoned.              *)
writeDNATChain(vips) == {v.vip : v \in vips}

(* Masqueraded are the provider networks' sources to some VIPs and the        *)
(* routers' SNAT addresses to others.                                         *)
writeSNATChain(vips, nets, snat) ==
  [hairpin |-> IF nets = {} THEN {} ELSE collectHairpinVIPs(vips),
   router |-> IF snat = {} THEN {} ELSE collectRouterMasqVIPs(vips),
   sources |-> IF collectRouterMasqVIPs(vips) = {} THEN {} ELSE snat]

(* guard: the networks whose traffic may return through the veth.             *)
buildNftRuleset(vips, nets, snat) ==
  [vips |-> writeDNATChain(vips), guard |-> nets, snat |-> writeSNATChain(vips, nets, snat)]

Ruleset ==
  IF phase = "start" THEN buildNftRuleset(cfg.vips, {}, {})
  ELSE buildNftRuleset(cfg.vips, goal.nets, goal.snat)

(* Variant: the table is deleted and then created.                            *)
deleteThenCreate ==
  /\ Step("nft")
  /\ \/ host' = [host EXCEPT !.nft = {Ruleset}] /\ Done /\ NoFault
     \/ Fails("nft", PortForwardGroup) /\ host' = [host EXCEPT !.nft = {}]
  /\ Keep /\ KeepMem

(* One nft transaction deletes the old table and creates the new one.  When   *)
(* the table is there but not found (nftlist) nothing is deleted, and the new *)
(* rules come after the old ones in every chain.                              *)
applyNftRuleset ==
  /\ Step("nft")
  /\ \/ host' = [host EXCEPT !.nft = {Ruleset}] /\ Done /\ NoFault
     \/ host' = [host EXCEPT !.nft = @ \cup {Ruleset}] /\ Done /\ Fault("nftlist")
     \/ Fails("nft", PortForwardGroup) /\ UNCHANGED host
  /\ Keep /\ KeepMem

ensureDNATRouting ==
  /\ Step("dnat")
  /\ \/ host' = [host EXCEPT !.dnat = TRUE] /\ Done /\ NoFault
     \/ Fails("rule", PortForwardGroup) /\ UNCHANGED host
  /\ Keep /\ KeepMem

-----------------------------------------------------------------------------
(* ReconcileVethLeakNetworks. *)

LeakNets ==
  IF phase = "start" THEN cfg.network_cidr ELSE IF goal.active THEN goal.nets ELSE {}

ensureVethIngressRule ==
  /\ Step("ingress")
  /\ \/ host' = [host EXCEPT !.ingress = TRUE] /\ spoilt' = FALSE /\ Done /\ NoFault
     \/ Fails("rule", LeakGroup) /\ UNCHANGED <<host, spoilt>>
  /\ KeepAll /\ KeepMem /\ UNCHANGED residue

(* The rules are listed here, before the routes are added.  Routes that       *)
(* cannot be listed end the group as one that cannot be added does.           *)
addLeakRoutes ==
  /\ Step("routes")
  /\ \/ /\ host' = [host EXCEPT !.routes = @ \cup LeakNets]
        /\ \/ NoFault /\ seen' = host.rules
           \/ phase # "start" /\ Fault("rulelist") /\ seen' = {}
        /\ Done
     \/ \E S \in {{}} \cup (SUBSET (LeakNets \ host.routes) \ {LeakNets \ host.routes}) :
          /\ Fails("route", LeakGroup)
          /\ host' = [host EXCEPT !.routes = @ \cup S]
          /\ seen' = {}
  /\ Keep /\ UNCHANGED <<goal, bound>>

addLeakRules ==
  /\ Step("rules")
  /\ \/ host' = [host EXCEPT !.rules = @ \cup (LeakNets \ seen)] /\ Done /\ NoFault
     \/ \E S \in SUBSET (LeakNets \ seen) \ {LeakNets \ seen} :
          /\ Fails("rule", LeakGroup)
          /\ host' = [host EXCEPT !.rules = @ \cup S]
  /\ seen' = {}
  /\ Keep /\ UNCHANGED <<goal, bound>>

removeStaleLeaks ==
  /\ Step("stale")
  /\ Done
  /\ \/ /\ host' = [host EXCEPT !.routes = @ \cap LeakNets, !.rules = @ \cap LeakNets]
        /\ NoFault
     \/ \E n \in host.routes \cup host.rules :
          /\ n \notin LeakNets
          /\ phase # "start" /\ Fault("stale")
          /\ host' = [host EXCEPT !.routes = @ \cap (LeakNets \cup {n}),
                                  !.rules = @ \cap (LeakNets \cup {n})]
  /\ Keep /\ KeepMem

(* refreshVethNexthop, at the end of a cycle that found the next-hop          *)
(* unresolvable (RouteSync): with veth-provider's address the kernel drops    *)
(* every leak route, and the networks are reconciled at once unless a step    *)
(* before that fails.                                                         *)
RefreshVethNexthop ==
  /\ Idle /\ goal.active /\ host.veth
  /\ Fault("nexthop")
  /\ host' = [host EXCEPT !.routes = {}]
  /\ todo' \in {LeakSteps, <<>>}
  /\ Keep /\ KeepMem

-----------------------------------------------------------------------------
(* cleanup.  Whatever cannot be removed stays and is logged.                  *)

Remove(name, left) ==
  /\ Step(name)
  /\ \/ host' = left /\ NoFault /\ UNCHANGED histVars
     \/ /\ left # host /\ Fault("delete")
        /\ residue' = residue \cup (Items(host) \ Items(left))
        /\ spoilt' = (spoilt \/ name = "unrule")
        /\ UNCHANGED host
  /\ Done
  /\ KeepAll /\ KeepMem

TeardownSegmentInterfaces == Remove("unvlan", [host EXCEPT !.vlan = Pruned(@, {})])

TeardownPortForward ==
  \/ Remove("unnft", [host EXCEPT !.nft = {}])
  \/ Remove("unvip", [host EXCEPT !.addr = @ \ Managed(cfg)])

cleanupDNATRouting == Remove("undnat", [host EXCEPT !.dnat = FALSE])

TeardownVethLeak ==
  \/ Remove("unrule", [host EXCEPT !.rules = {}])
  \/ Remove("unlink", [host EXCEPT !.routes = {}, !.veth = FALSE])

removeVethIngressRules == Remove("uningress", [host EXCEPT !.ingress = FALSE])

RemoveBridgeIP == Remove("unbridge", [host EXCEPT !.bridge = FALSE])

cleanup ==
  \/ TeardownSegmentInterfaces \/ TeardownPortForward \/ cleanupDNATRouting
  \/ TeardownVethLeak \/ removeVethIngressRules \/ RemoveBridgeIP

Agent ==
  \/ Run \/ EnsureBridgeIP \/ SetupVethLeak \/ Connect \/ BeginCycle
  \/ EnsureSegments \/ ReconcileFRRPrefixList
  \/ reconcilePortForwardVIPs \/ applyNftRuleset \/ ensureDNATRouting
  \/ ensureVethIngressRule \/ addLeakRoutes \/ addLeakRules \/ removeStaleLeaks
  \/ RefreshVethNexthop \/ cleanup \/ Exit

Refresh == BeginRefresh \/ EndRefresh

Next ==
  \/ ChangeRows \/ EditFile \/ RequestReload \/ Drift
  \/ Crash \/ Start \/ AbortStart \/ Sigterm
  \/ Refresh \/ handleReload \/ Agent

Spec == Init /\ [][Next]_vars

(* WF_vars(Agent), whose guard is phase # "down", written out: TLC would take *)
(* too long over ENABLED.                                                     *)
AgentGoesOn == []<>(phase = "down") \/ []<><<Agent>>_vars

(* The loop runs on and its ticker fires; a refresh ends; the supervisor      *)
(* starts the agent again; select picks uniformly among the channels that are *)
(* ready, so a reload that is due does not lose for ever.                     *)
FairSpec ==
  /\ Spec
  /\ AgentGoesOn
  /\ WF_vars(Refresh) /\ WF_vars(Start) /\ SF_vars(handleReload)

-----------------------------------------------------------------------------
TypeOK ==
  /\ now \in 1..Len(History) /\ refreshing \in 0..now /\ signal \in BOOLEAN
  /\ view \in [Tables -> 0..now]
  /\ file \in Files /\ cfg \in Configs /\ hup \in BOOLEAN
  /\ phase \in {"down", "start", "run", "stop"} /\ todo \in Seq(UpNames \cup DownNames)
  /\ {s.tag : s \in bound} \subseteq Tag \cup {None}
  /\ seen \subseteq Net
  /\ host.rules \subseteq V4Net /\ host.routes \subseteq V4Net
  /\ host.vlan \in [Tag -> LinkStates] /\ host.addr \subseteq V4
  /\ spoilt \in BOOLEAN
  /\ faults \in 0..MaxFaults /\ changes \in 0..MaxChanges

(* While the veth pair exists no network has its source rule without the      *)
(* ingress exception, in no order of set-up, reconcile, shutdown and crash    *)
(* (#265: the packet would loop); unless the exception was taken away by      *)
(* hand, or a rule could not be deleted at shutdown, until it is repaired.    *)
NoLoop == ~spoilt /\ host.veth /\ host.rules # {} => host.ingress

(* Until a shutdown, a VIP that is translated stays so as long as it is       *)
(* configured: through set-up, cycles, failing updates, reloads, crashes and  *)
(* restarts, because the ruleset is replaced in one nft transaction           *)
(* (applyNftRuleset) and no reload touches it.  A shutdown takes the table    *)
(* away first, and nothing is said of a VIP that is announced before its      *)
(* first ruleset is there (ReconcilePortForward, TeardownPortForward).        *)
RulesetStays ==
  [][phase # "stop" /\ ~Drift =>
       \A v \in VIPs(cfg) \cap VIPs(cfg') :
         (\E r \in host.nft : v \in r.vips) => \E r \in host'.nft : v \in r.vips]_vars

(* The agent deletes no interface it did not mark as its own and no address   *)
(* that is not a VIP it manages.                                              *)
OperatorsKept ==
  [][/\ \A t \in Tag : host.vlan[t] \notin {"none", "ours"} => host'.vlan[t] = host.vlan[t]
     /\ host.addr \ host'.addr \subseteq Managed(cfg)]_vars

(* Everything the agent has on the host is something its running              *)
(* configuration makes it look after, after any sequence of reloads and       *)
(* restarts; only what a failed clean-up or another process's configuration   *)
(* left is nobody's.                                                          *)
NothingForgotten == phase # "down" => Items(host) \subseteq Handles(cfg) \cup residue

(* A shutdown with the clean-up on leaves nothing but what could not be       *)
(* removed.                                                                   *)
LeavesClean == phase = "stop" /\ todo = <<>> => Items(host) \subseteq residue

(* The rows read directly: the router ports bound to this chassis, their      *)
(* routers, networks, tags and addresses.                                     *)
World == History[now]
ServedPorts ==
  {p \in World.lrp : \E b \in World.pb, c \in World.chassis :
     b.type = "chassisredirect" /\ b.lrp = p.name /\ b.chassis \in c.refs /\ c.host = Host}
ServedRouters == {r \in World.lr : \E p \in ServedPorts, k \in DOMAIN r.ports : r.ports[k] = p.uuid}
ServedNets == IF cfg.network_cidr # {} THEN cfg.network_cidr ELSE {p.net : p \in ServedPorts}
ServedTags ==
  {l.tag : l \in {b \in World.pb :
     /\ b.type = "localnet" /\ b.tag # None
     /\ \E q \in World.pb, p \in ServedPorts : q.type = "patch" /\ q.lrp = p.name /\ q.dp = b.dp}}
ServedIPs ==
  V4 \cap
  ({p.ip : p \in ServedPorts}
     \cup {n.ip : n \in {m \in World.nat : /\ \E r \in ServedRouters : m.id \in r.nats
                                          /\ \E w \in ServedNets : m.ip \in InNet[w]}})

Realised ==
  LET active == ServedRouters # {} /\ ~PortForwardOnly(cfg)
      nets == IF active THEN ServedNets \cap V4Net ELSE {}
  IN  /\ host.veth
      /\ ~PortForwardOnly(cfg) =>
           /\ host.bridge /\ host.ingress /\ host.rules = nets /\ host.routes = nets
           /\ host.list[cfg.list] = nets \cup (IF active THEN VIPs(cfg) ELSE {})
           /\ goal.desired.statics = (IF active THEN ServedIPs ELSE {})
      /\ active => \A t \in Tag :
           /\ t \in ServedTags => host.vlan[t] # "none"
           /\ t \notin ServedTags => host.vlan[t] # "ours"
      /\ IF active \/ PortForwardOnly(cfg)
           THEN Managed(cfg) \subseteq host.addr ELSE Managed(cfg) \cap host.addr = {}
      /\ cfg.vips # {} =>
           /\ host.dnat
           /\ \E r \in host.nft :
                /\ host.nft = {r} /\ r.vips = VIPs(cfg)
                /\ r.guard = V4Net \cap IF PortForwardOnly(cfg) THEN cfg.network_cidr ELSE ServedNets

(* When the changes and the failures have ended the host comes to be what     *)
(* OVN and the running configuration ask for, and stays so: on a chassis with *)
(* routers, on a standby (whose VIPs are withheld), and without OVN.          *)
Converges == <>[](phase = "down" \/ (phase = "run" /\ Realised))
=============================================================================
