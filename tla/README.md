# A formal model of ovn-network-agent

TLA+ modules, model-checking runs and TLAPS proofs for the agent in `src/`.
Paths and line numbers below are of that tree; `PROJECT.json` maps every
definition to the lines it stands for.

`tlc -config X.cfg MCModule.tla` runs a configuration, `tlapm XProofs.tla`
checks the proofs of a module.

## 1. The system

One agent runs on every gateway chassis of an OVN region. It reads the OVN
southbound (SB) and northbound (NB) databases, computes which floating IPs are
active on its chassis, and brings the host in line: `/32` kernel routes and FRR
statics that BGP announces, OVS flows, nftables rules, an FRR prefix-list. It
writes back to NB: managed default routes, static MAC bindings and its own
`Gateway_Chassis` priorities.

### Components

| Component | State | Operations | Interacts with |
|---|---|---|---|
| Gateway handover (`ovn_gateway.go`, `agent.go`) | NB: priorities, default-route rows with chassis tag and takeover marker. Agent: frozen state, boosts planned, rows a drain waits for | restore, default-route create and retag, marker, priority plan and boost, drain with its three waits, NB cleanup | every other agent through NB, OVN's election through SB, route plane (what is announced) |
| OVN refresh and main loop (`ovn.go`, `ovn_cache.go`, `agent.go`) | monitor caches, `o.state`, `refreshSeq`, failover observation, three channels of capacity 1, two timers | event handlers, debounced and immediate refresh, cached listing with direct-select fallback, `Connect`, `reconcile`, shutdown | OVSDB servers, all planes through `GetState` |
| FIP route plane (`agent.go`, `routing.go`, `routing_linux.go`) | kernel routes, FRR statics, re-add streak, repair cooldown | `ensureRoutes`, `verifyRoutes`, `repairUnresolvableNexthop`, `removeAllRoutes` | kernel (netlink), FRR (vtysh), BGP peers |
| Route watch (`drift_watch.go`, `route_watch.go`) | published ownership, subscription, timer, last trigger | subscribe, classify, trigger, resync, back off | kernel notifications, main loop through `reconcileCh` |
| FRR watch and prefix-list (`frr_watch.go`, `routing.go`) | process incarnations, settle and follow-up state; the list in zebra and in bgpd | prime, poll and step; list the union, add, repair, remove | FRR daemons, main loop |
| OVS flow watch (`flow_watch.go`) | ownership per flow plane, the shared drift watcher | monitor, classify, trigger | `ovs-ofctl monitor` |
| OVS flow planes (`ovs.go`) | segment bindings, flows per cookie | discover, list, add, delete | OVS |
| Stale chassis cleanup (`agent.go:665-742`, `ovn_gateway.go:633-785`) | `missingChassis` with the time first seen, jitter | track, expire, delete NB entries of a vanished chassis | NB, other surviving agents |
| Reload (`reload.go`) | running configuration, pending request | plan, cleanups, switch | route plane, main loop |
| Desired state (`desired_state.go`) | none | pure functions of the snapshot | used by `reconcile` |
| Port forwarding (`nftables*.go`) | nftables table, VIP addresses | render and commit | kernel |
| Interface set-up, metrics, configuration, generated OVSDB models, docs generator, test benches | | | |

### What is hard about it

- **Handover between agents that never talk to each other.** They see each
  other's work only as rows in NB. OVN moves ports on its own account, from
  priorities both of them write. A signal, a crash or a failed transaction may
  come between any two writes.
- **Two writers of one state.** `refreshState` runs on the refresh loop and, at
  start and end, on the main goroutine; snapshots are used long after they were
  taken.
- **Signals that coalesce.** Channels hold one element, timers supersede each
  other, events can arrive between the read of a table and its publication. Some
  signals are dropped on purpose.
- **Lossy caches.** The monitor cache may silently miss a row.
- **Partial failure.** Every cycle is a dozen external commands; each may fail,
  or half-succeed, and the cycle goes on.
- **Other writers and restarts of neighbours.** Routes are deleted by others,
  FRR daemons restart one by one and forget what they were told, with a saved
  configuration applied some time after they answer.

`hazards` in `PROJECT.json` lists them at their lines, with the properties that
would catch each going wrong or the reason why none does yet.

### What makes it correct

- Handover: external traffic of a router that was ready is never without an
  announcing chassis; a stopped agent leaves nothing behind that breaks the next
  one; a running chassis is never stuck at priority 0; a drain ends; afterwards
  one chassis owns, announces and marks each router.
- Refresh: snapshots advance and are complete; every event is reconciled;
  a failover measurement is closed only by a reconcile that saw the failover.
- Route plane: "ready" means the addresses forward; withdrawal precedes tear-down;
  faults over, the planes converge.
- Watches: no owned object that is missing is forgotten; the watch alone repairs
  what it watches; repairs never undo one another.

## 2. Modules

| Module | Models | Instance | Proofs |
|---|---|---|---|
| `GatewayDrain` | gateway handover of all agents, with OVN as environment | `MCGatewayDrain` | `GatewayDrainProofs` |
| `StaleChassis` | NB routes and MAC bindings written by several agents, and the cleanup of what a vanished chassis left | `MCStaleChassis` | `StaleChassisProofs` |
| `SnapshotService` | abstract: what a refresh promises a reconcile | refined by `OVNRefresh` | |
| `OVNRefresh` | one agent's path from an OVN change to a reconcile | `MCOVNRefresh` | `OVNRefreshProofs` |
| `DesiredState` | the join of the OVN tables and what a chassis wants from it, as functions | through `MCHostPlane` | `HostPlaneProofs` |
| `HostPlane` | one host through set-up, cycles, reloads, shutdown and crash; extends `DesiredState` | `MCHostPlane` | `HostPlaneProofs` |
| `RouteSync` | one agent's route plane, call by call | `MCRouteSync` | `RouteSyncProofs` |
| `DriftWatch` | the route watch beside the reconcile it triggers | `MCDriftWatch` | `DriftWatchProofs` |
| `FlowPlane` | segment bindings, the two flow planes and the flow watch | `MCFlowPlane` | `FlowPlaneProofs` |
| `FRRRestart` | the prefix-list and the FRR watch through FRR restarts | `MCFRRRestart` | `FRRRestartProofs` |

Each module abstracts the others to what they promise it: `GatewayDrain` has a
route plane of one step that is ready or fails; `RouteSync` and `FlowPlane` have an
intent that changes; `DriftWatch` has a cycle that lists, adds and removes sets;
`HostPlane` reads each table in a world of its own, as a pass of `OVNRefresh`
does. Definitions marked "variant" in a module are plausible mistakes in the
definition beside them; `PROJECT.json` "mutants" says which property each one
breaks. They are not part of the specification.

### GatewayDrain

A router stands for its gateway port, chassisredirect port, managed default
route and `/32`s. `prio`, `tag` and `marker` are NB; `bound` and `ovnUp` are OVN;
the rest is indexed by agent: `pc`, the cancelled context (`term`), `o.state`
(`view`), the snapshot of the running reconcile (`snap`), `announced`, the boosts
between plan and write (`plan`), the rows a drain waits for (`waiting`).

A reconcile is split wherever another agent, OVN or a signal can come in:
`TakeSnapshot`, `EnsureGatewayRouting`, `ensureRoutes`, `MarkTakeoverReady`,
`PlanPriorityLead`, `ConfirmBinding`, `BoostPriority`; a boost is planned from the
rows of one moment, confirmed by SB in another and written blindly in a third. A
shutdown is `Shutdown`, `DrainGateways`,
`MigrationDone` or `MigrationError`, `AwaitTakeoverReady`, `holdSettleMargin`,
`DrainTimeout` out of any wait, `PostDrainRefresh`, `Stop`,
`RemoveManagedNBEntries`. `Elect` is OVN binding a port to a live candidate of
the highest priority and keeping it there among equals; `TieFlap` is the fault
of choosing another equal.

The fault "nb" is an NB read that fails, or is answered by a cache that misses
rows: the listings of `DrainGateways`, of the rows a drain waits for (a failed one
leaves only the settle margin), of the markers, of the priority lead and of the
clean-up. `RemoveManagedNBEntries` may fail for some routers; it has a transaction
per router, which are one step here because no property relates two routers.

Assumed of OVN: one election step per port, seen at once by everyone. NB
transactions are atomic and acknowledge truthfully. `Gateway_Chassis` rows and
the routers' candidates do not change. A read reflects what was committed when it
is made: what others write between a read and the write that follows from it is
not seen, but a monitor cache that lags behind for more than one such step is not
modelled.

`hidden` lets a process's cache miss any of its own rows, and the direct select
runs only when it sees none of them, as in the code; with the one router of
`drain_faults` that is all or nothing. A failing restore transaction
("restore") is in no run: that process stays at priority 0 by design until it
starts again; the theorem states its absence as an assumption.

### StaleChassis

Routes are rows with an identity, a router, a chassis tag and a marker
(`row`), the MAC binding of the virtual gateway IP is a value per router
(`mac`). Each agent reads rows in one step (`FindDefaultRoute`, `FindUnmarked`,
`ListStale`) and writes what it derived from its `copies` in a later one
(`WriteDefaultRoute`, `MarkTakeoverReady`, `DeleteStaleRoute`), the whole
`external_ids` map included, so that another agent's write or the return of the
chassis comes between. `missing` is `missingChassis` with "new" and "old" for
before and after the grace period and jitter; agents time out in any order.
`waited` is a history variable that the specification's guards never read.

### OVNRefresh and SnapshotService

A database is the set of changes committed to it and a snapshot the set of
changes it reflects, so "stale" and "incomplete" are set inclusions. Rebindings
take the immediate path, other changes the debounced one. Event handlers are
split where the observation is stamped with `refreshSeq` before the signal is
sent (`StampObservation`, `immediateStateRefresh`). `refreshState` is a pass of
four steps for each of its two callers. Armed timers may fire at any time. Once
the process is cancelled every direct select of its passes fails and the cache
stands (`contextDone`); the refresh after a drain has a context of its own.

`SnapshotService` has one refresh at a time, numbered, whose snapshot holds
whatever was committed before it began, unless it became doubtful because a
server did not answer. The mapping takes `reading` and `since` from whichever
goroutine runs a pass, and `published`, `gen`, `snap`, `acted` from `state`, `gen`,
`snap`, `applied`.

Not modelled: `connectWithRetry`'s intervals, the wake-up of a draining agent
(`signalDrainWatch`), which columns a handler compares.

### DesiredState and HostPlane

`DesiredState` has the join of `refreshState` (chassis references, port-binding
peers, router ports by UUID, segments with tags, NAT rows, networks with their
filter) and `computeDesiredState`, over tables that are sets of rows.

`HostPlane` runs the agent's handlers as sequences of named steps (`todo`):
`StartSteps`, `CycleSteps`, `StopSteps` give the order of the calls for the three
modes, and each action takes its step from the head. Faults, drift and crashes
so fall between any two calls. The host is a record: bridge address, VLAN
interfaces (none, ours, ours without its alias, the operator's, one that must be
refused), veth pair, ingress exception, source rules, leak routes, prefix-lists,
managed VIP addresses, DNAT routing, and the nftables ruleset as what it
translates and guards. `cfg` is the running configuration, built in layers
(`loadConfig`) and merged on reload (`planReload`); `handleReload` makes the
clean-ups of `applyReload`. The
question whether the ruleset's table exists may fail while it does ("nftlist"):
nothing is deleted then, and the new rules come after the old ones, so `host.nft`
is a set. A device that is not found or a listing that fails ends its group of
steps, and makes a reload leave all the addresses it withdraws. `spoilt` and
`residue` are history variables: the
exception was taken away by hand; something failed to be removed, or was left by
a process with another configuration.

Left out: `veth_leak_enabled` switched off, TLS material, log level, timers,
dry-run, masquerade ports and the rendering of rules, sysctls and MTU.

### RouteSync

`kernel`, `frr`, `advertised` and `resolvable` are the outside; the cycle's
listings, batches and results are variables because they are used after the
outside may have changed. Every call may fail; a vtysh batch may succeed for some
addresses. A kernel route works under the ip rule of its address, and `bare` are
the addresses that have the route without the rule: `AddKernelRoute` may fail with
its rollback, without needing one, or with a rollback that fails as well, and
`DelKernelRoute` may lose the rule and keep the route. `seen` are the kinds of
fault of the current cycle, so that a property excuses what this cycle met and
nothing older; only a lost rule is remembered for ever (`ruleLost`), since no
cycle looks at rules.
`routeSyncResult.ready` is `ready`. `verifyRoutes` is one step (listing and
re-add). `RIB` is what `ListFRRRoutes` shows: statics whose next-hop resolves.
`consecutiveReAdds` stops counting at the threshold that triggers the repair,
because the code only asks whether it has been reached.

### DriftWatch

Deletions reach an open subscription as events, tagged with who made them; an
event counts as drift when the route is owned at the moment it is taken. A
cycle's listing may fail, which counts as an empty one, an add may be refused or
rolled back (its deletion is an event of the agent's own), a removal may fail:
`left` is what the last cycle could not do. Nobody is told of it and only the next
cycle tries again, so the properties except it. There
is no periodic reconcile on purpose: the watch is there not to wait for it.
Deletions before the first subscription ("early") are not in the runs: the code
assumes there are none (`agent.go:261-263`), the theorem states it as an
assumption.

Not modelled: the lengths of the backoffs, the shutdown wait. `verifyRoutes` is in
`RouteSync`.

### FlowPlane

`port` is the OpenFlow number of each segment's patch port, changed by
ovn-controller; `segs` is `rm.segments`, revalidated as in
`refreshSegmentBindings` (`StillBound`, `Discover`, the fallback to the first patch
port). A cycle is `EnsureSegments`, then per plane `PublishOwned`, `DumpFlows`,
`applyFlowAdds`, `DeleteStale`, `EndPlane`; a plane that fails returns early. Adds
go as a bundle, a batch or one by one (`bundled`), so a failure installs nothing or any part. A flow
is identified by its key; MAC rewriting is the router its packets are sent to.
The flow watch is `Subscribe` and `TakeEvent`; its debounce and rate limit are
those of `DriftWatch`, the same `driftWatcher`.

### FRRRestart

zebra and bgpd are incarnations (`pid`) that stop, start, answer, and apply the
saved lines some time later. A vtysh write reaches the daemons that are up.
`ReconcileFRRPrefixList` runs call by call over the union of both copies.
`prime` and `step` are `frrWatchState`; a poll may fail although FRR is up.

Assumed: at `prime`, an FRR that answers has applied its saved lines; the
follow-up delay is longer than `vtysh -b` takes and than the reconcile the
restart asked for. Without the second assumption both triggers coalesce on a
busy main loop, and what the saved lines overwrote waits for the next cycle. An
unreadable bgpd copy is a bgpd that is down. A removal names its sequence number
only.

## 3. Runs

| Run | Bounds | Shows | Distinct states |
|---|---|---|---|
| `rolling_restart` | 3 chassis; r1 may live on all of them, r2 on one, with a default route nobody manages; 4 stops, one agent away at a time, cleanup on and off | `AlwaysForwarded`, `ActiveKeepsLead`, `CleanupSparesTakeover`, `ShutdownEnds` | 184 000 |
| `drain_faults` | 2 chassis, equal priorities, 1 stop, 1 fault of any kind but a failed restore, both drain modes | `RunningNotStranded`, `MarkerAfterAnnounce`, `Converges` | 445 000 |
| `stale_marker` | 2 chassis, 3 stops, deadlines | violation of `TruthfulRelease` | |
| `stale_cleanup` | 3 chassis, one of them lost at the start, 1 router, 3 rows, 1 fault, 1 move | `WaitsOutGrace`, `OwnerServed`, `StaleRemoved` | 558 000 |
| `refresh` | 1 rebinding, 1 other change, 2 faults of any kind (lost updates, selects, listings, SIGTERM) | `SnapshotsAdvance`, `ImplementsService`, `ObservationReflected`, `EventReconciled`, `ShutdownEnds` | 70 000 |
| `refresh_startup` | as above, no faults, periodic reconcile counted on | violation of `ChangeReconciled` | |
| `route_sync` | 2 addresses on 2 devices, 5 intents, 1 change, 2 faults of 8 kinds | `ReadyForwards`, `WithdrawBeforeTeardown`, `CycleRepairs`, `Converges` | 1.27 million |
| `flow_planes` | a flat and a VLAN segment, an address on each, 3 intents, 1 change (intent, port or shutdown), 2 faults of any kind | `NothingUnseen`, `NeverBlanked`, `Converges` | 805 000 |
| `flow_late_port` | as above, the flat segment's port may come late, no faults | violation of `BindingsFollow` | |
| `drift_faults` | 2 addresses, every intent, 3 faults of 6 kinds, 2 changes | `NothingUnseen`, `Repaired` | 110 000 |
| `frr_restarts` | 2 networks, 4 sequence numbers, 2 starts per daemon, with and without a saved line, 1 failed poll or change | `KeepsWanted`, `Restored` | 718 000 |
| `host_plane` | 3 routers (a VLAN of the agent, an interface of the operator, one it must refuse) in 3 worlds, 5 configuration files, 2 prefix-lists, 3 VIPs (one kept by the operator), 1 change, 1 fault of 17 kinds | `NoLoop`, `NothingForgotten`, `LeavesClean`, `RulesetStays`, `OperatorsKept`, `Converges` | 433 000 |

One run per module also checks its type invariant.

Why these bounds: a handover needs a leaving and a taking chassis, a third one
makes the taking chassis leave as well, and four stops let one chassis leave
twice. The cleanup needs two survivors that work on the same rows and a third
chassis that is gone or back; three rows are one per writer. Two faults are a
fault in the recovery from the first. A cycle needs two addresses for a partial
batch; a binding that is wrong needs a second segment to be taken for. Two starts
of each FRR daemon give every order of restarts around a cycle. One change and
one fault on the host already meet at every pair of steps, across a restart as
well. Priorities stop at `MaxPrio`, process IDs at `MaxBoots`, streaks at their
threshold; in each case the bound is higher than what the runs reach except for
`MaxPrio` in `drain_faults`: it cuts the behaviours in which two agents outbid
each other for a router while OVN keeps changing its mind about them; the code
itself has no such limit.

Deadlock is not checked where the system ends (`OVNRefresh` after Close), or
where nothing is left to be done once faults and changes are used up: `DriftWatch`
has no periodic reconcile; in `FRRRestart` polls of an unchanged FRR are left
out; `HostPlane` ends where the agent refuses the configuration it should start with.

### Fairness

- Goroutines that can run do (weak fairness of each agent's steps, the refresh
  loop, the handlers, the main loop, the watches), commands return, the
  supervisor starts an agent that died, and OVN elects, recovers and delivers to
  caches what it has not lost.
- The main loop's `select` picks at random among ready cases, so a case that is
  ready again and again is picked in the end: strong fairness of `Shutdown` and
  of `handleReload`. A follow-up of the FRR watch that stays due is taken (weak
  fairness of `FollowsUp`): the delay passes, the polls go on.
- Grace periods pass, and OVN moves a gateway off a chassis that is lost
  (`StaleChassis`); it need not move one off a chassis that is there.
- `AgentGoesOn` of `HostPlane` is the weak fairness of `Agent` with its guard
  written out, which TLC evaluates faster than `ENABLED`.
- Nothing obliges a signal, a crash, a fault, another writer or an operator to
  act. The periodic reconcile is counted on in `PeriodicSpec` only, which is what
  `refresh_startup` is checked under, and as the agent's repeated cycle in
  `GatewayDrain`, `StaleChassis`, `RouteSync`, `FlowPlane` and `HostPlane`.

### What was found

Three runs expect a violation.

- `stale_marker`: the retag at `ovn_gateway.go:360` leaves the takeover marker of
  an earlier ownership on the row; the next drain takes it for the takeover.
- `refresh_startup`: `Connect` drops the signal of a change that landed while the
  initial refresh ran (`ovn.go:419`); the periodic reconcile works on the
  published state and never refreshes it.
- `flow_late_port`: a flat segment that was bound to the first patch port of the
  bridge, because its own did not exist yet, keeps that binding when its own port
  appears (`ovs.go:329` compares tags and the number of the port it has), against
  `ovs.go:136` ("Every binding is re-validated on every call").

Other disagreements of code and comment seen while modelling, without a run of
their own:

- `ovn_gateway.go:862`: sole candidates are found in the frozen state, a router
  that became local later is waited for until the deadline.
- `ovn_gateway.go:843` and `1201`: the direct select runs only if the cache shows
  no own row at all.
- `ovn_gateway.go:757-764`: a MAC binding is found through its router's stale
  route; when the route went in a cycle in which the bindings could not be listed
  or deleted, the binding stays.
- `agent.go:670`: a cycle whose listing of the managed routes failed does not run the tracker, so
  a return within it is missed and the absence counts as one.
- `agent.go:228`: a SIGTERM while `Connect` is retried leaves without the cleanup
  `docs/reference/configuration.md:43` describes.
- `agent.go:982`: an address of an unusable segment is skipped in the kernel, the
  cycle is still ready; `agent.go:1284`: so is one with an unresolvable next-hop.
- `agent.go:256`: the reconcile signal dropped after start-up may be newer than
  the snapshot the start-up reconcile used.
- `agent.go:261-263` says nothing before the watch's start is drift: a deletion
  between the startup reconcile and the first subscription is not seen.
- `route_watch.go:109`: the agent's own deletion of an address that has become
  wanted again counts as drift.
- `routing.go:742` calls the repair of a listed entry a no-op for zebra; with
  saved lines it can overwrite another network in bgpd until the next cycle.
- After a saved line overwrote an entry a network may have two, and its removal
  needs two cycles.
- `ovs.go:146-148` says the prune on failover removes interfaces of segments that
  moved away: a chassis that becomes a standby no longer runs `EnsureSegments`, and
  keeps its interfaces until the shutdown.
- `ovs.go:150-160`: a segment whose interface fails in one cycle has no binding,
  and the prune deletes the interface it has, with the routes through it, where
  `agent.go:583-590` speaks of leaving them in place.
- `ovs.go:546`: a failing deletion of the MAC-tweak flows returns before the
  hairpin flows are deleted.
- `routing_linux.go:365`: a kernel route whose ip rule cannot be added and whose
  rollback fails too, or whose deletion fails after that of its rule, stays
  without a rule; cycles compare routes only (`ListKernelRoutes`), so none repairs it.
- `agent.go:1052-1063`: a withdrawal that fails does not keep the cycle from
  removing the kernel route under the static, against `agent.go:1028` ("Remove FRR first
  to stop attracting traffic before tearing down the data plane").
- `nftables_linux.go:407`: a failed question for the table counts as "no table", and
  the new rules are added to the old ones until the next cycle.
- `routing_linux.go:997`: in port-forward-only mode no cycle runs the leak steps,
  so an ingress exception or source rule that was removed is not repaired.
- A VLAN interface whose alias could not be set is used and never pruned.
- `nftables_linux.go:355-360`, and the set-up in general: what a process with
  another configuration left on the host (a list of another name, VIPs, the
  ruleset) is not removed at the next start.
- After a start with `network_cidr` unset, the ruleset that `SetupPortForward`
  installs guards no network until the first reconcile.

## 4. Proofs

TLAPS proves the following for all values of the constants: any number of
chassis, routers, addresses, segments, intents, faults and restarts, and in any
interleaving. The bounds (`MaxFaults`, ...) are constants like the others.

| Theorem | Says | Assumes |
|---|---|---|
| `GatewayDrainProofs!TypeCorrect` | `TypeOK` | |
| `GatewayDrainProofs!MarkersAreAnnounced` | `MarkerAfterAnnounce` | |
| `GatewayDrainProofs!RestoredChassisRejoins` | `RunningNotStranded` | the restore transaction does not fail, the cache misses no row |
| `GatewayDrainProofs!CleanupSpares` | `CleanupSparesTakeover` | a standby is left (below), no failing ovn-controller, host, restore, refresh or cache |
| `GatewayDrainProofs!ActiveStaysAhead` | `ActiveKeepsLead` | calm (below) |
| `GatewayDrainProofs!ForwardedThroughRestarts` | `AlwaysForwarded` | calm, and every restart drains and holds the settle delay |
| `GatewayDrainProofs!ReleasesAreTruthful` | `TruthfulRelease` | as for `ForwardedThroughRestarts` |
| `StaleChassisProofs!TypeCorrect` | `TypeOK` | |
| `StaleChassisProofs!GraceOutwaited` | `WaitsOutGrace` | |
| `OVNRefreshProofs!TypeCorrect` | `TypeOK` | |
| `OVNRefreshProofs!SnapshotsOnlyAdvance` | `SnapshotsAdvance` | |
| `OVNRefreshProofs!ObservationsReflected` | `ObservationReflected` | |
| `OVNRefreshProofs!Implements` | `OVNRefresh` implements `SnapshotService` | |
| `HostPlaneProofs!TypeCorrect` | `TypeOK` | no IPv6 network is configured |
| `HostPlaneProofs!WantedIsServed` | a cycle that begins with a snapshot of the present OVN wants what the rows of its routers ask for | the rows keep the schema; one gateway port of a router here, one localnet port of a switch; no load balancers |
| `HostPlaneProofs!OneCycleRepairs` | an undisturbed cycle leaves the host as its goal has it, whatever it found | |
| `HostPlaneProofs!OneCycleRealises` | an undisturbed cycle whose goal is that of the present OVN ends in `Realised` | as for `WantedIsServed` |
| `HostPlaneProofs!NoPacketLoop` | `NoLoop` | |
| `HostPlaneProofs!OperatorsSafe` | `OperatorsKept` | |
| `HostPlaneProofs!VIPsStayTranslated` | `RulesetStays` | |
| `HostPlaneProofs!AllLookedAfter` | `NothingForgotten` | |
| `HostPlaneProofs!ShutdownComplete` | `LeavesClean` | |
| `RouteSyncProofs!TypeCorrect` | `TypeOK` | |
| `RouteSyncProofs!ReadyIsTrue` | `ReadyForwards` | |
| `RouteSyncProofs!WithdrawnFirst` | `WithdrawBeforeTeardown` | |
| `RouteSyncProofs!OneCycleRepairs` | `CycleRepairs` | |
| `DriftWatchProofs!TypeCorrect` | `TypeOK` | |
| `DriftWatchProofs!NoDriftUnseen` | `NothingUnseen` | no deletion before the first subscription |
| `FlowPlaneProofs!TypeCorrect` | `TypeOK` | |
| `FlowPlaneProofs!HairpinsStay` | `NeverBlanked` | an address is wanted with its segment; where unresolved segments are wanted too, no VLAN interface fails or no VLAN is wanted |
| `FlowPlaneProofs!OwnedReturns` | `NothingUnseen` | |
| `FRRRestartProofs!TypeCorrect` | `TypeOK` | |
| `FRRRestartProofs!WantedKept` | `KeepsWanted` | |

The assumptions about restarts are conditions on the constants:

- *A standby is left* (`StandbyAssumption`): finitely many chassis, and fewer
  agents away at a time than an HA group of several has members. Restarts may
  overlap: with three candidates two agents may be away at once.
- *Calm* (`CalmAssumption`): a standby is left, only routes (FRR, BGP) and refreshes
  fail, no row starts at 0, and a port that is bound at the start is bound to a
  candidate with the highest row, as OVN elects it.

They are as weak as TLC could make them: on three chassis, `ActiveKeepsLead` and
`AlwaysForwarded` hold with failing routes and refreshes, and each other kind of
fault violates both (a failing transaction, NB read, SB, ovn-controller, host or cache, a
crash, a drain that times out, a tie that OVN resolves against the present chassis;
a failing restore where two faults may happen). All candidates away at once violates both, and a restart
without the drain or without the settle delay violates `AlwaysForwarded`. A
violated `TruthfulRelease` under faults is the finding of the run `stale_marker`.

`TypeCorrect` of `HostPlane` needs its assumption because the set-up passes
`network_cidr` on unfiltered (`routing_linux.go:730-731`), while a cycle takes the
IPv4 part (`computeEffectiveNetworks`), and the configuration accepts IPv6
networks.

The arguments, each an inductive invariant:

- **Markers.** `MarkOnlyAnnounced`: an agent at the marker step announces its whole
  snapshot. `ensureRoutes` sends it there only if all of it succeeded, and nothing
  but the agent itself, its crash or its host takes announcements away.
- **Rejoining.** `RejoinInv` adds the types and that no cache hides a row: every
  process passes `RestoreDrainedGateways` before it counts as running, only a
  draining agent lowers rows, and only its own, and boosts are never to 0.
- **Clean-up after a drain.** `CleanupInv`: agents that are away were asked to
  leave, and are fewer than any group has members, so each group keeps a chassis
  whose row is not at 0. When its drain is complete, all its rows with a standby
  are at 0, OVN has a better candidate for each and none comes back; what the
  refresh after the drain still finds bound has no other candidate.
- **Lead.** `LeadInv`: a port is bound to a candidate, and no row of its group is
  above the holder's, but the 1 of a chassis that has come back, unless the holder
  has lowered its row and is about to leave (`HolderLeads`, `LoweredIsLeaving`). So
  no port leaves an agent that reconciles (`LocalsStay`), a planned boost still
  suffices when it is written (`PlansLead`), and after the reconcile the lead is 2 at
  least, which the next chassis to come back at 1 does not even tie
  (`LeadsAfterReconcile`). A port that leaves finds a standby, since fewer chassis
  are gone than its group has.
- **Forwarding.** `ForwardInv` adds: a chassis that a router's marker names announces
  it and has it in its last refresh; until another marker takes its place it is no
  further than the wait of its drain, and waits for this router
  (`MarkedForwards`). An agent waits only for routers it has a row for
  (`OwnAwaited`), hence `ReleasesAreTruthful`.
- **Grace.** `Waited`: what is tracked as overdue, and what is being removed, was
  waited for; a reset of the tracker forgets both.
- **Refresh.** `Exclusive`: which goroutine has a pass open follows from where the
  loop and the main goroutine are, and they are never both in a refresh.
  `Progress` says what a pass has read: after the bindings all rebindings of its
  base, at the end all of it, if the servers answered. The published state is
  part of the base of whatever pass is open, hence no pass loses anything, and
  its steps are those of `SnapshotService`.
- **Observations.** `SeenSince`: a rebinding event carries the number of the pass
  it was seen in, and came through the cache, so every later pass that has read
  the bindings has seen it.
- **Ruleset.** Before a shutdown no step but `applyNftRuleset` and the operator
  writes the table, and what it writes translates all VIPs of the running
  configuration. Nothing is promised for the time between the address of a VIP
  and its first ruleset, nor during a shutdown, which removes the table first.
- **Nothing forgotten.** Neither property is inductive: during the teardown they
  hold only because a step is still to come. `Accounted` says of each part of the
  host that it is a residue, or is looked after under the running configuration
  and, in a teardown, that the step that removes it is still in `todo`. `Fit` says
  that the steps a configuration has no use for are never planned, so nothing is
  written that it would not look after; a reload keeps the mode and whether VIPs
  are forwarded, and removes the rest itself.
- **Packet loop.** `NoLoop` speaks of the present host, so `StepsLeft` says what
  keeps it true for the rest of the handler: source rules are added only in a
  group that begins with the exception (`Guarded`) or with the exception in
  place, and the exception is removed only after the rules (`Ordered`) or without
  any. Every sequence of steps the agent starts has both, by `StartSteps`,
  `CycleSteps` and `StopSteps` being concatenations of such sequences.
- **Route plane.** `Progress` accumulates what the cycle has achieved so far: the
  listing is still true (`Listed`), what it says it installed is there
  (`KernelDone`, `StaticsDone`), no static is left of what is torn down next
  (`Withdrawn`), each as long as nobody interfered. A route lacks its rule only if
  one was lost (`Ruled`). For `CycleRepairs`, `Exact` says of a cycle in which
  nothing has failed or was taken away that kernel and FRR are the listed ones,
  with what was added and without what was removed, whatever the listing showed.
- **Watches.** `Seen` extends `NothingUnseen` to the time before the subscription.
  In `DriftWatch` it needs that a running cycle works on the set it published
  (`Published`) and that a watch that backs off knows of its outage (`Lost`); what a
  cycle fails to add is in `left`. In
  `FlowPlane` it needs that the published keys are those of the desired flows while
  the plane is worked on (`Current`), and that no flow about to be deleted has an
  owned key (`Unowned`).
- **Hairpin flows.** `FInv`: every port number in a flow or a binding was given by
  the bridge, and one the agent has not read yet is in no flow (`ReadOrUnused`), so
  a flow that reflects an address today is one whose key the reconcile wants and
  does not delete; replacing it keeps the key. `Settled`: once the bindings are made
  no address takes the binding of the unknown segments in place of its own.
- **Stale rows.** `StaleInv`: rows and copies of them are typed, and what an agent
  is about to delete was tagged by a chassis in its stale set (`OnlyStaleDeleted`).
- **What is wanted.** Not an invariant but a computation: under uniqueness of names,
  uuids and references the joins by `CHOOSE` (first active port, datapath, MAC) have
  one outcome (`LocalRouters`, `NBAddress`, `SBAddress`, `TagsServed`), and the sets
  they build are those `Converges` reads off the rows directly (`ServedRouters`,
  `ServedNets`, `ServedIPs`, `ServedTags`). Without the assumption on gateway ports
  only the first active port of a router counts (`collectLocalRouters`).
- **One cycle.** From the first step of a cycle on, `Progress` says that every step
  the cycle has left behind has still its effect (`Achieved`): each step is shown to
  give its own effect (`Got`) and to keep those of the others. It needs four facts
  of the whole specification (`CycleInv`): the listing of source rules is used by
  the very next step (`Planned`, `SeenInv`: `addLeakRules` skips what was
  listed, so a stale listing would leave a rule out), a bound segment's interface
  exists (`BoundPresent`: the cycle creates only those not bound), and the veth pair
  and the bridge's address were made before the first cycle (`SetUpInv`). "Undisturbed"
  is no fault, drift or removal by others, during this one cycle; whatever happened
  before is arbitrary. `DeliveredRealised` joins this with **What is wanted**, so
  `OneCycleRealises` is the safety core of `Converges`: what stays with TLC is that
  an undisturbed cycle with a present goal comes, which is fairness.
- **Prefix-list.** Without saved lines: copies agree wherever both have an entry
  (`Agree`), the entry the cycle remembers for a network is nobody else's
  (`Remembered`), and the sequence number it will use is free in every copy
  (`Fresh`).

Every invariant and every safety property of the passing runs is the statement of
a theorem. Only model-checked is liveness (`Converges`, `Repaired`, `Restored`,
`OwnerServed`, `StaleRemoved`, `EventReconciled`, `ShutdownEnds`): TLAPS does not
reason about fairness. Of `HostPlane!Converges` the part that is not about fairness
is proved (`OneCycleRealises`), and of `RouteSync!Converges` what one cycle does
(`OneCycleRepairs`). Where a theorem has an assumption, the run checks the
property on an instance that satisfies it, except for the faults the table
leaves out, whose effect the runs with faults and the findings show.

## 5. Plan

1. **Theorems**: the safety cores of the other liveness properties, as
   `OneCycleRealises` is that of `HostPlane!Converges` and `OneCycleRepairs` that of
   `RouteSync!Converges`: what one undisturbed cycle of `FlowPlane` gives.
2. **An abstract handover** that always has a forwarding chassis, refined by
   `GatewayDrain` (`announced` and `marker` mapped to the forwarding set).
3. **Composition** of `RouteSync` with `DriftWatch`, whose verify step and watch
   repair the same routes.
4. `GatewayDrain` with two own rows of which the cache shows one, once the code
   decides what should happen then.

The number of runs is kept at twelve: new questions join an existing
configuration or an MC module.

## 6. Not modelled

- Metrics and the health endpoint: nothing reads them back.
- The generated OVSDB models, the documentation generator: no behaviour of the
  agent.
- The test benches: read for the invariants they check, no part of the program.
- Rendering of nftables rules and flows, parsing of command output and of single
  configuration values: text, abstracted to what it says.
- Timers' lengths, backoff intervals, log level, dry-run, TLS: without effect on
  what the properties speak of, or only on when it happens.
