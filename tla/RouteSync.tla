------------------------------ MODULE RouteSync ------------------------------
(* The route plane of one agent (src/agent.go: ensureRoutes, removeAllRoutes, *)
(* verifyRoutes, repairUnresolvableNexthop; src/routing.go,                   *)
(* src/routing_linux.go): the cycle that brings the kernel's /32 routes, the  *)
(* FRR statics and the BGP announcements to what the reconcile wants.         *)
(*                                                                            *)
(* FRR, the kernel and other writers change the routes between any two steps. *)
(* The kernel has one agent route per address; it sits on a device, in a      *)
(* routing table of its own that an ip rule per address steers into           *)
(* (route_table_id).  A rule that outlives its route does nothing and is not  *)
(* kept here.  A static is in zebra's RIB, listed and advertised only while   *)
(* the veth next-hop resolves.                                                *)
EXTENDS Integers, FiniteSets

CONSTANTS
  IP,
  Dev, NoDev,     \* kernel interfaces, "no route"
  Intents,        \* what a reconcile may want
  Faults,         \* the kinds of fault that may happen
  MaxFaults,      \* bound: how many faults happen in a behaviour
  MaxChanges      \* bound: how often the intent changes

(* dev: where the kernel route of a desired address belongs; static: the      *)
(* addresses announced through an FRR static; skip: the ones whose segment    *)
(* did not resolve; routers: the node hosts routers (HasLocalRouters).        *)
Intent == [dev : [IP -> Dev \cup {NoDev}], static : SUBSET IP, skip : SUBSET IP,
           routers : BOOLEAN]

FaultKinds ==
  {"list",      \* listing routes fails
   "kernel",    \* a kernel route change fails
   "rule",      \* a route is left without its ip rule: the rule cannot be added
                \* nor the route rolled back, the route outlives the deletion of
                \* its rule, or another writer deletes the rule
   "vtysh",     \* adding or deleting statics fails, for some of them
   "refresh",   \* the BGP soft-refresh fails
   "verify",    \* a re-add, a check or a repair of verifyRoutes fails
   "drift",     \* another writer deletes a route
   "nexthop"}   \* zebra loses the connected route of the veth next-hop

ASSUME ConstantsAssumption ==
  /\ NoDev \notin Dev
  /\ Intents \subseteq Intent
  /\ \A w \in Intents : \A ip \in w.static \cup w.skip : w.dev[ip] # NoDev
  /\ Faults \subseteq FaultKinds
  /\ MaxFaults \in Nat /\ MaxChanges \in Nat

consecutiveReAddThreshold == 3

VARIABLES
  intent,       \* what the next cycle will want
  kernel,       \* agent-tagged kernel routes
  bare,         \* the addresses whose kernel route has no ip rule
  frr,          \* statics configured in FRR through the veth next-hop
  resolvable,   \* zebra resolves the veth next-hop
  advertised,   \* the /32s the BGP peers have
  pc,
  want,         \* the intent this cycle works on
  curKernel, curFRR,          \* the listings of this cycle
  addFRR, delFRR,             \* the batches of this cycle
  kernelOK, addOK, refreshOK, \* their outcome
  ready,        \* routeSyncResult.ready of the last active cycle
  consecutiveReAdds,
  cooldown,     \* nexthopRepairCooldown is running
  faults,       \* how many faults have happened
  seen,         \* and of which kinds since the cycle began
  ruleLost,     \* a route was left without its ip rule at some time
  changes

planeVars == <<kernel, bare, frr, resolvable, advertised>>
listVars == <<curKernel, curFRR>>
batchVars == <<addFRR, delFRR>>
okVars == <<kernelOK, addOK, refreshOK, ready>>
streakVars == <<consecutiveReAdds, cooldown>>
faultVars == <<faults, seen, ruleLost>>
vars == <<intent, kernel, bare, frr, resolvable, advertised, pc, want, curKernel,
          curFRR, addFRR, delFRR, kernelOK, addOK, refreshOK, ready,
          consecutiveReAdds, cooldown, faults, seen, ruleLost, changes>>

Phases == {"idle", "list", "addKernel", "addFRR", "delFRR", "delKernel",
           "refresh", "report", "verify", "removeFRR", "removeKernel"}

TypeOK ==
  /\ intent \in Intents /\ want \in Intents
  /\ kernel \in [IP -> Dev \cup {NoDev}]
  /\ curKernel \in [IP -> Dev \cup {NoDev}]
  /\ bare \in SUBSET {ip \in IP : kernel[ip] # NoDev}
  /\ frr \in SUBSET IP /\ curFRR \in SUBSET IP /\ advertised \in SUBSET IP
  /\ addFRR \in SUBSET want.static
  /\ delFRR \in SUBSET (IP \ want.static)
  /\ resolvable \in BOOLEAN
  /\ pc \in Phases
  /\ kernelOK \in BOOLEAN /\ addOK \in BOOLEAN /\ refreshOK \in BOOLEAN
  /\ ready \in BOOLEAN
  /\ consecutiveReAdds \in 0..consecutiveReAddThreshold
  /\ cooldown \in BOOLEAN
  /\ faults \in 0..MaxFaults /\ seen \in SUBSET FaultKinds
  /\ ruleLost \in BOOLEAN
  /\ changes \in 0..MaxChanges

NoRoutes == [ip \in IP |-> NoDev]

(* The agent starts among the routes its last run left behind. *)
Init ==
  /\ intent \in Intents
  /\ want = intent
  /\ kernel \in [IP -> Dev \cup {NoDev}] /\ bare = {}
  /\ frr \in SUBSET IP /\ advertised = frr
  /\ resolvable = TRUE
  /\ pc = "idle"
  /\ curKernel = NoRoutes /\ curFRR = {}
  /\ addFRR = {} /\ delFRR = {}
  /\ kernelOK = TRUE /\ addOK = TRUE /\ refreshOK = TRUE /\ ready = FALSE
  /\ consecutiveReAdds = 0
  /\ cooldown = FALSE
  /\ faults = 0 /\ seen = {} /\ ruleLost = FALSE /\ changes = 0

Fault(kind) ==
  /\ kind \in Faults
  /\ faults < MaxFaults
  /\ faults' = faults + 1
  /\ seen' = seen \cup {kind}
  /\ ruleLost' = (ruleLost \/ kind = "rule")

NoFault == UNCHANGED faultVars
FaultUnless(fine, kind) == IF fine THEN NoFault ELSE Fault(kind)

desiredIPs(w) == {ip \in IP : w.dev[ip] # NoDev}
standby(w) == desiredIPs(w) = {} /\ ~w.routers

(* The statics zebra has in its RIB, which are the ones it lists and BGP may  *)
(* advertise.                                                                 *)
RIB == IF resolvable THEN frr ELSE {}

-----------------------------------------------------------------------------
(* The environment: OVN changes the intent, others touch routes and rules,    *)
(* zebra loses the next-hop, BGP advertises on its own time.                  *)

ChangeIntent ==
  /\ changes < MaxChanges
  /\ changes' = changes + 1
  /\ \E w \in Intents \ {intent} : intent' = w
  /\ UNCHANGED <<planeVars, pc, want, listVars, batchVars, okVars, streakVars,
                 faultVars>>

Drift ==
  /\ Fault("drift")
  /\ \/ /\ \E ip \in IP : /\ kernel[ip] # NoDev
                         /\ kernel' = [kernel EXCEPT ![ip] = NoDev]
                         /\ bare' = bare \ {ip}
        /\ UNCHANGED frr
     \/ /\ \E ip \in frr : frr' = frr \ {ip}
        /\ UNCHANGED <<kernel, bare>>
  /\ UNCHANGED <<intent, resolvable, advertised, pc, want, listVars, batchVars,
                 okVars, streakVars, changes>>

LoseRule ==
  /\ Fault("rule")
  /\ \E ip \in IP \ bare : kernel[ip] # NoDev /\ bare' = bare \cup {ip}
  /\ UNCHANGED <<intent, kernel, frr, resolvable, advertised, pc, want, listVars,
                 batchVars, okVars, streakVars, changes>>

LoseNexthop ==
  /\ resolvable
  /\ Fault("nexthop")
  /\ resolvable' = FALSE
  /\ UNCHANGED <<intent, kernel, bare, frr, advertised, pc, want, listVars, batchVars,
                 okVars, streakVars, changes>>

Redistribute ==
  /\ advertised # RIB
  /\ advertised' = RIB
  /\ UNCHANGED <<intent, kernel, bare, frr, resolvable, pc, want, listVars,
                 batchVars, okVars, streakVars, faultVars, changes>>

CooldownOver ==
  /\ cooldown
  /\ cooldown' = FALSE
  /\ UNCHANGED <<intent, planeVars, pc, want, listVars, batchVars, okVars,
                 consecutiveReAdds, faultVars, changes>>

-----------------------------------------------------------------------------
(* ensureRoutes                                                               *)

BeginCycle ==
  /\ pc = "idle"
  /\ want' = intent
  /\ pc' = IF standby(intent) THEN "removeFRR" ELSE "list"
  /\ ready' = FALSE
  /\ seen' = {}
  /\ UNCHANGED <<intent, planeVars, listVars, batchVars, kernelOK, addOK, refreshOK,
                 streakVars, faults, ruleLost, changes>>

(* A listing that fails is taken for an empty one. *)
ListRoutes ==
  /\ pc = "list"
  /\ pc' = "addKernel"
  /\ curKernel' \in {kernel, NoRoutes}
  /\ curFRR' \in {RIB, {}}
  /\ FaultUnless(curKernel' = kernel /\ curFRR' = RIB, "list")
  /\ UNCHANGED <<intent, planeVars, want, batchVars, okVars, streakVars, changes>>

needsKernelAnywhere(ip) ==                   \* variant: the device is ignored
  ip \notin want.skip /\ curKernel[ip] = NoDev
needsKernel(ip) == ip \notin want.skip /\ curKernel[ip] # want.dev[ip]

AddKernelRouteUnrolled(ips, failed, rolledBack, orphaned) ==  \* variant: no rollback
  /\ kernel' = [ip \in IP |-> IF ip \in (ips \ failed) \cup rolledBack \cup orphaned
                              THEN want.dev[ip] ELSE kernel[ip]]
  /\ bare' = (bare \ (ips \ failed)) \cup {ip \in rolledBack \cup orphaned : kernel[ip] = NoDev}

(* AddKernelRoute for a set of addresses: it replaces the route on whatever   *)
(* device it is and ensures the rule.  A failing replace leaves the address   *)
(* alone; a failing rule deletes the route again (rolledBack), and when that  *)
(* fails too the route stays, with a rule only if it had one (orphaned).      *)
AddKernelRoute(ips, failed, rolledBack, orphaned) ==
  /\ kernel' = [ip \in IP |-> IF ip \in rolledBack THEN NoDev
                              ELSE IF ip \in (ips \ failed) \cup orphaned THEN want.dev[ip]
                              ELSE kernel[ip]]
  /\ bare' = (bare \ ((ips \ failed) \cup rolledBack))
               \cup {ip \in orphaned : kernel[ip] = NoDev}

(* What fails of adding routes for ips: the failed, the rolled back and the   *)
(* orphaned addresses.                                                        *)
AddOutcomes(ips) ==
  {o \in [failed : SUBSET ips, rolledBack : SUBSET ips, orphaned : SUBSET ips] :
     /\ o.rolledBack \cup o.orphaned \subseteq o.failed
     /\ o.rolledBack \cap o.orphaned = {}}

AddKernelRoutes ==
  /\ pc = "addKernel"
  /\ pc' = "addFRR"
  /\ LET missing == {ip \in desiredIPs(want) : needsKernel(ip)}
     IN \E o \in AddOutcomes(missing) :
          /\ AddKernelRoute(missing, o.failed, o.rolledBack, o.orphaned)
          /\ kernelOK' = (o.failed = {})
          /\ FaultUnless(o.failed = {}, IF o.orphaned = {} THEN "kernel" ELSE "rule")
  /\ addFRR' = want.static \ curFRR
  /\ UNCHANGED <<intent, frr, resolvable, advertised, want, listVars, delFRR,
                 addOK, refreshOK, ready, streakVars, changes>>

AddFRRRoutes ==
  /\ pc = "addFRR"
  /\ pc' = "delFRR"
  /\ \E added \in SUBSET addFRR :
       /\ frr' = frr \cup added
       /\ addOK' = (added = addFRR)
       /\ FaultUnless(addOK', "vtysh")
  /\ UNCHANGED <<intent, kernel, bare, resolvable, advertised, want, listVars,
                 batchVars, kernelOK, refreshOK, ready, streakVars, changes>>

staleKernel == {ip \in IP : curKernel[ip] # NoDev /\ want.dev[ip] = NoDev}
noOrphans == {}                              \* variant: only stale addresses
allListed == curFRR                          \* variant: wanted ones too
orphanedFRR == curFRR \ want.static

(* Variant: the withdrawal is queued behind the kernel removal. *)
DelFRRRoutesLater ==
  /\ pc = "delFRR"
  /\ pc' = "delKernel"
  /\ delFRR' = staleKernel \cup orphanedFRR
  /\ UNCHANGED <<intent, planeVars, want, listVars, addFRR, okVars, streakVars,
                 faultVars, changes>>

DelFRRRoutes ==
  /\ pc = "delFRR"
  /\ pc' = "delKernel"
  /\ delFRR' = staleKernel \cup orphanedFRR
  /\ \E deleted \in SUBSET delFRR' :
       /\ frr' = frr \ deleted
       /\ FaultUnless(deleted = delFRR', "vtysh")
  /\ UNCHANGED <<intent, kernel, bare, resolvable, advertised, want, listVars, addFRR,
                 okVars, streakVars, changes>>

(* DelKernelRoute for a set of addresses: the rule goes first, so that a      *)
(* route whose deletion fails may stay without it (unruled).                  *)
DelKernelRoute(ips, failed, unruled) ==
  /\ kernel' = [ip \in IP |-> IF ip \in ips \ failed THEN NoDev ELSE kernel[ip]]
  /\ bare' = (bare \ (ips \ failed)) \cup unruled
  /\ FaultUnless(failed = {}, IF unruled \subseteq bare THEN "kernel" ELSE "rule")

DelKernelRoutes ==
  /\ pc = "delKernel"
  /\ pc' = "refresh"
  /\ LET present == {ip \in staleKernel : kernel[ip] = curKernel[ip]}
     IN \E failed \in SUBSET present : \E unruled \in SUBSET failed :
          DelKernelRoute(present, failed, unruled)
  /\ UNCHANGED <<intent, frr, resolvable, advertised, want, listVars, batchVars,
                 okVars, streakVars, changes>>

RefreshBGP ==
  /\ pc = "refresh"
  /\ pc' = "report"
  /\ \/ /\ addFRR \cup delFRR = {}
        /\ NoFault
        /\ refreshOK' = TRUE
        /\ UNCHANGED advertised
     \/ /\ addFRR \cup delFRR # {}
        /\ NoFault
        /\ refreshOK' = TRUE
        /\ advertised' = RIB
     \/ /\ addFRR \cup delFRR # {}
        /\ Fault("refresh")
        /\ refreshOK' = FALSE
        /\ UNCHANGED advertised
  /\ UNCHANGED <<intent, kernel, bare, frr, resolvable, want, listVars, batchVars,
                 kernelOK, addOK, ready, streakVars, changes>>

(* The result; the marker is written and the routes are verified from it.     *)
(* The lists and flags of the cycle are locals and end with it.               *)
cycleReady == kernelOK /\ addOK /\ refreshOK
changed == addFRR \cup delFRR # {}

Report ==
  /\ pc = "report"
  /\ ready' = cycleReady
  /\ pc' = IF changed THEN "verify" ELSE "idle"
  /\ consecutiveReAdds' = IF changed THEN consecutiveReAdds ELSE 0
  /\ curKernel' = NoRoutes /\ curFRR' = {}
  /\ addFRR' = {} /\ delFRR' = {}
  /\ kernelOK' = TRUE /\ addOK' = TRUE /\ refreshOK' = TRUE
  /\ UNCHANGED <<intent, planeVars, want, cooldown, faultVars, changes>>

-----------------------------------------------------------------------------
(* verifyRoutes re-adds what is missing after the changes and counts the      *)
(* cycles in a row that had to (up to the threshold here); from the threshold *)
(* on it repairs a next-hop that does not resolve, once per cooldown.         *)

missingFRR == want.static \ RIB
missingKernel == {ip \in desiredIPs(want) \ want.skip : kernel[ip] # want.dev[ip]}

capStreak(n) == IF n > consecutiveReAddThreshold THEN consecutiveReAddThreshold ELSE n
nextStreak ==
  IF missingFRR \cup missingKernel = {} THEN 0 ELSE capStreak(consecutiveReAdds + 1)

(* refreshVethNexthop re-adds the veth address, and zebra relearns the prefix. *)
repairDue == nextStreak = consecutiveReAddThreshold /\ ~resolvable /\ ~cooldown

(* A failing check leaves everything alone; a failing repair starts the       *)
(* cooldown all the same.                                                     *)
repairUnresolvableNexthop(checked, fine) ==
  /\ resolvable' = (resolvable \/ (repairDue /\ checked /\ fine))
  /\ cooldown' = (cooldown \/ (repairDue /\ checked))

verifyRoutes ==
  /\ pc = "verify"
  /\ pc' = "idle"
  /\ \/ /\ \E o \in AddOutcomes(missingKernel), added \in SUBSET missingFRR,
              checked \in BOOLEAN, fine \in BOOLEAN :
             /\ AddKernelRoute(missingKernel, o.failed, o.rolledBack, o.orphaned)
             /\ frr' = frr \cup added
             /\ repairUnresolvableNexthop(checked, fine)
             /\ FaultUnless(o.failed = {} /\ added = missingFRR /\ checked /\ fine,
                            IF o.orphaned = {} THEN "verify" ELSE "rule")
        /\ consecutiveReAdds' = nextStreak
     \/ /\ Fault("list")
        /\ UNCHANGED <<planeVars, streakVars>>
  /\ UNCHANGED <<intent, advertised, want, listVars, batchVars, okVars, changes>>

-----------------------------------------------------------------------------
(* removeAllRoutes, when nothing is desired: statics first, then the kernel.  *)

RemoveFRR ==
  /\ pc = "removeFRR"
  /\ pc' = "removeKernel"
  /\ delFRR' \in {RIB, {}}
  /\ \E deleted \in SUBSET delFRR' :
       /\ frr' = frr \ deleted
       /\ FaultUnless(deleted = RIB, "vtysh")
  /\ UNCHANGED <<intent, kernel, bare, resolvable, advertised, want, listVars, addFRR,
                 okVars, streakVars, changes>>

RemoveKernel ==
  /\ pc = "removeKernel"
  /\ pc' = "idle"
  /\ LET present == {ip \in IP : kernel[ip] # NoDev}
     IN \E failed \in SUBSET present : \E unruled \in SUBSET failed :
          DelKernelRoute(present, failed, unruled)
  /\ advertised' \in IF delFRR = {} THEN {advertised} ELSE {RIB, advertised}
  /\ delFRR' = {}
  /\ consecutiveReAdds' = 0
  /\ UNCHANGED <<intent, frr, resolvable, want, listVars, addFRR, okVars, cooldown,
                 changes>>

Cycle ==
  \/ BeginCycle \/ ListRoutes \/ AddKernelRoutes \/ AddFRRRoutes
  \/ DelFRRRoutes \/ DelKernelRoutes \/ RefreshBGP \/ Report \/ verifyRoutes
  \/ RemoveFRR \/ RemoveKernel

Next ==
  \/ Cycle
  \/ ChangeIntent \/ Drift \/ LoseRule \/ LoseNexthop \/ Redistribute \/ CooldownOver

Spec == Init /\ [][Next]_vars

(* The agent reconciles again and again, BGP redistributes, time passes. *)
FairSpec ==
  Spec /\ WF_vars(Cycle) /\ WF_vars(Redistribute) /\ WF_vars(CooldownOver)

-----------------------------------------------------------------------------
(* PROPERTIES                                                                 *)

Reports == pc = "report" /\ pc' # pc

(* A cycle that reports ready while the next-hop resolves has every announced *)
(* address in the RIB and every address whose segment resolved in the kernel, *)
(* on its own device, whatever failed in it or in cycles before it, unless    *)
(* another writer deleted a route during the cycle; and under its ip rule,    *)
(* unless a route was left without one before (ensureRoutes, AddKernelRoute). *)
ReadyForwards ==
  [][Reports /\ ready' /\ resolvable /\ "drift" \notin seen =>
       /\ want.static \subseteq RIB
       /\ \A ip \in desiredIPs(want) \ want.skip :
            kernel[ip] = want.dev[ip] /\ (ip \notin bare \/ ruleLost)]_vars

(* Unless a withdrawal of this cycle has failed, the agent removes no kernel  *)
(* route of an address it still announces: "FRR first to stop attracting      *)
(* traffic before tearing down the data plane" (ensureRoutes).                *)
WithdrawBeforeTeardown ==
  [][pc' # pc /\ pc \in {"delKernel", "removeKernel"} /\ "vtysh" \notin seen =>
       \A ip \in RIB : (kernel'[ip] = kernel[ip])]_vars

CycleEnds == pc \in {"report", "removeKernel"} /\ pc' # pc

(* One cycle in which nothing fails is enough: whatever half-done additions,  *)
(* withdrawals and deletions earlier cycles, another process or other writers *)
(* left, it ends with exactly the wanted statics in the RIB, with every       *)
(* kernel route where it belongs and no other, and an active one reports      *)
(* ready (ensureRoutes, removeAllRoutes).                                     *)
CycleRepairs ==
  [][CycleEnds /\ seen' = {} /\ resolvable =>
       /\ RIB' = want.static
       /\ \A ip \in IP \ want.skip : (kernel'[ip] = want.dev[ip])
       /\ standby(want) \/ ready']_vars

(* When faults and changes are over, peers and kernel have what the intent    *)
(* says and nothing else; a next-hop zebra lost is repaired on the way        *)
(* (verifyRoutes, repairUnresolvableNexthop).  A rule that is lost is not     *)
(* repaired: the cycle compares routes alone.                                 *)
Synced ==
  /\ advertised = intent.static
  /\ \A ip \in IP \ intent.skip : kernel[ip] = intent.dev[ip]
  /\ bare = {} \/ ruleLost
Converges == <>[]Synced
=============================================================================
