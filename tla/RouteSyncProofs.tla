-------------------------- MODULE RouteSyncProofs --------------------------
(* What a cycle of the route plane may claim and may tear down, for any       *)
(* addresses, interfaces, intents, faults and other writers.                  *)
EXTENDS RouteSync, TLAPS

After == {"addFRR", "delFRR", "delKernel", "refresh", "report"}

(* While nobody else deletes a route: what was listed is still there, ...     *)
NoDrift == "drift" \notin seen

Listed ==
  NoDrift /\ pc = "addKernel" =>
    /\ curFRR \subseteq frr
    /\ \A ip \in IP : curKernel[ip] # NoDev => kernel[ip] = curKernel[ip]

(* ... and the cycle has done what it will report.                            *)
KernelDone ==
  NoDrift /\ pc \in After /\ kernelOK =>
    \A ip \in desiredIPs(want) \ want.skip : kernel[ip] = want.dev[ip]

StaticsDone ==
  /\ NoDrift /\ pc = "addFRR" => want.static \ addFRR \subseteq frr
  /\ NoDrift /\ pc \in After \ {"addFRR"} /\ addOK => want.static \subseteq frr

(* No static is left of what is torn down next.                               *)
Withdrawn ==
  "vtysh" \notin seen =>
    /\ pc = "delKernel" => frr \cap staleKernel = {}
    /\ pc = "removeKernel" => RIB = {}

Standby ==
  pc \in {"removeFRR", "removeKernel"} =>
    /\ \A ip \in IP : want.dev[ip] = NoDev
    /\ ~want.routers /\ want.static = {} /\ want.skip = {}

(* A route lacks its rule only if one was lost.                               *)
Ruled == ruleLost \/ bare = {}

(* In a cycle without a fault: the kernel's leftovers are what was listed     *)
(* until they are deleted, ...                                                *)
ExactKernel ==
  seen = {} =>
    /\ pc = "addKernel" => curKernel = kernel
    /\ pc \in {"addFRR", "delFRR", "delKernel"} =>
         \A ip \in IP \ desiredIPs(want) : kernel[ip] = curKernel[ip]
    /\ pc \in {"refresh", "report"} => \A ip \in IP \ desiredIPs(want) : kernel[ip] = NoDev

(* ... the statics are the listed ones, with the wanted, without the others,  *)
ExactStatics ==
  seen = {} /\ resolvable =>
    /\ pc = "addKernel" => curFRR = frr
    /\ pc = "addFRR" => frr = curFRR /\ addFRR = want.static \ curFRR
    /\ pc = "delFRR" => frr = curFRR \cup want.static
    /\ pc \in {"delKernel", "refresh", "report"} => frr = want.static

(* ... and nothing has failed.                                                *)
Fine ==
  seen = {} =>
    /\ pc \in After => kernelOK
    /\ pc \in After \ {"addFRR"} => addOK
    /\ pc = "report" => refreshOK

Routes ==
  /\ kernel \in [IP -> Dev \cup {NoDev}] /\ bare \subseteq {ip \in IP : kernel[ip] # NoDev}
  /\ curKernel \in [IP -> Dev \cup {NoDev}]
  /\ frr \subseteq IP /\ curFRR \subseteq IP /\ advertised \subseteq IP
  /\ intent \in Intents /\ want \in Intents
  /\ addFRR \subseteq want.static /\ delFRR \subseteq IP \ want.static

Control ==
  /\ resolvable \in BOOLEAN /\ pc \in Phases
  /\ kernelOK \in BOOLEAN /\ addOK \in BOOLEAN /\ refreshOK \in BOOLEAN
  /\ ready \in BOOLEAN
  /\ consecutiveReAdds \in 0..consecutiveReAddThreshold
  /\ cooldown \in BOOLEAN
  /\ faults \in 0..MaxFaults /\ seen \in SUBSET FaultKinds /\ ruleLost \in BOOLEAN
  /\ changes \in 0..MaxChanges

Progress == Listed /\ KernelDone /\ StaticsDone /\ Withdrawn /\ Standby

Exact == ExactKernel /\ ExactStatics /\ Fine

(* Between the cycles their lists are empty.                                  *)
Idle == pc \in {"idle", "list", "verify", "removeFRR"} => addFRR = {} /\ delFRR = {}

IInv == Routes /\ Control /\ Progress /\ Ruled /\ Exact /\ Idle

-----------------------------------------------------------------------------
(* An intent announces only addresses it has a device for.                    *)
LEMMA Announced ==
  ASSUME NEW w \in Intents
  PROVE  /\ w.static \subseteq desiredIPs(w) /\ w.static \subseteq IP
         /\ w.skip \subseteq desiredIPs(w)
         /\ w.dev \in [IP -> Dev \cup {NoDev}]
BY ConstantsAssumption DEF Intent, desiredIPs

LEMMA Bounds == MaxFaults \in Nat /\ MaxChanges \in Nat
BY ConstantsAssumption

LEMMA InitIInv == Init => IInv
<1> SUFFICES ASSUME Init PROVE IInv
  OBVIOUS
<1>1. Routes
  BY DEF Init, Routes, NoRoutes
<1>2. Control
  <2>1. resolvable \in BOOLEAN /\ pc \in Phases /\ kernelOK \in BOOLEAN /\ addOK \in BOOLEAN
    BY DEF Init, Phases
  <2>2. refreshOK \in BOOLEAN /\ ready \in BOOLEAN /\ cooldown \in BOOLEAN
    BY DEF Init
  <2>3. /\ consecutiveReAdds \in 0..consecutiveReAddThreshold
        /\ faults \in 0..MaxFaults /\ changes \in 0..MaxChanges
    BY Bounds DEF Init, consecutiveReAddThreshold
  <2>4. seen \in SUBSET FaultKinds /\ ruleLost \in BOOLEAN
    BY DEF Init
  <2>. QED BY <2>1, <2>2, <2>3, <2>4 DEF Control
<1>3. Progress
  BY DEF Init, Progress, Listed, KernelDone, StaticsDone, Withdrawn, Standby, After
<1>4. Ruled /\ Exact /\ Idle
  BY DEF Init, Ruled, Exact, ExactKernel, ExactStatics, Fine, After, Idle
<1>. QED BY <1>1, <1>2, <1>3, <1>4 DEF IInv

(* Faults are counted and remembered.                                         *)
LEMMA Faulty ==
  ASSUME Control, NEW kind \in FaultKinds, Fault(kind)
  PROVE  /\ faults' \in 0..MaxFaults /\ seen' \in SUBSET FaultKinds /\ ruleLost' \in BOOLEAN
         /\ seen \subseteq seen' /\ kind \in seen'
         /\ ruleLost => ruleLost'
         /\ kind = "rule" => ruleLost'
<1>1. faults' \in 0..MaxFaults /\ seen' \in SUBSET FaultKinds
  BY Bounds DEF Control, Fault
<1>2. seen \subseteq seen' /\ kind \in seen'
  BY DEF Fault
<1>3. ruleLost' = (ruleLost \/ kind = "rule")
  BY DEF Fault
<1>. QED BY <1>1, <1>2, <1>3

LEMMA FaultyUnless ==
  ASSUME Control, NEW kind \in FaultKinds, NEW fine, FaultUnless(fine, kind)
  PROVE  /\ faults' \in 0..MaxFaults /\ seen' \in SUBSET FaultKinds /\ ruleLost' \in BOOLEAN
         /\ seen \subseteq seen' /\ (~fine => kind \in seen')
         /\ ruleLost => ruleLost'
         /\ ~fine /\ kind = "rule" => ruleLost'
BY Faulty DEF FaultUnless, NoFault, faultVars, Control

-----------------------------------------------------------------------------
(* The environment. *)

LEMMA Around ==
  ASSUME IInv, ChangeIntent \/ CooldownOver \/ Redistribute
  PROVE  IInv'
<1>1. UNCHANGED <<kernel, bare, frr, resolvable, pc, want, curKernel, curFRR, addFRR, delFRR,
                  kernelOK, addOK, refreshOK, ready, consecutiveReAdds, faults, seen, ruleLost>>
  BY DEF ChangeIntent, CooldownOver, Redistribute, planeVars, listVars, batchVars, okVars,
         streakVars, faultVars
<1>2. intent' \in Intents /\ advertised' \subseteq IP
  BY DEF ChangeIntent, CooldownOver, Redistribute, planeVars, IInv, Routes, RIB
<1>3. changes' \in 0..MaxChanges
  BY Bounds DEF ChangeIntent, CooldownOver, Redistribute, IInv, Control
<1>4. cooldown' \in BOOLEAN
  BY DEF ChangeIntent, CooldownOver, Redistribute, streakVars, IInv, Control
<1>5. Routes' /\ Control'
  BY <1>1, <1>2, <1>3, <1>4 DEF IInv, Routes, Control
<1>6. Progress'
  BY <1>1 DEF IInv, Progress, Listed, KernelDone, StaticsDone, Withdrawn, Standby,
              NoDrift, desiredIPs, staleKernel, RIB
<1>7. Ruled' /\ Exact' /\ Idle'
  BY <1>1 DEF IInv, Ruled, Exact, ExactKernel, ExactStatics, Fine, desiredIPs, Idle
<1>. QED BY <1>5, <1>6, <1>7 DEF IInv

(* A cycle with a fault promises nothing more.                                *)
LEMMA NotExact == ASSUME NEW kind, kind \in seen' PROVE Exact'
<1>1. seen' # {}
  OBVIOUS
<1>. QED BY <1>1 DEF Exact, ExactKernel, ExactStatics, Fine

LEMMA Drifts == ASSUME IInv, Drift PROVE IInv'
<1>1. /\ UNCHANGED <<intent, resolvable, advertised, pc, want, curKernel, curFRR, addFRR,
                     delFRR, kernelOK, addOK, refreshOK, ready, consecutiveReAdds,
                     cooldown, changes>>
      /\ frr' \subseteq frr /\ kernel' \in [IP -> Dev \cup {NoDev}]
      /\ bare' \subseteq bare /\ bare' \subseteq {ip \in IP : kernel'[ip] # NoDev}
  BY DEF Drift, listVars, batchVars, okVars, streakVars, IInv, Routes
<1>2. /\ faults' \in 0..MaxFaults /\ seen' \in SUBSET FaultKinds /\ ruleLost' \in BOOLEAN
      /\ seen \subseteq seen' /\ "drift" \in seen' /\ (ruleLost => ruleLost')
  BY Faulty DEF Drift, IInv, FaultKinds
<1>3. Routes' /\ Control'
  BY <1>1, <1>2 DEF IInv, Routes, Control
<1>4. Withdrawn'
  BY <1>1, <1>2 DEF IInv, Progress, Withdrawn, staleKernel, RIB
<1>5. Progress'
  BY <1>1, <1>2, <1>4 DEF IInv, Progress, NoDrift, Listed, KernelDone, StaticsDone, Standby,
                          desiredIPs
<1>6. Exact'
  BY <1>2, NotExact
<1>7. Ruled' /\ Idle'
  BY <1>1, <1>2 DEF IInv, Ruled, Idle
<1>. QED BY <1>3, <1>5, <1>6, <1>7 DEF IInv

LEMMA LosesRule == ASSUME IInv, LoseRule PROVE IInv'
<1>1. /\ UNCHANGED <<intent, kernel, frr, resolvable, advertised, pc, want, curKernel, curFRR,
                     addFRR, delFRR, kernelOK, addOK, refreshOK, ready, consecutiveReAdds,
                     cooldown, changes>>
      /\ bare' \subseteq {ip \in IP : kernel[ip] # NoDev}
  BY DEF LoseRule, listVars, batchVars, okVars, streakVars, IInv, Routes
<1>2. /\ faults' \in 0..MaxFaults /\ seen' \in SUBSET FaultKinds /\ ruleLost' \in BOOLEAN
      /\ seen \subseteq seen' /\ "rule" \in seen' /\ ruleLost'
  BY Faulty DEF LoseRule, IInv, FaultKinds
<1>3. Routes' /\ Control'
  BY <1>1, <1>2 DEF IInv, Routes, Control
<1>4. Progress'
  BY <1>1, <1>2 DEF IInv, Progress, Listed, KernelDone, StaticsDone, Withdrawn, Standby,
                    NoDrift, desiredIPs, staleKernel, RIB
<1>5. Exact'
  BY <1>2, NotExact
<1>6. Ruled' /\ Idle'
  BY <1>1, <1>2 DEF IInv, Ruled, Idle
<1>. QED BY <1>3, <1>4, <1>5, <1>6 DEF IInv

LEMMA Loses == ASSUME IInv, LoseNexthop PROVE IInv'
<1>1. /\ UNCHANGED <<intent, kernel, bare, frr, advertised, pc, want, curKernel, curFRR, addFRR,
                     delFRR, kernelOK, addOK, refreshOK, ready, consecutiveReAdds,
                     cooldown, changes>>
      /\ resolvable' = FALSE
  BY DEF LoseNexthop, listVars, batchVars, okVars, streakVars
<1>2. /\ faults' \in 0..MaxFaults /\ seen' \in SUBSET FaultKinds /\ ruleLost' \in BOOLEAN
      /\ seen \subseteq seen' /\ "nexthop" \in seen' /\ (ruleLost => ruleLost')
  BY Faulty DEF LoseNexthop, IInv, FaultKinds
<1>3. Routes' /\ Control'
  BY <1>1, <1>2 DEF IInv, Routes, Control
<1>4. Progress'
  BY <1>1, <1>2 DEF IInv, Progress, Listed, KernelDone, StaticsDone, Withdrawn, Standby,
                    NoDrift, desiredIPs, staleKernel, RIB
<1>5. Exact'
  BY <1>2, NotExact
<1>6. Ruled' /\ Idle'
  BY <1>1, <1>2 DEF IInv, Ruled, Idle
<1>. QED BY <1>3, <1>4, <1>5, <1>6 DEF IInv

-----------------------------------------------------------------------------
(* The cycle. *)

LEMMA Quiescent == ASSUME pc' \in {"idle", "list", "verify"} PROVE Progress' /\ Exact'
BY DEF Progress, Listed, KernelDone, StaticsDone, Withdrawn, Standby, After,
       Exact, ExactKernel, ExactStatics, Fine

LEMMA Begins == ASSUME IInv, BeginCycle PROVE IInv'
<1>1. /\ want' = intent /\ ready' = FALSE /\ seen' = {}
      /\ pc' = IF standby(intent) THEN "removeFRR" ELSE "list"
      /\ UNCHANGED <<intent, kernel, bare, frr, resolvable, advertised, curKernel, curFRR,
                     addFRR, delFRR, kernelOK, addOK, refreshOK, consecutiveReAdds, cooldown,
                     faults, ruleLost, changes>>
      /\ pc = "idle"
  BY DEF BeginCycle, planeVars, listVars, batchVars, streakVars
<1>2. pc' \in {"removeFRR", "list"}
  BY <1>1
<1>3. addFRR = {} /\ delFRR = {}
  BY <1>1 DEF IInv, Idle
<1>4. Routes'
  BY <1>1, <1>3 DEF IInv, Routes
<1>5. Control'
  BY <1>1, <1>2 DEF IInv, Control, Phases
<1>6. Standby'
  <2>1. standby(intent) =>
          /\ \A ip \in IP : intent.dev[ip] = NoDev
          /\ ~intent.routers /\ intent.static = {} /\ intent.skip = {}
    BY Announced DEF IInv, Routes, standby, desiredIPs
  <2>2. pc' = "removeFRR" => standby(intent)
    BY <1>1
  <2>. QED BY <1>1, <1>2, <2>1, <2>2 DEF Standby
<1>7. Progress' /\ Exact'
  BY <1>2, <1>6 DEF Progress, Listed, KernelDone, StaticsDone, Withdrawn, After, Exact,
                    ExactKernel, ExactStatics, Fine
<1>8. Ruled' /\ Idle'
  BY <1>1, <1>3 DEF IInv, Ruled, Idle
<1>. QED BY <1>4, <1>5, <1>7, <1>8 DEF IInv

LEMMA Lists == ASSUME IInv, ListRoutes PROVE IInv'
<1>1. /\ pc' = "addKernel" /\ curKernel' \in {kernel, NoRoutes} /\ curFRR' \in {RIB, {}}
      /\ UNCHANGED <<intent, want, kernel, bare, frr, resolvable, advertised, addFRR, delFRR,
                     kernelOK, addOK, refreshOK, ready, consecutiveReAdds, cooldown, changes>>
  BY DEF ListRoutes, planeVars, batchVars, okVars, streakVars
<1>2. /\ faults' \in 0..MaxFaults /\ seen' \in SUBSET FaultKinds /\ ruleLost' \in BOOLEAN
      /\ seen \subseteq seen' /\ (ruleLost => ruleLost')
      /\ ~(curKernel' = kernel /\ curFRR' = RIB) => "list" \in seen'
  BY FaultyUnless DEF ListRoutes, IInv, FaultKinds
<1>3. Routes'
  BY <1>1 DEF IInv, Routes, RIB, NoRoutes
<1>4. Control'
  BY <1>1, <1>2 DEF IInv, Control, Phases
<1>5. Listed'
  BY <1>1 DEF Listed, NoRoutes, RIB
<1>6. Progress'
  BY <1>1, <1>5 DEF Progress, KernelDone, StaticsDone, Withdrawn, Standby, After
<1>7. Exact'
  BY <1>1, <1>2 DEF Exact, ExactKernel, ExactStatics, Fine, After, RIB
<1>8. Ruled' /\ Idle'
  BY <1>1, <1>2 DEF IInv, Ruled, Idle
<1>. QED BY <1>3, <1>4, <1>6, <1>7, <1>8 DEF IInv

(* What adding a set of routes leaves, whatever fails.                        *)
LEMMA KernelAdded ==
  ASSUME IInv, NEW ips \in SUBSET desiredIPs(want), NEW o \in AddOutcomes(ips),
         AddKernelRoute(ips, o.failed, o.rolledBack, o.orphaned)
  PROVE  /\ kernel' \in [IP -> Dev \cup {NoDev}]
         /\ bare' \subseteq {ip \in IP : kernel'[ip] # NoDev}
         /\ \A ip \in IP \ ips : kernel'[ip] = kernel[ip]
         /\ o.failed = {} =>
              o.orphaned = {} /\ \A ip \in ips : ip \in IP /\ kernel'[ip] = want.dev[ip]
         /\ o.orphaned = {} => bare' \subseteq bare
<1> DEFINE f == o.failed
           b == o.rolledBack
           u == o.orphaned
<1>1. /\ f \subseteq ips /\ b \cup u \subseteq f /\ b \cap u = {}
  BY DEF AddOutcomes
<1>2. want.dev \in [IP -> Dev \cup {NoDev}] /\ kernel \in [IP -> Dev \cup {NoDev}]
  BY Announced DEF IInv, Routes
<1>3. \A ip \in ips : ip \in IP /\ want.dev[ip] # NoDev
  BY DEF desiredIPs
<1>4. kernel' = [ip \in IP |-> IF ip \in b THEN NoDev
                               ELSE IF ip \in (ips \ f) \cup u THEN want.dev[ip]
                               ELSE kernel[ip]]
  BY DEF AddKernelRoute
<1>5. bare' = (bare \ ((ips \ f) \cup b)) \cup {ip \in u : kernel[ip] = NoDev}
  BY DEF AddKernelRoute
<1> HIDE DEF f, b, u
<1>6. kernel' \in [IP -> Dev \cup {NoDev}]
  BY <1>2, <1>4
<1>7. \A ip \in IP \ ips : kernel'[ip] = kernel[ip]
  BY <1>1, <1>4
<1>8. bare' \subseteq {ip \in IP : kernel'[ip] # NoDev}
  <2>1. SUFFICES ASSUME NEW ip \in bare' PROVE ip \in IP /\ kernel'[ip] # NoDev
    OBVIOUS
  <2>2. CASE ip \in u
    BY <1>1, <1>3, <1>4, <2>2
  <2>3. CASE ip \notin u
    <3>1. ip \in bare /\ ip \notin b /\ ip \notin ips \ f
      BY <1>5, <2>1, <2>3
    <3>2. ip \in IP /\ kernel[ip] # NoDev
      BY <3>1 DEF IInv, Routes
    <3>. QED BY <1>4, <2>3, <3>1, <3>2
  <2>. QED BY <2>2, <2>3
<1>9. f = {} => u = {} /\ \A ip \in ips : ip \in IP /\ kernel'[ip] = want.dev[ip]
  BY <1>1, <1>3, <1>4
<1>10. u = {} => bare' \subseteq bare
  BY <1>5
<1>. QED BY <1>6, <1>7, <1>8, <1>9, <1>10 DEF f, u

LEMMA AddsKernel == ASSUME IInv, AddKernelRoutes PROVE IInv'
<1> DEFINE missing == {ip \in desiredIPs(want) : needsKernel(ip)}
<1>1. /\ pc = "addKernel" /\ pc' = "addFRR" /\ addFRR' = want.static \ curFRR
      /\ UNCHANGED <<intent, frr, resolvable, advertised, want, curKernel, curFRR, delFRR,
                     addOK, refreshOK, ready, consecutiveReAdds, cooldown, changes>>
  BY DEF AddKernelRoutes, listVars, streakVars
<1>2. PICK o \in AddOutcomes(missing) :
        /\ AddKernelRoute(missing, o.failed, o.rolledBack, o.orphaned)
        /\ kernelOK' = (o.failed = {})
        /\ FaultUnless(o.failed = {}, IF o.orphaned = {} THEN "kernel" ELSE "rule")
  BY DEF AddKernelRoutes
<1> HIDE DEF missing
<1>m. missing \in SUBSET desiredIPs(want)
  BY DEF missing
<1>3. /\ faults' \in 0..MaxFaults /\ seen' \in SUBSET FaultKinds /\ ruleLost' \in BOOLEAN
      /\ seen \subseteq seen' /\ (ruleLost => ruleLost')
      /\ o.failed # {} => seen' # {}
      /\ o.failed # {} /\ o.orphaned # {} => ruleLost'
  BY <1>2, FaultyUnless DEF IInv, FaultKinds
<1>4. /\ kernel' \in [IP -> Dev \cup {NoDev}]
      /\ bare' \subseteq {ip \in IP : kernel'[ip] # NoDev}
      /\ \A ip \in IP \ missing : kernel'[ip] = kernel[ip]
      /\ o.failed = {} =>
           o.orphaned = {} /\ \A ip \in missing : ip \in IP /\ kernel'[ip] = want.dev[ip]
      /\ o.orphaned = {} => bare' \subseteq bare
  BY <1>2, <1>m, KernelAdded
<1>5. Routes'
  BY <1>1, <1>4 DEF IInv, Routes
<1>6. Control'
  <2>1. kernelOK' \in BOOLEAN
    BY <1>2
  <2>. QED BY <1>1, <1>3, <2>1 DEF IInv, Control, Phases
<1>7. NoDrift' => NoDrift
  BY <1>3 DEF NoDrift
<1>8. KernelDone'
  <2>1. SUFFICES ASSUME NoDrift', kernelOK', NEW ip \in desiredIPs(want) \ want.skip
                 PROVE  kernel'[ip] = want.dev[ip]
    BY <1>1 DEF KernelDone, desiredIPs
  <2>2. ip \in IP /\ want.dev[ip] # NoDev
    BY DEF desiredIPs
  <2>3. ip \notin missing => curKernel[ip] = want.dev[ip]
    BY <2>1 DEF missing, needsKernel
  <2>4. curKernel[ip] # NoDev => kernel[ip] = curKernel[ip]
    BY <1>1, <1>7, <2>1, <2>2 DEF IInv, Progress, Listed
  <2>. QED BY <1>2, <1>4, <2>1, <2>2, <2>3, <2>4
<1>9. StaticsDone'
  BY <1>1, <1>7 DEF IInv, Progress, Listed, StaticsDone
<1>10. Progress'
  BY <1>1, <1>8, <1>9 DEF Progress, Listed, Withdrawn, Standby
<1>11. Exact'
  <2>1. SUFFICES ASSUME seen' = {} PROVE Exact'
    BY DEF Exact, ExactKernel, ExactStatics, Fine
  <2>2. seen = {} /\ o.failed = {} /\ kernelOK'
    BY <1>2, <1>3, <2>1
  <2>3. \A ip \in IP \ desiredIPs(want) : kernel'[ip] = curKernel[ip]
    BY <1>1, <1>4, <1>m, <2>2 DEF IInv, Exact, ExactKernel
  <2>4. ExactKernel'
    BY <1>1, <2>3 DEF ExactKernel, desiredIPs
  <2>5. ExactStatics'
    BY <1>1, <2>2 DEF IInv, Exact, ExactStatics
  <2>. QED BY <1>1, <2>2, <2>4, <2>5 DEF Exact, Fine
<1>12. Ruled' /\ Idle'
  BY <1>1, <1>3, <1>4 DEF IInv, Ruled, Idle
<1>. QED BY <1>5, <1>6, <1>10, <1>11, <1>12 DEF IInv

LEMMA AddsStatics == ASSUME IInv, AddFRRRoutes PROVE IInv'
<1>1. /\ pc = "addFRR" /\ pc' = "delFRR"
      /\ UNCHANGED <<intent, kernel, bare, resolvable, advertised, want, curKernel, curFRR,
                     addFRR, delFRR, kernelOK, refreshOK, ready, consecutiveReAdds, cooldown,
                     changes>>
  BY DEF AddFRRRoutes, listVars, batchVars, streakVars
<1>2. PICK added \in SUBSET addFRR :
        /\ frr' = frr \cup added /\ addOK' = (added = addFRR) /\ FaultUnless(addOK', "vtysh")
  BY DEF AddFRRRoutes
<1>3. /\ faults' \in 0..MaxFaults /\ seen' \in SUBSET FaultKinds /\ ruleLost' \in BOOLEAN
      /\ seen \subseteq seen' /\ (ruleLost => ruleLost')
      /\ ~addOK' => seen' # {}
  BY <1>2, FaultyUnless DEF IInv, FaultKinds
<1>4. Routes'
  BY <1>1, <1>2, Announced DEF IInv, Routes
<1>5. Control'
  BY <1>1, <1>2, <1>3 DEF IInv, Control, Phases
<1>6. NoDrift' => NoDrift
  BY <1>3 DEF NoDrift
<1>7. KernelDone'
  BY <1>1, <1>6 DEF IInv, Progress, KernelDone, After, desiredIPs
<1>8. StaticsDone'
  BY <1>1, <1>2, <1>6 DEF IInv, Progress, StaticsDone
<1>9. Progress'
  BY <1>1, <1>7, <1>8 DEF Progress, Listed, Withdrawn, Standby
<1>10. Exact'
  <2>1. seen' = {} => seen = {} /\ added = addFRR /\ addOK'
    BY <1>2, <1>3
  <2>2. ExactKernel'
    BY <1>1, <2>1 DEF IInv, Exact, ExactKernel, desiredIPs
  <2>3. ExactStatics'
    BY <1>1, <1>2, <2>1 DEF IInv, Exact, ExactStatics
  <2>4. Fine'
    BY <1>1, <2>1 DEF IInv, Exact, Fine, After
  <2>. QED BY <2>2, <2>3, <2>4 DEF Exact
<1>11. Ruled' /\ Idle'
  BY <1>1, <1>3 DEF IInv, Ruled, Idle
<1>. QED BY <1>4, <1>5, <1>9, <1>10, <1>11 DEF IInv

(* Nothing wanted is among what is deleted.                                   *)
LEMMA DeletesStatics == ASSUME IInv, DelFRRRoutes PROVE IInv'
<1>1. /\ pc = "delFRR" /\ pc' = "delKernel" /\ delFRR' = staleKernel \cup orphanedFRR
      /\ UNCHANGED <<intent, kernel, bare, resolvable, advertised, want, curKernel, curFRR,
                     addFRR, kernelOK, addOK, refreshOK, ready, consecutiveReAdds, cooldown,
                     changes>>
  BY DEF DelFRRRoutes, listVars, okVars, streakVars
<1>2. PICK deleted \in SUBSET delFRR' :
        frr' = frr \ deleted /\ FaultUnless(deleted = delFRR', "vtysh")
  BY DEF DelFRRRoutes
<1>3. /\ faults' \in 0..MaxFaults /\ seen' \in SUBSET FaultKinds /\ ruleLost' \in BOOLEAN
      /\ seen \subseteq seen' /\ (ruleLost => ruleLost')
      /\ deleted # delFRR' => "vtysh" \in seen'
  BY <1>2, FaultyUnless DEF IInv, FaultKinds
<1>4. delFRR' \subseteq IP \ want.static
  BY <1>1, Announced DEF IInv, Routes, staleKernel, orphanedFRR, desiredIPs
<1>5. Routes'
  BY <1>1, <1>2, <1>4 DEF IInv, Routes
<1>6. Control'
  BY <1>1, <1>3 DEF IInv, Control, Phases
<1>7. NoDrift' => NoDrift
  BY <1>3 DEF NoDrift
<1>8. KernelDone'
  BY <1>1, <1>7 DEF IInv, Progress, KernelDone, After, desiredIPs
<1>9. StaticsDone'
  BY <1>1, <1>2, <1>4, <1>7 DEF IInv, Progress, StaticsDone, After
<1>10. Withdrawn'
  <2>1. "vtysh" \notin seen' => frr' \cap staleKernel = {}
    BY <1>1, <1>2, <1>3
  <2>. QED BY <1>1, <2>1 DEF Withdrawn, staleKernel
<1>11. Progress'
  BY <1>1, <1>8, <1>9, <1>10 DEF Progress, Listed, Standby
<1>12. Exact'
  <2>1. seen' = {} => seen = {} /\ deleted = delFRR'
    BY <1>3
  <2>2. ExactKernel'
    BY <1>1, <2>1 DEF IInv, Exact, ExactKernel, desiredIPs
  <2>3. ExactStatics'
    <3>1. seen' = {} /\ resolvable => frr = curFRR \cup want.static
      BY <1>1, <2>1 DEF IInv, Exact, ExactStatics
    <3>2. seen' = {} /\ resolvable => frr' = want.static
      BY <1>1, <1>2, <1>4, <2>1, <3>1 DEF orphanedFRR
    <3>. QED BY <1>1, <3>2 DEF ExactStatics
  <2>4. Fine'
    BY <1>1, <2>1 DEF IInv, Exact, Fine, After
  <2>. QED BY <2>2, <2>3, <2>4 DEF Exact
<1>13. Ruled' /\ Idle'
  BY <1>1, <1>3 DEF IInv, Ruled, Idle
<1>. QED BY <1>5, <1>6, <1>11, <1>12, <1>13 DEF IInv

(* What deleting a set of routes leaves, whatever fails.                      *)
LEMMA KernelDeleted ==
  ASSUME IInv, NEW ips \in SUBSET {ip \in IP : kernel[ip] # NoDev},
         NEW failed \in SUBSET ips, NEW unruled \in SUBSET failed,
         DelKernelRoute(ips, failed, unruled)
  PROVE  /\ kernel' \in [IP -> Dev \cup {NoDev}]
         /\ bare' \subseteq {ip \in IP : kernel'[ip] # NoDev}
         /\ \A ip \in IP \ ips : kernel'[ip] = kernel[ip]
         /\ failed = {} => \A ip \in ips : kernel'[ip] = NoDev
         /\ faults' \in 0..MaxFaults /\ seen' \in SUBSET FaultKinds /\ ruleLost' \in BOOLEAN
         /\ seen \subseteq seen' /\ (failed # {} => seen' # {})
         /\ (ruleLost => ruleLost') /\ Ruled'
<1>1. kernel \in [IP -> Dev \cup {NoDev}] /\ bare \subseteq {ip \in IP : kernel[ip] # NoDev}
  BY DEF IInv, Routes
<1>2. /\ kernel' = [ip \in IP |-> IF ip \in ips \ failed THEN NoDev ELSE kernel[ip]]
      /\ bare' = (bare \ (ips \ failed)) \cup unruled
      /\ FaultUnless(failed = {}, IF unruled \subseteq bare THEN "kernel" ELSE "rule")
  BY DEF DelKernelRoute
<1>3. /\ faults' \in 0..MaxFaults /\ seen' \in SUBSET FaultKinds /\ ruleLost' \in BOOLEAN
      /\ seen \subseteq seen' /\ (failed # {} => seen' # {})
      /\ (ruleLost => ruleLost')
      /\ failed # {} /\ ~(unruled \subseteq bare) => ruleLost'
  BY <1>2, FaultyUnless DEF IInv, FaultKinds
<1>4. Ruled'
  BY <1>2, <1>3 DEF IInv, Ruled
<1>5. kernel' \in [IP -> Dev \cup {NoDev}]
  BY <1>1, <1>2
<1>6. bare' \subseteq {ip \in IP : kernel'[ip] # NoDev}
  BY <1>1, <1>2
<1>7. /\ \A ip \in IP \ ips : kernel'[ip] = kernel[ip]
      /\ failed = {} => \A ip \in ips : kernel'[ip] = NoDev
  BY <1>2
<1>. QED BY <1>3, <1>4, <1>5, <1>6, <1>7

LEMMA DeletesKernel == ASSUME IInv, DelKernelRoutes PROVE IInv'
<1> DEFINE present == {ip \in staleKernel : kernel[ip] = curKernel[ip]}
<1>1. /\ pc = "delKernel" /\ pc' = "refresh"
      /\ UNCHANGED <<intent, frr, resolvable, advertised, want, curKernel, curFRR, addFRR,
                     delFRR, kernelOK, addOK, refreshOK, ready, consecutiveReAdds, cooldown,
                     changes>>
  BY DEF DelKernelRoutes, listVars, batchVars, okVars, streakVars
<1>2. PICK failed \in SUBSET present, unruled \in SUBSET present :
        unruled \subseteq failed /\ DelKernelRoute(present, failed, unruled)
  BY DEF DelKernelRoutes
<1>p. present \in SUBSET {ip \in IP : kernel[ip] # NoDev}
  BY DEF staleKernel
<1>3. /\ kernel' \in [IP -> Dev \cup {NoDev}]
      /\ bare' \subseteq {ip \in IP : kernel'[ip] # NoDev}
      /\ \A ip \in IP \ present : kernel'[ip] = kernel[ip]
      /\ failed = {} => \A ip \in present : kernel'[ip] = NoDev
      /\ faults' \in 0..MaxFaults /\ seen' \in SUBSET FaultKinds /\ ruleLost' \in BOOLEAN
      /\ seen \subseteq seen' /\ (failed # {} => seen' # {})
      /\ (ruleLost => ruleLost') /\ Ruled'
  <2>1. unruled \in SUBSET failed
    BY <1>2
  <2> HIDE DEF present
  <2>. QED BY <1>2, <1>p, <2>1, KernelDeleted
<1>4. Routes'
  BY <1>1, <1>3 DEF IInv, Routes
<1>5. Control'
  BY <1>1, <1>3 DEF IInv, Control, Phases
<1>6. NoDrift' => NoDrift
  BY <1>3 DEF NoDrift
<1>7. KernelDone'
  <2>1. \A ip \in desiredIPs(want) : ip \notin present /\ ip \in IP
    BY DEF desiredIPs, staleKernel
  <2>2. \A ip \in desiredIPs(want) : kernel'[ip] = kernel[ip]
    BY <1>3, <2>1
  <2>. QED BY <1>1, <1>6, <2>2 DEF IInv, Progress, KernelDone, After, desiredIPs
<1>8. StaticsDone'
  BY <1>1, <1>6 DEF IInv, Progress, StaticsDone, After
<1>9. Progress'
  BY <1>1, <1>7, <1>8 DEF Progress, Listed, Withdrawn, Standby
<1>10. Exact'
  <2>1. seen' = {} => seen = {} /\ failed = {}
    BY <1>3
  <2>2. ExactKernel'
    <3>1. SUFFICES ASSUME seen' = {}, NEW ip \in IP \ desiredIPs(want) PROVE kernel'[ip] = NoDev
      BY <1>1 DEF ExactKernel, desiredIPs
    <3>2. kernel[ip] = curKernel[ip]
      BY <1>1, <2>1, <3>1 DEF IInv, Exact, ExactKernel
    <3>3. want.dev[ip] = NoDev
      BY <3>1 DEF desiredIPs
    <3>4. curKernel[ip] # NoDev => ip \in present
      BY <3>2, <3>3 DEF staleKernel
    <3>. QED BY <1>3, <2>1, <3>1, <3>2, <3>4
  <2>3. ExactStatics'
    BY <1>1, <2>1 DEF IInv, Exact, ExactStatics
  <2>4. Fine'
    BY <1>1, <2>1 DEF IInv, Exact, Fine, After
  <2>. QED BY <2>2, <2>3, <2>4 DEF Exact
<1>11. Idle'
  BY <1>1 DEF Idle
<1>. QED BY <1>3, <1>4, <1>5, <1>9, <1>10, <1>11 DEF IInv

LEMMA Refreshes == ASSUME IInv, RefreshBGP PROVE IInv'
<1>1. /\ pc = "refresh" /\ pc' = "report" /\ refreshOK' \in BOOLEAN
      /\ advertised' \in {advertised, RIB}
      /\ UNCHANGED <<intent, kernel, bare, frr, resolvable, want, curKernel, curFRR, addFRR,
                     delFRR, kernelOK, addOK, ready, consecutiveReAdds, cooldown, changes>>
  BY DEF RefreshBGP, listVars, batchVars, streakVars
<1>2. FaultUnless(refreshOK', "refresh")
  BY DEF RefreshBGP, FaultUnless
<1>3. /\ faults' \in 0..MaxFaults /\ seen' \in SUBSET FaultKinds /\ ruleLost' \in BOOLEAN
      /\ seen \subseteq seen' /\ (ruleLost => ruleLost') /\ (~refreshOK' => seen' # {})
  BY <1>2, FaultyUnless DEF IInv, FaultKinds
<1>4. Routes'
  BY <1>1 DEF IInv, Routes, RIB
<1>5. Control'
  BY <1>1, <1>3 DEF IInv, Control, Phases
<1>6. NoDrift' => NoDrift
  BY <1>3 DEF NoDrift
<1>7. KernelDone' /\ StaticsDone'
  BY <1>1, <1>6 DEF IInv, Progress, KernelDone, StaticsDone, After, desiredIPs
<1>8. Progress'
  BY <1>1, <1>7 DEF Progress, Listed, Withdrawn, Standby
<1>9. Exact'
  <2>1. seen' = {} => seen = {} /\ refreshOK'
    BY <1>3
  <2>2. ExactKernel' /\ ExactStatics'
    BY <1>1, <2>1 DEF IInv, Exact, ExactKernel, ExactStatics, desiredIPs
  <2>3. Fine'
    BY <1>1, <2>1 DEF IInv, Exact, Fine, After
  <2>. QED BY <2>2, <2>3 DEF Exact
<1>10. Ruled' /\ Idle'
  BY <1>1, <1>3 DEF IInv, Ruled, Idle
<1>. QED BY <1>4, <1>5, <1>8, <1>9, <1>10 DEF IInv

LEMMA Reporting == ASSUME IInv, Report PROVE IInv'
<1>1. /\ pc' \in {"verify", "idle"} /\ consecutiveReAdds' \in {consecutiveReAdds, 0}
      /\ curKernel' = NoRoutes /\ curFRR' = {} /\ addFRR' = {} /\ delFRR' = {}
      /\ kernelOK' = TRUE /\ addOK' = TRUE /\ refreshOK' = TRUE
      /\ UNCHANGED <<intent, kernel, bare, frr, resolvable, advertised, want, cooldown, faults,
                     seen, ruleLost, changes>>
  BY DEF Report, planeVars, faultVars
<1>2. ready' \in BOOLEAN
  BY DEF Report, cycleReady, IInv, Control
<1>3. Routes'
  BY <1>1 DEF IInv, Routes, NoRoutes
<1>4. Control'
  BY <1>1, <1>2 DEF IInv, Control, Phases, consecutiveReAddThreshold
<1>5. Ruled' /\ Idle'
  BY <1>1 DEF IInv, Ruled, Idle
<1>. QED BY <1>1, <1>3, <1>4, <1>5, Quiescent DEF IInv

LEMMA StreakTyped ==
  ASSUME Control
  PROVE  nextStreak \in 0..consecutiveReAddThreshold
BY DEF Control, nextStreak, capStreak, consecutiveReAddThreshold

LEMMA Verifies == ASSUME IInv, verifyRoutes PROVE IInv'
<1>1. /\ pc = "verify" /\ pc' = "idle"
      /\ UNCHANGED <<intent, advertised, want, curKernel, curFRR, addFRR, delFRR, kernelOK,
                     addOK, refreshOK, ready, changes>>
  BY DEF verifyRoutes, listVars, batchVars, okVars
<1>2. /\ kernel' \in [IP -> Dev \cup {NoDev}] /\ frr' \subseteq IP
      /\ bare' \subseteq {ip \in IP : kernel'[ip] # NoDev}
      /\ resolvable' \in BOOLEAN /\ cooldown' \in BOOLEAN
      /\ consecutiveReAdds' \in 0..consecutiveReAddThreshold
      /\ faults' \in 0..MaxFaults /\ seen' \in SUBSET FaultKinds /\ ruleLost' \in BOOLEAN
      /\ Ruled'
  <2>1. CASE Fault("list") /\ UNCHANGED <<planeVars, streakVars>>
    <3>1. UNCHANGED <<kernel, bare, frr, resolvable, consecutiveReAdds, cooldown>>
      BY <2>1 DEF planeVars, streakVars
    <3>2. /\ faults' \in 0..MaxFaults /\ seen' \in SUBSET FaultKinds /\ ruleLost' \in BOOLEAN
          /\ ruleLost => ruleLost'
      BY <2>1, Faulty DEF IInv, FaultKinds
    <3>. QED BY <3>1, <3>2 DEF IInv, Routes, Control, Ruled
  <2>2. CASE ~(Fault("list") /\ UNCHANGED <<planeVars, streakVars>>)
    <3>1. PICK o \in AddOutcomes(missingKernel), added \in SUBSET missingFRR,
               checked \in BOOLEAN, fine \in BOOLEAN :
            /\ AddKernelRoute(missingKernel, o.failed, o.rolledBack, o.orphaned)
            /\ frr' = frr \cup added
            /\ repairUnresolvableNexthop(checked, fine)
            /\ FaultUnless(o.failed = {} /\ added = missingFRR /\ checked /\ fine,
                           IF o.orphaned = {} THEN "verify" ELSE "rule")
      BY <2>2 DEF verifyRoutes
    <3>2. consecutiveReAdds' = nextStreak
      BY <2>2 DEF verifyRoutes
    <3>3. /\ kernel' \in [IP -> Dev \cup {NoDev}]
          /\ bare' \subseteq {ip \in IP : kernel'[ip] # NoDev}
          /\ o.failed = {} => o.orphaned = {}
          /\ o.orphaned = {} => bare' \subseteq bare
      <4>1. missingKernel \in SUBSET desiredIPs(want)
        BY DEF missingKernel
      <4>. QED BY <3>1, <4>1, KernelAdded
    <3>4. frr' \subseteq IP
      BY <3>1, Announced DEF IInv, Routes, missingFRR
    <3>5. resolvable' \in BOOLEAN /\ cooldown' \in BOOLEAN
      BY <3>1 DEF repairUnresolvableNexthop
    <3>6. /\ faults' \in 0..MaxFaults /\ seen' \in SUBSET FaultKinds /\ ruleLost' \in BOOLEAN
          /\ ruleLost => ruleLost'
          /\ o.failed # {} /\ o.orphaned # {} => ruleLost'
      BY <3>1, FaultyUnless DEF IInv, FaultKinds
    <3>7. Ruled'
      BY <3>3, <3>6 DEF IInv, Ruled
    <3>. QED BY <3>2, <3>3, <3>4, <3>5, <3>6, <3>7, StreakTyped DEF IInv
  <2>. QED BY <2>1, <2>2
<1>3. Routes'
  BY <1>1, <1>2 DEF IInv, Routes
<1>4. Control'
  BY <1>1, <1>2 DEF IInv, Control, Phases
<1>5. Idle'
  BY <1>1 DEF IInv, Idle
<1>. QED BY <1>1, <1>2, <1>3, <1>4, <1>5, Quiescent DEF IInv

(* Nothing is wanted: all statics that could attract traffic go.              *)
LEMMA RemovesStatics == ASSUME IInv, RemoveFRR PROVE IInv'
<1>1. /\ pc = "removeFRR" /\ pc' = "removeKernel" /\ delFRR' \in {RIB, {}}
      /\ UNCHANGED <<intent, kernel, bare, resolvable, advertised, want, curKernel, curFRR,
                     addFRR, kernelOK, addOK, refreshOK, ready, consecutiveReAdds, cooldown,
                     changes>>
  BY DEF RemoveFRR, listVars, okVars, streakVars
<1>2. PICK deleted \in SUBSET delFRR' :
        frr' = frr \ deleted /\ FaultUnless(deleted = RIB, "vtysh")
  BY DEF RemoveFRR
<1>3. /\ faults' \in 0..MaxFaults /\ seen' \in SUBSET FaultKinds /\ ruleLost' \in BOOLEAN
      /\ seen \subseteq seen' /\ (ruleLost => ruleLost')
      /\ deleted # RIB => "vtysh" \in seen'
  BY <1>2, FaultyUnless DEF IInv, FaultKinds
<1>4. /\ \A ip \in IP : want.dev[ip] = NoDev
      /\ ~want.routers /\ want.static = {} /\ want.skip = {}
      /\ RIB \subseteq IP
  BY <1>1 DEF IInv, Progress, Standby, Routes, RIB
<1>5. Routes'
  BY <1>1, <1>2, <1>4 DEF IInv, Routes
<1>6. Control'
  BY <1>1, <1>3 DEF IInv, Control, Phases
<1>7. Withdrawn'
  <2>1. deleted = RIB => RIB' = {}
    BY <1>1, <1>2 DEF RIB
  <2>. QED BY <1>1, <1>3, <2>1 DEF Withdrawn
<1>8. Standby'
  BY <1>1, <1>4 DEF Standby
<1>9. Progress'
  BY <1>1, <1>7, <1>8 DEF Progress, Listed, KernelDone, StaticsDone, After
<1>10. Exact'
  BY <1>1 DEF Exact, ExactKernel, ExactStatics, Fine, After
<1>11. Ruled' /\ Idle'
  BY <1>1, <1>3 DEF IInv, Ruled, Idle
<1>. QED BY <1>5, <1>6, <1>9, <1>10, <1>11 DEF IInv

LEMMA KernelRemoved ==
  ASSUME IInv, RemoveKernel
  PROVE  /\ kernel' \in [IP -> Dev \cup {NoDev}]
         /\ bare' \subseteq {ip \in IP : kernel'[ip] # NoDev}
         /\ faults' \in 0..MaxFaults /\ seen' \in SUBSET FaultKinds /\ ruleLost' \in BOOLEAN
         /\ Ruled' /\ seen \subseteq seen'
         /\ seen' = {} => \A ip \in IP : kernel'[ip] = NoDev
<1> DEFINE present == {ip \in IP : kernel[ip] # NoDev}
<1>1. PICK failed \in SUBSET present, unruled \in SUBSET present :
        unruled \subseteq failed /\ DelKernelRoute(present, failed, unruled)
  BY DEF RemoveKernel
<1>2. present \in SUBSET {ip \in IP : kernel[ip] # NoDev} /\ unruled \in SUBSET failed
  BY <1>1
<1>3. \A ip \in IP \ present : kernel[ip] = NoDev
  OBVIOUS
<1> HIDE DEF present
<1>. QED BY <1>1, <1>2, <1>3, KernelDeleted

LEMMA RemovesKernel == ASSUME IInv, RemoveKernel PROVE IInv'
<1>1. /\ pc' = "idle" /\ pc = "removeKernel" /\ consecutiveReAdds' = 0 /\ delFRR' = {}
      /\ UNCHANGED <<intent, frr, resolvable, want, curKernel, curFRR, addFRR,
                     kernelOK, addOK, refreshOK, ready, cooldown, changes>>
  BY DEF RemoveKernel, listVars, okVars
<1>2. advertised' \in {RIB, advertised}
  BY DEF RemoveKernel
<1>3. want.static = {}
  BY <1>1 DEF IInv, Progress, Standby
<1>4. Routes'
  BY <1>1, <1>2, KernelRemoved DEF IInv, Routes, RIB
<1>5. Control'
  BY <1>1, KernelRemoved DEF IInv, Control, Phases, consecutiveReAddThreshold
<1>6. Idle'
  BY <1>1, <1>3 DEF IInv, Idle, Routes
<1>. QED BY <1>1, <1>4, <1>5, <1>6, KernelRemoved, Quiescent DEF IInv

-----------------------------------------------------------------------------
LEMMA Unchanged == ASSUME IInv, UNCHANGED vars PROVE IInv'
<1>1. Routes' /\ Control'
  BY DEF vars, IInv, Routes, Control
<1>2. Progress'
  BY DEF vars, IInv, Progress, Listed, KernelDone, StaticsDone, Withdrawn, Standby,
         NoDrift, desiredIPs, staleKernel, RIB
<1>3. Ruled' /\ Exact' /\ Idle'
  BY DEF vars, IInv, Ruled, Exact, ExactKernel, ExactStatics, Fine, desiredIPs, Idle
<1>. QED BY <1>1, <1>2, <1>3 DEF IInv

LEMMA Inductive == IInv /\ [Next]_vars => IInv'
<1> SUFFICES ASSUME IInv, [Next]_vars PROVE IInv'
  OBVIOUS
<1>1. CASE ChangeIntent \/ CooldownOver \/ Redistribute \/ Drift \/ LoseRule \/ LoseNexthop
  BY <1>1, Around, Drifts, LosesRule, Loses
<1>2. CASE Cycle
  BY <1>2, Begins, Lists, AddsKernel, AddsStatics, DeletesStatics, DeletesKernel, Refreshes,
     Reporting, Verifies, RemovesStatics, RemovesKernel DEF Cycle
<1>. QED BY <1>1, <1>2, Unchanged DEF Next

LEMMA Invariance == Spec => []IInv
BY InitIInv, Inductive, PTL DEF Spec

(* Only these steps leave their phase.                                        *)
LEMMA Leaving ==
  ASSUME Next, pc' # pc
  PROVE  /\ pc = "report" => Report
         /\ pc = "delKernel" => DelKernelRoutes
         /\ pc = "removeKernel" => RemoveKernel
BY DEF Next, Cycle, ChangeIntent, CooldownOver, Redistribute, Drift, LoseRule, LoseNexthop,
       BeginCycle, ListRoutes, AddKernelRoutes, AddFRRRoutes, DelFRRRoutes, DelKernelRoutes,
       RefreshBGP, Report, verifyRoutes, RemoveFRR, RemoveKernel

(* Every variable of the route plane keeps its type.                          *)
THEOREM TypeCorrect == Spec => []TypeOK
<1>1. IInv => TypeOK
  BY DEF IInv, Routes, Control, TypeOK
<1>. QED BY <1>1, Invariance, PTL

(* A cycle reports ready only what it has in FRR and in the kernel, whatever  *)
(* failed in it or before it.                                                 *)
THEOREM ReadyIsTrue == Spec => ReadyForwards
<1> DEFINE True == Reports /\ ready' /\ resolvable /\ "drift" \notin seen =>
                     /\ want.static \subseteq RIB
                     /\ \A ip \in desiredIPs(want) \ want.skip :
                          kernel[ip] = want.dev[ip] /\ (ip \notin bare \/ ruleLost)
<1>1. IInv /\ Next => True
  <2> SUFFICES ASSUME IInv, Next, Reports, ready', resolvable, NoDrift
               PROVE  /\ want.static \subseteq RIB
                      /\ \A ip \in desiredIPs(want) \ want.skip :
                           kernel[ip] = want.dev[ip] /\ (ip \notin bare \/ ruleLost)
    BY DEF NoDrift
  <2>1. pc = "report" /\ Report
    BY Leaving DEF Reports
  <2>2. kernelOK /\ addOK
    BY <2>1 DEF Report, cycleReady
  <2>3. want.static \subseteq RIB
    BY <2>1, <2>2 DEF IInv, Progress, StaticsDone, After, RIB
  <2>4. \A ip \in desiredIPs(want) \ want.skip : kernel[ip] = want.dev[ip]
    BY <2>1, <2>2 DEF IInv, Progress, KernelDone, After
  <2>5. \A ip \in IP : ip \notin bare \/ ruleLost
    BY DEF IInv, Ruled
  <2>. QED BY <2>3, <2>4, <2>5 DEF desiredIPs
<1>2. IInv /\ [Next]_vars => [True]_vars
  BY <1>1
<1>. QED BY <1>2, Invariance, PTL DEF Spec, ReadyForwards

(* Unless a withdrawal failed in the cycle, the data plane of an address is   *)
(* torn down only after its announcement.                                     *)
THEOREM WithdrawnFirst == Spec => WithdrawBeforeTeardown
<1> DEFINE First == pc' # pc /\ pc \in {"delKernel", "removeKernel"} /\ "vtysh" \notin seen =>
                      \A ip \in RIB : (kernel'[ip] = kernel[ip])
<1>1. IInv /\ Next => First
  <2> SUFFICES ASSUME IInv, Next, pc' # pc, pc \in {"delKernel", "removeKernel"},
                      "vtysh" \notin seen, NEW ip \in RIB
               PROVE  kernel'[ip] = kernel[ip]
    OBVIOUS
  <2>1. pc = "delKernel" /\ DelKernelRoutes
    BY Leaving DEF IInv, Progress, Withdrawn
  <2>2. ip \in frr /\ ip \in IP
    BY DEF RIB, IInv, Routes
  <2>3. ip \notin staleKernel
    BY <2>1, <2>2 DEF IInv, Progress, Withdrawn
  <2>. QED BY <2>1, <2>2, <2>3 DEF DelKernelRoutes, DelKernelRoute
<1>2. IInv /\ [Next]_vars => [First]_vars
  BY <1>1
<1>. QED BY <1>2, Invariance, PTL DEF Spec, WithdrawBeforeTeardown

(* One cycle without a fault repairs whatever the cycles, processes and other *)
(* writers before it left of the routes.                                      *)
THEOREM OneCycleRepairs == Spec => CycleRepairs
<1> DEFINE Repairs == CycleEnds /\ seen' = {} /\ resolvable =>
                        /\ RIB' = want.static
                        /\ \A ip \in IP \ want.skip : (kernel'[ip] = want.dev[ip])
                        /\ standby(want) \/ ready'
<1>1. IInv /\ Next => Repairs
  <2> SUFFICES ASSUME IInv, Next, CycleEnds, seen' = {}, resolvable
               PROVE  /\ RIB' = want.static
                      /\ \A ip \in IP \ want.skip : kernel'[ip] = want.dev[ip]
                      /\ standby(want) \/ ready'
    OBVIOUS
  <2>1. CASE pc = "report"
    <3>1. Report
      BY <2>1, Leaving DEF CycleEnds
    <3>2. UNCHANGED <<kernel, frr, resolvable, seen>> /\ ready' = cycleReady
      BY <3>1 DEF Report, planeVars, faultVars
    <3>3. frr = want.static /\ ready'
      BY <2>1, <3>2 DEF IInv, Exact, ExactStatics, Fine, After, cycleReady
    <3>4. \A ip \in IP \ desiredIPs(want) : kernel[ip] = NoDev
      BY <2>1, <3>2 DEF IInv, Exact, ExactKernel
    <3>5. \A ip \in desiredIPs(want) \ want.skip : kernel[ip] = want.dev[ip]
      BY <2>1, <3>2, <3>3 DEF IInv, Progress, KernelDone, NoDrift, After, Exact, Fine
    <3>6. \A ip \in IP \ want.skip : kernel[ip] = want.dev[ip]
      BY <3>4, <3>5 DEF desiredIPs
    <3>. QED BY <3>2, <3>3, <3>6 DEF RIB
  <2>2. CASE pc = "removeKernel"
    <3>1. RemoveKernel
      BY <2>2, Leaving DEF CycleEnds
    <3>2. UNCHANGED <<frr, resolvable>> /\ seen = {} /\ \A ip \in IP : kernel'[ip] = NoDev
      BY <3>1, KernelRemoved DEF RemoveKernel
    <3>3. /\ \A ip \in IP : want.dev[ip] = NoDev
          /\ want.static = {} /\ ~want.routers
      BY <2>2 DEF IInv, Progress, Standby
    <3>4. standby(want)
      BY <3>3 DEF standby, desiredIPs
    <3>5. RIB = {} /\ RIB' = RIB
      BY <2>2, <3>2 DEF IInv, Progress, Withdrawn, RIB
    <3>. QED BY <3>2, <3>3, <3>4, <3>5
  <2>. QED BY <2>1, <2>2 DEF CycleEnds
<1>2. IInv /\ [Next]_vars => [Repairs]_vars
  BY <1>1
<1>. QED BY <1>2, Invariance, PTL DEF Spec, CycleRepairs
=============================================================================
