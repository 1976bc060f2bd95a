------------------------- MODULE GatewayDrainProofs -------------------------
(* Theorems about GatewayDrain for every number of chassis and routers, every *)
(* candidate relation and every bound.                                        *)
EXTENDS GatewayDrain, FiniteSetTheorems, WellFoundedInduction, TLAPS

(* Types of the parameters the steps compute with. *)
LEMMA ConstantTypes ==
  /\ NoChassis \notin Chassis
  /\ Cand \in [Router -> SUBSET Chassis]
  /\ MaxPrio \in Nat /\ MaxPrio >= 1 /\ MaxFaults \in Nat /\ MaxStops \in Nat
  /\ InitPrio \in [Router -> [Chassis -> 0..MaxPrio]]
  /\ InitBound \in [Router -> Chassis \cup {NoChassis}]
BY ConstantsAssumption DEF ConstantsAssumption

(* The phases and priorities the steps name. *)
LEMMA PhaseTypes ==
  \A p \in {"down", "restore", "due", "idle", "routing", "announce", "mark",
            "lead", "confirm", "boost", "drain", "migrate", "await", "margin",
            "refresh", "stop", "nbclean"} : p \in Phases
BY DEF Phases, Running, Reconciling, Draining, Stopping

LEMMA PrioTypes ==
  /\ standbyPriority \in 0..MaxPrio
  /\ drainedPriority \in 0..MaxPrio
  /\ NoPlan \in [Router -> 0..MaxPrio]
BY ConstantTypes DEF standbyPriority, drainedPriority, NoPlan

LEMMA GotoTypes ==
  ASSUME TypeOK, NEW x \in Chassis, NEW phase \in Phases, Goto(x, phase)
  PROVE  pc' \in [Chassis -> Phases]
BY DEF Goto, TypeOK

(* Every step keeps every variable in its type. *)
LEMMA InitTypeOK == Init => TypeOK
BY ConstantTypes, PhaseTypes, PrioTypes DEF Init, TypeOK, Outcomes

LEMMA NextTypeOK == TypeOK /\ [Next]_vars => TypeOK'
<1> SUFFICES ASSUME TypeOK, [Next]_vars PROVE TypeOK'
  OBVIOUS
<1> USE ConstantTypes, PhaseTypes, PrioTypes
<1>1. ASSUME NEW r \in Router, Elect(r) \/ TieFlap(r) PROVE TypeOK'
  <2>1. Best(r) \subseteq Chassis
    BY DEF Best, Electable, TypeOK
  <2>2. faults' \in 0..MaxFaults
    BY <1>1 DEF Elect, TieFlap, Fault, TypeOK
  <2>3. bound' \in [Router -> Chassis \cup {NoChassis}]
    <3>1. PICK x \in Best(r) : bound' = [bound EXCEPT ![r] = x]
      BY <1>1 DEF Elect, TieFlap
    <3> QED
      BY <2>1, <3>1 DEF TypeOK
  <2> QED
    BY <1>1, <2>2, <2>3 DEF TypeOK, Elect, TieFlap, nbVars, drainVars
<1>2. ASSUME NEW x \in Chassis, OvnDown(x) \/ OvnUp(x) PROVE TypeOK'
  <2>1. faults' \in 0..MaxFaults
    BY <1>2 DEF OvnDown, OvnUp, Fault, TypeOK
  <2> QED
    BY <1>2, <2>1 DEF TypeOK, OvnDown, OvnUp, nbVars, drainVars
<1>3. ASSUME NEW x \in Chassis, Start(x) PROVE TypeOK'
  <2>1. faults' \in 0..MaxFaults
    BY <1>3 DEF Start, Fault, NoFault, TypeOK
  <2> QED
    BY <1>3, <2>1 DEF TypeOK, Start, Goto, LocalRouters, OwnRows, Outcomes, nbVars, envVars
<1>4. ASSUME NEW x \in Chassis, RestoreDrainedGateways(x) PROVE TypeOK'
  <2>1. faults' \in 0..MaxFaults
    BY <1>4 DEF RestoreDrainedGateways, TxnSucceeds, TxnFails, Fault, NoFault, TypeOK
  <2>2. prio' \in [Router -> [Chassis -> 0..MaxPrio]]
    <3>1. CASE UNCHANGED prio
      BY <3>1 DEF TypeOK
    <3>2. CASE prio' = [r \in Router |->
                IF r \in SeenRows(x) /\ prio[r][x] = drainedPriority
                THEN [prio[r] EXCEPT ![x] = standbyPriority] ELSE prio[r]]
      BY <3>2 DEF TypeOK
    <3> QED
      BY <1>4, <3>1, <3>2 DEF RestoreDrainedGateways
  <2> QED
    BY <1>4, <2>1, <2>2 DEF TypeOK, RestoreDrainedGateways, Goto, envVars, drainVars
<1>5. ASSUME NEW x \in Chassis, refreshState(x) \/ Sigterm(x) PROVE TypeOK'
  <2>1. stops' \in 0..MaxStops
    BY <1>5 DEF refreshState, Sigterm, TypeOK
  <2>2. LocalRouters(x) \subseteq Router
    BY DEF LocalRouters
  <2>3. CASE refreshState(x)
    BY <2>1, <2>2, <2>3 DEF TypeOK, refreshState, nbVars, envVars, drainVars
  <2>4. CASE Sigterm(x)
    BY <2>1, <2>4 DEF TypeOK, Sigterm, nbVars, envVars, drainVars
  <2> QED
    BY <1>5, <2>3, <2>4
<1>6. ASSUME NEW x \in Chassis, Reconcile(x) PROVE TypeOK'
  <2>1. CASE TakeSnapshot(x)
    BY <2>1 DEF TypeOK, TakeSnapshot, Goto,
      nbVars, envVars, drainVars
  <2>2. CASE EnsureGatewayRouting(x)
    <3>1. faults' \in 0..MaxFaults
      BY <2>2 DEF EnsureGatewayRouting, TxnFails, Fault, NoFault, TypeOK
    <3> QED
      BY <2>2, <3>1 DEF TypeOK, EnsureGatewayRouting, Goto, envVars, drainVars
  <2>3. CASE ensureRoutes(x)
    <3>1. faults' \in 0..MaxFaults
      BY <2>3 DEF ensureRoutes, Fault, NoFault, TypeOK
    <3>2. announced' \in [Chassis -> SUBSET Router]
      BY <2>3 DEF ensureRoutes, TypeOK
    <3>3. pc' \in [Chassis -> Phases]
      BY <2>3 DEF ensureRoutes, TypeOK, Goto
    <3> QED
      BY <2>3, <3>1, <3>2, <3>3 DEF TypeOK, ensureRoutes, nbVars, envVars, drainVars
  <2>4. CASE MarkTakeoverReady(x)
    <3>1. faults' \in 0..MaxFaults
      BY <2>4 DEF MarkTakeoverReady, TxnSucceeds, TxnFails, Fault, NoFault, TypeOK
    <3>2. marker' \in [Router -> Chassis \cup {NoChassis}]
      BY <2>4 DEF MarkTakeoverReady, TypeOK
    <3> QED
      BY <2>4, <3>1, <3>2 DEF TypeOK, MarkTakeoverReady, Goto, envVars, drainVars
  <2>5. CASE PlanPriorityLead(x)
    <3>1. faults' \in 0..MaxFaults
      BY <2>5 DEF PlanPriorityLead, Fault, NoFault, TypeOK
    <3>2. plan' \in [Chassis -> [Router -> 0..MaxPrio]]
      <4>1. CASE UNCHANGED plan
        BY <4>1 DEF TypeOK
      <4>2. CASE /\ \E f : plan' = [plan EXCEPT ![x] = f]
                 /\ plan'[x] \in [Router -> 0..MaxPrio]
        BY <4>2 DEF TypeOK
      <4> QED
        BY <2>5, <4>1, <4>2 DEF PlanPriorityLead
    <3>3. pc' \in [Chassis -> Phases]
      <4>1. Goto(x, "confirm") \/ Goto(x, "idle")
        BY ONLY <2>5 DEF PlanPriorityLead
      <4>2. "confirm" \in Phases /\ "idle" \in Phases
        BY PhaseTypes
      <4> QED
        BY ONLY <4>1, <4>2, GotoTypes, TypeOK, x \in Chassis
    <3> QED
      BY <2>5, <3>1, <3>2, <3>3
        DEF TypeOK, PlanPriorityLead, nbVars, envVars, drainVars
  <2>7. CASE ConfirmBinding(x)
    <3>1. faults' \in 0..MaxFaults
      BY <2>7 DEF ConfirmBinding, Fault, NoFault, TypeOK
    <3>2. plan' \in [Chassis -> [Router -> 0..MaxPrio]]
      <4>1. CASE UNCHANGED plan
        BY <4>1 DEF TypeOK
      <4>2. CASE plan' = [plan EXCEPT ![x] = [r \in Router |->
                  IF bound[r] \in {x, NoChassis} THEN plan[x][r] ELSE 0]]
        BY <4>2 DEF TypeOK
      <4> QED
        BY <2>7, <4>1, <4>2 DEF ConfirmBinding
    <3> QED
      BY <2>7, <3>1, <3>2
        DEF TypeOK, ConfirmBinding, Goto, nbVars, envVars, drainVars
  <2>6. CASE BoostPriority(x)
    <3>1. faults' \in 0..MaxFaults
      BY <2>6 DEF BoostPriority, TxnSucceeds, TxnFails, Fault, NoFault, TypeOK
    <3>2. prio' \in [Router -> [Chassis -> 0..MaxPrio]]
      <4>1. CASE UNCHANGED prio
        BY <4>1 DEF TypeOK
      <4>2. CASE prio' = [r \in Router |->
                  IF plan[x][r] > 0 THEN [prio[r] EXCEPT ![x] = plan[x][r]]
                  ELSE prio[r]]
        BY <4>2 DEF TypeOK
      <4> QED
        BY <2>6, <4>1, <4>2 DEF BoostPriority
    <3> QED
      BY <2>6, <3>1, <3>2 DEF TypeOK, BoostPriority, Goto, envVars, drainVars
  <2> QED
    BY <1>6, <2>1, <2>2, <2>3, <2>4, <2>5, <2>6, <2>7 DEF Reconcile
<1>7. ASSUME NEW x \in Chassis, Shutdown(x) PROVE TypeOK'
  BY <1>7 DEF TypeOK, Shutdown, Goto, nbVars,
    envVars, drainVars
<1>8. ASSUME NEW x \in Chassis, DrainGateways(x) PROVE TypeOK'
  <2>1. faults' \in 0..MaxFaults
    BY <1>8 DEF DrainGateways, Fault, NoFault, TypeOK
  <2>2. prio' \in [Router -> [Chassis -> 0..MaxPrio]]
    <3>1. CASE UNCHANGED prio
      BY <3>1 DEF TypeOK
    <3>2. CASE prio' = [r \in Router |->
                IF r \in drainCandidates(x)
                THEN [prio[r] EXCEPT ![x] = drainedPriority] ELSE prio[r]]
      BY <3>2 DEF TypeOK
    <3> QED
      BY <1>8, <3>1, <3>2 DEF DrainGateways
  <2>3. pc' \in [Chassis -> Phases] /\ outcome' \in [Chassis -> Outcomes]
    <3>1. pc' \in [Chassis -> Phases]
      <4>1. Goto(x, "refresh") \/ Goto(x, "migrate")
        BY ONLY <1>8 DEF DrainGateways
      <4>2. "refresh" \in Phases /\ "migrate" \in Phases
        BY PhaseTypes
      <4> QED
        BY ONLY <4>1, <4>2, GotoTypes, TypeOK, x \in Chassis
    <3>2. outcome' \in [Chassis -> Outcomes]
      <4>1. \/ outcome' = outcome
            \/ outcome' = [outcome EXCEPT ![x] = "noop"]
            \/ outcome' = [outcome EXCEPT ![x] = "error"]
        BY <1>8 DEF DrainGateways
      <4> QED
        BY <4>1 DEF TypeOK, Outcomes
    <3> QED
      BY <3>1, <3>2
  <2> QED
    BY <1>8, <2>1, <2>2, <2>3 DEF TypeOK, DrainGateways, envVars
<1>9. ASSUME NEW x \in Chassis, MigrationDone(x) PROVE TypeOK'
  <2>1. pc' \in [Chassis -> Phases]
    <3>1. Goto(x, "refresh") \/ Goto(x, "margin") \/ Goto(x, "await")
      BY ONLY <1>9 DEF MigrationDone
    <3>2. "refresh" \in Phases /\ "margin" \in Phases /\ "await" \in Phases
      BY PhaseTypes
    <3> QED
      BY ONLY <3>1, <3>2, GotoTypes, TypeOK, x \in Chassis
  <2>2. waiting' \in [Chassis -> SUBSET Router]
    <3>1. \/ waiting' = waiting
          \/ \E W \in SUBSET Router : waiting' = [waiting EXCEPT ![x] = W]
      BY <1>9 DEF MigrationDone, localManagedDefaultRoutes, TypeOK
    <3> QED
      BY <3>1 DEF TypeOK
  <2>3. outcome' \in [Chassis -> Outcomes]
    BY <1>9 DEF MigrationDone, TypeOK, Outcomes
  <2>4. faults' \in 0..MaxFaults
    BY <1>9 DEF MigrationDone, Fault, NoFault, TypeOK
  <2> QED
    BY <1>9, <2>1, <2>2, <2>3, <2>4 DEF TypeOK, MigrationDone, nbVars, envVars
<1>10. ASSUME NEW x \in Chassis, MigrationError(x) \/ DrainTimeout(x)
       PROVE  TypeOK'
  <2>1. faults' \in 0..MaxFaults
    BY <1>10 DEF MigrationError, DrainTimeout, Fault, TypeOK
  <2>2. outcome' \in [Chassis -> Outcomes]
    BY <1>10 DEF MigrationError, DrainTimeout, Outcomes, TypeOK
  <2>3. CASE MigrationError(x)
    BY <2>1, <2>2, <2>3 DEF TypeOK, MigrationError, Goto, nbVars, envVars
  <2>4. CASE DrainTimeout(x)
    BY <2>1, <2>2, <2>4 DEF TypeOK, DrainTimeout, Goto, nbVars, envVars
  <2> QED
    BY <1>10, <2>3, <2>4
<1>11. ASSUME NEW x \in Chassis, AwaitTakeoverReady(x) \/ holdSettleMargin(x)
       PROVE  TypeOK'
  <2>1. outcome' \in [Chassis -> Outcomes]
    BY <1>11 DEF AwaitTakeoverReady, holdSettleMargin, Outcomes, TypeOK
  <2>2. CASE AwaitTakeoverReady(x)
    <3>1. faults' \in 0..MaxFaults
      BY <2>2 DEF AwaitTakeoverReady, Fault, NoFault, TypeOK
    <3> QED
      BY <2>1, <2>2, <3>1 DEF TypeOK, AwaitTakeoverReady, Goto, nbVars, envVars
  <2>3. CASE holdSettleMargin(x)
    BY <2>1, <2>3 DEF TypeOK, holdSettleMargin, Goto, nbVars, envVars
  <2> QED
    BY <1>11, <2>2, <2>3
<1>12. ASSUME NEW x \in Chassis, PostDrainRefresh(x) PROVE TypeOK'
  <2>1. faults' \in 0..MaxFaults
    <3>1. NoFault \/ Fault("refresh")
      BY <1>12 DEF PostDrainRefresh
    <3> QED
      BY <3>1 DEF Fault, NoFault, TypeOK
  <2>2. view' \in [Chassis -> SUBSET Router]
    <3>1. LocalRouters(x) \subseteq Router
      BY DEF LocalRouters
    <3>2. \/ view' = [view EXCEPT ![x] = LocalRouters(x)]
          \/ view' = view
      BY <1>12 DEF PostDrainRefresh
    <3> QED
      BY <3>1, <3>2 DEF TypeOK
  <2> QED
    BY <1>12, <2>1, <2>2 DEF TypeOK, PostDrainRefresh, Goto, nbVars, envVars,
      drainVars
<1>13. ASSUME NEW x \in Chassis, Stop(x) PROVE TypeOK'
  <2>1. CASE Exit(x) /\ UNCHANGED announced
    BY <1>13, <2>1 DEF TypeOK, Stop, Exit, Goto, nbVars, envVars, drainVars
  <2>2. CASE /\ Goto(x, "nbclean")
             /\ announced' = [announced EXCEPT ![x] = {}]
             /\ UNCHANGED <<term, view, snap, plan, hidden>>
    BY <1>13, <2>2 DEF TypeOK, Stop, Goto, nbVars, envVars, drainVars
  <2> QED
    BY <1>13, <2>1, <2>2 DEF Stop
<1>14. ASSUME NEW x \in Chassis, RemoveManagedNBEntries(x) PROVE TypeOK'
  <2>1. /\ tag' \in [Router -> Chassis \cup {NoChassis}]
        /\ marker' \in [Router -> Chassis \cup {NoChassis}]
        /\ waiting' \in [Chassis -> SUBSET Router]
    BY <1>14 DEF RemoveManagedNBEntries, TypeOK
  <2>2. faults' \in 0..MaxFaults
    BY <1>14 DEF RemoveManagedNBEntries, Fault, NoFault, TypeOK
  <2> QED
    BY <1>14, <2>1, <2>2 DEF TypeOK, RemoveManagedNBEntries, Exit, Goto, envVars
<1>15. ASSUME NEW x \in Chassis, Crash(x) \/ HostFailure(x) PROVE TypeOK'
  <2>1. faults' \in 0..MaxFaults
    BY <1>15 DEF Crash, HostFailure, Fault, TypeOK
  <2>2. Exit(x)
    BY <1>15 DEF Crash, HostFailure
  <2>3. /\ pc' \in [Chassis -> Phases] /\ term' \in SUBSET Chassis
        /\ snap' \in [Chassis -> SUBSET Router]
        /\ view' \in [Chassis -> SUBSET Router]
        /\ hidden' \in [Chassis -> SUBSET Router]
        /\ plan' \in [Chassis -> [Router -> 0..MaxPrio]]
    BY <2>2 DEF Exit, Goto, TypeOK
  <2>4. /\ announced' \in [Chassis -> SUBSET Router]
        /\ waiting' \in [Chassis -> SUBSET Router]
        /\ ovnUp' \in SUBSET Chassis
    BY <1>15 DEF Crash, HostFailure, TypeOK, envVars
  <2> QED
    BY <1>15, <2>1, <2>3, <2>4 DEF TypeOK, Crash, HostFailure, nbVars, envVars
<1>16. CASE UNCHANGED vars
  BY <1>16 DEF TypeOK, vars
<1> QED
  BY <1>1, <1>2, <1>3, <1>4, <1>5, <1>6, <1>7, <1>8, <1>9, <1>10, <1>12,
    <1>13, <1>14, <1>15, <1>11, <1>16 DEF Next, AgentStep

THEOREM TypeCorrect == Spec => []TypeOK
BY InitTypeOK, NextTypeOK, PTL DEF Spec

-----------------------------------------------------------------------------
(* Markers are written after the announce.  While an agent is about to mark,  *)
(* its snapshot is announced: nothing but its own next announce, its cleanup  *)
(* or the loss of its host withdraws its routes, and its snapshot is its own. *)
MarkOnlyAnnounced ==
  \A x \in Chassis : pc[x] = "mark" => snap[x] \subseteq announced[x]

LEMMA MarkOnlyAnnouncedInductive ==
  TypeOK /\ MarkOnlyAnnounced /\ [Next]_vars => MarkOnlyAnnounced'
<1> SUFFICES ASSUME TypeOK, MarkOnlyAnnounced, [Next]_vars,
                    NEW y \in Chassis, pc'[y] = "mark"
             PROVE  snap'[y] \subseteq announced'[y]
  BY DEF MarkOnlyAnnounced
<1> USE DEF TypeOK, Goto
<1>1. ASSUME NEW x \in Chassis, ensureRoutes(x)
      PROVE  snap'[y] \subseteq announced'[y]
  <2>1. PICK added \in SUBSET snap[x], stale \in SUBSET (announced[x] \ snap[x]),
             ready \in BOOLEAN :
          /\ ready => added = snap[x]
          /\ announced' = [announced EXCEPT ![x] = added \cup stale]
          /\ pc' = [pc EXCEPT ![x] =
               IF snap[x] = {} THEN "idle" ELSE IF ready THEN "mark" ELSE "lead"]
    BY <1>1 DEF ensureRoutes
  <2>2. snap' = snap
    BY <1>1 DEF ensureRoutes
  <2>3. CASE x = y
    <3>1. ready
      BY <2>1, <2>3
    <3> QED
      BY <2>1, <2>2, <2>3, <3>1
  <2>4. CASE x # y
    BY <2>1, <2>2, <2>4 DEF MarkOnlyAnnounced
  <2> QED
    BY <2>3, <2>4
<1>2. ASSUME NEW x \in Chassis,
             \/ TakeSnapshot(x) \/ EnsureGatewayRouting(x)
             \/ MarkTakeoverReady(x) \/ PlanPriorityLead(x)
             \/ ConfirmBinding(x) \/ BoostPriority(x)
      PROVE  snap'[y] \subseteq announced'[y]
  <2>1. x # y
    BY <1>2 DEF TakeSnapshot, EnsureGatewayRouting, MarkTakeoverReady,
      PlanPriorityLead, ConfirmBinding, BoostPriority
  <2>2. pc'[y] = pc[y] /\ snap'[y] = snap[y] /\ announced' = announced
    BY <1>2, <2>1 DEF TakeSnapshot, EnsureGatewayRouting, MarkTakeoverReady,
      PlanPriorityLead, ConfirmBinding, BoostPriority
  <2> QED
    BY <2>2 DEF MarkOnlyAnnounced
<1>3. ASSUME NEW x \in Chassis,
             \/ Start(x) \/ RestoreDrainedGateways(x) \/ Shutdown(x)
             \/ DrainGateways(x) \/ MigrationDone(x) \/ MigrationError(x)
             \/ AwaitTakeoverReady(x) \/ holdSettleMargin(x)
             \/ DrainTimeout(x) \/ PostDrainRefresh(x)
      PROVE  snap'[y] \subseteq announced'[y]
  <2>1. snap' = snap /\ announced' = announced
    BY <1>3 DEF Start, RestoreDrainedGateways, Shutdown, DrainGateways,
      MigrationDone, MigrationError, AwaitTakeoverReady, holdSettleMargin,
      DrainTimeout, PostDrainRefresh
  <2>2. PICK phase : phase # "mark" /\ pc' = [pc EXCEPT ![x] = phase]
    BY <1>3 DEF Start, RestoreDrainedGateways, Shutdown, DrainGateways,
      MigrationDone, MigrationError, AwaitTakeoverReady, holdSettleMargin,
      DrainTimeout, PostDrainRefresh
  <2>3. pc[y] = "mark"
    BY <2>2
  <2> QED
    BY <2>1, <2>3 DEF MarkOnlyAnnounced
<1>4. ASSUME NEW x \in Chassis,
             \/ Stop(x) \/ RemoveManagedNBEntries(x) \/ Crash(x) \/ HostFailure(x)
      PROVE  snap'[y] \subseteq announced'[y]
  <2>1. x # y
    BY <1>4 DEF Stop, RemoveManagedNBEntries, Crash, HostFailure, Exit
  <2>2. pc'[y] = pc[y] /\ snap'[y] = snap[y] /\ announced'[y] = announced[y]
    BY <1>4, <2>1 DEF Stop, RemoveManagedNBEntries, Crash, HostFailure, Exit
  <2> QED
    BY <2>2 DEF MarkOnlyAnnounced
<1>5. ASSUME \/ \E r \in Router : Elect(r) \/ TieFlap(r)
             \/ \E x \in Chassis : \/ refreshState(x) \/ Sigterm(x)
                                   \/ OvnDown(x) \/ OvnUp(x)
             \/ UNCHANGED vars
      PROVE  snap'[y] \subseteq announced'[y]
  <2>1. pc' = pc /\ snap' = snap /\ announced' = announced
    BY <1>5 DEF Elect, TieFlap, refreshState, Sigterm, OvnDown, OvnUp, vars
  <2> QED
    BY <2>1 DEF MarkOnlyAnnounced
<1> QED
  BY <1>1, <1>2, <1>3, <1>4, <1>5 DEF Next, AgentStep, Reconcile

(* MarkTakeoverReady is the only writer of markers, and writes its own name   *)
(* on routers it announces: the marker the drain of a peer waits for is never *)
(* put on a route before ensureRoutes reported ready, whatever fails.         *)
THEOREM MarkersAreAnnounced == Spec => MarkerAfterAnnounce
<1>1. Init => MarkOnlyAnnounced
  BY DEF Init, MarkOnlyAnnounced
<1>2. TypeOK /\ MarkOnlyAnnounced /\ [Next]_vars
      => [\A r \in Router : marker'[r] \notin {marker[r], NoChassis} =>
            r \in announced[marker'[r]]]_vars
  <2> SUFFICES ASSUME TypeOK, MarkOnlyAnnounced, [Next]_vars,
                      NEW r \in Router, marker'[r] \notin {marker[r], NoChassis}
               PROVE  r \in announced[marker'[r]]
    OBVIOUS
  <2>1. ASSUME NEW x \in Chassis, MarkTakeoverReady(x)
        PROVE  r \in announced[marker'[r]]
    <3>1. /\ marker' = [q \in Router |->
               IF q \in localManagedDefaultRoutes(snap[x]) THEN x ELSE marker[q]]
          /\ pc[x] = "mark"
      BY <2>1 DEF MarkTakeoverReady
    <3>2. marker'[r] = x /\ r \in snap[x]
      BY <3>1 DEF localManagedDefaultRoutes
    <3> QED
      BY <3>1, <3>2 DEF MarkOnlyAnnounced
  <2>2. ASSUME NEW x \in Chassis, RemoveManagedNBEntries(x) PROVE FALSE
    BY <2>2 DEF RemoveManagedNBEntries
  <2>3. ASSUME \/ \E q \in Router : Elect(q) \/ TieFlap(q)
               \/ \E x \in Chassis :
                    \/ Start(x) \/ RestoreDrainedGateways(x) \/ TakeSnapshot(x)
                    \/ EnsureGatewayRouting(x) \/ ensureRoutes(x)
                    \/ PlanPriorityLead(x) \/ ConfirmBinding(x)
                    \/ BoostPriority(x) \/ Shutdown(x)
                    \/ DrainGateways(x) \/ MigrationDone(x)
        PROVE  marker' = marker
    BY <2>3 DEF Elect, TieFlap, Start, RestoreDrainedGateways, TakeSnapshot,
      EnsureGatewayRouting, ensureRoutes,
      PlanPriorityLead, ConfirmBinding, BoostPriority,
      Shutdown, DrainGateways, MigrationDone, nbVars
  <2>4. ASSUME \/ \E x \in Chassis :
                    \/ MigrationError(x) \/ AwaitTakeoverReady(x)
                    \/ holdSettleMargin(x) \/ DrainTimeout(x)
                    \/ PostDrainRefresh(x) \/ Stop(x)
                    \/ refreshState(x) \/ Sigterm(x) \/ OvnDown(x) \/ OvnUp(x)
                    \/ Crash(x) \/ HostFailure(x)
               \/ UNCHANGED vars
        PROVE  marker' = marker
    BY <2>4 DEF MigrationError, AwaitTakeoverReady, holdSettleMargin,
      DrainTimeout, PostDrainRefresh, Stop, refreshState, Sigterm, OvnDown,
      OvnUp, Crash, HostFailure, nbVars, vars
  <2> QED
    BY <2>1, <2>2, <2>3, <2>4 DEF Next, AgentStep, Reconcile
<1> QED
  BY <1>1, <1>2, InitTypeOK, NextTypeOK, MarkOnlyAnnouncedInductive, PTL
    DEF Spec, MarkerAfterAnnounce

-----------------------------------------------------------------------------
(* No running agent is stranded at priority 0, provided the NB transaction of *)
(* RestoreDrainedGateways does not fail and the cache hides no own row.       *)
NothingHidden == \A x \in Chassis : hidden[x] = {}
RejoinInv == TypeOK /\ NothingHidden /\ RunningNotStranded

LEMMA RejoinInductive ==
  ASSUME "restore" \notin Faults, "cache" \notin Faults
  PROVE  RejoinInv /\ [Next]_vars => RejoinInv'
<1> SUFFICES ASSUME RejoinInv, [Next]_vars PROVE RejoinInv'
  OBVIOUS
<1>1. TypeOK /\ TypeOK'
  BY NextTypeOK DEF RejoinInv
<1> USE <1>1
<1>2. NothingHidden'
  <2>1. ASSUME NEW x \in Chassis, Start(x) PROVE NothingHidden'
    BY <2>1 DEF Start, Fault, RejoinInv, NothingHidden, TypeOK
  <2>2. ASSUME NEW x \in Chassis,
               \/ Stop(x) \/ RemoveManagedNBEntries(x) \/ Crash(x) \/ HostFailure(x)
        PROVE  NothingHidden'
    <3>1. hidden' = hidden \/ hidden' = [hidden EXCEPT ![x] = {}]
      BY <2>2 DEF Stop, RemoveManagedNBEntries, Crash, HostFailure, Exit
    <3>2. hidden \in [Chassis -> SUBSET Router] /\ NothingHidden
      BY DEF RejoinInv, TypeOK
    <3> QED
      BY <3>1, <3>2 DEF NothingHidden
  <2>3. CASE hidden' = hidden
    BY <2>3 DEF RejoinInv, NothingHidden
  <2>4. ASSUME NEW x \in Chassis, Reconcile(x) PROVE hidden' = hidden
    BY <2>4 DEF Reconcile, TakeSnapshot, EnsureGatewayRouting, ensureRoutes,
      MarkTakeoverReady, PlanPriorityLead, ConfirmBinding, BoostPriority
  <2>5. ASSUME NEW x \in Chassis,
               \/ RestoreDrainedGateways(x) \/ Shutdown(x) \/ DrainGateways(x)
               \/ MigrationDone(x) \/ MigrationError(x) \/ AwaitTakeoverReady(x)
               \/ holdSettleMargin(x) \/ DrainTimeout(x) \/ PostDrainRefresh(x)
        PROVE  hidden' = hidden
    BY <2>5 DEF RestoreDrainedGateways, Shutdown, DrainGateways, MigrationDone,
      MigrationError, AwaitTakeoverReady, holdSettleMargin, DrainTimeout,
      PostDrainRefresh
  <2>6. ASSUME \/ \E r \in Router : Elect(r) \/ TieFlap(r)
               \/ \E x \in Chassis : \/ refreshState(x) \/ Sigterm(x)
                                     \/ OvnDown(x) \/ OvnUp(x)
               \/ UNCHANGED vars
        PROVE  hidden' = hidden
    BY <2>6 DEF Elect, TieFlap, refreshState, Sigterm, OvnDown, OvnUp, vars
  <2> QED
    BY <2>1, <2>2, <2>3, <2>4, <2>5, <2>6 DEF Next, AgentStep
<1>3. ASSUME NEW y \in Chassis, pc'[y] \in Reconciling, y \notin term',
             NEW r \in OwnRows(y)
      PROVE  prio'[r][y] > 0
  <2> USE <1>3
  <2> r \in Router
    BY DEF OwnRows
  <2>1. CASE pc[y] \in Reconciling /\ y \notin term /\ prio' = prio
    BY <2>1 DEF RejoinInv, RunningNotStranded
  <2>2. ASSUME NEW x \in Chassis, RestoreDrainedGateways(x)
        PROVE  prio'[r][y] > 0
    <3>1. CASE x = y
      <4>1. r \in SeenRows(y)
        BY DEF SeenRows, CachedRows, RejoinInv, NothingHidden
      <4>2. y \notin term
        BY <2>2 DEF RestoreDrainedGateways
      <4>3. prio' = [q \in Router |->
               IF q \in SeenRows(x) /\ prio[q][x] = drainedPriority
               THEN [prio[q] EXCEPT ![x] = standbyPriority] ELSE prio[q]]
        BY <2>2, <3>1, <4>2 DEF RestoreDrainedGateways, TxnFails, Fault
      <4> QED
        BY <3>1, <4>1, <4>3 DEF TypeOK, drainedPriority, standbyPriority
    <3>2. CASE x # y
      <4>1. pc[y] \in Reconciling /\ y \notin term
        BY <2>2, <3>2 DEF RestoreDrainedGateways, Goto, TypeOK
      <4>2. prio'[r][y] = prio[r][y]
        BY <2>2, <3>2 DEF RestoreDrainedGateways, TypeOK
      <4> QED
        BY <4>1, <4>2 DEF RejoinInv, RunningNotStranded
    <3> QED
      BY <3>1, <3>2
  <2>3. ASSUME NEW x \in Chassis, BoostPriority(x) PROVE prio'[r][y] > 0
    <3>1. pc[y] \in Reconciling /\ y \notin term
      BY <2>3 DEF BoostPriority, Goto, TypeOK, Reconciling
    <3>2. prio[r][y] > 0
      BY <3>1 DEF RejoinInv, RunningNotStranded
    <3>3. \/ prio' = prio
          \/ prio' = [q \in Router |->
               IF plan[x][q] > 0 THEN [prio[q] EXCEPT ![x] = plan[x][q]]
               ELSE prio[q]]
      BY <2>3 DEF BoostPriority
    <3>4. CASE prio' = prio
      BY <3>2, <3>4
    <3>5. CASE prio' = [q \in Router |->
                 IF plan[x][q] > 0 THEN [prio[q] EXCEPT ![x] = plan[x][q]]
                 ELSE prio[q]]
      <4>1. prio[r] \in [Chassis -> 0..MaxPrio]
        BY DEF TypeOK
      <4>2. prio'[r] = IF plan[x][r] > 0 THEN [prio[r] EXCEPT ![x] = plan[x][r]]
                       ELSE prio[r]
        BY <3>5
      <4>3. CASE x = y /\ plan[x][r] > 0
        <5>1. prio'[r][y] = plan[x][r]
          BY <4>1, <4>2, <4>3
        <5> QED
          BY <4>3, <5>1
      <4>4. CASE ~(x = y /\ plan[x][r] > 0)
        <5>1. prio'[r][y] = prio[r][y]
          BY <4>1, <4>2, <4>4
        <5> QED
          BY <3>2, <5>1
      <4> QED
        BY <4>3, <4>4
    <3> QED
      BY <3>3, <3>4, <3>5
  <2>4. ASSUME NEW x \in Chassis, DrainGateways(x) PROVE prio'[r][y] > 0
    <3>1. x # y
      BY <2>4 DEF DrainGateways, Goto, TypeOK, Reconciling
    <3>2. pc[y] \in Reconciling /\ y \notin term
      BY <2>4, <3>1 DEF DrainGateways, Goto, TypeOK
    <3>3. prio[r][y] > 0
      BY <3>2 DEF RejoinInv, RunningNotStranded
    <3>4. \/ prio' = prio
          \/ prio' = [q \in Router |->
               IF q \in drainCandidates(x)
               THEN [prio[q] EXCEPT ![x] = drainedPriority] ELSE prio[q]]
      BY <2>4 DEF DrainGateways
    <3> QED
      BY <3>1, <3>3, <3>4 DEF TypeOK
  <2>5. ASSUME NEW x \in Chassis,
               \/ Start(x) \/ Shutdown(x) \/ MigrationDone(x) \/ MigrationError(x)
               \/ AwaitTakeoverReady(x) \/ holdSettleMargin(x)
               \/ DrainTimeout(x) \/ PostDrainRefresh(x)
        PROVE  pc[y] \in Reconciling /\ y \notin term /\ prio' = prio
    <3>1. prio' = prio /\ term' = term
      BY <2>5 DEF Start, Shutdown, MigrationDone, MigrationError,
        AwaitTakeoverReady, holdSettleMargin, DrainTimeout, PostDrainRefresh,
        nbVars
    <3>2. PICK phase : phase \notin Reconciling /\ pc' = [pc EXCEPT ![x] = phase]
      BY <2>5 DEF Start, Shutdown, MigrationDone, MigrationError,
        AwaitTakeoverReady, holdSettleMargin, DrainTimeout, PostDrainRefresh,
        Goto, Reconciling
    <3> QED
      BY <3>1, <3>2 DEF TypeOK
  <2>6. ASSUME NEW x \in Chassis,
               \/ Stop(x) \/ RemoveManagedNBEntries(x) \/ Crash(x) \/ HostFailure(x)
        PROVE  pc[y] \in Reconciling /\ y \notin term /\ prio' = prio
    <3>1. x # y
      BY <2>6 DEF Stop, RemoveManagedNBEntries, Crash, HostFailure, Exit, Goto,
        TypeOK, Reconciling
    <3>2. prio' = prio
      BY <2>6 DEF Stop, RemoveManagedNBEntries, Crash, HostFailure, nbVars
    <3>3. pc'[y] = pc[y] /\ (y \in term' <=> y \in term)
      BY <2>6, <3>1 DEF Stop, RemoveManagedNBEntries, Crash, HostFailure, Exit,
        Goto, TypeOK
    <3> QED
      BY <3>2, <3>3
  <2>7. ASSUME NEW x \in Chassis,
               \/ TakeSnapshot(x) \/ EnsureGatewayRouting(x) \/ ensureRoutes(x)
               \/ MarkTakeoverReady(x)
               \/ PlanPriorityLead(x) \/ ConfirmBinding(x)
        PROVE  pc[y] \in Reconciling /\ y \notin term /\ prio' = prio
    <3>1. prio' = prio /\ term' = term
      BY <2>7 DEF TakeSnapshot, EnsureGatewayRouting, ensureRoutes,
        MarkTakeoverReady, PlanPriorityLead, ConfirmBinding, nbVars
    <3>2. pc[x] \in Reconciling
      BY <2>7 DEF TakeSnapshot, EnsureGatewayRouting, ensureRoutes,
        MarkTakeoverReady, PlanPriorityLead, ConfirmBinding, Reconciling
    <3>3. x # y => pc'[y] = pc[y]
      BY <2>7 DEF TakeSnapshot, EnsureGatewayRouting, ensureRoutes,
        MarkTakeoverReady, PlanPriorityLead, ConfirmBinding, Goto, TypeOK
    <3> QED
      BY <3>1, <3>2, <3>3
  <2>8. ASSUME \/ \E q \in Router : Elect(q) \/ TieFlap(q)
               \/ \E x \in Chassis : \/ refreshState(x) \/ Sigterm(x)
                                     \/ OvnDown(x) \/ OvnUp(x)
               \/ UNCHANGED vars
        PROVE  pc[y] \in Reconciling /\ y \notin term /\ prio' = prio
    BY <2>8 DEF Elect, TieFlap, refreshState, Sigterm, OvnDown, OvnUp, nbVars,
      vars
  <2> QED
    BY <2>1, <2>2, <2>3, <2>4, <2>5, <2>6, <2>7, <2>8
      DEF Next, AgentStep, Reconcile
<1> QED
  BY <1>2, <1>3 DEF RejoinInv, RunningNotStranded, OwnRows

(* Whatever crashes, times out or fails in BGP and SB, and whatever           *)
(* drain_on_shutdown was, a running agent's chassis is in every HA group it   *)
(* has a row in (RestoreDrainedGateways runs unconditionally at startup).     *)
THEOREM RestoredChassisRejoins ==
  ASSUME "restore" \notin Faults, "cache" \notin Faults
  PROVE  Spec => []RunningNotStranded
<1>1. Init => RejoinInv
  BY InitTypeOK DEF Init, RejoinInv, NothingHidden, RunningNotStranded, Reconciling
<1>2. RejoinInv => RunningNotStranded
  BY DEF RejoinInv
<1> QED
  BY <1>1, <1>2, RejoinInductive, PTL DEF Spec

-----------------------------------------------------------------------------
(* The cleanup of a completed drain.  In a rolling restart of healthy chassis *)
(* the leaving chassis is the only one whose rows are at 0: once its ports    *)
(* have left, OVN has a better candidate for each of them and none returns,   *)
(* so the post-drain refresh sees the ports that have nowhere else to go.     *)
LeavingWasAsked ==
  \A x \in Chassis : pc[x] \in Draining \cup Stopping => x \in term

(* The chassis that leave, or whose row in some HA group is still at 0: while *)
(* any leaves, they are at most MaxAway.                                      *)
Gone == {x \in Chassis : x \in term \/ \E r \in OwnRows(x) : prio[r][x] = 0}
FewGone == term # {} => Cardinality(Gone) <= MaxAway

NoOutcomeYet ==
  \A x \in Chassis :
    pc[x] \in Running \cup {"drain", "migrate"} => outcome[x] = "none"

Completed(x) == pc[x] \in Stopping /\ outcome[x] = "completed"
HasLowered(x) == pc[x] \in {"migrate", "await", "margin"} \/ Completed(x)
HasMoved(x) == pc[x] \in {"await", "margin"} \/ Completed(x)
HasRefreshed(x) == pc[x] \in {"stop", "nbclean"} /\ outcome[x] = "completed"

LoweredRows ==
  \A x \in Chassis : HasLowered(x) =>
    \A r \in OwnRows(x) : Cand[r] # {x} => prio[r][x] = 0

OnlySoleStay ==
  \A x \in Chassis : HasMoved(x) =>
    \A r \in Router : bound[r] = x => Cand[r] = {x}

RefreshedView ==
  \A x \in Chassis : HasRefreshed(x) => view[x] \subseteq LocalRouters(x)

CleanupInv ==
  /\ RejoinInv
  /\ ovnUp = Chassis
  /\ LeavingWasAsked
  /\ FewGone
  /\ NoOutcomeYet
  /\ LoweredRows
  /\ OnlySoleStay
  /\ RefreshedView

(* A step either leaves what belongs to y alone, or is y's own. *)
Untouched(y) ==
  /\ pc'[y] = pc[y] /\ outcome'[y] = outcome[y] /\ view'[y] = view[y]
  /\ snap'[y] = snap[y] /\ plan'[y] = plan[y] /\ announced'[y] = announced[y]
  /\ y \in term' <=> y \in term
  /\ \A r \in Router : prio'[r][y] = prio[r][y]

OwnStep(y) ==
  AgentStep(y) \/ refreshState(y) \/ Sigterm(y) \/ Crash(y) \/ HostFailure(y)

LEMMA OthersUntouched ==
  ASSUME TypeOK, NEW x \in Chassis, OwnStep(x), NEW y \in Chassis \ {x}
  PROVE  Untouched(y)
<1> USE DEF TypeOK, Goto, Untouched
<1>1. CASE BoostPriority(x)
  <2>1. \/ prio' = prio
        \/ prio' = [r \in Router |->
             IF plan[x][r] > 0 THEN [prio[r] EXCEPT ![x] = plan[x][r]]
             ELSE prio[r]]
    BY <1>1 DEF BoostPriority
  <2>2. ASSUME NEW r \in Router PROVE prio'[r][y] = prio[r][y]
    <3>1. prio[r] \in [Chassis -> 0..MaxPrio]
      OBVIOUS
    <3>2. prio'[r] \in {prio[r], [prio[r] EXCEPT ![x] = plan[x][r]]}
      BY <2>1
    <3> QED
      BY <3>1, <3>2
  <2> QED
    BY <1>1, <2>2 DEF BoostPriority, drainVars
<1>2. CASE \/ TakeSnapshot(x) \/ EnsureGatewayRouting(x)
           \/ MarkTakeoverReady(x) \/ PlanPriorityLead(x) \/ ConfirmBinding(x)
  BY <1>2 DEF TakeSnapshot, EnsureGatewayRouting,
    MarkTakeoverReady, PlanPriorityLead, ConfirmBinding, nbVars, drainVars
<1>3. CASE ensureRoutes(x)
  BY <1>3 DEF ensureRoutes, nbVars, drainVars
<1>4. CASE RestoreDrainedGateways(x)
  <2>1. \/ prio' = prio
        \/ prio' = [r \in Router |->
             IF r \in SeenRows(x) /\ prio[r][x] = drainedPriority
             THEN [prio[r] EXCEPT ![x] = standbyPriority] ELSE prio[r]]
    BY <1>4 DEF RestoreDrainedGateways
  <2>2. ASSUME NEW r \in Router PROVE prio'[r][y] = prio[r][y]
    <3>1. prio[r] \in [Chassis -> 0..MaxPrio]
      OBVIOUS
    <3>2. prio'[r] \in {prio[r], [prio[r] EXCEPT ![x] = standbyPriority]}
      BY <2>1
    <3> QED
      BY <3>1, <3>2
  <2> QED
    BY <1>4, <2>2 DEF RestoreDrainedGateways, drainVars
<1>5. CASE DrainGateways(x)
  <2>1. \/ prio' = prio
        \/ prio' = [r \in Router |->
             IF r \in drainCandidates(x)
             THEN [prio[r] EXCEPT ![x] = drainedPriority] ELSE prio[r]]
    BY <1>5 DEF DrainGateways
  <2>2. ASSUME NEW r \in Router PROVE prio'[r][y] = prio[r][y]
    <3>1. prio[r] \in [Chassis -> 0..MaxPrio]
      OBVIOUS
    <3>2. prio'[r] \in {prio[r], [prio[r] EXCEPT ![x] = drainedPriority]}
      BY <2>1
    <3> QED
      BY <3>1, <3>2
  <2> QED
    BY <1>5, <2>2 DEF DrainGateways
<1>6. CASE \/ Start(x) \/ Shutdown(x) \/ MigrationDone(x) \/ MigrationError(x)
           \/ AwaitTakeoverReady(x) \/ holdSettleMargin(x)
           \/ DrainTimeout(x) \/ PostDrainRefresh(x)
  BY <1>6 DEF Start, Shutdown, MigrationDone, MigrationError,
    AwaitTakeoverReady, holdSettleMargin, DrainTimeout, PostDrainRefresh,
    nbVars, drainVars
<1>7. CASE \/ Stop(x) \/ RemoveManagedNBEntries(x) \/ Crash(x) \/ HostFailure(x)
           \/ refreshState(x) \/ Sigterm(x)
  BY <1>7 DEF Stop, RemoveManagedNBEntries, Crash, HostFailure, Exit,
    refreshState, Sigterm, nbVars, drainVars
<1> QED
  BY <1>1, <1>2, <1>3, <1>4, <1>5, <1>6, <1>7 DEF OwnStep, AgentStep, Reconcile

(* A step is OVN's and touches no agent, or is one agent's and no other's. *)
LEMMA OneActor ==
  ASSUME TypeOK, [Next]_vars
  PROVE  \/ \A y \in Chassis : Untouched(y)
         \/ \E x \in Chassis : OwnStep(x) /\ \A y \in Chassis \ {x} : Untouched(y)
<1>1. ASSUME \/ \E r \in Router : Elect(r) \/ TieFlap(r)
             \/ \E x \in Chassis : OvnDown(x) \/ OvnUp(x)
             \/ UNCHANGED vars
      PROVE  \A y \in Chassis : Untouched(y)
  BY <1>1 DEF Elect, TieFlap, OvnDown, OvnUp, nbVars, drainVars, vars, Untouched
<1>2. ASSUME NEW x \in Chassis, OwnStep(x)
      PROVE  OwnStep(x) /\ \A y \in Chassis \ {x} : Untouched(y)
  BY <1>2, OthersUntouched
<1> QED
  BY <1>1, <1>2 DEF Next, OwnStep

LEMMA StepsAreOwn ==
  ASSUME TypeOK, [Next]_vars, NEW y \in Chassis
  PROVE  Untouched(y) \/ OwnStep(y)
BY OneActor

(* Only OVN moves a port, and that step is nobody else's. *)
LEMMA OnlyOVNMoves ==
  ASSUME TypeOK, [Next]_vars
  PROVE  \/ bound' = bound
         \/ \E r \in Router :
              /\ \E d \in Best(r) : bound' = [bound EXCEPT ![r] = d]
              /\ UNCHANGED <<nbVars, ovnUp, pc, term, view, snap, announced, plan,
                             waiting, outcome, hidden>>
<1>1. ASSUME NEW r \in Router, Elect(r) \/ TieFlap(r)
      PROVE  /\ \E d \in Best(r) : bound' = [bound EXCEPT ![r] = d]
             /\ UNCHANGED <<nbVars, ovnUp, pc, term, view, snap, announced, plan,
                             waiting, outcome, hidden>>
  BY <1>1 DEF Elect, TieFlap, nbVars, drainVars
<1>2. ASSUME NEW x \in Chassis, Reconcile(x) PROVE bound' = bound
  BY <1>2 DEF Reconcile, TakeSnapshot, EnsureGatewayRouting, ensureRoutes,
    MarkTakeoverReady, PlanPriorityLead, ConfirmBinding, BoostPriority, envVars
<1>3. ASSUME NEW x \in Chassis,
             \/ Start(x) \/ RestoreDrainedGateways(x) \/ Shutdown(x)
             \/ DrainGateways(x) \/ MigrationDone(x) \/ MigrationError(x)
             \/ AwaitTakeoverReady(x) \/ holdSettleMargin(x)
             \/ DrainTimeout(x) \/ PostDrainRefresh(x)
      PROVE  bound' = bound
  BY <1>3 DEF Start, RestoreDrainedGateways, Shutdown, DrainGateways,
    MigrationDone, MigrationError, AwaitTakeoverReady, holdSettleMargin,
    DrainTimeout, PostDrainRefresh, envVars
<1>4. ASSUME \/ \E x \in Chassis :
                  \/ Stop(x) \/ RemoveManagedNBEntries(x) \/ Crash(x)
                  \/ HostFailure(x) \/ refreshState(x) \/ Sigterm(x)
                  \/ OvnDown(x) \/ OvnUp(x)
             \/ UNCHANGED vars
      PROVE  bound' = bound
  BY <1>4 DEF Stop, RemoveManagedNBEntries, Crash, HostFailure, refreshState,
    Sigterm, OvnDown, OvnUp, envVars, vars
<1> QED
  BY <1>1, <1>2, <1>3, <1>4 DEF Next, AgentStep

(* A restart that leaves every HA group a member: no more agents are away at  *)
(* a time than leave each group of several one of its chassis.                *)
StandbyAssumption ==
  /\ IsFiniteSet(Chassis)
  /\ \A r \in Router : Cardinality(Cand[r]) > 1 => MaxAway < Cardinality(Cand[r])

(* And healthy chassis: no ovn-controller, host, restore, refresh or cache    *)
(* fails.                                                                     *)
RollingAssumption ==
  /\ StandbyAssumption
  /\ {"restore", "cache", "refresh", "ovn", "host"} \cap Faults = {}

LEMMA LeavingWasAskedInductive ==
  ASSUME TypeOK, LeavingWasAsked, [Next]_vars
  PROVE  LeavingWasAsked'
<1> SUFFICES ASSUME NEW y \in Chassis, pc'[y] \in Draining \cup Stopping
             PROVE  y \in term'
  BY DEF LeavingWasAsked
<1> USE DEF TypeOK, Goto, LeavingWasAsked, Draining, Stopping
<1>1. CASE Untouched(y)
  BY <1>1 DEF Untouched
<1>2. CASE Reconcile(y)
  BY <1>2 DEF Reconcile, TakeSnapshot, EnsureGatewayRouting, ensureRoutes,
    MarkTakeoverReady, PlanPriorityLead, ConfirmBinding, BoostPriority
<1>3. CASE \/ Start(y) \/ RestoreDrainedGateways(y) \/ Shutdown(y)
           \/ DrainGateways(y) \/ MigrationDone(y) \/ MigrationError(y)
           \/ AwaitTakeoverReady(y) \/ holdSettleMargin(y)
           \/ DrainTimeout(y) \/ PostDrainRefresh(y)
  BY <1>3 DEF Start, RestoreDrainedGateways, Shutdown, DrainGateways,
    MigrationDone, MigrationError, AwaitTakeoverReady, holdSettleMargin,
    DrainTimeout, PostDrainRefresh, WaitsWithDeadline
<1>4. CASE \/ Stop(y) \/ RemoveManagedNBEntries(y) \/ Crash(y) \/ HostFailure(y)
           \/ refreshState(y) \/ Sigterm(y)
  BY <1>4 DEF Stop, RemoveManagedNBEntries, Crash, HostFailure, Exit,
    refreshState, Sigterm
<1> QED
  BY <1>1, <1>2, <1>3, <1>4, StepsAreOwn DEF OwnStep, AgentStep

(* Whose row is at 0, or who was told to leave, is away: no running agent's   *)
(* chassis is stranded.                                                       *)
LEMMA GoneAreAway == RunningNotStranded => Gone \subseteq Away
BY DEF RunningNotStranded, Gone, Away

(* How a step changes the row of y in r's group: its own restore, boost or    *)
(* drain did.                                                                 *)
LEMMA RowWriters ==
  ASSUME TypeOK, [Next]_vars, NEW y \in Chassis, NEW r \in Router,
         prio'[r][y] # prio[r][y]
  PROVE  \/ /\ RestoreDrainedGateways(y) /\ y \notin term
            /\ prio[r][y] = 0 /\ prio'[r][y] = 1
         \/ /\ BoostPriority(y) /\ y \notin term
            /\ plan[y][r] > 0 /\ prio'[r][y] = plan[y][r]
         \/ /\ DrainGateways(y) /\ r \in drainCandidates(y)
            /\ prio'[r][y] = 0 /\ pc'[y] = "migrate"
<1>1. prio[r] \in [Chassis -> 0..MaxPrio] /\ OwnStep(y)
  BY StepsAreOwn DEF TypeOK, Untouched
<1>2. CASE RestoreDrainedGateways(y)
  <2>1. /\ y \notin term
        /\ prio' = [q \in Router |->
             IF q \in SeenRows(y) /\ prio[q][y] = drainedPriority
             THEN [prio[q] EXCEPT ![y] = standbyPriority] ELSE prio[q]]
    BY <1>2 DEF RestoreDrainedGateways, TxnSucceeds
  <2>2. prio[r][y] = 0 /\ prio'[r] = [prio[r] EXCEPT ![y] = 1]
    BY <2>1 DEF drainedPriority, standbyPriority
  <2> QED
    BY <1>1, <1>2, <2>1, <2>2
<1>3. CASE BoostPriority(y)
  <2>1. /\ y \notin term
        /\ prio' = [q \in Router |->
             IF plan[y][q] > 0 THEN [prio[q] EXCEPT ![y] = plan[y][q]]
             ELSE prio[q]]
    BY <1>3 DEF BoostPriority, TxnSucceeds
  <2>2. plan[y][r] > 0 /\ prio'[r] = [prio[r] EXCEPT ![y] = plan[y][r]]
    BY <2>1
  <2> QED
    BY <1>1, <1>3, <2>1, <2>2
<1>4. CASE DrainGateways(y)
  <2>1. /\ Goto(y, "migrate")
        /\ prio' = [q \in Router |->
             IF q \in drainCandidates(y)
             THEN [prio[q] EXCEPT ![y] = drainedPriority] ELSE prio[q]]
    BY <1>4 DEF DrainGateways
  <2>2. r \in drainCandidates(y) /\ prio'[r] = [prio[r] EXCEPT ![y] = 0]
    BY <2>1 DEF drainedPriority
  <2>3. pc'[y] = "migrate"
    BY <2>1 DEF Goto, TypeOK
  <2> QED
    BY <1>1, <1>4, <2>2, <2>3
<1>5. CASE \/ Start(y) \/ TakeSnapshot(y) \/ EnsureGatewayRouting(y)
           \/ ensureRoutes(y) \/ MarkTakeoverReady(y)
           \/ PlanPriorityLead(y) \/ ConfirmBinding(y)
           \/ Shutdown(y) \/ refreshState(y) \/ Sigterm(y)
  BY <1>5 DEF Start, TakeSnapshot, EnsureGatewayRouting, ensureRoutes,
    MarkTakeoverReady,
    PlanPriorityLead, ConfirmBinding, Shutdown, refreshState, Sigterm, nbVars
<1>6. CASE \/ MigrationDone(y) \/ MigrationError(y) \/ AwaitTakeoverReady(y)
           \/ holdSettleMargin(y) \/ DrainTimeout(y) \/ PostDrainRefresh(y)
           \/ Stop(y) \/ RemoveManagedNBEntries(y) \/ Crash(y) \/ HostFailure(y)
  BY <1>6 DEF MigrationDone, MigrationError, AwaitTakeoverReady,
    holdSettleMargin, DrainTimeout, PostDrainRefresh, Stop,
    RemoveManagedNBEntries, Crash, HostFailure, nbVars
<1> QED
  BY <1>1, <1>2, <1>3, <1>4, <1>5, <1>6 DEF OwnStep, AgentStep, Reconcile

(* Only a SIGTERM makes one more chassis leave, and it finds fewer than       *)
(* MaxAway away; a row goes to 0 only in the drain of a chassis that leaves.  *)
LEMMA GoneGrows ==
  ASSUME TypeOK, LeavingWasAsked, RunningNotStranded, IsFiniteSet(Chassis),
         [Next]_vars
  PROVE  \/ Gone' \subseteq Gone /\ term' \subseteq term
         \/ Cardinality(Gone') <= MaxAway
<1>1. ASSUME NEW y \in Chassis, ~Sigterm(y)
      PROVE  (y \in Gone' => y \in Gone) /\ (y \in term' => y \in term)
  <2>1. y \in term' => y \in term
    BY <1>1, StepsAreOwn DEF Untouched, OwnStep, AgentStep, Reconcile, Start,
      RestoreDrainedGateways, TakeSnapshot, EnsureGatewayRouting, ensureRoutes,
      MarkTakeoverReady,
      PlanPriorityLead, ConfirmBinding, BoostPriority, Shutdown,
      DrainGateways, MigrationDone, MigrationError, AwaitTakeoverReady,
      holdSettleMargin, DrainTimeout, PostDrainRefresh, Stop,
      RemoveManagedNBEntries, refreshState, Crash, HostFailure, Exit
  <2>2. ASSUME NEW r \in OwnRows(y), prio'[r][y] = 0 PROVE y \in Gone
    <3>1. CASE prio'[r][y] = prio[r][y]
      BY <2>2, <3>1 DEF Gone
    <3>2. CASE prio'[r][y] # prio[r][y]
      <4>1. r \in Router /\ ~(prio'[r][y] > 0)
        BY <2>2 DEF OwnRows
      <4>2. DrainGateways(y)
        BY <3>2, <4>1, RowWriters
      <4> QED
        BY <4>2 DEF DrainGateways, LeavingWasAsked, Draining, Gone
    <3> QED
      BY <3>1, <3>2
  <2> QED
    BY <2>1, <2>2 DEF Gone, OwnRows
<1>2. ASSUME NEW x \in Chassis, Sigterm(x)
      PROVE  Cardinality(Gone') <= MaxAway
  <2>1. Gone' \subseteq Gone \cup {x}
    BY <1>2 DEF Sigterm, Gone, OwnRows, nbVars
  <2>2. /\ Gone \subseteq Away /\ Away \subseteq Chassis /\ IsFiniteSet(Away)
    BY GoneAreAway, FS_Subset DEF Away
  <2>3. /\ IsFiniteSet(Gone) /\ Cardinality(Gone) <= Cardinality(Away)
    BY <2>2, FS_Subset
  <2>4. /\ IsFiniteSet(Gone \cup {x})
        /\ Cardinality(Gone \cup {x}) <= Cardinality(Gone) + 1
    <3>1. Cardinality(Gone) \in Nat
      BY <2>3, FS_CardinalityType
    <3>2. /\ IsFiniteSet(Gone \cup {x})
          /\ \/ Cardinality(Gone \cup {x}) = Cardinality(Gone)
             \/ Cardinality(Gone \cup {x}) = Cardinality(Gone) + 1
      BY <2>3, FS_AddElement
    <3> QED
      BY <3>1, <3>2
  <2>5. /\ IsFiniteSet(Gone') /\ Cardinality(Gone') <= Cardinality(Gone \cup {x})
    BY <2>1, <2>4, FS_Subset
  <2>6. Cardinality(Away) < MaxAway /\ MaxAway \in Nat
    BY <1>2, ConstantsAssumption DEF Sigterm, ConstantsAssumption
  <2>7. /\ Cardinality(Away) \in Nat /\ Cardinality(Gone) \in Nat
        /\ Cardinality(Gone') \in Nat /\ Cardinality(Gone \cup {x}) \in Nat
    BY <2>2, <2>3, <2>4, <2>5, FS_CardinalityType
  <2> QED
    BY <2>3, <2>4, <2>5, <2>6, <2>7
<1>3. CASE \A y \in Chassis : ~Sigterm(y)
  <2>1. term' \subseteq Chassis
    BY NextTypeOK DEF TypeOK
  <2> QED
    BY <1>1, <1>3, <2>1 DEF Gone
<1> QED
  BY <1>2, <1>3

LEMMA FewGoneInductive ==
  ASSUME RollingAssumption, CleanupInv, [Next]_vars
  PROVE  FewGone'
<1>1. TypeOK /\ LeavingWasAsked /\ RunningNotStranded /\ FewGone
  BY DEF CleanupInv, RejoinInv
<1>2. IsFiniteSet(Chassis) /\ IsFiniteSet(Gone) /\ MaxAway \in Nat
  BY FS_Subset, ConstantsAssumption
    DEF RollingAssumption, StandbyAssumption, Gone, ConstantsAssumption
<1>3. CASE Gone' \subseteq Gone /\ term' \subseteq term
  <2>1. /\ IsFiniteSet(Gone') /\ Cardinality(Gone') <= Cardinality(Gone)
        /\ Cardinality(Gone) \in Nat /\ Cardinality(Gone') \in Nat
    BY <1>2, <1>3, FS_Subset, FS_CardinalityType
  <2> QED
    BY <1>1, <1>2, <1>3, <2>1 DEF FewGone
<1>4. CASE Cardinality(Gone') <= MaxAway
  BY <1>4 DEF FewGone
<1> QED
  BY <1>1, <1>2, <1>3, <1>4, GoneGrows

(* A group of several then always has a member that is not leaving and whose  *)
(* row is above 0.                                                            *)
LEMMA StandbyExists ==
  ASSUME StandbyAssumption, TypeOK, Cardinality(Gone) <= MaxAway,
         NEW r \in Router, NEW x \in Cand[r], Cand[r] # {x}
  PROVE  \E d \in Cand[r] : d \notin term /\ prio[r][d] > 0
<1>1. Cand[r] \subseteq Chassis /\ IsFiniteSet(Cand[r]) /\ IsFiniteSet(Gone)
  BY ConstantTypes, FS_Subset DEF StandbyAssumption, Gone
<1>2. Cardinality(Cand[r]) \in Nat /\ Cardinality(Gone) \in Nat /\ MaxAway \in Nat
  BY <1>1, FS_CardinalityType, ConstantsAssumption DEF ConstantsAssumption
<1>3. Cardinality(Cand[r]) # 0
  BY <1>1, FS_EmptySet
<1>4. Cardinality(Cand[r]) # 1
  <2>1. SUFFICES ASSUME Cardinality(Cand[r]) = 1 PROVE FALSE
    OBVIOUS
  <2>2. PICK z : Cand[r] = {z}
    BY <1>1, <2>1, FS_Singleton
  <2> QED
    BY <2>2
<1>5. MaxAway < Cardinality(Cand[r])
  BY <1>2, <1>3, <1>4 DEF StandbyAssumption
<1>6. ~(Cand[r] \subseteq Gone)
  <2>1. Cand[r] \subseteq Gone => Cardinality(Cand[r]) <= Cardinality(Gone)
    BY <1>1, FS_Subset
  <2> QED
    BY <1>2, <1>5, <2>1
<1>7. PICK d \in Cand[r] : d \notin Gone
  BY <1>6
<1>8. d \in Chassis /\ d \notin term /\ prio[r][d] # 0 /\ prio[r][d] \in 0..MaxPrio
  BY <1>1, <1>7 DEF Gone, OwnRows, TypeOK
<1> QED
  BY <1>7, <1>8

LEMMA NoOutcomeYetInductive ==
  ASSUME TypeOK, NoOutcomeYet, [Next]_vars
  PROVE  NoOutcomeYet'
<1> SUFFICES ASSUME NEW y \in Chassis,
                    pc'[y] \in Running \cup {"drain", "migrate"}
             PROVE  outcome'[y] = "none"
  BY DEF NoOutcomeYet
<1> USE DEF TypeOK, Goto, NoOutcomeYet, Running, Reconciling
<1>1. CASE Untouched(y)
  BY <1>1 DEF Untouched
<1>2. CASE Reconcile(y)
  BY <1>2 DEF Reconcile, TakeSnapshot, EnsureGatewayRouting, ensureRoutes,
    MarkTakeoverReady,
    PlanPriorityLead, ConfirmBinding, BoostPriority, drainVars
<1>3. CASE \/ Start(y) \/ RestoreDrainedGateways(y) \/ Shutdown(y)
           \/ DrainGateways(y) \/ MigrationDone(y) \/ MigrationError(y)
           \/ AwaitTakeoverReady(y) \/ holdSettleMargin(y)
           \/ DrainTimeout(y) \/ PostDrainRefresh(y)
  BY <1>3 DEF Start, RestoreDrainedGateways, Shutdown, DrainGateways,
    MigrationDone, MigrationError, AwaitTakeoverReady, holdSettleMargin,
    DrainTimeout, PostDrainRefresh, drainVars
<1>4. CASE \/ Stop(y) \/ RemoveManagedNBEntries(y) \/ Crash(y) \/ HostFailure(y)
           \/ refreshState(y) \/ Sigterm(y)
  BY <1>4 DEF Stop, RemoveManagedNBEntries, Crash, HostFailure, Exit,
    refreshState, Sigterm, drainVars
<1> QED
  BY <1>1, <1>2, <1>3, <1>4, StepsAreOwn DEF OwnStep, AgentStep

(* A chassis reaches one of these phases by the step before it in the drain:  *)
(* its own other steps end, abort or precede the drain.                       *)
LEMMA DrainAdvances ==
  ASSUME TypeOK, LeavingWasAsked, NoOutcomeYet, [Next]_vars,
         NEW y \in Chassis, HasLowered(y)'
  PROVE  \/ Untouched(y) /\ HasLowered(y)
         \/ DrainGateways(y) /\ drainCandidates(y) # {} /\ pc'[y] = "migrate"
         \/ MigrationDone(y)
         \/ /\ HasMoved(y)
            /\ UNCHANGED <<prio, bound>>
            /\ \/ AwaitTakeoverReady(y) \/ holdSettleMargin(y)
               \/ PostDrainRefresh(y) \/ Stop(y)
<1> USE DEF TypeOK, Goto, HasLowered, HasMoved, Completed, Stopping, Running,
            Reconciling
<1>1. CASE Untouched(y)
  BY <1>1 DEF Untouched
<1>2. CASE Reconcile(y)
  BY <1>2 DEF Reconcile, TakeSnapshot, EnsureGatewayRouting, ensureRoutes,
    MarkTakeoverReady, PlanPriorityLead, ConfirmBinding, BoostPriority
<1>3. CASE Start(y) \/ RestoreDrainedGateways(y) \/ refreshState(y) \/ Sigterm(y)
  BY <1>3 DEF Start, RestoreDrainedGateways, refreshState, Sigterm
<1>4. CASE Shutdown(y)
  BY <1>4 DEF Shutdown, NoOutcomeYet, drainVars
<1>5. CASE DrainGateways(y)
  BY <1>5 DEF DrainGateways
<1>6. CASE MigrationDone(y)
  BY <1>6
<1>7. CASE MigrationError(y) \/ DrainTimeout(y)
  BY <1>7 DEF MigrationError, DrainTimeout
<1>8. CASE AwaitTakeoverReady(y) \/ holdSettleMargin(y)
  BY <1>8 DEF AwaitTakeoverReady, holdSettleMargin, nbVars, envVars
<1>9. CASE PostDrainRefresh(y)
  BY <1>9 DEF PostDrainRefresh, nbVars, envVars, drainVars
<1>10. CASE Stop(y)
  BY <1>10 DEF Stop, Exit, nbVars, envVars, drainVars
<1>11. CASE RemoveManagedNBEntries(y) \/ Crash(y) \/ HostFailure(y)
  BY <1>11 DEF RemoveManagedNBEntries, Crash, HostFailure, Exit
<1> QED
  BY <1>1, <1>2, <1>3, <1>4, <1>5, <1>6, <1>7, <1>8, <1>9, <1>10, <1>11,
    StepsAreOwn DEF OwnStep, AgentStep

(* DrainGateways lowers every row that has a standby: its cache hides none.   *)
LEMMA LoweredRowsInductive ==
  ASSUME CleanupInv, [Next]_vars
  PROVE  LoweredRows'
<1> SUFFICES ASSUME NEW y \in Chassis, HasLowered(y)',
                    NEW r \in OwnRows(y), Cand[r] # {y}
             PROVE  prio'[r][y] = 0
  BY DEF LoweredRows, OwnRows
<1>1. TypeOK /\ LeavingWasAsked /\ NoOutcomeYet /\ LoweredRows /\ r \in Router
  BY DEF CleanupInv, RejoinInv, OwnRows
<1>2. CASE Untouched(y) /\ HasLowered(y)
  BY <1>1, <1>2 DEF Untouched, LoweredRows
<1>3. CASE DrainGateways(y) /\ drainCandidates(y) # {} /\ pc'[y] = "migrate"
  <2>1. prio' = [q \in Router |->
           IF q \in drainCandidates(y)
           THEN [prio[q] EXCEPT ![y] = drainedPriority] ELSE prio[q]]
    BY <1>1, <1>3 DEF DrainGateways, Goto, TypeOK
  <2>2. prio[r] \in [Chassis -> 0..MaxPrio] /\ prio[r][y] \in 0..MaxPrio
    BY <1>1 DEF TypeOK
  <2>3. r \in SeenRows(y) /\ r \notin soleCandidatePorts(y)
    BY DEF SeenRows, CachedRows, soleCandidatePorts, CleanupInv, RejoinInv,
      NothingHidden
  <2>4. CASE prio[r][y] > 0
    <3>1. prio'[r] = [prio[r] EXCEPT ![y] = 0]
      BY <1>1, <2>1, <2>3, <2>4 DEF drainCandidates, drainedPriority
    <3> QED
      BY <2>2, <3>1
  <2>5. CASE prio[r][y] = 0
    <3>1. prio'[r] = prio[r]
      BY <1>1, <2>1, <2>5 DEF drainCandidates
    <3> QED
      BY <2>5, <3>1
  <2> QED
    BY <2>2, <2>4, <2>5
<1>4. CASE MigrationDone(y)
  BY <1>1, <1>4 DEF MigrationDone, HasLowered, LoweredRows, nbVars
<1>5. CASE HasMoved(y) /\ UNCHANGED prio
  BY <1>1, <1>5 DEF HasMoved, HasLowered, LoweredRows
<1> QED
  BY <1>1, <1>2, <1>3, <1>4, <1>5, DrainAdvances

(* OVN never gives a port back to a chassis that lowered its rows: a standby  *)
(* of the port is up, and its row is above 0.                                 *)
LEMMA NoReturn ==
  ASSUME StandbyAssumption, CleanupInv, NEW y \in Chassis, HasMoved(y),
         NEW r \in Router, y \in Best(r)
  PROVE  Cand[r] = {y}
<1> SUFFICES ASSUME Cand[r] # {y} PROVE FALSE
  OBVIOUS
<1>1. y \in Cand[r] /\ Cand[r] \subseteq Chassis /\ ovnUp = Chassis /\ TypeOK
  BY ConstantTypes DEF Best, Electable, CleanupInv, RejoinInv
<1>2. y \in term
  BY DEF HasMoved, Completed, CleanupInv, LeavingWasAsked, Draining
<1>3. PICK d \in Cand[r] : prio[r][d] > 0
  BY <1>1, <1>2, StandbyExists DEF CleanupInv, FewGone
<1>4. prio[r][y] = 0
  BY <1>1 DEF HasMoved, HasLowered, CleanupInv, LoweredRows, OwnRows
<1>5. prio[r][d] <= prio[r][y]
  BY <1>1, <1>3 DEF Best, Electable
<1> QED
  BY <1>1, <1>3, <1>4, <1>5 DEF TypeOK

LEMMA OnlySoleStayInductive ==
  ASSUME RollingAssumption, CleanupInv, [Next]_vars
  PROVE  OnlySoleStay'
<1> SUFFICES ASSUME NEW y \in Chassis, HasMoved(y)',
                    NEW r \in Router, bound'[r] = y
             PROVE  Cand[r] = {y}
  BY DEF OnlySoleStay
<1>1. /\ TypeOK /\ LeavingWasAsked /\ NoOutcomeYet /\ OnlySoleStay
      /\ HasLowered(y)'
  BY DEF CleanupInv, RejoinInv, HasMoved, HasLowered
<1>2. CASE HasMoved(y)
  <2>1. CASE bound' = bound
    BY <1>1, <1>2, <2>1 DEF OnlySoleStay
  <2>2. ASSUME NEW q \in Router, NEW d \in Best(q),
               bound' = [bound EXCEPT ![q] = d]
        PROVE  Cand[r] = {y}
    BY <1>1, <1>2, <2>2, NoReturn DEF TypeOK, OnlySoleStay, RollingAssumption
  <2> QED
    BY <1>1, <2>1, <2>2, OnlyOVNMoves
<1>3. CASE MigrationDone(y)
  BY <1>3 DEF MigrationDone, LocalRouters, soleCandidatePorts, envVars
<1>4. CASE DrainGateways(y) /\ pc'[y] = "migrate"
  BY <1>4 DEF HasMoved, Completed, Stopping
<1>5. CASE Untouched(y)
  BY <1>2, <1>5 DEF Untouched, HasMoved, Completed
<1> QED
  BY <1>1, <1>2, <1>3, <1>4, <1>5, DrainAdvances

LEMMA RefreshedViewInductive ==
  ASSUME RollingAssumption, CleanupInv, [Next]_vars
  PROVE  RefreshedView'
<1> SUFFICES ASSUME NEW y \in Chassis, HasRefreshed(y)'
             PROVE  view'[y] \subseteq LocalRouters(y)'
  BY DEF RefreshedView
<1>1. /\ TypeOK /\ LeavingWasAsked /\ NoOutcomeYet /\ RefreshedView
      /\ HasLowered(y)'
  BY DEF CleanupInv, RejoinInv, HasRefreshed, HasLowered, Completed, Stopping
<1>2. CASE Untouched(y)
  <2>1. HasRefreshed(y) /\ view'[y] = view[y]
    BY <1>2 DEF Untouched, HasRefreshed
  <2>2. HasMoved(y)
    BY <2>1 DEF HasRefreshed, HasMoved, Completed, Stopping
  <2>3. CASE bound' = bound
    BY <1>1, <2>1, <2>3 DEF RefreshedView, LocalRouters
  <2>4. ASSUME NEW q \in Router, NEW d \in Best(q),
               bound' = [bound EXCEPT ![q] = d], NEW r \in view[y]
        PROVE  r \in Router /\ bound'[r] = y
    <3>1. r \in Router /\ bound[r] = y
      BY <1>1, <2>1 DEF RefreshedView, LocalRouters
    <3>2. Cand[r] = {y}
      BY <2>2, <3>1 DEF CleanupInv, OnlySoleStay
    <3> QED
      BY <1>1, <2>4, <3>1, <3>2 DEF TypeOK, Best, Electable
  <2> QED
    BY <1>1, <2>1, <2>3, <2>4, OnlyOVNMoves DEF LocalRouters
<1>3. CASE PostDrainRefresh(y)
  BY <1>1, <1>3 DEF PostDrainRefresh, Fault, RollingAssumption, TypeOK,
    LocalRouters, envVars
<1>4. CASE Stop(y)
  BY <1>1, <1>4 DEF Stop, Exit, Goto, HasRefreshed, RefreshedView, TypeOK,
    LocalRouters, envVars, drainVars
<1>5. CASE AwaitTakeoverReady(y) \/ holdSettleMargin(y) \/ MigrationDone(y)
  BY <1>1, <1>5 DEF AwaitTakeoverReady, holdSettleMargin, MigrationDone, Goto,
    HasRefreshed, TypeOK
<1> QED
  BY <1>1, <1>2, <1>3, <1>4, <1>5, DrainAdvances DEF HasRefreshed

LEMMA CleanupInductive ==
  ASSUME RollingAssumption
  PROVE  CleanupInv /\ [Next]_vars => CleanupInv'
<1> SUFFICES ASSUME CleanupInv, [Next]_vars PROVE CleanupInv'
  OBVIOUS
<1>1. RejoinInv'
  BY RejoinInductive DEF CleanupInv, RollingAssumption
<1>2. ovnUp' = Chassis
  <2>1. ASSUME NEW x \in Chassis, OvnDown(x) \/ OvnUp(x) \/ HostFailure(x)
        PROVE  FALSE
    BY <2>1 DEF OvnDown, OvnUp, HostFailure, Fault, CleanupInv, RollingAssumption
  <2>2. ASSUME NEW x \in Chassis, Reconcile(x) PROVE ovnUp' = ovnUp
    BY <2>2 DEF Reconcile, TakeSnapshot, EnsureGatewayRouting, ensureRoutes,
      MarkTakeoverReady,
      PlanPriorityLead, ConfirmBinding, BoostPriority, envVars
  <2>3. ASSUME NEW x \in Chassis,
               \/ Start(x) \/ RestoreDrainedGateways(x) \/ Shutdown(x)
               \/ DrainGateways(x) \/ MigrationDone(x) \/ MigrationError(x)
               \/ AwaitTakeoverReady(x) \/ holdSettleMargin(x)
               \/ DrainTimeout(x) \/ PostDrainRefresh(x)
        PROVE  ovnUp' = ovnUp
    BY <2>3 DEF Start, RestoreDrainedGateways, Shutdown, DrainGateways,
      MigrationDone, MigrationError, AwaitTakeoverReady, holdSettleMargin,
      DrainTimeout, PostDrainRefresh, envVars
  <2>4. ASSUME \/ \E r \in Router : Elect(r) \/ TieFlap(r)
               \/ \E x \in Chassis :
                    \/ Stop(x) \/ RemoveManagedNBEntries(x) \/ Crash(x)
                    \/ refreshState(x) \/ Sigterm(x)
               \/ UNCHANGED vars
        PROVE  ovnUp' = ovnUp
    BY <2>4 DEF Elect, TieFlap, Stop, RemoveManagedNBEntries, Crash,
      refreshState, Sigterm, envVars, vars
  <2> QED
    BY <2>1, <2>2, <2>3, <2>4 DEF Next, AgentStep, CleanupInv
<1> QED
  BY <1>1, <1>2, LeavingWasAskedInductive, FewGoneInductive,
    NoOutcomeYetInductive, LoweredRowsInductive, OnlySoleStayInductive,
    RefreshedViewInductive DEF CleanupInv, RejoinInv

(* In a rolling restart of healthy chassis, with agents that may crash, SB    *)
(* queries and NB transactions that may fail, and deadlines that may expire,  *)
(* the cleanup of a completed drain deletes only default routes of routers    *)
(* that are still bound to the leaving chassis (RemoveManagedNBEntries).      *)
THEOREM CleanupSpares ==
  ASSUME RollingAssumption
  PROVE  Spec => CleanupSparesTakeover
<1>1. Init => CleanupInv
  <2> SUFFICES ASSUME Init PROVE CleanupInv
    OBVIOUS
  <2>1. RejoinInv
    BY InitTypeOK DEF Init, RejoinInv, NothingHidden, RunningNotStranded, Reconciling
  <2>2. ovnUp = Chassis /\ LeavingWasAsked /\ FewGone /\ NoOutcomeYet
    BY DEF Init, LeavingWasAsked, FewGone, NoOutcomeYet, Draining, Stopping
  <2>3. \A x \in Chassis : ~HasLowered(x) /\ ~HasMoved(x) /\ ~HasRefreshed(x)
    BY DEF Init, HasLowered, HasMoved, HasRefreshed, Completed, Stopping
  <2> QED
    BY <2>1, <2>2, <2>3 DEF CleanupInv, LoweredRows, OnlySoleStay, RefreshedView
<1>2. CleanupInv /\ [Next]_vars
      => [\A c \in Chassis :
            /\ pc[c] = "nbclean" /\ pc'[c] = "down"
            /\ outcome[c] = "completed"
            => \A r \in Router : tag[r] # tag'[r] => bound[r] = c]_vars
  <2> SUFFICES ASSUME CleanupInv, [Next]_vars, NEW x \in Chassis,
                      pc[x] = "nbclean", pc'[x] = "down",
                      outcome[x] = "completed",
                      NEW r \in Router, tag[r] # tag'[r]
               PROVE  bound[r] = x
    OBVIOUS
  <2>1. TypeOK /\ ~Untouched(x)
    BY DEF CleanupInv, RejoinInv, Untouched
  <2>2. CASE RemoveManagedNBEntries(x)
    <3>1. r \in view[x]
      BY <2>1, <2>2 DEF RemoveManagedNBEntries, localManagedDefaultRoutes, TypeOK
    <3> QED
      BY <3>1 DEF CleanupInv, RefreshedView, HasRefreshed, LocalRouters
  <2>3. ~RemoveManagedNBEntries(x) => Crash(x) \/ HostFailure(x)
    BY <2>1, StepsAreOwn DEF OwnStep, AgentStep, Reconcile, Start,
      RestoreDrainedGateways, TakeSnapshot, EnsureGatewayRouting, ensureRoutes,
      MarkTakeoverReady,
      PlanPriorityLead, ConfirmBinding, BoostPriority, Shutdown,
      DrainGateways, MigrationDone, MigrationError, AwaitTakeoverReady,
      holdSettleMargin, DrainTimeout, WaitsWithDeadline, PostDrainRefresh,
      Stop, refreshState, Sigterm, Running, Reconciling
  <2>4. CASE Crash(x) \/ HostFailure(x)
    BY <2>4 DEF Crash, HostFailure, nbVars
  <2> QED
    BY <2>2, <2>3, <2>4
<1>3. CleanupInv /\ [Next]_vars => CleanupInv'
  BY CleanupInductive
<1> QED
  BY <1>1, <1>2, <1>3, PTL
    DEF Spec, CleanupSparesTakeover, RollingAssumption

-----------------------------------------------------------------------------
(* The priority lead.  A set of priorities has a largest one.                 *)
LEMMA LessIsWellFounded ==
  \E R : IsWellFoundedOn(R, Nat) /\ \A i, j \in Nat : i < j => <<i, j>> \in R
<1>1. IsWellFoundedOn(OpToRel(<, Nat), Nat)
  BY NatLessThanWellFounded
<1>2. \A i, j \in Nat : i < j => <<i, j>> \in OpToRel(<, Nat)
  BY DEF OpToRel
<1> QED
  BY <1>1, <1>2

LEMMA LeastExists ==
  ASSUME NEW T, T \subseteq Nat, T # {}
  PROVE  \E x \in T : \A y \in T : x <= y
<1>1. PICK R : IsWellFoundedOn(R, Nat) /\ \A i, j \in Nat : i < j => <<i, j>> \in R
  BY LessIsWellFounded
<1>2. \E x \in T : \A y \in T : ~(<<y, x>> \in R)
  <2>1. IsWellFoundedOn(R, Nat)
    BY <1>1
  <2> QED
    BY ONLY <2>1, WFMin, T \subseteq Nat, T # {}
<1>3. PICK x \in T : \A y \in T : ~(<<y, x>> \in R)
  BY <1>2
<1>4. ASSUME NEW y \in T PROVE x <= y
  <2>1. x \in Nat /\ y \in Nat
    OBVIOUS
  <2>2. ~(y < x)
    BY <1>1, <1>3, <2>1
  <2> QED
    BY <2>1, <2>2
<1> QED
  BY <1>4

LEMMA MaxIsLargest ==
  ASSUME NEW N \in Nat, NEW S, S \subseteq 0..N, S # {}
  PROVE  Max(S) \in S /\ \A y \in S : Max(S) >= y
<1> DEFINE T == {n \in Nat : \E i \in S : n = N - i}
<1>1. PICK i \in S : TRUE
  OBVIOUS
<1>2. T \subseteq Nat /\ N - i \in T
  BY <1>1
<1>3. PICK x \in T : \A y \in T : x <= y
  BY <1>2, LeastExists
<1>4. PICK m \in S : x = N - m
  BY <1>3
<1>5. ASSUME NEW y \in S PROVE m >= y
  <2>1. N - y \in T /\ y \in 0..N /\ m \in 0..N
    OBVIOUS
  <2>2. x <= N - y
    BY <1>3, <2>1
  <2> QED
    BY <1>4, <2>1, <2>2
<1> QED
  BY <1>5 DEF Max

(* What EnsureActivePriorityLead plans is above every peer and at least the   *)
(* minimum of an active chassis.                                              *)
LEMMA LeadPriorityLeads ==
  ASSUME TypeOK, NEW r \in Router, NEW x \in Chassis
  PROVE  /\ LeadPriority(r, x) >= 2
         /\ \A d \in Peers(r, x) : prio[r][d] < LeadPriority(r, x)
<1> DEFINE P == {prio[r][d] + 1 : d \in Peers(r, x)}
<1> DEFINE S == {minActivePriority} \cup P
<1>1. \A d \in Peers(r, x) : prio[r][d] \in 0..MaxPrio
  BY ConstantTypes DEF Peers, TypeOK
<1>2. MaxPrio + 1 \in Nat /\ MaxPrio >= 1 /\ MaxPrio \in Nat
  BY ConstantTypes
<1>3. S \subseteq 0..(MaxPrio + 1)
  BY <1>1, <1>2 DEF minActivePriority
<1>4. S # {} /\ 2 \in S
  BY DEF minActivePriority
<1>5. Max(S) \in S /\ \A y \in S : Max(S) >= y
  <2> HIDE DEF S
  <2> QED
    BY <1>2, <1>3, <1>4, MaxIsLargest
<1>6. Max(S) \in 0..(MaxPrio + 1)
  BY <1>3, <1>5
<1>7. LeadPriority(r, x) = Max(S)
  BY DEF LeadPriority
<1>8. ASSUME NEW d \in Peers(r, x) PROVE prio[r][d] < Max(S)
  <2>1. prio[r][d] + 1 \in S
    OBVIOUS
  <2> HIDE DEF S
  <2> QED
    BY <1>1, <1>2, <1>5, <1>6, <2>1
<1>9. Max(S) >= 2
  BY <1>4, <1>5
<1> HIDE DEF S
<1> QED
  BY <1>7, <1>8, <1>9

(* Nothing fails but routes, BGP and refreshes; no row starts drained, and    *)
(* what OVN has elected before the agents start is a leader.                  *)
CalmAssumption ==
  /\ StandbyAssumption
  /\ Faults \subseteq {"route", "refresh"}
  /\ \A r \in Router : \A x \in Cand[r] : InitPrio[r][x] > drainedPriority
  /\ \A r \in Router : InitBound[r] # NoChassis =>
       /\ InitBound[r] \in Cand[r]
       /\ \A x \in Cand[r] : InitPrio[r][x] <= InitPrio[r][InitBound[r]]

(* A port is bound to one of its candidates, or to none.                      *)
BoundToCandidate ==
  \A r \in Router : bound[r] \in Cand[r] \cup {NoChassis}

(* A port whose chassis has lowered its row is about to leave: that chassis   *)
(* waits for it (DrainGateways).                                              *)
LoweredIsLeaving ==
  \A r \in Router : \A x \in Cand[r] :
    bound[r] = x /\ Cand[r] # {x} /\ prio[r][x] = 0 => pc[x] = "migrate"

(* A port stays with its chassis: no other row is above the one it is bound   *)
(* by, but the 1 of a chassis that has come back.                             *)
HolderLeads ==
  \A r \in Router : \A x \in Cand[r] : bound[r] = x /\ pc[x] # "migrate" =>
    \A d \in Cand[r] : prio[r][d] <= prio[r][x] \/ prio[r][d] <= 1

(* What an agent that has not lowered its rows takes for local is local: the  *)
(* state of the last refresh and the snapshot in use are never stale.         *)
Reigning == Running \cup {"drain"}
LocalsStay ==
  \A x \in Chassis : pc[x] \in Reigning =>
    \A r \in view[x] \cup snap[x] : Cand[r] # {x} => bound[r] = x

(* A process that is down has forgotten its snapshot. *)
DownForgets == \A x \in Chassis : pc[x] = "down" => snap[x] = {}

(* Boosts are planned for ports of the snapshot only, and until it is written *)
(* a plan is still enough, or there is none because the chassis leads.        *)
PlanSuffices(x, r) ==
  /\ plan[x][r] >= 2
  /\ \A d \in Peers(r, x) : prio[r][d] < plan[x][r]

PlansForLocals ==
  \A x \in Chassis : \A r \in Router :
    plan[x][r] > 0 => pc[x] \in {"confirm", "boost"} /\ r \in snap[x]

PlansLead ==
  \A x \in Chassis : pc[x] \in {"confirm", "boost"} /\ x \notin term =>
    \A r \in snap[x] : Cand[r] # {x} =>
      \/ PlanSuffices(x, r)
      \/ plan[x][r] = 0 /\ HasLead(r, x)

(* After the reconcile the chassis leads, by 2 at least: a chassis that comes *)
(* back at 1 does not even tie.                                               *)
LeadsAfterReconcile ==
  \A x \in Chassis : pc[x] = "idle" /\ x \notin term =>
    \A r \in snap[x] : Cand[r] # {x} => HasLead(r, x)

LeadInv ==
  /\ RejoinInv
  /\ ovnUp = Chassis
  /\ LeavingWasAsked
  /\ Cardinality(Gone) <= MaxAway
  /\ BoundToCandidate
  /\ LoweredIsLeaving
  /\ HolderLeads
  /\ LocalsStay
  /\ DownForgets
  /\ PlansForLocals
  /\ PlansLead
  /\ LeadsAfterReconcile

(* The steps an agent can take when only routes and refreshes fail. *)
CalmOwn(x) ==
  \/ Start(x) \/ RestoreDrainedGateways(x) \/ Reconcile(x) \/ refreshState(x)
  \/ Sigterm(x) \/ Shutdown(x) \/ DrainGateways(x) \/ MigrationDone(x)
  \/ AwaitTakeoverReady(x) \/ holdSettleMargin(x) \/ PostDrainRefresh(x)
  \/ Stop(x) \/ RemoveManagedNBEntries(x)

LEMMA CalmSteps ==
  ASSUME CalmAssumption, LeadInv, [Next]_vars
  PROVE  /\ ovnUp' = ovnUp
         /\ \/ \E q \in Router : Elect(q)
            \/ UNCHANGED vars /\ bound' = bound /\ \A y \in Chassis : Untouched(y)
            \/ /\ bound' = bound
               /\ \E x \in Chassis :
                    CalmOwn(x) /\ \A y \in Chassis \ {x} : Untouched(y)
<1>1. TypeOK /\ ovnUp = Chassis
  BY DEF LeadInv, RejoinInv
<1>2. /\ \A r \in Router : ~TieFlap(r)
      /\ \A x \in Chassis :
           /\ ~OvnDown(x) /\ ~OvnUp(x) /\ ~Crash(x) /\ ~HostFailure(x)
           /\ ~MigrationError(x) /\ ~DrainTimeout(x)
  BY <1>1 DEF TieFlap, OvnDown, OvnUp, Crash, HostFailure, MigrationError,
    DrainTimeout, Fault, CalmAssumption
<1>3. ASSUME NEW q \in Router, Elect(q) PROVE ovnUp' = ovnUp
  BY <1>3 DEF Elect
<1>4. CASE UNCHANGED vars
  BY <1>4 DEF vars, Untouched
<1>5. ASSUME NEW x \in Chassis, AgentStep(x) \/ refreshState(x) \/ Sigterm(x)
      PROVE  /\ bound' = bound /\ ovnUp' = ovnUp
             /\ CalmOwn(x) /\ \A y \in Chassis \ {x} : Untouched(y)
  <2>1. CalmOwn(x)
    BY <1>2, <1>5 DEF CalmOwn, AgentStep
  <2>2. \A y \in Chassis \ {x} : Untouched(y)
    BY <1>1, <1>5, OthersUntouched DEF OwnStep
  <2>3. bound' = bound /\ ovnUp' = ovnUp
    <3>1. CASE Reconcile(x)
      BY <3>1 DEF Reconcile, TakeSnapshot, EnsureGatewayRouting, ensureRoutes,
        MarkTakeoverReady,
        PlanPriorityLead, ConfirmBinding, BoostPriority, envVars
    <3>2. CASE \/ Start(x) \/ RestoreDrainedGateways(x) \/ refreshState(x)
               \/ Sigterm(x) \/ Shutdown(x) \/ DrainGateways(x)
      BY <3>2 DEF Start, RestoreDrainedGateways, refreshState, Sigterm,
        Shutdown, DrainGateways, envVars
    <3>3. CASE \/ MigrationDone(x) \/ AwaitTakeoverReady(x)
               \/ holdSettleMargin(x) \/ PostDrainRefresh(x) \/ Stop(x)
               \/ RemoveManagedNBEntries(x)
      BY <3>3 DEF MigrationDone, AwaitTakeoverReady, holdSettleMargin,
        PostDrainRefresh, Stop, RemoveManagedNBEntries, envVars
    <3> QED
      BY <2>1, <3>1, <3>2, <3>3 DEF CalmOwn
  <2> QED
    BY <2>1, <2>2, <2>3
<1> QED
  BY <1>2, <1>3, <1>4, <1>5 DEF Next

(* OVN's best candidate has the highest row of the group, and one above 0.    *)
LEMMA BestIsHigh ==
  ASSUME StandbyAssumption, LeadInv, NEW r \in Router, NEW x \in Best(r)
  PROVE  /\ x \in Cand[r]
         /\ \A d \in Cand[r] : prio[r][d] <= prio[r][x]
         /\ Cand[r] # {x} => prio[r][x] > 0
<1>1. x \in Cand[r] /\ Cand[r] \subseteq Chassis /\ ovnUp = Chassis /\ TypeOK
  BY ConstantTypes DEF Best, Electable, LeadInv, RejoinInv
<1>2. \A d \in Cand[r] : prio[r][d] <= prio[r][x]
  BY <1>1 DEF Best, Electable
<1>3. ASSUME Cand[r] # {x} PROVE prio[r][x] > 0
  <2>1. PICK d \in Cand[r] : prio[r][d] > 0
    BY <1>1, <1>3, StandbyExists DEF LeadInv
  <2>2. prio[r][d] \in Int /\ prio[r][x] \in Int
    BY <1>1 DEF TypeOK
  <2> QED
    BY <1>2, <2>1, <2>2
<1> QED
  BY <1>1, <1>2, <1>3

(* OVN moves a port only when it has no chassis, or one that waits for it.    *)
LEMMA HolderKeeps ==
  ASSUME LeadInv, NEW r \in Router, NEW x \in Cand[r], bound[r] = x,
         pc[x] # "migrate"
  PROVE  x \in Best(r)
<1>1. x \in Electable(r) /\ Electable(r) = Cand[r] /\ TypeOK /\ Cand[r] \subseteq Chassis
  BY ConstantTypes DEF Electable, LeadInv, RejoinInv
<1>2. ASSUME NEW d \in Cand[r] PROVE prio[r][d] <= prio[r][x]
  <2>1. prio[r][d] \in Int /\ prio[r][x] \in Int /\ prio[r][x] >= 0
    BY <1>1 DEF TypeOK
  <2>2. CASE d = x
    BY <2>1, <2>2
  <2>3. CASE d # x
    <3>1. prio[r][x] # 0
      BY <2>3 DEF LeadInv, LoweredIsLeaving
    <3>2. prio[r][d] <= prio[r][x] \/ prio[r][d] <= 1
      BY DEF LeadInv, HolderLeads
    <3> QED
      BY <2>1, <3>1, <3>2
  <2> QED
    BY <2>2, <2>3
<1> QED
  BY <1>1, <1>2 DEF Best

LEMMA ElectMoves ==
  ASSUME LeadInv, NEW q \in Router, Elect(q)
  PROVE  /\ \E x \in Best(q) : bound' = [bound EXCEPT ![q] = x]
         /\ \A x \in Chassis : bound[q] = x => pc[x] = "migrate"
<1>1. \E x \in Best(q) : bound' = [bound EXCEPT ![q] = x]
  BY DEF Elect
<1>2. ASSUME NEW x \in Chassis, bound[q] = x PROVE pc[x] = "migrate"
  <2>1. x \in Cand[q]
    BY <1>2, ConstantTypes DEF LeadInv, BoundToCandidate
  <2>2. x \notin Best(q)
    BY <1>2 DEF Elect
  <2> QED
    BY <1>2, <2>1, <2>2, HolderKeeps
<1> QED
  BY <1>1, <1>2

(* Once its ports have left, an agent holds only those with no standby.       *)
LEMMA MigrationEmpties ==
  ASSUME LeadInv, NEW x \in Chassis, NEW r \in Router, bound[r] = x,
         MigrationDone(x)
  PROVE  Cand[r] = {x}
BY DEF MigrationDone, LocalRouters, soleCandidatePorts

(* The migration wait ends with an empty chassis only.                        *)
LEMMA LeavesMigrate ==
  ASSUME LeadInv, NEW x \in Chassis, CalmOwn(x), pc[x] = "migrate"
  PROVE  MigrationDone(x)
BY DEF CalmOwn, Start, RestoreDrainedGateways, Reconcile, TakeSnapshot,
  EnsureGatewayRouting, ensureRoutes, MarkTakeoverReady,
  PlanPriorityLead, ConfirmBinding,
  BoostPriority, refreshState, Sigterm, Shutdown, DrainGateways,
  AwaitTakeoverReady, holdSettleMargin, PostDrainRefresh, Stop,
  RemoveManagedNBEntries, Running, Reconciling

(* Nobody but the chassis a port is bound to boosts its row: a plan is for a  *)
(* port of the snapshot, and those are bound to the planner.                  *)
LEMMA OnlyHolderBoosts ==
  ASSUME LeadInv, [Next]_vars, NEW r \in Router, NEW x \in Chassis,
         bound[r] = x, NEW d \in Cand[r] \ {x}
  PROVE  prio'[r][d] = prio[r][d] \/ prio'[r][d] \in {0, 1}
<1>1. TypeOK /\ d \in Chassis /\ x \in Cand[r]
  BY ConstantTypes DEF LeadInv, RejoinInv, BoundToCandidate
<1>2. ~(BoostPriority(d) /\ plan[d][r] > 0)
  <2>1. SUFFICES ASSUME BoostPriority(d), plan[d][r] > 0 PROVE FALSE
    OBVIOUS
  <2>2. pc[d] = "boost" /\ r \in snap[d]
    BY <1>1, <2>1 DEF LeadInv, PlansForLocals, BoostPriority
  <2>3. bound[r] = d
    BY <1>1, <2>2 DEF LeadInv, LocalsStay, Reigning, Running, Reconciling
  <2> QED
    BY <2>3
<1> QED
  BY <1>1, <1>2, RowWriters

(* So a lead, or a plan that suffices, outlasts whatever the peers do.        *)
LEMMA LeadIsKept ==
  ASSUME LeadInv, [Next]_vars, NEW r \in Router, NEW x \in Chassis,
         bound[r] = x, prio'[r][x] = prio[r][x], HasLead(r, x)
  PROVE  HasLead(r, x)'
<1>1. TypeOK /\ Cand[r] \subseteq Chassis
  BY ConstantTypes DEF LeadInv, RejoinInv
<1>2. prio[r][x] >= 2 /\ prio[r][x] \in Int
  BY <1>1 DEF HasLead, minActivePriority, TypeOK
<1>3. ASSUME NEW d \in Peers(r, x) PROVE prio'[r][d] < prio'[r][x]
  <2>1. prio[r][d] < prio[r][x]
    BY DEF HasLead
  <2>2. prio'[r][d] = prio[r][d] \/ prio'[r][d] \in {0, 1}
    BY OnlyHolderBoosts DEF Peers
  <2> QED
    BY <1>2, <2>1, <2>2
<1> QED
  BY <1>2, <1>3 DEF HasLead, Peers, minActivePriority

LEMMA PlanIsKept ==
  ASSUME LeadInv, [Next]_vars, NEW r \in Router, NEW x \in Chassis,
         bound[r] = x, plan'[x][r] = plan[x][r], PlanSuffices(x, r)
  PROVE  PlanSuffices(x, r)'
<1>1. plan[x][r] >= 2 /\ plan[x][r] \in Int
  BY DEF PlanSuffices, LeadInv, RejoinInv, TypeOK
<1>2. ASSUME NEW d \in Peers(r, x) PROVE prio'[r][d] < plan'[x][r]
  <2>1. prio[r][d] < plan[x][r]
    BY DEF PlanSuffices
  <2>2. prio'[r][d] = prio[r][d] \/ prio'[r][d] \in {0, 1}
    BY OnlyHolderBoosts DEF Peers
  <2> QED
    BY <1>1, <2>1, <2>2
<1> QED
  BY <1>1, <1>2 DEF PlanSuffices, Peers

LEMMA BoundToCandidateInductive ==
  ASSUME CalmAssumption, LeadInv, [Next]_vars
  PROVE  BoundToCandidate'
<1>1. TypeOK /\ BoundToCandidate
  BY DEF LeadInv, RejoinInv
<1>2. ASSUME NEW q \in Router, Elect(q) PROVE BoundToCandidate'
  <2>1. PICK x \in Best(q) : bound' = [bound EXCEPT ![q] = x]
    BY <1>2, ElectMoves
  <2>2. x \in Cand[q]
    BY DEF Best, Electable
  <2> QED
    BY <1>1, <2>1, <2>2 DEF BoundToCandidate, TypeOK
<1>3. CASE bound' = bound
  BY <1>1, <1>3 DEF BoundToCandidate
<1> QED
  BY <1>2, <1>3, CalmSteps

LEMMA LoweredIsLeavingInductive ==
  ASSUME CalmAssumption, LeadInv, [Next]_vars
  PROVE  LoweredIsLeaving'
<1> SUFFICES ASSUME NEW r \in Router, NEW x \in Cand[r],
                    bound'[r] = x, Cand[r] # {x}, prio'[r][x] = 0
             PROVE  pc'[x] = "migrate"
  BY DEF LoweredIsLeaving
<1>1. TypeOK /\ LoweredIsLeaving /\ x \in Chassis
  BY ConstantTypes DEF LeadInv, RejoinInv
<1>2. ASSUME NEW q \in Router, Elect(q) PROVE pc'[x] = "migrate"
  <2>1. PICK d \in Best(q) : bound' = [bound EXCEPT ![q] = d]
    BY <1>2, ElectMoves
  <2>2. pc' = pc /\ prio' = prio
    BY <1>2 DEF Elect, nbVars
  <2>3. CASE q = r
    <3>1. x = d
      BY <1>1, <2>1, <2>3 DEF TypeOK
    <3> QED
      BY <2>2, <2>3, <3>1, BestIsHigh DEF CalmAssumption
  <2>4. CASE q # r
    BY <1>1, <2>1, <2>2, <2>4 DEF TypeOK, LoweredIsLeaving
  <2> QED
    BY <2>3, <2>4
<1>3. CASE bound' = bound /\ Untouched(x)
  BY <1>1, <1>3 DEF Untouched, LoweredIsLeaving
<1>4. CASE bound' = bound /\ CalmOwn(x)
  <2>1. CASE prio'[r][x] = prio[r][x]
    <3>1. pc[x] = "migrate"
      BY <1>1, <1>4, <2>1 DEF LoweredIsLeaving
    <3> QED
      BY <1>1, <1>4, <3>1, LeavesMigrate, MigrationEmpties
  <2>2. CASE prio'[r][x] # prio[r][x]
    <3>1. ~(prio'[r][x] > 0)
      OBVIOUS
    <3> QED
      BY <1>1, <2>2, <3>1, RowWriters
  <2> QED
    BY <2>1, <2>2
<1> QED
  BY <1>1, <1>2, <1>3, <1>4, CalmSteps

LEMMA HolderLeadsInductive ==
  ASSUME CalmAssumption, LeadInv, [Next]_vars
  PROVE  HolderLeads'
<1> SUFFICES ASSUME NEW r \in Router, NEW x \in Cand[r],
                    bound'[r] = x, pc'[x] # "migrate", NEW d \in Cand[r]
             PROVE  prio'[r][d] <= prio'[r][x] \/ prio'[r][d] <= 1
  BY DEF HolderLeads
<1>1. /\ TypeOK /\ HolderLeads /\ x \in Chassis /\ d \in Chassis
      /\ prio[r][x] \in Int /\ prio'[r][x] \in Int
      /\ prio[r][d] \in Int /\ prio'[r][d] \in Int
  <2>1. TypeOK /\ TypeOK' /\ HolderLeads /\ x \in Chassis /\ d \in Chassis
    BY ConstantTypes, NextTypeOK DEF LeadInv, RejoinInv
  <2> QED
    BY <2>1 DEF TypeOK
<1>2. ASSUME NEW q \in Router, Elect(q)
      PROVE  prio'[r][d] <= prio'[r][x] \/ prio'[r][d] <= 1
  <2>1. PICK e \in Best(q) : bound' = [bound EXCEPT ![q] = e]
    BY <1>2, ElectMoves
  <2>2. pc' = pc /\ prio' = prio
    BY <1>2 DEF Elect, nbVars
  <2>3. CASE q = r
    <3>1. x = e
      BY <1>1, <2>1, <2>3 DEF TypeOK
    <3> QED
      BY <2>2, <2>3, <3>1, BestIsHigh DEF CalmAssumption
  <2>4. CASE q # r
    BY <1>1, <2>1, <2>2, <2>4 DEF TypeOK, HolderLeads
  <2> QED
    BY <2>3, <2>4
<1>3. ASSUME bound' = bound, Untouched(x) \/ CalmOwn(x), d # x,
             prio'[r][d] = prio[r][d]
      PROVE  prio'[r][d] <= prio'[r][x] \/ prio'[r][d] <= 1
  <2>1. CASE prio'[r][x] = prio[r][x]
    <3>1. CASE pc[x] = "migrate"
      <4>1. CalmOwn(x)
        BY <1>3, <3>1 DEF Untouched
      <4> QED
        BY <1>1, <1>3, <3>1, <4>1, LeavesMigrate, MigrationEmpties
    <3>2. CASE pc[x] # "migrate"
      BY <1>1, <1>3, <2>1, <3>2 DEF HolderLeads
    <3> QED
      BY <3>1, <3>2
  <2>2. CASE RestoreDrainedGateways(x) /\ prio[r][x] = 0
    <3>1. pc[x] # "migrate"
      BY <2>2 DEF RestoreDrainedGateways
    <3>2. prio[r][d] <= 0 \/ prio[r][d] <= 1
      BY <1>1, <1>3, <2>2, <3>1 DEF HolderLeads
    <3> QED
      BY <1>1, <1>3, <3>2
  <2>3. CASE /\ BoostPriority(x) /\ x \notin term
             /\ plan[x][r] > 0 /\ prio'[r][x] = plan[x][r]
    <3>1. pc[x] \in {"confirm", "boost"} /\ r \in snap[x]
      BY <1>1, <2>3 DEF LeadInv, PlansForLocals
    <3>2. PlanSuffices(x, r)
      BY <1>1, <1>3, <2>3, <3>1 DEF LeadInv, PlansLead
    <3>3. prio[r][d] < plan[x][r]
      BY <1>3, <3>2 DEF PlanSuffices, Peers
    <3> QED
      BY <1>1, <1>3, <2>3, <3>3
  <2> QED
    BY <1>1, <2>1, <2>2, <2>3, RowWriters
<1>4. ASSUME bound' = bound, Untouched(x) \/ CalmOwn(x)
      PROVE  prio'[r][d] <= prio'[r][x] \/ prio'[r][d] <= 1
  <2>1. CASE d = x
    BY <1>1, <2>1
  <2>2. CASE d # x
    <3>1. prio'[r][d] = prio[r][d] \/ prio'[r][d] \in {0, 1}
      BY <1>1, <1>4, <2>2, OnlyHolderBoosts
    <3> QED
      BY <1>3, <1>4, <2>2, <3>1
  <2> QED
    BY <2>1, <2>2
<1> QED
  BY <1>1, <1>2, <1>4, CalmSteps

(* From its drain on, an agent is past the phases that read the bindings.     *)
LEMMA DrainLeavesReign ==
  ASSUME TypeOK, NEW x \in Chassis,
         \/ DrainGateways(x) \/ MigrationDone(x) \/ AwaitTakeoverReady(x)
         \/ holdSettleMargin(x) \/ PostDrainRefresh(x) \/ Stop(x)
         \/ RemoveManagedNBEntries(x)
  PROVE  pc'[x] \notin Reigning
<1>1. PICK phase \in {"refresh", "migrate", "await", "margin", "stop", "nbclean",
                     "down"} : Goto(x, phase)
  <2>1. CASE DrainGateways(x)
    BY <2>1 DEF DrainGateways
  <2>2. CASE MigrationDone(x)
    BY <2>2 DEF MigrationDone
  <2>3. CASE \/ AwaitTakeoverReady(x) \/ holdSettleMargin(x) \/ PostDrainRefresh(x)
             \/ Stop(x) \/ RemoveManagedNBEntries(x)
    BY <2>3 DEF AwaitTakeoverReady, holdSettleMargin, PostDrainRefresh, Stop,
      RemoveManagedNBEntries, Exit
  <2> QED
    BY <2>1, <2>2, <2>3
<1> QED
  BY <1>1 DEF Goto, TypeOK, Reigning, Running, Reconciling

(* How an agent comes by what it takes for local: from the bindings of the    *)
(* moment, or from what it had.                                               *)
LEMMA LocalsAreRead ==
  ASSUME LeadInv, NEW x \in Chassis, CalmOwn(x), pc'[x] \in Reigning,
         NEW r \in view'[x] \cup snap'[x]
  PROVE  \/ bound[r] = x
         \/ pc[x] \in Reigning /\ r \in view[x] \cup snap[x]
<1> USE DEF Reigning, Running, Reconciling, Goto, TypeOK
<1>1. TypeOK /\ DownForgets
  BY DEF LeadInv, RejoinInv
<1>2. CASE Start(x)
  <2>1. view'[x] = LocalRouters(x) /\ snap'[x] = {}
    BY <1>1, <1>2 DEF Start, DownForgets
  <2> QED
    BY <2>1 DEF LocalRouters
<1>3. CASE refreshState(x)
  <2>1. view'[x] = LocalRouters(x) /\ snap' = snap /\ pc' = pc
    BY <1>1, <1>3 DEF refreshState
  <2> QED
    BY <2>1 DEF LocalRouters
<1>4. CASE TakeSnapshot(x)
  BY <1>1, <1>4 DEF TakeSnapshot
<1>5. CASE \/ EnsureGatewayRouting(x) \/ ensureRoutes(x) \/ MarkTakeoverReady(x)
           \/ PlanPriorityLead(x) \/ ConfirmBinding(x) \/ BoostPriority(x)
  <2>1. pc[x] \in Reconciling /\ view' = view /\ snap' = snap
    BY <1>5 DEF EnsureGatewayRouting, ensureRoutes, MarkTakeoverReady,
      PlanPriorityLead, ConfirmBinding, BoostPriority
  <2> QED
    BY <2>1
<1>6. CASE RestoreDrainedGateways(x) \/ Sigterm(x) \/ Shutdown(x)
  BY <1>1, <1>6 DEF RestoreDrainedGateways, Sigterm, Shutdown
<1>7. CASE \/ DrainGateways(x) \/ MigrationDone(x) \/ AwaitTakeoverReady(x)
           \/ holdSettleMargin(x) \/ PostDrainRefresh(x) \/ Stop(x)
           \/ RemoveManagedNBEntries(x)
  BY <1>1, <1>7, DrainLeavesReign
<1> QED
  BY <1>2, <1>3, <1>4, <1>5, <1>6, <1>7 DEF CalmOwn, Reconcile

LEMMA LocalsStayInductive ==
  ASSUME CalmAssumption, LeadInv, [Next]_vars
  PROVE  LocalsStay'
<1> SUFFICES ASSUME NEW x \in Chassis, pc'[x] \in Reigning,
                    NEW r \in view'[x] \cup snap'[x], Cand[r] # {x}
             PROVE  bound'[r] = x
  BY DEF LocalsStay
<1>1. TypeOK /\ TypeOK' /\ LocalsStay
  BY NextTypeOK DEF LeadInv, RejoinInv
<1>2. ASSUME NEW q \in Router, Elect(q) PROVE bound'[r] = x
  <2>1. bound[r] = x /\ pc[x] # "migrate"
    BY <1>1, <1>2 DEF Elect, LocalsStay, Reigning, Running, Reconciling
  <2>2. PICK d \in Best(q) : bound' = [bound EXCEPT ![q] = d]
    BY <1>2, ElectMoves
  <2>3. q # r
    BY <1>2, <2>1, ElectMoves
  <2> QED
    BY <1>1, <2>1, <2>2, <2>3 DEF TypeOK
<1>3. CASE bound' = bound /\ Untouched(x)
  BY <1>1, <1>3 DEF Untouched, LocalsStay
<1>4. CASE bound' = bound /\ CalmOwn(x)
  BY <1>1, <1>4, LocalsAreRead DEF LocalsStay
<1> QED
  BY <1>2, <1>3, <1>4, CalmSteps

LEMMA DownForgetsInductive ==
  ASSUME CalmAssumption, LeadInv, [Next]_vars
  PROVE  DownForgets'
<1> SUFFICES ASSUME NEW x \in Chassis, pc'[x] = "down" PROVE snap'[x] = {}
  BY DEF DownForgets
<1> USE DEF TypeOK, Goto
<1>1. TypeOK /\ DownForgets
  BY DEF LeadInv, RejoinInv
<1>2. CASE Untouched(x)
  BY <1>1, <1>2 DEF Untouched, DownForgets
<1>3. CASE Reconcile(x)
  BY <1>1, <1>3 DEF Reconcile, TakeSnapshot, EnsureGatewayRouting, ensureRoutes,
    MarkTakeoverReady, PlanPriorityLead, ConfirmBinding, BoostPriority
<1>4. CASE \/ Start(x) \/ RestoreDrainedGateways(x) \/ refreshState(x)
           \/ Sigterm(x) \/ Shutdown(x) \/ DrainGateways(x) \/ MigrationDone(x)
           \/ AwaitTakeoverReady(x) \/ holdSettleMargin(x) \/ PostDrainRefresh(x)
  BY <1>1, <1>4 DEF Start, RestoreDrainedGateways, refreshState, Sigterm,
    Shutdown, DrainGateways, MigrationDone, AwaitTakeoverReady,
    holdSettleMargin, PostDrainRefresh, DownForgets
<1>5. CASE Stop(x) \/ RemoveManagedNBEntries(x)
  BY <1>1, <1>5 DEF Stop, RemoveManagedNBEntries, Exit
<1>6. CASE \E q \in Router : Elect(q)
  BY <1>1, <1>6 DEF Elect, DownForgets
<1> QED
  BY <1>2, <1>3, <1>4, <1>5, <1>6, CalmSteps DEF CalmOwn

(* The assignment of PlanPriorityLead when its rows could be read.            *)
PlanIsRead(x) ==
  plan' = [plan EXCEPT ![x] = [q \in Router |->
    IF /\ q \in snap[x] \cap SeenRows(x)
       /\ Peers(q, x) # {}
       /\ ~HasLead(q, x)
       /\ bound[q] \in {x, NoChassis} \/ LeadPriority(q, x) <= MaxPrio
    THEN LeadPriority(q, x) ELSE 0]]

LEMMA PlansForLocalsInductive ==
  ASSUME CalmAssumption, LeadInv, [Next]_vars
  PROVE  PlansForLocals'
<1> SUFFICES ASSUME NEW x \in Chassis, NEW r \in Router, plan'[x][r] > 0
             PROVE  pc'[x] \in {"confirm", "boost"} /\ r \in snap'[x]
  BY DEF PlansForLocals
<1> USE DEF TypeOK, Goto
<1>1. TypeOK /\ PlansForLocals
  BY DEF LeadInv, RejoinInv
<1>2. CASE Untouched(x) \/ \E q \in Router : Elect(q)
  BY <1>1, <1>2 DEF Untouched, PlansForLocals, Elect
<1>3. CASE PlanPriorityLead(x)
  <2>1. CASE UNCHANGED plan
    BY <1>1, <1>3, <2>1 DEF PlanPriorityLead, PlansForLocals
  <2>2. CASE /\ PlanIsRead(x)
             /\ pc' = [pc EXCEPT ![x] = "confirm"]
    <3>1. r \in snap[x]
      BY <1>1, <2>2 DEF PlanIsRead
    <3> QED
      BY <1>1, <1>3, <2>2, <3>1 DEF PlanPriorityLead
  <2> QED
    BY <1>3, <2>1, <2>2 DEF PlanPriorityLead, PlanIsRead
<1>8. CASE ConfirmBinding(x)
  <2>1. plan[x][r] > 0
    <3>1. CASE UNCHANGED plan
      BY <3>1
    <3>2. CASE plan' = [plan EXCEPT ![x] = [q \in Router |->
                IF bound[q] \in {x, NoChassis} THEN plan[x][q] ELSE 0]]
      BY <1>1, <3>2
    <3> QED
      BY <1>8, <3>1, <3>2 DEF ConfirmBinding
  <2> QED
    BY <1>1, <1>8, <2>1 DEF ConfirmBinding, PlansForLocals
<1>4. CASE BoostPriority(x)
  BY <1>1, <1>4 DEF BoostPriority, NoPlan
<1>5. CASE Stop(x) \/ RemoveManagedNBEntries(x)
  <2>1. CASE Exit(x)
    BY <1>1, <2>1 DEF Exit, NoPlan
  <2>2. CASE Stop(x) /\ UNCHANGED plan
    BY <1>1, <2>2 DEF Stop, PlansForLocals
  <2> QED
    BY <1>5, <2>1, <2>2 DEF Stop, RemoveManagedNBEntries
<1>6. CASE \/ TakeSnapshot(x) \/ EnsureGatewayRouting(x) \/ ensureRoutes(x)
           \/ MarkTakeoverReady(x)
  BY <1>1, <1>6 DEF TakeSnapshot, EnsureGatewayRouting, ensureRoutes,
    MarkTakeoverReady, PlansForLocals
<1>7. CASE \/ Start(x) \/ RestoreDrainedGateways(x) \/ refreshState(x)
           \/ Sigterm(x) \/ Shutdown(x) \/ DrainGateways(x) \/ MigrationDone(x)
           \/ AwaitTakeoverReady(x) \/ holdSettleMargin(x) \/ PostDrainRefresh(x)
  BY <1>1, <1>7 DEF Start, RestoreDrainedGateways, refreshState, Sigterm,
    Shutdown, DrainGateways, MigrationDone, AwaitTakeoverReady,
    holdSettleMargin, PostDrainRefresh, PlansForLocals
<1> QED
  BY <1>2, <1>3, <1>4, <1>5, <1>6, <1>7, <1>8, CalmSteps DEF CalmOwn, Reconcile

(* The plan of an agent that is not leaving: its ports are still bound to it, *)
(* its cache holds its rows, so each port of the snapshot is led or planned   *)
(* for, and the confirmation drops none.                                      *)
LEMMA PlanIsMade ==
  ASSUME CalmAssumption, LeadInv, NEW x \in Chassis, PlanPriorityLead(x),
         x \notin term, NEW r \in snap[x], Cand[r] # {x}
  PROVE  \/ PlanSuffices(x, r)'
         \/ plan'[x][r] = 0 /\ HasLead(r, x)'
<1>1. TypeOK /\ r \in Router /\ prio' = prio /\ snap' = snap
  BY DEF LeadInv, RejoinInv, TypeOK, PlanPriorityLead, nbVars
<1>2. PlanIsRead(x)
  BY DEF PlanPriorityLead, PlanIsRead, Fault, CalmAssumption
<1>3. bound[r] = x
  BY DEF LeadInv, LocalsStay, PlanPriorityLead, Reigning, Running, Reconciling
<1>4. x \in Cand[r] /\ Peers(r, x) # {}
  <2>1. x \in Cand[r]
    BY <1>1, <1>3, ConstantTypes DEF LeadInv, BoundToCandidate
  <2> QED
    BY <2>1 DEF Peers
<1>5. r \in SeenRows(x)
  BY <1>1, <1>4 DEF SeenRows, CachedRows, OwnRows, LeadInv, RejoinInv, NothingHidden
<1>6. plan'[x][r] = IF ~HasLead(r, x) THEN LeadPriority(r, x) ELSE 0
  BY <1>1, <1>2, <1>3, <1>4, <1>5 DEF TypeOK, PlanIsRead
<1>7. CASE HasLead(r, x)
  <2>1. HasLead(r, x)'
    BY <1>1, <1>7 DEF HasLead, Peers
  <2> QED
    BY <1>6, <1>7, <2>1
<1>8. CASE ~HasLead(r, x)
  BY <1>1, <1>6, <1>8, LeadPriorityLeads DEF PlanSuffices, Peers
<1> QED
  BY <1>7, <1>8

LEMMA PlansLeadInductive ==
  ASSUME CalmAssumption, LeadInv, [Next]_vars
  PROVE  PlansLead'
<1> SUFFICES ASSUME NEW x \in Chassis, pc'[x] \in {"confirm", "boost"},
                    x \notin term', NEW r \in snap'[x], Cand[r] # {x}
             PROVE  \/ PlanSuffices(x, r)'
                    \/ plan'[x][r] = 0 /\ HasLead(r, x)'
  BY DEF PlansLead
<1>1. TypeOK /\ TypeOK' /\ PlansLead /\ r \in Router
  BY NextTypeOK DEF LeadInv, RejoinInv, TypeOK
<1>2. CASE PlanPriorityLead(x)
  BY <1>1, <1>2, PlanIsMade DEF PlanPriorityLead
<1>3. ASSUME /\ pc[x] \in {"confirm", "boost"} /\ x \notin term
             /\ r \in snap[x] /\ prio'[r][x] = prio[r][x]
             /\ plan'[x][r] = plan[x][r]
      PROVE  \/ PlanSuffices(x, r)'
             \/ plan'[x][r] = 0 /\ HasLead(r, x)'
  <2>1. bound[r] = x
    BY <1>3 DEF LeadInv, LocalsStay, Reigning, Running, Reconciling
  <2>2. CASE PlanSuffices(x, r)
    BY <1>1, <1>3, <2>1, <2>2, PlanIsKept
  <2>3. CASE plan[x][r] = 0 /\ HasLead(r, x)
    BY <1>1, <1>3, <2>1, <2>3, LeadIsKept
  <2> QED
    BY <1>1, <1>3, <2>2, <2>3 DEF PlansLead
<1>4. CASE Untouched(x) \/ \E q \in Router : Elect(q)
  BY <1>1, <1>3, <1>4 DEF Untouched, Elect, nbVars
<1>5. CASE refreshState(x)
  BY <1>3, <1>5 DEF refreshState, nbVars
<1>6. CASE Sigterm(x)
  BY <1>6 DEF Sigterm
<1>9. CASE ConfirmBinding(x)
  <2>1. /\ pc[x] = "confirm" /\ x \notin term /\ r \in snap[x]
        /\ prio' = prio
    BY <1>9 DEF ConfirmBinding, nbVars
  <2>2. bound[r] = x
    BY <2>1 DEF LeadInv, LocalsStay, Reigning, Running, Reconciling
  <2>3. plan'[x][r] = plan[x][r]
    <3>1. CASE UNCHANGED plan
      BY <3>1
    <3>2. CASE plan' = [plan EXCEPT ![x] = [q \in Router |->
                IF bound[q] \in {x, NoChassis} THEN plan[x][q] ELSE 0]]
      BY <1>1, <2>2, <3>2 DEF TypeOK
    <3> QED
      BY <1>9, <3>1, <3>2 DEF ConfirmBinding
  <2> QED
    BY <1>3, <2>1, <2>3
<1>7. CASE \/ TakeSnapshot(x) \/ EnsureGatewayRouting(x) \/ ensureRoutes(x)
           \/ MarkTakeoverReady(x) \/ BoostPriority(x)
  BY <1>1, <1>7 DEF TakeSnapshot, EnsureGatewayRouting, ensureRoutes,
    MarkTakeoverReady, BoostPriority, Goto, TypeOK
<1>8. CASE \/ Start(x) \/ RestoreDrainedGateways(x) \/ Shutdown(x)
           \/ DrainGateways(x) \/ MigrationDone(x) \/ AwaitTakeoverReady(x)
           \/ holdSettleMargin(x) \/ PostDrainRefresh(x) \/ Stop(x)
           \/ RemoveManagedNBEntries(x)
  <2>1. CASE Start(x) \/ RestoreDrainedGateways(x) \/ Shutdown(x)
    BY <1>1, <2>1 DEF Start, RestoreDrainedGateways, Shutdown, Goto, TypeOK
  <2>2. pc'[x] \in Reigning
    BY DEF Reigning, Running, Reconciling
  <2> QED
    BY <1>1, <1>8, <2>1, <2>2, DrainLeavesReign
<1> QED
  BY <1>2, <1>4, <1>5, <1>6, <1>7, <1>8, <1>9, CalmSteps DEF CalmOwn, Reconcile

LEMMA LeadsAfterReconcileInductive ==
  ASSUME CalmAssumption, LeadInv, [Next]_vars
  PROVE  LeadsAfterReconcile'
<1> SUFFICES ASSUME NEW x \in Chassis, pc'[x] = "idle", x \notin term',
                    NEW r \in snap'[x], Cand[r] # {x}
             PROVE  HasLead(r, x)'
  BY DEF LeadsAfterReconcile
<1>1. /\ TypeOK /\ TypeOK' /\ PlansLead /\ PlansForLocals
      /\ LeadsAfterReconcile /\ r \in Router
  BY NextTypeOK DEF LeadInv, RejoinInv, TypeOK
<1>2. CASE BoostPriority(x)
  <2>1. pc[x] = "boost" /\ x \notin term /\ r \in snap[x]
    BY <1>2 DEF BoostPriority
  <2>2. bound[r] = x
    BY <2>1 DEF LeadInv, LocalsStay, Reigning, Running, Reconciling
  <2>3. CASE PlanSuffices(x, r)
    <3>1. plan[x][r] > 0 /\ plan[x][r] >= 2 /\ plan[x][r] \in Int
      BY <1>1, <2>3 DEF PlanSuffices, TypeOK
    <3>2. plan[x] # NoPlan
      BY <1>1, <3>1 DEF NoPlan
    <3>3. prio' = [q \in Router |->
            IF plan[x][q] > 0 THEN [prio[q] EXCEPT ![x] = plan[x][q]]
            ELSE prio[q]]
      BY <1>2, <2>1, <3>2 DEF BoostPriority, TxnFails, Fault, CalmAssumption
    <3>4. prio'[r] = [prio[r] EXCEPT ![x] = plan[x][r]] /\ prio[r] \in [Chassis -> 0..MaxPrio]
      BY <1>1, <3>1, <3>3 DEF TypeOK
    <3>5. prio'[r][x] = plan[x][r] /\ \A d \in Peers(r, x) : prio'[r][d] = prio[r][d]
      BY <1>1, <3>4, ConstantTypes DEF Peers
    <3> QED
      BY <2>3, <3>1, <3>5 DEF HasLead, PlanSuffices, Peers, minActivePriority
  <2>4. CASE plan[x][r] = 0 /\ HasLead(r, x)
    <3>1. prio'[r][x] = prio[r][x]
      <4>1. CASE UNCHANGED prio
        BY <4>1
      <4>2. CASE prio' = [q \in Router |->
                  IF plan[x][q] > 0 THEN [prio[q] EXCEPT ![x] = plan[x][q]]
                  ELSE prio[q]]
        BY <1>1, <2>4, <4>2
      <4> QED
        BY <1>2, <4>1, <4>2 DEF BoostPriority
    <3> QED
      BY <1>1, <2>2, <2>4, <3>1, LeadIsKept
  <2> QED
    BY <1>1, <2>1, <2>3, <2>4 DEF PlansLead
<1>3. ASSUME /\ pc[x] = "idle" /\ x \notin term /\ r \in snap[x]
             /\ prio'[r][x] = prio[r][x]
      PROVE  HasLead(r, x)'
  <2>1. bound[r] = x
    BY <1>3 DEF LeadInv, LocalsStay, Reigning, Running, Reconciling
  <2> QED
    BY <1>1, <1>3, <2>1, LeadIsKept DEF LeadsAfterReconcile
<1>4. CASE Untouched(x) \/ \E q \in Router : Elect(q)
  BY <1>1, <1>3, <1>4 DEF Untouched, Elect, nbVars
<1>5. CASE refreshState(x)
  BY <1>3, <1>5 DEF refreshState, nbVars
<1>6. CASE Sigterm(x)
  BY <1>6 DEF Sigterm
<1>7. CASE ensureRoutes(x)
  BY <1>1, <1>7 DEF ensureRoutes, Goto, TypeOK
<1>8. CASE \/ TakeSnapshot(x) \/ EnsureGatewayRouting(x)
           \/ MarkTakeoverReady(x) \/ PlanPriorityLead(x) \/ ConfirmBinding(x)
  BY <1>1, <1>8 DEF TakeSnapshot, EnsureGatewayRouting, MarkTakeoverReady,
    PlanPriorityLead, ConfirmBinding, Goto, TypeOK, Fault, CalmAssumption
<1>9. CASE \/ Start(x) \/ RestoreDrainedGateways(x) \/ Shutdown(x)
           \/ DrainGateways(x) \/ MigrationDone(x) \/ AwaitTakeoverReady(x)
           \/ holdSettleMargin(x) \/ PostDrainRefresh(x) \/ Stop(x)
           \/ RemoveManagedNBEntries(x)
  <2>1. CASE Start(x) \/ RestoreDrainedGateways(x) \/ Shutdown(x)
    BY <1>1, <2>1 DEF Start, RestoreDrainedGateways, Shutdown, Goto, TypeOK
  <2>2. pc'[x] \in Reigning
    BY DEF Reigning, Running, Reconciling
  <2> QED
    BY <1>1, <1>9, <2>1, <2>2, DrainLeavesReign
<1> QED
  BY <1>2, <1>4, <1>5, <1>6, <1>7, <1>8, <1>9, CalmSteps DEF CalmOwn, Reconcile

LEMMA LeadInductive ==
  ASSUME CalmAssumption
  PROVE  LeadInv /\ [Next]_vars => LeadInv'
<1> SUFFICES ASSUME LeadInv, [Next]_vars PROVE LeadInv'
  OBVIOUS
<1>1. /\ TypeOK /\ LeavingWasAsked /\ RunningNotStranded /\ ovnUp = Chassis
      /\ IsFiniteSet(Chassis) /\ Cardinality(Gone) <= MaxAway
  BY DEF LeadInv, RejoinInv, CalmAssumption, StandbyAssumption
<1>2. RejoinInv'
  BY RejoinInductive DEF LeadInv, CalmAssumption
<1>3. ovnUp' = Chassis
  BY <1>1, CalmSteps
<1>4. Cardinality(Gone') <= MaxAway
  <2>1. IsFiniteSet(Gone) /\ MaxAway \in Nat
    BY <1>1, FS_Subset, ConstantsAssumption DEF Gone, ConstantsAssumption
  <2>2. CASE Gone' \subseteq Gone
    <3>1. /\ IsFiniteSet(Gone') /\ Cardinality(Gone') <= Cardinality(Gone)
          /\ Cardinality(Gone) \in Nat /\ Cardinality(Gone') \in Nat
      BY <2>1, <2>2, FS_Subset, FS_CardinalityType
    <3> QED
      BY <1>1, <2>1, <3>1
  <2> QED
    BY <1>1, <2>2, GoneGrows
<1> QED
  BY <1>1, <1>2, <1>3, <1>4, LeavingWasAskedInductive,
    BoundToCandidateInductive, LoweredIsLeavingInductive, HolderLeadsInductive,
    LocalsStayInductive, DownForgetsInductive, PlansForLocalsInductive,
    PlansLeadInductive, LeadsAfterReconcileInductive DEF LeadInv

LEMMA InitLead ==
  ASSUME CalmAssumption
  PROVE  Init => LeadInv
<1> SUFFICES ASSUME Init PROVE LeadInv
  OBVIOUS
<1>1. RejoinInv /\ TypeOK
  BY InitTypeOK DEF Init, RejoinInv, NothingHidden, RunningNotStranded, Reconciling
<1>2. ASSUME NEW r \in Router, NEW x \in Cand[r]
      PROVE  x \in Chassis /\ prio[r][x] \in Nat /\ prio[r][x] # 0
  <2>1. x \in Chassis /\ prio[r][x] = InitPrio[r][x] /\ InitPrio[r][x] > 0
    BY ConstantTypes DEF Init, CalmAssumption, drainedPriority
  <2> QED
    BY <1>1, <2>1 DEF TypeOK
<1>3. Gone = {}
  BY <1>2 DEF Gone, OwnRows, Init
<1>4. Cardinality(Gone) <= MaxAway
  BY <1>3, FS_EmptySet, ConstantsAssumption DEF ConstantsAssumption
<1>5. BoundToCandidate
  BY ConstantTypes DEF Init, BoundToCandidate, CalmAssumption
<1>6. HolderLeads
  <2>1. ASSUME NEW r \in Router, NEW x \in Cand[r], bound[r] = x, NEW d \in Cand[r]
        PROVE  prio[r][d] <= prio[r][x]
    <3>1. InitBound[r] = x /\ InitBound[r] # NoChassis
      BY <1>2, <2>1, ConstantTypes DEF Init
    <3> QED
      BY <2>1, <3>1 DEF Init, CalmAssumption
  <2> QED
    BY <2>1 DEF HolderLeads
<1>7. LoweredIsLeaving
  BY <1>2 DEF LoweredIsLeaving
<1>8. \A x \in Chassis : pc[x] = "down" /\ snap[x] = {} /\ plan[x] = NoPlan
  BY DEF Init
<1>9. LeavingWasAsked /\ LocalsStay /\ DownForgets /\ PlansLead /\ LeadsAfterReconcile
  BY <1>8 DEF LeavingWasAsked, Draining, Stopping, LocalsStay, Reigning, Running,
    Reconciling, DownForgets, PlansLead, LeadsAfterReconcile
<1>10. PlansForLocals
  BY <1>8 DEF PlansForLocals, NoPlan
<1> QED
  BY <1>1, <1>4, <1>5, <1>6, <1>7, <1>9, <1>10 DEF LeadInv, Init

(* Whatever restarts overlap, while each HA group of several keeps a chassis  *)
(* that is not away: after its reconcile a running chassis is strictly above  *)
(* every peer of each port it holds, and stays so while the peers drain, come *)
(* back, and reconcile (EnsureActivePriorityLead, RestoreDrainedGateways).    *)
THEOREM ActiveStaysAhead ==
  ASSUME CalmAssumption
  PROVE  Spec => []ActiveKeepsLead
<1>1. LeadInv => ActiveKeepsLead
  <2> SUFFICES ASSUME LeadInv, NEW x \in Chassis, NEW r \in snap[x],
                      pc[x] = "idle", x \notin term, NEW d \in Peers(r, x)
               PROVE  prio[r][d] < prio[r][x]
    BY DEF ActiveKeepsLead
  <2>1. Cand[r] # {x}
    BY DEF Peers
  <2>2. HasLead(r, x)
    BY <2>1 DEF LeadInv, LeadsAfterReconcile
  <2> QED
    BY <2>2 DEF HasLead
<1> QED
  BY <1>1, InitLead, LeadInductive, PTL DEF Spec

-----------------------------------------------------------------------------
(* Forwarding.  The chassis a router's marker names announces it: from        *)
(* MarkTakeoverReady until the takeover chassis has put its own marker there, *)
(* it cannot get past the wait of its drain.                                  *)
ForwardAssumption ==
  /\ CalmAssumption
  /\ Settle = TRUE
  /\ DrainModes \subseteq {TRUE}

(* The snapshot's routers that have a standby are in the last refresh too. *)
SnapshotSeen ==
  \A x \in Chassis : pc[x] \in Reigning =>
    \A r \in snap[x] : Cand[r] # {x} => r \in view[x]

(* What a marked chassis still has and still does for the router. *)
KeepsForwarding(m, r) ==
  /\ r \in announced[m] /\ r \in view[m]
  /\ tag[r] # NoChassis
  /\ pc[m] \in Reconciling \cup {"drain", "migrate", "await"}
  /\ pc[m] \in Reconciling \cup {"drain"} => bound[r] = m
  /\ pc[m] \in Reconciling => r \in snap[m]
  /\ pc[m] = "await" => r \in waiting[m]

MarkedForwards ==
  \A r \in Router : \A m \in Chassis :
    marker[r] = m /\ Cand[r] # {m} => KeepsForwarding(m, r)

ForwardInv ==
  /\ LeadInv
  /\ MarkOnlyAnnounced
  /\ SnapshotSeen
  /\ MarkedForwards

LEMMA SnapshotSeenInductive ==
  ASSUME CalmAssumption, ForwardInv, [Next]_vars
  PROVE  SnapshotSeen'
<1> SUFFICES ASSUME NEW x \in Chassis, pc'[x] \in Reigning,
                    NEW r \in snap'[x], Cand[r] # {x}
             PROVE  r \in view'[x]
  BY DEF SnapshotSeen
<1> USE DEF Reigning, Running, Reconciling, Goto, TypeOK
<1>1. TypeOK /\ LeadInv /\ SnapshotSeen /\ DownForgets
  BY DEF ForwardInv, LeadInv, RejoinInv
<1>2. CASE Untouched(x) \/ \E q \in Router : Elect(q)
  BY <1>1, <1>2 DEF Untouched, Elect, SnapshotSeen
<1>3. CASE Start(x)
  BY <1>1, <1>3 DEF Start, DownForgets
<1>4. CASE refreshState(x)
  <2>1. view'[x] = LocalRouters(x) /\ snap' = snap /\ pc[x] \in Running
    BY <1>1, <1>4 DEF refreshState
  <2>2. bound[r] = x /\ r \in Router
    BY <1>1, <2>1 DEF LeadInv, LocalsStay
  <2> QED
    BY <2>1, <2>2 DEF LocalRouters
<1>5. CASE TakeSnapshot(x)
  BY <1>1, <1>5 DEF TakeSnapshot
<1>6. CASE \/ EnsureGatewayRouting(x) \/ ensureRoutes(x) \/ MarkTakeoverReady(x)
           \/ PlanPriorityLead(x) \/ ConfirmBinding(x) \/ BoostPriority(x)
  <2>1. pc[x] \in Reconciling /\ view' = view /\ snap' = snap
    BY <1>6 DEF EnsureGatewayRouting, ensureRoutes, MarkTakeoverReady,
      PlanPriorityLead, ConfirmBinding, BoostPriority
  <2> QED
    BY <1>1, <2>1 DEF SnapshotSeen
<1>7. CASE RestoreDrainedGateways(x) \/ Sigterm(x) \/ Shutdown(x)
  BY <1>1, <1>7 DEF RestoreDrainedGateways, Sigterm, Shutdown, SnapshotSeen
<1>8. CASE \/ DrainGateways(x) \/ MigrationDone(x) \/ AwaitTakeoverReady(x)
           \/ holdSettleMargin(x) \/ PostDrainRefresh(x) \/ Stop(x)
           \/ RemoveManagedNBEntries(x)
  BY <1>1, <1>8, DrainLeavesReign
<1> QED
  BY <1>1, <1>2, <1>3, <1>4, <1>5, <1>6, <1>7, <1>8, CalmSteps
    DEF CalmOwn, Reconcile

(* How the shared rows change under a chassis that keeps them: the route is   *)
(* deleted with its marker, and only then it leaves a wait.                   *)
LEMMA RouteRows ==
  ASSUME CalmAssumption, LeadInv, [Next]_vars,
         NEW r \in Router, NEW m \in Chassis, marker'[r] = m
  PROVE  /\ tag[r] # NoChassis => tag'[r] # NoChassis
         /\ \/ marker[r] = m
            \/ MarkTakeoverReady(m) /\ r \in snap[m] /\ tag[r] # NoChassis
         /\ Untouched(m) /\ r \in waiting[m] => r \in waiting'[m]
<1> USE DEF TypeOK
<1>1. TypeOK /\ m # NoChassis
  BY ConstantTypes DEF LeadInv, RejoinInv
<1>2. CASE \E q \in Router : Elect(q)
  BY <1>1, <1>2 DEF Elect, nbVars, drainVars
<1>3. ASSUME NEW x \in Chassis, EnsureGatewayRouting(x)
      PROVE  /\ tag[r] # NoChassis => tag'[r] # NoChassis
             /\ marker[r] = m
             /\ waiting' = waiting
  BY <1>1, <1>3, ConstantTypes DEF EnsureGatewayRouting, drainVars
<1>4. ASSUME NEW x \in Chassis, MarkTakeoverReady(x)
      PROVE  /\ tag' = tag /\ waiting' = waiting
             /\ \/ marker[r] = m
                \/ MarkTakeoverReady(m) /\ r \in snap[m] /\ tag[r] # NoChassis
  <2>1. tag' = tag /\ waiting' = waiting
    BY <1>4 DEF MarkTakeoverReady, drainVars
  <2>2. CASE marker' = marker
    BY <2>1, <2>2
  <2>3. CASE marker' = [q \in Router |->
               IF q \in localManagedDefaultRoutes(snap[x]) THEN x ELSE marker[q]]
    BY <1>4, <2>1, <2>3 DEF localManagedDefaultRoutes
  <2> QED
    BY <1>4, <2>2, <2>3 DEF MarkTakeoverReady
<1>5. ASSUME NEW x \in Chassis, RemoveManagedNBEntries(x)
      PROVE  /\ tag'[r] = tag[r] /\ marker[r] = m
             /\ r \in waiting[m] => r \in waiting'[m]
  <2>1. PICK gone : /\ tag' = [q \in Router |-> IF q \in gone THEN NoChassis ELSE tag[q]]
                    /\ marker' = [q \in Router |->
                         IF q \in gone THEN NoChassis ELSE marker[q]]
                    /\ waiting' = [d \in Chassis |-> waiting[d] \ gone]
    BY <1>5 DEF RemoveManagedNBEntries
  <2>2. r \notin gone
    BY <1>1, <2>1
  <2> QED
    BY <2>1, <2>2
<1>6. ASSUME NEW x \in Chassis,
             \/ Start(x) \/ RestoreDrainedGateways(x) \/ refreshState(x)
             \/ Sigterm(x) \/ Shutdown(x) \/ DrainGateways(x)
             \/ holdSettleMargin(x) \/ PostDrainRefresh(x) \/ Stop(x)
             \/ TakeSnapshot(x) \/ ensureRoutes(x) \/ PlanPriorityLead(x)
             \/ ConfirmBinding(x) \/ BoostPriority(x)
      PROVE  tag' = tag /\ marker' = marker /\ waiting' = waiting
  BY <1>6 DEF Start, RestoreDrainedGateways, refreshState, Sigterm, Shutdown,
    DrainGateways, holdSettleMargin, PostDrainRefresh, Stop, TakeSnapshot,
    ensureRoutes,
    PlanPriorityLead, ConfirmBinding, BoostPriority, nbVars, drainVars
<1>7. ASSUME NEW x \in Chassis, MigrationDone(x) \/ AwaitTakeoverReady(x)
      PROVE  /\ tag' = tag /\ marker' = marker
             /\ waiting'[m] = waiting[m] \/ ~Untouched(m)
  BY <1>1, <1>7 DEF MigrationDone, AwaitTakeoverReady, nbVars, Goto, Untouched
<1>8. CASE UNCHANGED vars
  BY <1>8 DEF vars
<1> QED
  BY <1>1, <1>2, <1>3, <1>4, <1>5, <1>6, <1>7, <1>8, CalmSteps
    DEF CalmOwn, Reconcile

(* The marked chassis's own reconcile and refresh: it announces again what it *)
(* announced, and a refresh finds the router bound to it.                     *)
LEMMA ReconcileKeeps ==
  ASSUME ForwardInv, TypeOK', NEW r \in Router, NEW m \in Chassis,
         KeepsForwarding(m, r), tag'[r] # NoChassis, bound' = bound,
         Reconcile(m) \/ refreshState(m) \/ Sigterm(m)
  PROVE  KeepsForwarding(m, r)'
<1> USE DEF TypeOK, Goto
<1>1. TypeOK
  BY DEF ForwardInv, LeadInv, RejoinInv
<1>2. CASE Sigterm(m)
  BY <1>1, <1>2 DEF Sigterm, KeepsForwarding, drainVars
<1>3. CASE refreshState(m)
  <2>1. /\ pc' = pc /\ pc[m] \in Reconciling /\ bound[r] = m
        /\ view'[m] = LocalRouters(m)
        /\ UNCHANGED <<announced, snap, waiting>>
    BY <1>1, <1>3 DEF refreshState, KeepsForwarding, Running, Reconciling, drainVars
  <2> QED
    BY <2>1 DEF KeepsForwarding, LocalRouters
<1>4. CASE TakeSnapshot(m)
  BY <1>1, <1>4 DEF TakeSnapshot, KeepsForwarding, Reconciling
<1>5. CASE ensureRoutes(m)
  <2>1. pc[m] = "announce" /\ r \in announced[m] \cap snap[m] /\ bound[r] = m
    BY <1>5 DEF ensureRoutes, KeepsForwarding, Reconciling
  <2>2. r \in announced'[m]
    <3>1. PICK added \in SUBSET snap[m], stale \in SUBSET (announced[m] \ snap[m]),
               ready \in BOOLEAN :
            /\ announced[m] \cap snap[m] \subseteq added
            /\ announced' = [announced EXCEPT ![m] = added \cup stale]
      BY <1>5 DEF ensureRoutes
    <3> QED
      BY <1>1, <2>1, <3>1
  <2>3. pc'[m] \in {"idle", "mark", "lead"} /\ UNCHANGED <<view, snap>>
    BY <1>1, <1>5 DEF ensureRoutes
  <2> QED
    BY <2>1, <2>2, <2>3 DEF KeepsForwarding, Reconciling
<1>6. CASE \/ EnsureGatewayRouting(m) \/ MarkTakeoverReady(m)
           \/ PlanPriorityLead(m) \/ ConfirmBinding(m) \/ BoostPriority(m)
  <2>1. /\ pc[m] \in Reconciling /\ pc'[m] \in Reconciling
        /\ pc'[m] # "await"
        /\ UNCHANGED <<announced, view, snap>>
    BY <1>1, <1>6 DEF EnsureGatewayRouting, MarkTakeoverReady,
    PlanPriorityLead, ConfirmBinding,
      BoostPriority, Reconciling
  <2> QED
    BY <2>1 DEF KeepsForwarding
<1> QED
  BY <1>2, <1>3, <1>4, <1>5, <1>6 DEF Reconcile

(* Its drain: the router is among the rows it lowers, then among the markers  *)
(* it waits for, and while the marker is its own the wait goes on.            *)
LEMMA DrainKeeps ==
  ASSUME ForwardAssumption, ForwardInv, NEW r \in Router, NEW m \in Chassis,
         marker[r] = m, Cand[r] # {m}, KeepsForwarding(m, r), CalmOwn(m),
         ~(Reconcile(m) \/ refreshState(m) \/ Sigterm(m)),
         tag'[r] # NoChassis, bound' = bound
  PROVE  KeepsForwarding(m, r)'
<1> USE DEF TypeOK, Goto
<1>1. TypeOK
  BY DEF ForwardInv, LeadInv, RejoinInv
<1>2. pc[m] \in Reconciling \cup {"drain", "migrate", "await"}
  BY DEF KeepsForwarding
<1>3. CASE Shutdown(m)
  <2>1. pc[m] = "idle" /\ pc'[m] = "drain"
    BY <1>1, <1>3 DEF Shutdown, ForwardAssumption
  <2>2. UNCHANGED <<announced, view, snap>> /\ bound[r] = m
    BY <1>3, <2>1 DEF Shutdown, KeepsForwarding, Reconciling
  <2> QED
    BY <2>1, <2>2 DEF KeepsForwarding, Reconciling
<1>4. CASE DrainGateways(m)
  <2>1. pc[m] = "drain" /\ bound[r] = m
    BY <1>4 DEF DrainGateways, KeepsForwarding
  <2>2. m \in Cand[r] /\ prio[r][m] \in Nat /\ prio[r][m] # 0
    <3>1. m \in Cand[r]
      BY <2>1, ConstantTypes DEF ForwardInv, LeadInv, BoundToCandidate
    <3>2. prio[r][m] # 0
      BY <2>1, <3>1 DEF ForwardInv, LeadInv, LoweredIsLeaving
    <3> QED
      BY <1>1, <3>1, <3>2
  <2>3. r \in SeenRows(m)
    BY <2>2 DEF SeenRows, CachedRows, OwnRows, ForwardInv, LeadInv, RejoinInv,
      NothingHidden
  <2>4. r \in drainCandidates(m)
    BY <2>2, <2>3 DEF drainCandidates, soleCandidatePorts
  <2>5. pc'[m] = "migrate" /\ UNCHANGED <<announced, view>>
    BY <1>1, <1>4, <2>4 DEF DrainGateways, Fault, ForwardAssumption, CalmAssumption
  <2> QED
    BY <2>5 DEF KeepsForwarding, Reconciling
<1>5. CASE MigrationDone(m)
  <2>1. r \in localManagedDefaultRoutes(view[m] \ soleCandidatePorts(m))
    BY DEF KeepsForwarding, localManagedDefaultRoutes, soleCandidatePorts
  <2>2. /\ waiting'[m] = localManagedDefaultRoutes(view[m] \ soleCandidatePorts(m))
        /\ pc'[m] = "await" /\ UNCHANGED <<announced, view>>
    <3> DEFINE rows == localManagedDefaultRoutes(view[m] \ soleCandidatePorts(m))
    <3>1. PICK read \in SUBSET rows :
            /\ IF read = rows THEN NoFault ELSE Fault("nb")
            /\ waiting' = [waiting EXCEPT ![m] = read]
            /\ Goto(m, IF read = {} THEN "margin" ELSE "await")
      BY <1>5 DEF MigrationDone, ForwardAssumption
    <3>2. read = rows
      BY <3>1 DEF Fault, ForwardAssumption, CalmAssumption
    <3>3. rows # {}
      BY <2>1
    <3>4. UNCHANGED <<announced, view>>
      BY <1>5 DEF MigrationDone
    <3> HIDE DEF rows
    <3> QED
      BY <1>1, <3>1, <3>2, <3>3, <3>4 DEF Goto, TypeOK, rows
  <2> QED
    BY <2>1, <2>2 DEF KeepsForwarding, Reconciling
<1>6. ~AwaitTakeoverReady(m)
  BY DEF AwaitTakeoverReady, takeoverMarkersReady, markerSatisfies,
    KeepsForwarding, Fault, ForwardAssumption, CalmAssumption
<1>7. /\ ~Start(m) /\ ~RestoreDrainedGateways(m) /\ ~holdSettleMargin(m)
      /\ ~PostDrainRefresh(m) /\ ~Stop(m) /\ ~RemoveManagedNBEntries(m)
  BY <1>2 DEF Start, RestoreDrainedGateways, holdSettleMargin, PostDrainRefresh,
    Stop, RemoveManagedNBEntries, Reconciling
<1> QED
  BY <1>3, <1>4, <1>5, <1>6, <1>7 DEF CalmOwn

LEMMA MarkedForwardsInductive ==
  ASSUME ForwardAssumption, ForwardInv, [Next]_vars
  PROVE  MarkedForwards'
<1> SUFFICES ASSUME NEW r \in Router, NEW m \in Chassis,
                    marker'[r] = m, Cand[r] # {m}
             PROVE  KeepsForwarding(m, r)'
  BY DEF MarkedForwards
<1>1. /\ TypeOK /\ TypeOK' /\ LeadInv /\ MarkedForwards /\ CalmAssumption
  BY NextTypeOK DEF ForwardInv, LeadInv, RejoinInv, ForwardAssumption
<1>2. CASE MarkTakeoverReady(m) /\ r \in snap[m] /\ tag[r] # NoChassis
  <2>1. /\ pc[m] = "mark" /\ pc'[m] = "lead"
        /\ UNCHANGED <<announced, view, snap, tag, bound>>
    BY <1>1, <1>2 DEF MarkTakeoverReady, Goto, TypeOK, envVars
  <2>2. r \in announced[m] /\ r \in view[m] /\ bound[r] = m
    BY <1>1, <1>2, <2>1 DEF ForwardInv, MarkOnlyAnnounced, SnapshotSeen, LeadInv,
      LocalsStay, Reigning, Running, Reconciling
  <2> QED
    BY <1>2, <2>1, <2>2 DEF KeepsForwarding, Reconciling
<1>3. CASE marker[r] = m
  <2>1. KeepsForwarding(m, r) /\ tag'[r] # NoChassis
    BY <1>1, <1>3, RouteRows DEF MarkedForwards, KeepsForwarding
  <2>2. ASSUME NEW q \in Router, Elect(q) PROVE KeepsForwarding(m, r)'
    <3>1. UNCHANGED <<pc, announced, view, snap, tag, waiting>>
      BY <2>2 DEF Elect, nbVars, drainVars
    <3>2. bound[r] = m /\ pc[m] # "migrate" => bound'[r] = m
      BY <1>1, <2>2, ElectMoves DEF TypeOK
    <3> QED
      BY <2>1, <3>1, <3>2 DEF KeepsForwarding, Reconciling
  <2>3. CASE bound' = bound /\ Untouched(m)
    BY <1>1, <1>3, <2>1, <2>3, RouteRows DEF Untouched, KeepsForwarding
  <2>4. CASE bound' = bound /\ CalmOwn(m)
    BY <1>1, <1>3, <2>1, <2>4, ReconcileKeeps, DrainKeeps
  <2> QED
    BY <1>1, <2>2, <2>3, <2>4, CalmSteps
<1> QED
  BY <1>1, <1>2, <1>3, RouteRows

(* An agent waits for routers it has a row for: they were bound to it.        *)
OwnAwaited ==
  \A x \in Chassis : view[x] \cup waiting[x] \subseteq OwnRows(x)

LEMMA OwnAwaitedInductive ==
  ASSUME CalmAssumption, LeadInv, OwnAwaited, [Next]_vars
  PROVE  OwnAwaited'
<1> USE DEF TypeOK
<1>1. TypeOK /\ \A x \in Chassis : LocalRouters(x) \subseteq OwnRows(x)
  BY ConstantTypes DEF LeadInv, RejoinInv, BoundToCandidate, LocalRouters, OwnRows
<1>2. CASE (\E q \in Router : Elect(q)) \/ UNCHANGED vars
  BY <1>2 DEF Elect, drainVars, vars, OwnAwaited, OwnRows
<1>3. ASSUME NEW x \in Chassis, Start(x) \/ refreshState(x) \/ PostDrainRefresh(x)
      PROVE  OwnAwaited'
  <2>1. waiting' = waiting /\ view' \in {view, [view EXCEPT ![x] = LocalRouters(x)]}
    BY <1>3 DEF Start, refreshState, PostDrainRefresh, drainVars
  <2>2. ASSUME NEW y \in Chassis PROVE view'[y] \cup waiting'[y] \subseteq OwnRows(y)
    <3>1. view'[y] = view[y] \/ view'[y] = LocalRouters(y)
      BY <1>1, <2>1
    <3>2. view[y] \cup waiting[y] \subseteq OwnRows(y)
      BY DEF OwnAwaited
    <3> QED
      BY <1>1, <2>1, <3>1, <3>2
  <2> QED
    BY <2>2 DEF OwnAwaited, OwnRows
<1>4. ASSUME NEW x \in Chassis, MigrationDone(x) \/ AwaitTakeoverReady(x)
      PROVE  OwnAwaited'
  <2>1. /\ view' = view
        /\ \/ waiting' = waiting
           \/ \E W \in SUBSET view[x] : waiting' = [waiting EXCEPT ![x] = W]
    BY <1>4 DEF MigrationDone, AwaitTakeoverReady, localManagedDefaultRoutes
  <2>2. ASSUME NEW y \in Chassis PROVE view'[y] \cup waiting'[y] \subseteq OwnRows(y)
    <3>1. view[y] \cup waiting[y] \subseteq OwnRows(y)
      BY DEF OwnAwaited
    <3>2. waiting'[y] \subseteq view[y] \cup waiting[y]
      BY <1>1, <2>1 DEF TypeOK
    <3> QED
      BY <2>1, <3>1, <3>2
  <2> QED
    BY <2>2 DEF OwnAwaited, OwnRows
<1>5. ASSUME NEW x \in Chassis, Stop(x) \/ RemoveManagedNBEntries(x)
      PROVE  OwnAwaited'
  <2>1. view' \in {view, [view EXCEPT ![x] = {}]}
    BY <1>5 DEF Stop, RemoveManagedNBEntries, Exit
  <2>2. \A y \in Chassis : waiting'[y] \subseteq waiting[y]
    <3>1. CASE Stop(x)
      BY <3>1 DEF Stop, drainVars
    <3>2. CASE RemoveManagedNBEntries(x)
      BY <3>2 DEF RemoveManagedNBEntries
    <3> QED
      BY <1>5, <3>1, <3>2
  <2>3. \A y \in Chassis : view'[y] \subseteq view[y]
    BY <1>1, <2>1
  <2>4. ASSUME NEW y \in Chassis PROVE view'[y] \cup waiting'[y] \subseteq OwnRows(y)
    BY <2>2, <2>3 DEF OwnAwaited
  <2> QED
    BY <2>4 DEF OwnAwaited, OwnRows
<1>6. ASSUME NEW x \in Chassis,
             \/ Reconcile(x) \/ RestoreDrainedGateways(x) \/ Sigterm(x)
             \/ Shutdown(x) \/ DrainGateways(x) \/ holdSettleMargin(x)
      PROVE  OwnAwaited'
  <2>1. view' = view /\ waiting' = waiting
    BY <1>6 DEF Reconcile, TakeSnapshot, EnsureGatewayRouting, ensureRoutes,
      MarkTakeoverReady, PlanPriorityLead, ConfirmBinding, BoostPriority,
      RestoreDrainedGateways, Sigterm, Shutdown, DrainGateways,
      holdSettleMargin, drainVars
  <2> QED
    BY <2>1 DEF OwnAwaited, OwnRows
<1> QED
  BY <1>2, <1>3, <1>4, <1>5, <1>6, CalmSteps DEF CalmOwn

LEMMA ForwardInductive ==
  ASSUME ForwardAssumption
  PROVE  /\ Init => ForwardInv /\ OwnAwaited
         /\ ForwardInv /\ OwnAwaited /\ [Next]_vars => (ForwardInv /\ OwnAwaited)'
<1>1. CalmAssumption
  BY DEF ForwardAssumption
<1>2. ASSUME Init PROVE ForwardInv /\ OwnAwaited
  <2>1. LeadInv
    BY <1>1, <1>2, InitLead
  <2>2. MarkOnlyAnnounced /\ SnapshotSeen
    BY <1>2 DEF Init, MarkOnlyAnnounced, SnapshotSeen, Reigning, Running, Reconciling
  <2>3. MarkedForwards /\ OwnAwaited
    BY <1>2, ConstantTypes DEF Init, MarkedForwards, OwnAwaited
  <2> QED
    BY <2>1, <2>2, <2>3 DEF ForwardInv
<1>3. ASSUME ForwardInv, OwnAwaited, [Next]_vars
      PROVE  ForwardInv' /\ OwnAwaited'
  <2>1. LeadInv' /\ OwnAwaited'
    BY <1>1, <1>3, LeadInductive, OwnAwaitedInductive DEF ForwardInv
  <2>2. MarkOnlyAnnounced'
    BY <1>3, MarkOnlyAnnouncedInductive DEF ForwardInv, LeadInv, RejoinInv
  <2> QED
    BY <1>1, <1>3, <2>1, <2>2, SnapshotSeenInductive, MarkedForwardsInductive
      DEF ForwardInv
<1> QED
  BY <1>2, <1>3

(* In a rolling restart in which only routes, BGP and refreshes fail, every   *)
(* router with a standby stays announced from its first marker on: a leaving  *)
(* chassis withdraws its routes (cleanup) only when another one has announced *)
(* and said so (awaitTakeoverReady), whatever overlaps.                       *)
THEOREM ForwardedThroughRestarts ==
  ASSUME ForwardAssumption
  PROVE  Spec => []AlwaysForwarded
<1>1. ForwardInv => AlwaysForwarded
  <2> SUFFICES ASSUME ForwardInv, NEW r \in Router, marker[r] # NoChassis,
                      Cardinality(Cand[r]) > 1
               PROVE  \E x \in Chassis : r \in announced[x]
    BY DEF AlwaysForwarded
  <2>1. marker[r] \in Chassis
    BY DEF ForwardInv, LeadInv, RejoinInv, TypeOK
  <2>2. Cand[r] # {marker[r]}
    <3>1. Cardinality({marker[r]}) = 1
      BY FS_Singleton
    <3> QED
      BY <3>1
  <2> QED
    BY <2>1, <2>2 DEF ForwardInv, MarkedForwards, KeepsForwarding
<1> QED
  BY <1>1, ForwardInductive, PTL DEF Spec

(* And the drain's release is truthful then: the marker that ends the wait    *)
(* names a chassis that announces the router at that moment.                  *)
THEOREM ReleasesAreTruthful ==
  ASSUME ForwardAssumption
  PROVE  Spec => TruthfulRelease
<1>1. ForwardInv /\ OwnAwaited /\ [Next]_vars
      => [\A c \in Chassis :
            pc[c] = "await" /\ pc'[c] = "margin" =>
              \A r \in waiting[c] \cap announced[c] :
                \E d \in Chassis \ {c} : r \in announced[d]]_vars
  <2> SUFFICES ASSUME ForwardInv, OwnAwaited, [Next]_vars, NEW x \in Chassis,
                      pc[x] = "await", pc'[x] = "margin",
                      NEW r \in waiting[x]
               PROVE  \E d \in Chassis \ {x} : r \in announced[d]
    OBVIOUS
  <2>1. TypeOK /\ LeadInv /\ r \in Router
    BY DEF ForwardInv, LeadInv, RejoinInv, TypeOK
  <2>2. AwaitTakeoverReady(x)
    <3>1. CalmOwn(x)
      <4>1. CASE \E q \in Router : Elect(q)
        BY <4>1 DEF Elect
      <4>2. CASE Untouched(x)
        BY <4>2 DEF Untouched
      <4> QED
        BY <2>1, <4>1, <4>2, CalmSteps DEF ForwardAssumption
    <3> QED
      BY <3>1 DEF CalmOwn, Start, RestoreDrainedGateways, Reconcile,
        TakeSnapshot, EnsureGatewayRouting, ensureRoutes, MarkTakeoverReady,
        PlanPriorityLead, ConfirmBinding,
        BoostPriority, refreshState, Sigterm, Shutdown,
        DrainGateways, MigrationDone, holdSettleMargin, PostDrainRefresh, Stop,
        RemoveManagedNBEntries, Running, Reconciling
  <2>3. marker[r] \in Chassis \ {x}
    BY <2>1, <2>2 DEF AwaitTakeoverReady, takeoverMarkersReady, markerSatisfies,
      TypeOK, Fault, ForwardAssumption, CalmAssumption
  <2>4. Cand[r] # {marker[r]}
    BY <2>3 DEF OwnAwaited, OwnRows
  <2> QED
    BY <2>1, <2>3, <2>4 DEF ForwardInv, MarkedForwards, KeepsForwarding
<1> QED
  BY <1>1, ForwardInductive, PTL DEF Spec, TruthfulRelease

=============================================================================
