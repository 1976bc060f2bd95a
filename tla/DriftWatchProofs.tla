-------------------------- MODULE DriftWatchProofs --------------------------
(* The route watch misses no drift, for every set of addresses and intents    *)
(* and any number of faults and changes.                                      *)
EXTENDS DriftWatch, TLAPS

(* Types of the parameters the steps compute with. *)
LEMMA ConstantTypes ==
  Intents \subseteq SUBSET IP /\ MaxFaults \in Nat /\ MaxChanges \in Nat
BY ConstantsAssumption DEF ConstantsAssumption

LEMMA InitTypeOK == Init => TypeOK
<1> SUFFICES ASSUME Init PROVE TypeOK
  OBVIOUS
<1>1. owned = {} /\ cur = {} /\ left = {} /\ events = {}
  BY DEF Init
<1>2. owned \in SUBSET IP /\ cur \in SUBSET IP /\ left \in SUBSET IP /\ events \in SUBSET (IP \X Writers)
  BY <1>1
<1>3. faults \in 0..MaxFaults /\ changes \in 0..MaxChanges
  BY ConstantTypes DEF Init
<1>4. routes \in SUBSET IP /\ intent \in Intents /\ want \in Intents
  BY DEF Init
<1>5. watch = "off" /\ ~timer /\ pc = "startup"
  BY DEF Init
<1>6. trigger \in BOOLEAN /\ timer \in BOOLEAN /\ recent \in BOOLEAN /\ outage \in BOOLEAN
  BY DEF Init
<1> QED
  BY <1>1, <1>2, <1>3, <1>4, <1>5, <1>6 DEF TypeOK

LEMMA NextTypeOK == TypeOK /\ [Next]_vars => TypeOK'
<1> SUFFICES ASSUME TypeOK, [Next]_vars PROVE TypeOK'
  OBVIOUS
<1> USE ConstantTypes DEF TypeOK
<1>1. CASE ChangeIntent
  BY <1>1 DEF ChangeIntent, cycleVars, watchVars
<1>2. ASSUME NEW ip \in IP, ForeignDelete(ip) PROVE TypeOK'
  <2>1. faults' \in 0..MaxFaults
    BY <1>2 DEF ForeignDelete, Fault
  <2>2. events' \in SUBSET (IP \X Writers) /\ (watch # "open" => events' = {})
    BY <1>2 DEF ForeignDelete, Notify, Writers
  <2> QED
    BY <1>2, <2>1, <2>2 DEF ForeignDelete, cycleVars, watchVars
<1>3. CASE BeginReconcile
  BY <1>3 DEF BeginReconcile, watchVars
<1>4. CASE ListRoutes
  <2>1. faults' \in 0..MaxFaults
    BY <1>4 DEF ListRoutes, Fault
  <2> QED
    BY <1>4, <2>1 DEF ListRoutes, watchVars
<1>5. CASE AddRoutes
  <2>1. PICK refused \in SUBSET (want \ cur), rolledBack \in SUBSET (want \ cur) :
          /\ routes' = (routes \cup ((want \ cur) \ refused)) \ rolledBack
          /\ Notify(rolledBack, "agent")
          /\ left' = left \cup (refused \ routes)
                          \cup (IF watch \in {"off", "first"} THEN rolledBack ELSE {})
          /\ FaultUnless(refused \cup rolledBack = {}, "add")
    BY <1>5 DEF AddRoutes
  <2>2. events' \in SUBSET (IP \X Writers) /\ (watch # "open" => events' = {})
    BY <2>1 DEF Notify, Writers
  <2>3. routes' \in SUBSET IP /\ left' \in SUBSET IP
    BY <2>1
  <2>4. faults' \in 0..MaxFaults
    BY <2>1 DEF FaultUnless, Fault
  <2> QED
    BY <1>5, <2>2, <2>3, <2>4 DEF AddRoutes, watchVars
<1>6. CASE RemoveRoutes
  <2>1. PICK kept \in SUBSET (routes \cap (cur \ want)) :
          /\ routes' = routes \ ((routes \cap (cur \ want)) \ kept)
          /\ Notify((routes \cap (cur \ want)) \ kept, "agent")
          /\ left' = left \cup kept
          /\ FaultUnless(kept = {}, "del")
    BY <1>6 DEF RemoveRoutes
  <2>2. events' \in SUBSET (IP \X Writers) /\ (watch # "open" => events' = {})
    BY <2>1 DEF Notify, Writers
  <2>3. routes' \in SUBSET IP /\ left' \in SUBSET IP
    BY <2>1
  <2>4. faults' \in 0..MaxFaults
    BY <2>1 DEF FaultUnless, Fault
  <2> QED
    BY <1>6, <2>2, <2>3, <2>4 DEF RemoveRoutes
<1>7. CASE Subscribe
  BY <1>7 DEF Subscribe, cycleVars
<1>8. CASE SubscribeFails
  BY <1>8 DEF SubscribeFails, Fault, cycleVars
<1>9. CASE BackoffOver
  BY <1>9 DEF BackoffOver, cycleVars
<1>10. CASE SubscriptionEnds
  <2>1. trigger' \in BOOLEAN /\ recent' \in BOOLEAN
    BY <1>10 DEF SubscriptionEnds
  <2>2. events' \in SUBSET (IP \X Writers) /\ faults' \in 0..MaxFaults
    BY <1>10 DEF SubscriptionEnds, Fault
  <2> QED
    BY <1>10, <2>1, <2>2 DEF SubscriptionEnds, cycleVars
<1>11. ASSUME NEW e \in events, TakeEvent(e) PROVE TypeOK'
  BY <1>11 DEF TakeEvent, cycleVars, drift
<1>12. CASE FireTrigger
  BY <1>12 DEF FireTrigger, cycleVars
<1>13. CASE MinIntervalOver
  BY <1>13 DEF MinIntervalOver, cycleVars
<1>14. CASE UNCHANGED vars
  BY <1>14 DEF vars
<1> QED
  BY <1>1, <1>2, <1>3, <1>4, <1>5, <1>6, <1>7, <1>8, <1>9, <1>10, <1>11, <1>12,
     <1>13, <1>14 DEF Next, Cycle, Watch

(* The variables of the route watch keep their types (drift_watch.go).        *)
THEOREM TypeCorrect == Spec => []TypeOK
BY InitTypeOK, NextTypeOK, PTL DEF Spec

-----------------------------------------------------------------------------
(* A reconcile works on the ownership it published, and every missing owned   *)
(* route is on its way back whatever the watch is doing.                      *)
Published == pc \in {"list", "add", "remove"} => owned = want
OnItsWay(ip) ==
  \/ YetToAdd(ip)
  \/ \E w \in Writers : <<ip, w>> \in events
  \/ timer \/ trigger \/ outage
  \/ ip \in left
Seen == \A ip \in owned \ routes : OnItsWay(ip)
Lost == watch \in {"backoff", "again"} => outage
IInv == TypeOK /\ Published /\ Lost /\ Seen

LEMMA InitIInv == Init => IInv
BY InitTypeOK DEF Init, IInv, Published, Lost, Seen

LEMMA NextIInv ==
  ASSUME "early" \notin Faults PROVE IInv /\ [Next]_vars => IInv'
<1> SUFFICES ASSUME IInv, [Next]_vars PROVE IInv'
  OBVIOUS
<1>0. TypeOK'
  BY NextTypeOK DEF IInv
<1> USE DEF IInv, Published, Lost, Seen, OnItsWay, YetToAdd
<1>1. CASE ChangeIntent
  BY <1>0, <1>1 DEF ChangeIntent, cycleVars, watchVars
<1>2. ASSUME NEW ip \in IP, ForeignDelete(ip) PROVE IInv'
  <2>1. watch \notin {"off", "first"}
    BY <1>2 DEF ForeignDelete, Fault
  <2>2. CASE watch = "open"
    <3>1. events' = events \cup {<<ip, "other">>}
      BY <1>2, <2>2 DEF ForeignDelete, Notify
    <3> QED
      BY <1>0, <1>2, <3>1 DEF ForeignDelete, Writers, cycleVars, watchVars
  <2>3. CASE watch # "open"
    <3>1. outage
      BY <1>2, <2>1, <2>3 DEF TypeOK
    <3> QED
      BY <1>0, <1>2, <3>1 DEF ForeignDelete, cycleVars, watchVars
  <2> QED
    BY <2>2, <2>3
<1>3. CASE BeginReconcile
  BY <1>0, <1>3 DEF BeginReconcile, watchVars
<1>4. CASE ListRoutes
  BY <1>0, <1>4 DEF ListRoutes, watchVars
<1>5. CASE AddRoutes
  <2>1. PICK refused \in SUBSET (want \ cur), rolledBack \in SUBSET (want \ cur) :
          /\ routes' = (routes \cup ((want \ cur) \ refused)) \ rolledBack
          /\ Notify(rolledBack, "agent")
          /\ left' = left \cup (refused \ routes)
                          \cup (IF watch \in {"off", "first"} THEN rolledBack ELSE {})
    BY <1>5 DEF AddRoutes
  <2>2. /\ owned' = owned /\ want' = want /\ pc = "add" /\ pc' = "remove"
        /\ UNCHANGED <<trigger, watch, timer, outage>>
    BY <1>5 DEF AddRoutes, watchVars
  <2>3. events \subseteq events'
    BY <2>1 DEF Notify
  <2>4. ASSUME NEW ip \in owned \ routes' PROVE OnItsWay(ip)'
    <3>1. CASE ip \in rolledBack /\ watch = "open"
      BY <2>1, <3>1 DEF Notify, Writers
    <3>2. CASE ip \in rolledBack /\ watch \in {"off", "first"}
      BY <2>1, <3>2
    <3>3. CASE ip \in rolledBack /\ watch \in {"backoff", "again"}
      BY <2>2, <3>3
    <3>4. CASE ip \notin rolledBack
      <4>1. ip \in owned \ routes
        BY <2>1, <2>4, <3>4
      <4>2. OnItsWay(ip)
        BY <4>1
      <4>3. ip \notin want \ cur \/ ip \in left'
        BY <2>1, <2>4, <3>4
      <4> QED
        BY <2>1, <2>2, <2>3, <4>1, <4>2, <4>3
    <3> QED
      BY <3>1, <3>2, <3>3, <3>4 DEF TypeOK
  <2> QED
    BY <1>0, <2>2, <2>4
<1>6. CASE RemoveRoutes
  <2>1. events \subseteq events'
    BY <1>6 DEF RemoveRoutes, Notify
  <2>2. left \subseteq left' /\ (\A ip \in routes : ip \notin routes' => ip \notin want)
    BY <1>6 DEF RemoveRoutes
  <2> QED
    BY <1>0, <1>6, <2>1, <2>2 DEF RemoveRoutes
<1>7. CASE Subscribe
  BY <1>0, <1>7 DEF Subscribe, cycleVars
<1>8. CASE SubscribeFails
  BY <1>0, <1>8 DEF SubscribeFails, cycleVars
<1>9. CASE BackoffOver
  BY <1>0, <1>9 DEF BackoffOver, cycleVars
<1>10. CASE SubscriptionEnds
  BY <1>0, <1>10 DEF SubscriptionEnds, cycleVars
<1>11. ASSUME NEW e \in events, TakeEvent(e) PROVE IInv'
  <2>1. ASSUME NEW ip \in owned \ routes PROVE OnItsWay(ip)'
    <3>1. CASE \E w \in Writers : <<ip, w>> = e
      <4>1. drift(e)
        BY <2>1, <3>1 DEF drift
      <4> QED
        BY <1>11, <4>1 DEF TakeEvent
    <3>2. CASE \A w \in Writers : <<ip, w>> # e
      BY <1>11, <2>1, <3>2 DEF TakeEvent, cycleVars
    <3> QED
      BY <3>1, <3>2
  <2> QED
    BY <1>0, <1>11, <2>1 DEF TakeEvent, cycleVars
<1>12. CASE FireTrigger
  BY <1>0, <1>12 DEF FireTrigger, cycleVars
<1>13. CASE MinIntervalOver
  BY <1>0, <1>13 DEF MinIntervalOver, cycleVars
<1>14. CASE UNCHANGED vars
  BY <1>0, <1>14 DEF vars
<1> QED
  BY <1>1, <1>2, <1>3, <1>4, <1>5, <1>6, <1>7, <1>8, <1>9, <1>10, <1>11, <1>12,
     <1>13, <1>14 DEF Next, Cycle, Watch

(* No missing owned route goes unseen (driftWatcher.run, setOwned), if no     *)
(* other writer comes before the first subscription.                          *)
THEOREM NoDriftUnseen ==
  ASSUME "early" \notin Faults PROVE Spec => []NothingUnseen
<1>1. IInv => NothingUnseen
  BY DEF IInv, Seen, OnItsWay, NothingUnseen
<1> QED
  BY InitIInv, NextIInv, <1>1, PTL DEF Spec
=============================================================================
