-------------------------- MODULE FlowPlaneProofs --------------------------
(* For any segments, addresses, intents, faults and writers: a flow the agent *)
(* owns and that is missing is on its way back, no reconcile interrupts a     *)
(* hairpin flow it wants, and the state keeps its type.                       *)
EXTENDS FlowPlane, FiniteSetTheorems, TLAPS

Stopped == {"down", "rm"}
Reconciling == {"idle", "segs", "own", "dump", "add", "del"}

Typed ==
  /\ owned = [p \in Planes |-> owned[p]]
  /\ \A p \in Planes : \A k \in owned[p] : k.plane = p
  /\ pc \in Stopped \cup Reconciling /\ plane \in Planes
  /\ watch \in {"first", "open", "lost"}

(* What is owned is what this reconcile brings up; what it deletes is not.    *)
Current == pc \in {"dump", "add", "del"} => owned[plane] = keys(desired(plane))
Dumped == pc = "add" => \A f \in cur : f.key.plane = plane
Unowned == pc = "del" => \A f \in cur : f.key.plane = plane /\ f.key \notin owned[plane]
Dead == pc \in Stopped => \A p \in Planes : owned[p] = {}

(* NothingUnseen before the watch has started, too: nothing is deleted then.  *)
OnItsWay(p, k) ==
  YetToAdd(k) \/ k \in events \/ trigger \/ watch = "lost" \/ p \in failed
Seen == \A p \in Planes : \A k \in owned[p] \ keys(flows) : OnItsWay(p, k)

IInv == Typed /\ Current /\ Dumped /\ Unowned /\ Dead /\ Seen

-----------------------------------------------------------------------------
LEMMA PlaneNames == Planes = {"mactweak", "hairpin"} /\ "mactweak" # "hairpin"
BY DEF Planes

LEMMA DesiredPlane == \A p \in Planes : \A k \in keys(desired(p)) : k.plane = p
<1>1. \A k \in keys(desiredMACTweakFlows) : k.plane = "mactweak"
  BY DEF desiredMACTweakFlows, keys
<1>2. \A k \in keys(desiredHairpinFlows) : k.plane = "hairpin"
  BY DEF desiredHairpinFlows, keys
<1>. QED BY <1>1, <1>2, PlaneNames DEF desired

LEMMA SameDesired ==
  ASSUME UNCHANGED <<segs, goal, plane>>
  PROVE  desired(plane)' = desired(plane)
<1>1. UNCHANGED Bound
  BY DEF Bound
<1>2. UNCHANGED desiredMACTweakFlows
  BY <1>1 DEF desiredMACTweakFlows
<1>3. \A s : segmentBindingFor(s)' = segmentBindingFor(s)
  BY DEF segmentBindingFor
<1>4. UNCHANGED desiredHairpinFlows
  BY <1>3 DEF desiredHairpinFlows
<1>. QED BY <1>2, <1>4 DEF desired

LEMMA SameAdds ==
  ASSUME UNCHANGED <<segs, goal, plane, cur>>
  PROVE  adds' = adds
BY SameDesired DEF adds

LEMMA PutKeys == ASSUME NEW S PROVE keys(Put(S)) = keys(flows) \cup keys(S)
BY DEF Put, keys

LEMMA InitIInv == Init => IInv
<1> SUFFICES ASSUME Init PROVE IInv
  OBVIOUS
<1>1. /\ owned = [p \in Planes |-> {}] /\ pc = "idle" /\ plane = "mactweak"
      /\ watch = "first"
  BY DEF Init
<1>2. \A p \in Planes : owned[p] = {}
  BY <1>1
<1>. QED BY <1>1, <1>2 DEF IInv, Typed, Current, Dumped, Unowned, Dead, Seen, Stopped,
                           Reconciling, Planes

-----------------------------------------------------------------------------
(* Open vSwitch and other writers. *)

LEMMA SameAgent ==
  ASSUME IInv, UNCHANGED agentVars, watch' \in {"first", "open", "lost"},
         \A p \in Planes : \A k \in owned[p] \ keys(flows') :
           YetToAdd(k) \/ k \in events' \/ trigger' \/ watch' = "lost" \/ p \in failed
  PROVE  IInv'
<1>1. UNCHANGED <<segs, owned, pc, plane, goal, cur, failed>>
  BY DEF agentVars
<1>2. desired(plane)' = desired(plane) /\ adds' = adds
  BY <1>1, SameDesired, SameAdds
<1>3. \A k : YetToAdd(k)' = YetToAdd(k)
  BY <1>1, <1>2 DEF YetToAdd, keys
<1>4. Typed' /\ Dumped' /\ Unowned' /\ Dead'
  BY <1>1 DEF IInv, Typed, Dumped, Unowned, Dead
<1>5. Current'
  BY <1>1, <1>2 DEF IInv, Current, keys
<1>6. Seen'
  BY <1>1, <1>3 DEF Seen, OnItsWay, keys
<1>. QED BY <1>4, <1>5, <1>6 DEF IInv

LEMMA Environment ==
  ASSUME IInv,
         \/ ChangeIntent \/ \E s \in Segment : MovePort(s)
         \/ \E f \in flows : ForeignDelete(f)
         \/ OvsRestart \/ Downgrade
  PROVE  IInv'
<1>1. UNCHANGED agentVars /\ watch \in {"first", "open", "lost"}
  BY DEF ChangeIntent, MovePort, ForeignDelete, OvsRestart, Downgrade, IInv, Typed
<1>2. CASE trigger'
  BY <1>1, <1>2, SameAgent DEF ChangeIntent, MovePort, ForeignDelete, OvsRestart, Downgrade,
     watchVars
<1>3. CASE (\E s \in Segment : MovePort(s)) \/ Downgrade
  BY <1>1, <1>3, SameAgent DEF MovePort, Downgrade, watchVars, IInv, Seen, OnItsWay
<1>4. CASE OvsRestart
  BY <1>1, <1>4, SameAgent DEF OvsRestart
<1>5. ASSUME NEW f \in flows, ForeignDelete(f) PROVE IInv'
  <2>1. /\ flows' = flows \ {f} /\ watch # "first" /\ UNCHANGED <<watch, trigger>>
        /\ events' = IF watch = "open" THEN events \cup keys({f}) ELSE events
    BY <1>5 DEF ForeignDelete, Notify
  <2>2. \A k : k \in keys(flows) /\ k \notin keys(flows') => k \in keys({f})
    BY <2>1 DEF keys
  <2>3. watch = "open" \/ watch = "lost"
    BY <1>1, <2>1
  <2>4. ASSUME NEW p \in Planes, NEW k \in owned[p] \ keys(flows')
        PROVE  YetToAdd(k) \/ k \in events' \/ trigger' \/ watch' = "lost" \/ p \in failed
    <3>1. CASE k \in keys(flows)
      BY <2>1, <2>2, <2>3, <2>4, <3>1
    <3>2. CASE k \notin keys(flows)
      BY <2>1, <3>2 DEF IInv, Seen, OnItsWay
    <3>. QED BY <3>1, <3>2
  <2>. QED BY <1>1, <2>1, <2>4, SameAgent
<1>6. CASE ChangeIntent
  BY <1>2, <1>6 DEF ChangeIntent
<1>. QED BY <1>3, <1>4, <1>5, <1>6

LEMMA Watching ==
  ASSUME IInv, Subscribe \/ \E k \in events : TakeEvent(k)
  PROVE  IInv'
<1>1. UNCHANGED agentVars /\ UNCHANGED flows
  BY DEF Subscribe, TakeEvent
<1>2. CASE Subscribe
  <2>1. watch' = "open" /\ trigger' = (trigger \/ watch = "lost") /\ UNCHANGED events
    BY <1>2 DEF Subscribe
  <2>. QED BY <1>1, <2>1, SameAgent DEF IInv, Seen, OnItsWay
<1>3. ASSUME NEW e \in events, TakeEvent(e) PROVE IInv'
  <2>1. /\ events' = events \ {e} /\ trigger' = (trigger \/ e \in owned[e.plane])
        /\ UNCHANGED watch
    BY <1>3 DEF TakeEvent
  <2>2. ASSUME NEW p \in Planes, NEW k \in owned[p] \ keys(flows')
        PROVE  YetToAdd(k) \/ k \in events' \/ trigger' \/ watch' = "lost" \/ p \in failed
    <3>1. flows' = flows
      BY <1>1
    <3>2. OnItsWay(p, k) /\ k.plane = p
      BY <2>2, <3>1 DEF IInv, Typed, Seen
    <3>3. CASE k = e
      BY <2>1, <3>2, <3>3
    <3>4. CASE k # e
      BY <2>1, <3>2, <3>4 DEF OnItsWay
    <3>. QED BY <3>3, <3>4
  <2>3. watch' \in {"first", "open", "lost"}
    BY <2>1 DEF IInv, Typed
  <2>. QED BY <1>1, <2>2, <2>3, SameAgent
<1>. QED BY <1>2, <1>3

LEMMA ProcessSteps ==
  ASSUME IInv, Crash \/ Shutdown \/ RemoveOVSFlows \/ Start
  PROVE  IInv'
<1>1. \A p \in Planes : owned'[p] = {}
  <2>1. CASE Crash \/ Shutdown
    BY <2>1 DEF Crash, Shutdown, Fresh
  <2>2. CASE RemoveOVSFlows \/ Start
    BY <2>2 DEF RemoveOVSFlows, Start, IInv, Dead, Stopped
  <2>. QED BY <2>1, <2>2
<1>2. /\ pc' \in {"down", "rm", "idle"} /\ plane' \in Planes
      /\ watch' \in {"first", "open", "lost"} /\ owned' = [p \in Planes |-> owned'[p]]
  BY DEF Crash, Shutdown, Fresh, RemoveOVSFlows, Start, watchVars, IInv, Typed, Planes
<1>3. Typed'
  BY <1>1, <1>2 DEF Typed, Stopped, Reconciling
<1>4. Current' /\ Dumped' /\ Unowned'
  BY <1>2 DEF Current, Dumped, Unowned
<1>5. Dead' /\ Seen'
  BY <1>1 DEF Dead, Seen
<1>. QED BY <1>3, <1>4, <1>5 DEF IInv

-----------------------------------------------------------------------------
(* The reconcile. *)

(* The reasons that no step of the reconcile takes away.                      *)
Otherwise(p, k) == k \in events \/ trigger \/ watch = "lost" \/ p \in failed

LEMMA Begins == ASSUME IInv, BeginCycle PROVE IInv'
<1>1. CASE intent.segs # {}
  <2>1. pc' = "segs" /\ UNCHANGED <<plane, owned, watch>>
    BY <1>1 DEF BeginCycle
  <2>. QED BY <2>1 DEF IInv, Typed, Current, Dumped, Unowned, Dead, Seen, OnItsWay, YetToAdd,
                       Stopped, Reconciling
<1>2. CASE intent.segs = {}
  <2>1. /\ pc' = "own" /\ plane' = "hairpin" /\ UNCHANGED watch
        /\ owned' = [owned EXCEPT !["mactweak"] = {}]
    BY <1>2 DEF BeginCycle
  <2>2. Typed' /\ owned'["mactweak"] = {}
    BY <2>1 DEF IInv, Typed, Stopped, Reconciling, Planes
  <2>3. \A k \in owned'["hairpin"] : YetToAdd(k)'
    BY <2>1, <2>2 DEF Typed, YetToAdd, Planes
  <2>4. Seen'
    BY <2>2, <2>3, PlaneNames DEF Seen, OnItsWay
  <2>. QED BY <2>1, <2>2, <2>4 DEF IInv, Current, Dumped, Unowned, Dead, Stopped
<1>. QED BY <1>1, <1>2

LEMMA Segments == ASSUME IInv, EnsureSegments PROVE IInv'
<1>1. /\ pc' = "own" /\ UNCHANGED <<owned, watch>>
      /\ failed' = IF plane' = "hairpin" THEN failed \cup {"mactweak"} ELSE failed
  BY DEF EnsureSegments, watchVars
<1>2. plane' \in Planes
  BY DEF EnsureSegments, refreshSegmentBindings, Planes
<1>3. Typed'
  BY <1>1, <1>2 DEF IInv, Typed, Stopped, Reconciling
<1>4. Seen'
  <2>1. CASE plane' = "mactweak"
    BY <1>1, <1>3, <2>1, PlaneNames DEF Seen, OnItsWay, YetToAdd, Typed
  <2>2. CASE plane' = "hairpin"
    BY <1>1, <1>3, <2>2, PlaneNames DEF Seen, OnItsWay, YetToAdd, Typed
  <2>. QED BY <1>2, <2>1, <2>2, PlaneNames
<1>. QED BY <1>1, <1>3, <1>4 DEF IInv, Current, Dumped, Unowned, Dead, Stopped

(* At the end of a plane only the other reasons count.                        *)
LEMMA NextSeen ==
  ASSUME IInv, NextPlane, UNCHANGED owned,
         \A p \in Planes : \A k \in owned[p] \ keys(flows') :
           p = plane => Otherwise(p, k)',
         pc # "segs", pc # "idle",
         \A p \in Planes : \A k \in owned[p] \ keys(flows') :
           Otherwise(p, k) => Otherwise(p, k)',
         keys(flows) \ keys(flows') = {}
  PROVE  Seen'
<1> SUFFICES ASSUME NEW p \in Planes, NEW k \in owned[p] \ keys(flows')
             PROVE  OnItsWay(p, k)'
  BY DEF Seen
<1>1. k.plane = p /\ k \notin keys(flows)
  BY DEF IInv, Typed
<1>2. CASE p = plane
  BY <1>2 DEF Otherwise, OnItsWay
<1>3. CASE p # plane /\ plane = "mactweak"
  <2>1. pc' = "own" /\ plane' = "hairpin" /\ p = "hairpin"
    BY <1>3, PlaneNames DEF NextPlane
  <2>. QED BY <1>1, <2>1 DEF OnItsWay, YetToAdd
<1>4. CASE p # plane /\ plane = "hairpin"
  <2>1. ~YetToAdd(k)
    BY <1>1, <1>4 DEF YetToAdd
  <2>2. Otherwise(p, k)
    BY <1>1, <2>1 DEF IInv, Seen, OnItsWay, Otherwise
  <2>. QED BY <2>2 DEF OnItsWay, Otherwise
<1>. QED BY <1>2, <1>3, <1>4, PlaneNames DEF IInv, Typed

LEMMA NextTyped ==
  ASSUME IInv, NextPlane, UNCHANGED <<owned, watch>>
  PROVE  Typed' /\ Current' /\ Dumped' /\ Unowned' /\ Dead'
BY DEF IInv, NextPlane, Typed, Current, Dumped, Unowned, Dead, Stopped, Reconciling, Planes

(* A plane that fails is left to the periodic reconcile.                      *)
LEMMA Fails ==
  ASSUME IInv, PlaneFails, UNCHANGED <<owned, watch, events, trigger>>,
         pc # "segs", pc # "idle", keys(flows) \subseteq keys(flows')
  PROVE  IInv'
<1>1. failed' = failed \cup {plane} /\ NextPlane
  BY DEF PlaneFails
<1>2. Seen'
  BY <1>1, NextSeen DEF Otherwise
<1>. QED BY <1>1, <1>2, NextTyped DEF IInv

LEMMA Publishes == ASSUME IInv, PublishOwned PROVE IInv'
<1>1. /\ pc = "own" /\ failed' = failed \ {plane} /\ plane \in Planes
      /\ UNCHANGED <<flows, segs, goal, cur, watch, events, trigger>>
  BY DEF PublishOwned, watchVars, IInv, Typed
<1>2. CASE plane = "hairpin" /\ Bound = {}
  <2>1. owned' = [owned EXCEPT !["hairpin"] = {}] /\ pc' = "idle" /\ plane' = "mactweak"
    BY <1>2 DEF PublishOwned, NextPlane
  <2>2. owned'["hairpin"] = {} /\ owned'["mactweak"] = owned["mactweak"]
    BY <2>1 DEF IInv, Typed, Planes
  <2>3. Typed'
    BY <1>1, <2>1, <2>2 DEF IInv, Typed, Stopped, Reconciling, Planes
  <2>4. ASSUME NEW k \in owned["mactweak"] \ keys(flows) PROVE OnItsWay("mactweak", k)'
    <3>1. k.plane = "mactweak"
      BY PlaneNames DEF IInv, Typed
    <3>2. ~YetToAdd(k)
      BY <1>1, <1>2, <3>1 DEF YetToAdd
    <3>. QED BY <1>1, <1>2, <3>2, PlaneNames DEF IInv, Seen, OnItsWay
  <2>5. Seen'
    BY <1>1, <2>2, <2>4, PlaneNames DEF Seen, keys
  <2>. QED BY <2>1, <2>3, <2>5 DEF IInv, Current, Dumped, Unowned, Dead, Stopped
<1>3. CASE ~(plane = "hairpin" /\ Bound = {})
  <2>1. /\ owned' = [owned EXCEPT ![plane] = keys(desired(plane))]
        /\ pc' = "dump" /\ UNCHANGED plane
    BY <1>3 DEF PublishOwned
  <2>2. owned'[plane] = keys(desired(plane)) /\ \A p \in Planes \ {plane} : owned'[p] = owned[p]
    BY <1>1, <2>1 DEF IInv, Typed
  <2>3. Typed'
    BY <1>1, <2>1, <2>2, DesiredPlane DEF IInv, Typed, Stopped, Reconciling
  <2>4. desired(plane)' = desired(plane)
    BY <1>1, <2>1, SameDesired
  <2>5. Current'
    BY <2>1, <2>2, <2>4 DEF Current, keys
  <2>6. Seen'
    <3>1. SUFFICES ASSUME NEW p \in Planes, NEW k \in owned'[p] \ keys(flows)
                   PROVE  OnItsWay(p, k)'
      BY <1>1 DEF Seen, keys
    <3>2. k.plane = p
      BY <2>3 DEF Typed
    <3>3. CASE p = plane
      BY <2>1, <3>2, <3>3 DEF OnItsWay, YetToAdd
    <3>4. CASE p # plane /\ plane = "mactweak"
      BY <2>1, <3>2, <3>4, PlaneNames DEF OnItsWay, YetToAdd
    <3>5. CASE p # plane /\ plane = "hairpin"
      <4>1. ~YetToAdd(k) /\ k \in owned[p]
        BY <1>1, <2>2, <3>2, <3>5 DEF YetToAdd
      <4>. QED BY <1>1, <3>5, <4>1 DEF IInv, Seen, OnItsWay
    <3>. QED BY <1>1, <3>3, <3>4, <3>5, PlaneNames
  <2>. QED BY <2>1, <2>3, <2>5, <2>6 DEF IInv, Dumped, Unowned, Dead, Stopped
<1>. QED BY <1>2, <1>3

(* What this reconcile does not touch: the other plane.                       *)
LEMMA OtherPlane ==
  ASSUME IInv, UNCHANGED <<plane, owned, failed, watch, trigger>>,
         events \subseteq events',
         pc \in {"dump", "add", "del"}, pc' \in {"add", "del"},
         NEW p \in Planes, p # plane, NEW k \in owned[p] \ keys(flows)
  PROVE  OnItsWay(p, k)'
<1>1. k.plane = p /\ plane \in Planes /\ OnItsWay(p, k)
  BY DEF IInv, Typed, Seen
<1>2. CASE plane = "mactweak"
  BY <1>1, <1>2, PlaneNames DEF OnItsWay, YetToAdd
<1>3. CASE plane = "hairpin"
  BY <1>1, <1>3, PlaneNames DEF OnItsWay, YetToAdd
<1>. QED BY <1>1, <1>2, <1>3, PlaneNames

LEMMA Dumps == ASSUME IInv, DumpFlows PROVE IInv'
<1>1. /\ pc = "dump" /\ plane \in Planes
      /\ UNCHANGED <<flows, segs, goal, owned, watch, events, trigger>>
  BY DEF DumpFlows, watchVars, IInv, Typed
<1>2. CASE PlaneFails
  BY <1>1, <1>2, Fails DEF keys
<1>3. CASE cur' = PlaneFlows(plane) /\ pc' = "add" /\ UNCHANGED <<plane, failed>>
  <2>1. desired(plane)' = desired(plane)
    BY <1>1, <1>3, SameDesired
  <2>2. adds' = desired(plane) \ PlaneFlows(plane)
    BY <1>3, <2>1 DEF adds
  <2>3. owned[plane] = keys(desired(plane))
    BY <1>1 DEF IInv, Current
  <2>4. \A k \in owned[plane] \ keys(flows) : k \in keys(adds')
    BY <2>2, <2>3 DEF keys, PlaneFlows
  <2>5. Typed' /\ Dumped'
    BY <1>1, <1>3 DEF IInv, Typed, Dumped, PlaneFlows, Reconciling
  <2>6. Current'
    BY <1>1, <1>3, <2>1, <2>3 DEF Current, keys
  <2>7. SUFFICES ASSUME NEW p \in Planes, NEW k \in owned[p] \ keys(flows)
                 PROVE  OnItsWay(p, k)'
    BY <1>1, <1>3, <2>5, <2>6 DEF IInv, Unowned, Dead, Stopped, Seen, keys
  <2>8. CASE p = plane
    <3>1. k.plane = plane /\ k \in keys(adds')
      BY <2>4, <2>8 DEF IInv, Typed
    <3>. QED BY <1>3, <3>1 DEF OnItsWay, YetToAdd, keys
  <2>9. CASE p # plane
    BY <1>1, <1>3, <2>9, OtherPlane
  <2>. QED BY <2>8, <2>9
<1>. QED BY <1>2, <1>3 DEF DumpFlows

(* The plane is complete: what remains in cur is wanted by nobody.            *)
LEMMA Added ==
  ASSUME IInv, pc = "add", pc' = "del", cur' = dels,
         UNCHANGED <<plane, failed, owned, segs, goal, watchVars>>,
         keys(flows) \subseteq keys(flows'), keys(adds) \subseteq keys(flows')
  PROVE  IInv'
<1>1. UNCHANGED <<watch, events, trigger>> /\ plane \in Planes
  BY DEF watchVars, IInv, Typed
<1>2. desired(plane)' = desired(plane) /\ owned[plane] = keys(desired(plane))
  BY SameDesired DEF IInv, Current
<1>3. Typed' /\ Current'
  BY <1>1, <1>2 DEF IInv, Typed, Current, Reconciling, keys
<1>4. Unowned'
  BY <1>2 DEF IInv, Dumped, Unowned, dels
<1>5. ASSUME NEW p \in Planes, NEW k \in owned[p] \ keys(flows')
      PROVE  OnItsWay(p, k)'
  <2>1. k \notin keys(flows) /\ k \notin keys(adds) /\ k.plane = p
    BY DEF IInv, Typed
  <2>2. CASE p = plane
    <3>1. ~YetToAdd(k)
      BY <2>1, <2>2, PlaneNames DEF YetToAdd
    <3>. QED BY <1>1, <2>1, <3>1 DEF IInv, Seen, OnItsWay
  <2>3. CASE p # plane
    BY <1>1, <2>1, <2>3, OtherPlane
  <2>. QED BY <2>2, <2>3
<1>6. Seen'
  BY <1>5 DEF Seen, keys
<1>. QED BY <1>3, <1>4, <1>6 DEF IInv, Dumped, Dead, Stopped

LEMMA Adds == ASSUME IInv, applyFlowAdds PROVE IInv'
<1>1. pc = "add" /\ UNCHANGED <<segs, goal, owned, watchVars>>
  BY DEF applyFlowAdds
<1>2. CASE adds = {}
  <2>1. cur' = dels /\ pc' = "del" /\ UNCHANGED <<flows, plane, failed>>
    BY <1>2 DEF applyFlowAdds
  <2>2. keys(flows) \subseteq keys(flows') /\ keys(adds) \subseteq keys(flows')
    BY <1>2, <2>1 DEF keys
  <2>. QED BY <1>1, <2>1, <2>2, Added
<1>3. CASE AddsLand
  <2>1. /\ cur' = dels /\ pc' = "del" /\ UNCHANGED <<plane, failed>>
        /\ flows' = Put(adds)
    BY <1>3 DEF AddsLand
  <2>2. keys(flows') = keys(flows) \cup keys(adds)
    BY <2>1, PutKeys
  <2>. QED BY <1>1, <2>1, <2>2, Added
<1>4. CASE AddsFail
  <2>1. PlaneFails /\ \E S : flows' = Put(S)
    BY <1>4 DEF AddsFail
  <2>2. keys(flows) \subseteq keys(flows')
    BY <2>1, PutKeys
  <2>3. UNCHANGED <<owned, watch, events, trigger>>
    BY <1>1 DEF watchVars
  <2>. QED BY <1>1, <2>1, <2>2, <2>3, Fails
<1>. QED BY <1>2, <1>3, <1>4 DEF applyFlowAdds

LEMMA Deletes == ASSUME IInv, DeleteStale PROVE IInv'
<1>1. /\ pc = "del" /\ UNCHANGED <<pc, plane, segs, goal, owned, failed, watch, trigger>>
  BY DEF DeleteStale
<1>2. PICK f \in cur :
        /\ cur' = cur \ {f}
        /\ \/ /\ flows' = flows \ {g \in flows : g.key = f.key}
              /\ Notify({g \in flows : g.key = f.key})
           \/ UNCHANGED <<flows, events>>
  BY DEF DeleteStale
<1>3. events \subseteq events' /\ \A k : k # f.key /\ k \in keys(flows) => k \in keys(flows')
  BY <1>2 DEF Notify, keys
<1>4. \A p \in Planes : f.key \notin owned[p]
  BY <1>1 DEF IInv, Typed, Unowned
<1>5. desired(plane)' = desired(plane)
  BY <1>1, SameDesired
<1>6. Typed' /\ Current' /\ Unowned'
  BY <1>1, <1>2, <1>5 DEF IInv, Typed, Current, Unowned, keys
<1>7. ASSUME NEW p \in Planes, NEW k \in owned[p] \ keys(flows')
      PROVE  OnItsWay(p, k)'
  <2>1. k \notin keys(flows) /\ k.plane = p
    BY <1>3, <1>4 DEF IInv, Typed
  <2>2. CASE p = plane
    <3>1. ~YetToAdd(k)
      BY <1>1, <2>1, <2>2, PlaneNames DEF YetToAdd
    <3>. QED BY <1>1, <1>3, <2>1, <3>1 DEF IInv, Seen, OnItsWay
  <2>3. CASE p # plane
    BY <1>1, <1>3, <2>1, <2>3, OtherPlane
  <2>. QED BY <2>2, <2>3
<1>8. Seen'
  BY <1>1, <1>7 DEF Seen, keys
<1>. QED BY <1>1, <1>6, <1>8 DEF IInv, Dumped, Dead, Stopped

LEMMA Ends == ASSUME IInv, EndPlane PROVE IInv'
<1>1. /\ pc = "del" /\ NextPlane
      /\ UNCHANGED <<flows, owned, failed, watch, events, trigger>>
  BY DEF EndPlane, watchVars
<1>2. ASSUME NEW p \in Planes, NEW k \in owned[p] \ keys(flows'), p = plane
      PROVE  Otherwise(p, k)'
  <2>1. k.plane = p /\ k \notin keys(flows)
    BY <1>1 DEF IInv, Typed
  <2>2. ~YetToAdd(k)
    BY <1>1, <1>2, <2>1, PlaneNames DEF YetToAdd
  <2>. QED BY <1>1, <2>1, <2>2 DEF IInv, Seen, OnItsWay, Otherwise
<1>3. Seen'
  BY <1>1, <1>2, NextSeen DEF Otherwise
<1>. QED BY <1>1, <1>3, NextTyped DEF IInv

-----------------------------------------------------------------------------
LEMMA Inductive == ASSUME IInv, [Next]_vars PROVE IInv'
<1>1. CASE UNCHANGED vars
  <2>1. UNCHANGED agentVars /\ UNCHANGED <<flows, watch, events, trigger>>
    BY <1>1 DEF vars, watchVars
  <2>. QED BY <2>1, SameAgent DEF IInv, Typed, Seen, OnItsWay
<1>2. CASE Cycle
  BY <1>2, Begins, Segments, Publishes, Dumps, Adds, Deletes, Ends DEF Cycle
<1>3. CASE Next /\ ~Cycle
  BY <1>3, Environment, Watching, ProcessSteps DEF Next, Process
<1>. QED BY <1>1, <1>2, <1>3

LEMMA Invariance == Spec => []IInv
BY InitIInv, Inductive, PTL DEF Spec

(* An owned flow that is missing comes back without waiting for the periodic  *)
(* reconcile, unless that plane's last one failed: the ownership is published *)
(* before the dump, and a deletion seen against it sets the trigger.          *)
THEOREM OwnedReturns == Spec => []NothingUnseen
<1>1. IInv => NothingUnseen
  BY DEF IInv, Seen, OnItsWay, NothingUnseen
<1>. QED BY <1>1, Invariance, PTL

-----------------------------------------------------------------------------
(* A flow the present reconcile wants survives it. *)

(* What the agent knows of a segment it wants: where routers of an unknown    *)
(* segment are wanted too, no interface of a VLAN fails, or the addresses of  *)
(* that VLAN would take the binding of the unknown.                           *)
IntentsAssumption ==
  \A w \in Intents :
    /\ \A ip \in IP : w.owner[ip] # None => SegOf[ip] \in w.segs
    /\ Unresolved \in w.segs => "vlan" \notin Faults \/ w.segs \cap Vlan = {}

(* Port numbers are never used twice: the highest given so far.               *)
Highest == Cardinality(Segment) + changes

PortsKnown == port \in [Segment -> 0..Highest]
Binding == [patch : Segment, of : 1..Highest, dev : Segment \cup {Bridge}, tagged : BOOLEAN]
BindingsKnown ==
  /\ segs = [s \in Segment |-> segs[s]]
  /\ \A s \in Segment : segs[s] \in Binding \cup {NoBinding}
KnownKeys ==
  [plane : {"mactweak"}, of : 1..Highest, dst : {None}]
  \cup [plane : {"hairpin"}, of : 1..Highest, dst : IP]
KnownFlows == [key : KnownKeys, dev : Segment \cup {Bridge}, router : Router \cup {None}]
OnePerKey(S) == \A f, g \in S : f.key = g.key => f = g
FlowsKnown == flows \subseteq KnownFlows /\ cur \subseteq KnownFlows /\ OnePerKey(flows)

(* A number the agent has not read yet is in no flow and no binding.          *)
Unused(n) ==
  /\ \A f \in flows : f.key.of # n
  /\ \A s \in Segment : segs[s].of # n
ReadOrUnused ==
  \A s \in Segment : segs[s] # NoBinding /\ port[s] # 0 =>
    segs[s].of = port[s] \/ Unused(port[s])

(* No address takes the binding of the unknown instead of its own.            *)
Settled ==
  pc \in {"own", "dump", "add", "del"} =>
    \A s \in goal.segs :
      segs[s] = NoBinding /\ Unresolved \in Segment => segs[Unresolved] = NoBinding

FInv == /\ intent \in Intents /\ goal \in Intents /\ changes \in Nat /\ changes <= MaxChanges
        /\ PortsKnown /\ BindingsKnown /\ FlowsKnown /\ ReadOrUnused

LEMMA SegmentFacts ==
  /\ Cardinality(Segment) \in Nat /\ MaxChanges \in Nat
  /\ FirstPort \in [Segment -> 1..Cardinality(Segment)]
<1>1. IsFiniteSet(Segment) /\ MaxChanges \in Nat
  BY ConstantsAssumption DEF ConstantsAssumption
<1>2. Cardinality(Segment) \in Nat
  BY <1>1, FS_CardinalityType
<1>. DEFINE n == Cardinality(Segment)
<1>3. PICK b \in [1..n -> Segment] : \A s \in Segment : \E k \in 1..n : b[k] = s
  BY <1>1, FS_CardinalityType DEF ExistsBijection, Bijection, Injection, Surjection, IsInjective
<1>4. DEFINE num == [s \in Segment |-> CHOOSE k \in 1..n : b[k] = s]
<1>5. \A s \in Segment : num[s] \in 1..n /\ b[num[s]] = s
  BY <1>3
<1>6. num \in [Segment -> 1..n] /\ \A s, t \in Segment : num[s] = num[t] => s = t
  BY <1>5
<1>7. \E f \in [Segment -> 1..n] : \A s, t \in Segment : f[s] = f[t] => s = t
  BY <1>6
<1>. QED BY <1>1, <1>2, <1>7 DEF FirstPort

LEMMA HighestNat == ASSUME changes \in Nat PROVE Highest \in Nat
BY SegmentFacts DEF Highest

(* NoBinding is told from every binding by its port.                          *)
LEMMA Bindings ==
  ASSUME FInv, NEW s \in Segment
  PROVE  /\ segs[s] \in Binding \/ segs[s] = NoBinding
         /\ segs[s] # NoBinding => segs[s] \in Binding /\ segs[s].of # 0
         /\ s \in Bound <=> segs[s] # NoBinding
BY HighestNat DEF FInv, BindingsKnown, Binding, Bound

LEMMA GoalTypes ==
  ASSUME FInv
  PROVE  goal.segs \in SUBSET Segment /\ goal.owner \in [IP -> Router \cup {None}]
BY ConstantsAssumption DEF ConstantsAssumption, FInv

LEMMA HairpinBinding ==
  ASSUME FInv, NEW ip \in IP, segmentBindingFor(SegOf[ip]) # NoBinding
  PROVE  \E s \in Segment : segs[s] # NoBinding /\ segmentBindingFor(SegOf[ip]) = segs[s]
BY ConstantsAssumption DEF ConstantsAssumption, segmentBindingFor

LEMMA DesiredKnown ==
  ASSUME FInv, NEW p \in Planes
  PROVE  /\ desired(p) \subseteq KnownFlows
         /\ OnePerKey(desired(p))
         /\ \A f \in desired(p) : \E s \in Segment : segs[s] # NoBinding /\ f.key.of = segs[s].of
<1>1. CASE p = "mactweak"
  <2>1. desired(p) = desiredMACTweakFlows
    BY <1>1 DEF desired
  <2>2. ASSUME NEW f \in desired(p)
        PROVE  \E s \in Bound :
                 /\ f.key = [plane |-> "mactweak", of |-> segs[s].of, dst |-> None]
                 /\ f = [key |-> f.key, dev |-> segs[s].dev, router |-> None]
    <3>1. PICK t \in Bound : LET n == segs[t].of
                                 b == segs[CHOOSE s \in Bound : segs[s].of = n]
             IN  f = [key |-> [plane |-> "mactweak", of |-> n, dst |-> None], dev |-> b.dev,
                      router |-> None]
      BY <2>1 DEF desiredMACTweakFlows
    <3>2. f.key.of = segs[t].of
      BY <3>1
    <3>. DEFINE s == CHOOSE u \in Bound : segs[u].of = f.key.of
    <3>3. s \in Bound /\ segs[s].of = f.key.of
      BY <3>2
    <3>. QED BY <3>1, <3>2, <3>3
  <2>3. ASSUME NEW f \in desired(p)
        PROVE  /\ f \in KnownFlows
               /\ \E s \in Segment : segs[s] # NoBinding /\ f.key.of = segs[s].of
    <3>1. PICK s \in Bound :
            /\ f.key = [plane |-> "mactweak", of |-> segs[s].of, dst |-> None]
            /\ f = [key |-> f.key, dev |-> segs[s].dev, router |-> None]
      BY <2>2
    <3>2. s \in Segment /\ segs[s] # NoBinding /\ segs[s] \in Binding
      BY Bindings DEF Bound
    <3>. QED BY <3>1, <3>2 DEF Binding, KnownFlows, KnownKeys
  <2>4. ASSUME NEW f \in desired(p), NEW g \in desired(p), f.key = g.key PROVE f = g
    <3>. DEFINE Flow(n) ==
           LET b == segs[CHOOSE s \in Bound : segs[s].of = n]
           IN  [key |-> [plane |-> "mactweak", of |-> n, dst |-> None], dev |-> b.dev,
                router |-> None]
    <3>1. desired(p) = {Flow(n) : n \in {segs[s].of : s \in Bound}}
      BY <2>1 DEF desiredMACTweakFlows
    <3>. HIDE DEF Flow
    <3>2. PICK m, n : f = Flow(m) /\ g = Flow(n)
      BY <3>1
    <3>. USE DEF Flow
    <3>3. f.key.of = m /\ g.key.of = n
      BY <3>2
    <3>. QED BY <2>4, <3>2, <3>3
  <2>. QED BY <2>3, <2>4 DEF OnePerKey
<1>2. CASE p = "hairpin"
  <2>1. desired(p) = desiredHairpinFlows
    BY <1>2, PlaneNames DEF desired
  <2>2. ASSUME NEW f \in desired(p)
        PROVE  \E ip \in IP : \E s \in Segment :
                 /\ segs[s] # NoBinding /\ segmentBindingFor(SegOf[ip]) = segs[s]
                 /\ f.key = [plane |-> "hairpin", of |-> segs[s].of, dst |-> ip]
                 /\ f = [key |-> f.key, dev |-> segmentBindingFor(SegOf[ip]).dev,
                         router |-> goal.owner[ip]]
    <3>1. PICK ip \in IP :
            /\ segmentBindingFor(SegOf[ip]) # NoBinding
            /\ LET b == segmentBindingFor(SegOf[ip])
               IN  f = [key |-> [plane |-> "hairpin", of |-> b.of, dst |-> ip], dev |-> b.dev,
                        router |-> goal.owner[ip]]
      BY <2>1 DEF desiredHairpinFlows
    <3>. QED BY <3>1, HairpinBinding
  <2>3. ASSUME NEW f \in desired(p)
        PROVE  /\ f \in KnownFlows
               /\ \E s \in Segment : segs[s] # NoBinding /\ f.key.of = segs[s].of
    <3>1. PICK ip \in IP, s \in Segment :
             /\ segs[s] # NoBinding /\ segmentBindingFor(SegOf[ip]) = segs[s]
             /\ f.key = [plane |-> "hairpin", of |-> segs[s].of, dst |-> ip]
             /\ f = [key |-> f.key, dev |-> segs[s].dev, router |-> goal.owner[ip]]
      BY <2>2
    <3>2. segs[s] \in Binding /\ goal.owner[ip] \in Router \cup {None}
      BY <3>1, Bindings, GoalTypes
    <3>. QED BY <3>1, <3>2 DEF Binding, KnownFlows, KnownKeys
  <2>4. ASSUME NEW f \in desired(p), NEW g \in desired(p), f.key = g.key PROVE f = g
    <3>. DEFINE Flow(ip) ==
           LET b == segmentBindingFor(SegOf[ip])
           IN  [key |-> [plane |-> "hairpin", of |-> b.of, dst |-> ip], dev |-> b.dev,
                router |-> goal.owner[ip]]
    <3>1. PICK a \in IP, b \in IP : f = Flow(a) /\ g = Flow(b)
      BY <2>1 DEF desiredHairpinFlows
    <3>2. f.key.dst = a /\ g.key.dst = b
      BY <3>1
    <3>. QED BY <2>4, <3>1, <3>2
  <2>. QED BY <2>3, <2>4 DEF OnePerKey
<1>. QED BY <1>1, <1>2, PlaneNames

LEMMA HigherKnown ==
  ASSUME changes \in Nat, changes' \in Nat, changes <= changes'
  PROVE  KnownFlows \subseteq KnownFlows' /\ Binding \subseteq Binding' /\ Highest <= Highest'
<1>1. Highest \in Nat /\ Highest' \in Nat /\ Highest <= Highest'
  BY SegmentFacts DEF Highest
<1>2. 1..Highest \subseteq 1..Highest'
  BY <1>1
<1>3. KnownKeys \subseteq KnownKeys'
  BY <1>2 DEF KnownKeys
<1>. QED BY <1>1, <1>2, <1>3 DEF KnownFlows, Binding

(* Steps that read no port and install no flow.                               *)
LEMMA KeptKnown ==
  ASSUME FInv, port' = port, segs' = segs \/ segs' = Unbound,
         flows' \subseteq flows, cur' \subseteq flows \cup cur,
         intent' \in Intents, goal' \in Intents,
         changes' \in Nat, changes <= changes', changes' <= MaxChanges
  PROVE  FInv'
<1>1. /\ KnownFlows \subseteq KnownFlows' /\ Binding \subseteq Binding'
      /\ Highest <= Highest' /\ Highest \in Nat /\ Highest' \in Nat
  BY HigherKnown, SegmentFacts DEF FInv, Highest
<1>2. PortsKnown'
  BY <1>1 DEF FInv, PortsKnown
<1>3. BindingsKnown'
  BY <1>1 DEF FInv, BindingsKnown, Unbound
<1>4. FlowsKnown'
  BY <1>1 DEF FInv, FlowsKnown, OnePerKey
<1>5. ReadOrUnused'
  <2>1. CASE segs' = segs
    BY <2>1 DEF FInv, ReadOrUnused, Unused
  <2>2. CASE segs' = Unbound
    BY <2>2 DEF ReadOrUnused, Unbound
  <2>. QED BY <2>1, <2>2
<1>. QED BY <1>2, <1>3, <1>4, <1>5 DEF FInv

LEMMA MovedKnown == ASSUME FInv, NEW s \in Segment, MovePort(s) PROVE FInv'
<1>1. /\ changes' = changes + 1 /\ changes < MaxChanges
      /\ UNCHANGED <<intent, flows, segs, goal, cur>>
      /\ \/ port' = [port EXCEPT ![s] = Cardinality(Segment) + changes']
         \/ port' = [port EXCEPT ![s] = 0]
  BY DEF MovePort, Change, agentVars
<1>2. /\ KnownFlows \subseteq KnownFlows' /\ Binding \subseteq Binding'
      /\ Highest \in Nat /\ Highest' = Highest + 1 /\ changes' \in Nat /\ changes' <= MaxChanges
  BY <1>1, HigherKnown, SegmentFacts DEF FInv, Highest
<1>3. port' = [port EXCEPT ![s] = Highest'] \/ port' = [port EXCEPT ![s] = 0]
  BY <1>1 DEF Highest
<1>4. PortsKnown'
  BY <1>2, <1>3 DEF FInv, PortsKnown
<1>5. BindingsKnown' /\ FlowsKnown'
  BY <1>1, <1>2 DEF FInv, BindingsKnown, FlowsKnown, OnePerKey
<1>6. /\ \A f \in flows : f.key.of # Highest'
      /\ \A t \in Segment : segs[t].of # Highest'
  <2>1. \A f \in flows : f.key.of \in 1..Highest
    BY DEF FInv, FlowsKnown, KnownFlows, KnownKeys
  <2>2. \A t \in Segment : segs[t].of \in 0..Highest
    BY <1>2 DEF FInv, BindingsKnown, Binding, NoBinding
  <2>. QED BY <1>2, <2>1, <2>2
<1>7. ASSUME NEW t \in Segment, segs[t] # NoBinding, port'[t] # 0
      PROVE  \/ segs[t].of = port'[t]
             \/ /\ \A f \in flows : f.key.of # port'[t]
                /\ \A u \in Segment : segs[u].of # port'[t]
  <2>1. CASE port'[t] = port[t]
    BY <1>7, <2>1 DEF FInv, ReadOrUnused, Unused
  <2>2. CASE port'[t] = Highest'
    BY <1>6, <2>2
  <2>3. port'[t] \in {port[t], Highest', 0}
    BY <1>3 DEF FInv, PortsKnown
  <2>. QED BY <1>7, <2>1, <2>2, <2>3
<1>8. ReadOrUnused'
  BY <1>1, <1>7 DEF ReadOrUnused, Unused
<1>. QED BY <1>1, <1>2, <1>4, <1>5, <1>8 DEF FInv

(* EnsureSegments keeps all bindings, drops them, or reads every port.        *)
LEMMA Reads ==
  ASSUME FInv, EnsureSegments
  PROVE  \/ segs' = segs /\ segmentsCurrent(goal.segs)
         \/ segs' = Unbound
         \/ /\ NeedsFallback(goal.segs) => PatchPorts # {}
            /\ \/ segs' = Discover(goal.segs, {})
               \/ \E v \in goal.segs \cap Vlan :
                    segs' = Discover(goal.segs, {v}) /\ "vlan" \in Faults
<1>1. refreshSegmentBindings(goal.segs)
  BY DEF EnsureSegments
<1>2. CASE segmentsCurrent(goal.segs)
  BY <1>1, <1>2 DEF refreshSegmentBindings
<1>3. CASE ~segmentsCurrent(goal.segs)
  BY <1>1, <1>3 DEF refreshSegmentBindings, Fault
<1>. QED BY <1>2, <1>3

LEMMA DiscoveredKnown ==
  ASSUME FInv, NEW S \in SUBSET Segment, NEW N, NeedsFallback(S) => PatchPorts # {},
         NEW s \in Segment
  PROVE  /\ Discover(S, N)[s] \in Binding \cup {NoBinding}
         /\ port[s] # 0 /\ Discover(S, N)[s] # NoBinding => Discover(S, N)[s].of = port[s]
<1>1. Highest \in Nat /\ port[s] \in 0..Highest
  BY HighestNat DEF FInv, PortsKnown
<1>2. Discover(S, N)[s] =
        IF s \notin S THEN NoBinding
        ELSE IF s \notin PatchPorts THEN fallbackBinding
        ELSE IF s \in N THEN NoBinding ELSE OwnBinding(s)
  BY DEF Discover
<1>3. CASE s \in PatchPorts
  <2>1. OwnBinding(s) \in Binding /\ OwnBinding(s).of = port[s]
    BY <1>1, <1>3 DEF OwnBinding, Binding, PatchPorts
  <2>. QED BY <1>2, <1>3, <2>1
<1>4. CASE s \in S /\ s \notin PatchPorts
  <2>1. PatchPorts # {}
    BY <1>4 DEF NeedsFallback
  <2>2. fallbackBinding \in Binding
    BY <1>1, <2>1 DEF fallbackBinding, Binding, PatchPorts, FInv, PortsKnown
  <2>. QED BY <1>2, <1>4, <2>2 DEF PatchPorts
<1>. QED BY <1>2, <1>3, <1>4 DEF PatchPorts

LEMMA SegmentsKnown == ASSUME FInv, EnsureSegments PROVE FInv'
<1>1. UNCHANGED <<intent, goal, port, flows, cur, changes>>
  BY DEF EnsureSegments, bridgeVars
<1>2. CASE segs' = segs \/ segs' = Unbound
  BY <1>1, <1>2, KeptKnown DEF FInv
<1>3. ASSUME NEW N, NeedsFallback(goal.segs) => PatchPorts # {},
             segs' = Discover(goal.segs, N)
      PROVE  FInv'
  <2>1. goal.segs \in SUBSET Segment
    BY GoalTypes
  <2>2. \A s \in Segment :
          /\ segs'[s] \in Binding \cup {NoBinding}
          /\ port[s] # 0 /\ segs'[s] # NoBinding => segs'[s].of = port[s]
    BY <1>3, <2>1, DiscoveredKnown
  <2>3. segs' = [s \in Segment |-> segs'[s]] /\ Binding' = Binding
    BY <1>1, <1>3 DEF Discover, Binding, Highest
  <2>. QED BY <1>1, <2>2, <2>3 DEF FInv, PortsKnown, BindingsKnown, FlowsKnown, OnePerKey,
         ReadOrUnused, Highest, KnownFlows, KnownKeys
<1>. QED BY <1>2, <1>3, Reads

LEMMA InstallsKnown ==
  ASSUME FInv, plane \in Planes, NEW S \in SUBSET desired(plane), flows' = Put(S),
         cur' \subseteq cur, UNCHANGED <<intent, goal, port, segs, changes>>
  PROVE  FInv'
<1>1. /\ desired(plane) \subseteq KnownFlows /\ OnePerKey(desired(plane))
      /\ \A f \in desired(plane) : \E s \in Segment : f.key.of = segs[s].of
  BY DesiredKnown
<1>2. flows' \subseteq flows \cup S /\ OnePerKey(flows')
  BY <1>1 DEF Put, keys, OnePerKey, FInv, FlowsKnown
<1>3. FlowsKnown'
  BY <1>1, <1>2 DEF FInv, FlowsKnown, KnownFlows, KnownKeys, Highest, OnePerKey
<1>4. \A n : Unused(n) => Unused(n)'
  BY <1>1, <1>2 DEF Unused
<1>. QED BY <1>3, <1>4 DEF FInv, PortsKnown, BindingsKnown, Binding, Highest, ReadOrUnused

LEMMA InitKnown == Init => FInv /\ (pc = "idle")
<1> SUFFICES ASSUME Init PROVE FInv
  BY DEF Init
<1>1. /\ intent \in Intents /\ goal \in Intents /\ changes = 0
      /\ flows = {} /\ cur = {} /\ segs = Unbound
  BY DEF Init
<1>2. Highest = Cardinality(Segment) /\ Highest \in Nat
  BY <1>1, SegmentFacts DEF Highest
<1>3. PortsKnown
  BY <1>2, SegmentFacts DEF Init, PortsKnown
<1>. QED BY <1>1, <1>3, SegmentFacts DEF FInv, BindingsKnown, FlowsKnown, OnePerKey, ReadOrUnused,
       Unbound

LEMMA KnownInductive == ASSUME IInv, FInv, [Next]_vars PROVE FInv'
<1>1. plane \in Planes
  BY DEF IInv, Typed
<1>2. CASE UNCHANGED vars
  BY <1>2, KeptKnown DEF vars, bridgeVars, agentVars, boundVars, FInv
<1>3. CASE \E s \in Segment : MovePort(s)
  BY <1>3, MovedKnown
<1>4. CASE EnsureSegments
  BY <1>4, SegmentsKnown
<1>5. CASE applyFlowAdds
  <2>1. UNCHANGED <<intent, goal, port, segs, changes>>
    BY <1>5 DEF applyFlowAdds, bridgeVars
  <2>2. /\ cur' \subseteq cur
        /\ \/ flows' = flows
           \/ \E S \in SUBSET adds : flows' = Put(S)
    BY <1>5 DEF applyFlowAdds, AddsLand, AddsFail, PlaneFails, dels
  <2>3. adds \subseteq desired(plane)
    BY DEF adds
  <2>4. CASE flows' = flows
    BY <2>1, <2>2, <2>4, KeptKnown DEF FInv
  <2>5. CASE \E S \in SUBSET adds : flows' = Put(S)
    BY <1>1, <2>1, <2>2, <2>3, <2>5, InstallsKnown
  <2>. QED BY <2>2, <2>4, <2>5
<1>6. ASSUME \/ ChangeIntent \/ \E f \in flows : ForeignDelete(f)
             \/ OvsRestart \/ Downgrade \/ Crash \/ Shutdown \/ Process
             \/ BeginCycle \/ PublishOwned \/ DumpFlows \/ DeleteStale \/ EndPlane
             \/ Subscribe \/ \E k \in events : TakeEvent(k)
      PROVE  FInv'
  <2>1. port' = port /\ (segs' = segs \/ segs' = Unbound)
    BY <1>6 DEF ChangeIntent, ForeignDelete, OvsRestart, Downgrade, Crash, Shutdown, Fresh, Process,
      Start, RemoveOVSFlows, BeginCycle, PublishOwned, DumpFlows, DeleteStale, EndPlane, Subscribe,
      TakeEvent, bridgeVars, agentVars
  <2>2. flows' \subseteq flows /\ cur' \subseteq flows \cup cur
    BY <1>6 DEF ChangeIntent, ForeignDelete, OvsRestart, Downgrade, Crash, Shutdown, Fresh, Process,
      Start, RemoveOVSFlows, BeginCycle, PublishOwned, DumpFlows, DeleteStale, EndPlane, Subscribe,
      TakeEvent, bridgeVars, agentVars, PlaneFails, PlaneFlows
  <2>3. intent' \in Intents /\ goal' \in Intents
    BY <1>6 DEF ChangeIntent, ForeignDelete, OvsRestart, Downgrade, Crash, Shutdown, Process,
      Start, RemoveOVSFlows, BeginCycle, PublishOwned, DumpFlows, DeleteStale, EndPlane, Subscribe,
      TakeEvent, agentVars, FInv
  <2>4. changes' = changes \/ Change
    BY <1>6 DEF ChangeIntent, ForeignDelete, OvsRestart, Downgrade, Crash, Shutdown, Process,
      Start, RemoveOVSFlows, BeginCycle, PublishOwned, DumpFlows, DeleteStale, EndPlane, Subscribe,
      TakeEvent, boundVars
  <2>5. changes' \in Nat /\ changes <= changes' /\ changes' <= MaxChanges
    BY <2>4, SegmentFacts DEF FInv, Change
  <2>. QED BY <2>1, <2>2, <2>3, <2>5, KeptKnown
<1>. QED BY <1>2, <1>3, <1>4, <1>5, <1>6 DEF Next, Cycle

LEMMA SettledInductive ==
  ASSUME IntentsAssumption, IInv, FInv, Settled, [Next]_vars
  PROVE  Settled'
<1>1. CASE EnsureSegments
  <2>1. goal' = goal /\ goal.segs \in SUBSET Segment /\ goal \in Intents
    BY <1>1, GoalTypes DEF EnsureSegments, FInv
  <2>2. CASE segs' = segs /\ segmentsCurrent(goal.segs)
    BY <2>1, <2>2 DEF segmentsCurrent, Bound, Settled
  <2>3. CASE segs' = Unbound
    BY <2>1, <2>3 DEF Unbound, Settled
  <2>4. CASE /\ segs' = Discover(goal.segs, {})
             /\ NeedsFallback(goal.segs) => PatchPorts # {}
    <3>1. ASSUME NEW s \in goal.segs PROVE segs'[s] # NoBinding
      <4>1. s \in Segment /\ port[s] \in Nat
        BY <2>1, HighestNat DEF FInv, PortsKnown
      <4>2. CASE s \in PatchPorts
        BY <2>4, <4>1, <4>2 DEF Discover, OwnBinding, NoBinding, PatchPorts
      <4>3. CASE s \notin PatchPorts
        <5>1. PatchPorts # {}
          BY <2>4, <4>3 DEF NeedsFallback
        <5>2. fallbackBinding.of # 0
          BY <5>1 DEF fallbackBinding, PatchPorts
        <5>3. segs'[s] = fallbackBinding
          BY <2>4, <4>1, <4>3 DEF Discover
        <5>. QED BY <5>2, <5>3 DEF NoBinding
      <4>. QED BY <4>2, <4>3
    <3>. QED BY <2>1, <3>1 DEF Settled
  <2>5. ASSUME NEW v \in goal.segs \cap Vlan, segs' = Discover(goal.segs, {v}), "vlan" \in Faults
        PROVE  Settled'
    <3>1. Unresolved \notin goal.segs
      BY <2>1, <2>5 DEF IntentsAssumption
    <3>2. Unresolved \in Segment => segs'[Unresolved] = NoBinding
      BY <2>5, <3>1 DEF Discover
    <3>. QED BY <3>2 DEF Settled
  <2>. QED BY <1>1, <2>2, <2>3, <2>4, <2>5, Reads
<1>2. CASE BeginCycle
  <2>1. intent.segs # {} => pc' = "segs"
    BY <1>2 DEF BeginCycle
  <2>2. intent.segs = {} => goal'.segs = {}
    BY <1>2 DEF BeginCycle
  <2>. QED BY <2>1, <2>2 DEF Settled
<1>3. CASE Crash \/ Shutdown \/ Process
  <2>1. pc' \in {"down", "rm", "idle"}
    BY <1>3 DEF Crash, Shutdown, Fresh, Process, Start, RemoveOVSFlows
  <2>. QED BY <2>1 DEF Settled
<1>4. ASSUME \/ UNCHANGED vars
             \/ ChangeIntent \/ \E s \in Segment : MovePort(s)
             \/ \E f \in flows : ForeignDelete(f)
             \/ OvsRestart \/ Downgrade
             \/ PublishOwned \/ DumpFlows \/ applyFlowAdds \/ DeleteStale \/ EndPlane
             \/ Subscribe \/ \E k \in events : TakeEvent(k)
      PROVE  Settled'
  <2>1. UNCHANGED <<segs, goal>>
    BY <1>4 DEF vars, ChangeIntent, MovePort, ForeignDelete, OvsRestart, Downgrade, agentVars,
      PublishOwned, DumpFlows, applyFlowAdds, DeleteStale, EndPlane, Subscribe, TakeEvent
  <2>2. pc' = pc \/ pc \in {"own", "dump", "add", "del"}
    BY <1>4 DEF vars, ChangeIntent, MovePort, ForeignDelete, OvsRestart, Downgrade, agentVars,
      PublishOwned, DumpFlows, applyFlowAdds, DeleteStale, EndPlane, Subscribe, TakeEvent
  <2>. QED BY <2>1, <2>2 DEF Settled
<1>. QED BY <1>1, <1>2, <1>3, <1>4 DEF Next, Cycle

(* The binding of an address that is wanted and bound is the one of its port, *)
(* unless the port is one the agent has not read.                             *)
LEMMA OwnPort ==
  ASSUME IntentsAssumption, FInv, Settled, pc \in {"add", "del"}, NEW ip \in IP,
         goal.owner[ip] # None, segmentBindingFor(SegOf[ip]) # NoBinding,
         NEW f \in flows, f.key.of = port[SegOf[ip]]
  PROVE  segmentBindingFor(SegOf[ip]).of = port[SegOf[ip]]
<1>1. SegOf[ip] \in goal.segs /\ SegOf[ip] \in Segment
  BY GoalTypes DEF IntentsAssumption, FInv
<1>2. segs[SegOf[ip]] # NoBinding
  BY <1>1 DEF Settled, segmentBindingFor
<1>3. f.key.of # 0
  BY HighestNat DEF FInv, FlowsKnown, KnownFlows, KnownKeys
<1>. QED BY <1>1, <1>2, <1>3 DEF FInv, ReadOrUnused, Unused, segmentBindingFor

LEMMA StillServed ==
  ASSUME IntentsAssumption, IInv, FInv, Settled, applyFlowAdds \/ DeleteStale,
         NEW ip \in IP, NEW f \in flows, goal.owner[ip] # None,
         Serves(f, ip, goal.owner[ip]), segmentBindingFor(SegOf[ip]) # NoBinding
  PROVE  \E g \in flows' : Serves(g, ip, goal.owner[ip])
<1>. DEFINE b == segmentBindingFor(SegOf[ip])
            want == [key |-> [plane |-> "hairpin", of |-> b.of, dst |-> ip], dev |-> b.dev,
                     router |-> goal.owner[ip]]
<1>1. f.key.dst = ip /\ f.key.of = port[SegOf[ip]] /\ f.router = goal.owner[ip]
  BY DEF Serves
<1>2. b.of = f.key.of
  BY <1>1, OwnPort DEF applyFlowAdds, DeleteStale
<1>3. f.key = [plane |-> "hairpin", of |-> b.of, dst |-> ip]
  BY <1>1, <1>2, ConstantsAssumption DEF ConstantsAssumption, FInv, FlowsKnown, KnownFlows, KnownKeys
<1>4. want \in desiredHairpinFlows /\ want.key = f.key
  BY <1>3 DEF desiredHairpinFlows
<1>5. CASE applyFlowAdds
  <2>1. flows' = flows \/ \E S \in SUBSET adds : flows' = Put(S)
    BY <1>5 DEF applyFlowAdds, AddsLand, AddsFail
  <2>2. ASSUME NEW S \in SUBSET adds, flows' = Put(S), f \notin flows'
        PROVE  want \in flows'
    <3>1. PICK g \in S : g.key = f.key
      BY <2>2 DEF Put, keys
    <3>2. g \in desired(plane) /\ plane \in Planes
      BY DEF adds, IInv, Typed
    <3>3. plane = "hairpin"
      BY <1>3, <3>1, <3>2, DesiredPlane DEF keys
    <3>4. desired(plane) = desiredHairpinFlows
      BY <3>3, PlaneNames DEF desired
    <3>5. g = want
      BY <1>4, <3>1, <3>2, <3>4, DesiredKnown DEF OnePerKey
    <3>. QED BY <2>2, <3>5 DEF Put
  <2>. QED BY <1>1, <1>2, <2>1, <2>2 DEF Serves
<1>6. CASE DeleteStale
  <2>1. PICK h \in cur : flows' = flows \ {g \in flows : g.key = h.key} \/ flows' = flows
    BY <1>6 DEF DeleteStale
  <2>2. f.key # h.key
    <3>1. h.key.plane = plane /\ h.key \notin keys(desired(plane))
      BY <1>6 DEF DeleteStale, IInv, Unowned, Current
    <3>2. CASE h.key.plane = "hairpin"
      BY <1>4, <3>1, <3>2, PlaneNames DEF desired, keys
    <3>. QED BY <1>3, <3>1, <3>2
  <2>. QED BY <1>1, <2>1, <2>2 DEF Serves
<1>. QED BY <1>5, <1>6

(* A reconcile never interrupts a hairpin it wants, whatever fails and        *)
(* whatever OVN and Open vSwitch do between its steps (reconcileFlowPlane):   *)
(* where a router of an unknown segment is wanted too, as long as no VLAN     *)
(* interface fails.                                                           *)
THEOREM HairpinsStay ==
  ASSUME IntentsAssumption
  PROVE  Spec => NeverBlanked
<1>1. Init => FInv /\ Settled
  BY InitKnown DEF Settled
<1>2. IInv /\ FInv /\ Settled /\ [Next]_vars => FInv' /\ Settled'
  BY KnownInductive, SettledInductive
<1>3. IInv /\ FInv /\ Settled /\ [Next]_vars =>
        [Agent => \A ip \in IP : \A f \in flows :
           /\ goal.owner[ip] # None /\ Serves(f, ip, goal.owner[ip])
           /\ segmentBindingFor(SegOf[ip]) # NoBinding
           => \E g \in flows' : Serves(g, ip, goal.owner[ip])]_vars
  <2>. SUFFICES ASSUME IInv, FInv, Settled, Agent
                PROVE  applyFlowAdds \/ DeleteStale
    BY StillServed
  <2>. QED BY DEF Agent, Cycle, BeginCycle, EnsureSegments, PublishOwned, DumpFlows, EndPlane
<1>. QED BY <1>1, <1>2, <1>3, Invariance, PTL DEF Spec, NeverBlanked

-----------------------------------------------------------------------------
(* The types of the rest of the state. *)

RestTyped ==
  /\ ofctl \in [stdin : BOOLEAN, bundle : BOOLEAN]
  /\ bundleOK \in BOOLEAN /\ trigger \in BOOLEAN
  /\ owned \in [Planes -> SUBSET Keys]
  /\ failed \in SUBSET Planes
  /\ events \in SUBSET Keys
  /\ faults \in 0..MaxFaults

LEMMA KnownTypes ==
  ASSUME FInv
  PROVE  /\ port \in [Segment -> Ports]
         /\ KnownFlows \subseteq Flows /\ KnownKeys \subseteq Keys
         /\ segs \in [Segment -> [patch : Segment \cup {None}, of : Ports,
                                  dev : Segment \cup {Bridge, None}, tagged : BOOLEAN]]
<1>1. 0..Highest \subseteq Ports /\ 0 \in Ports
  BY SegmentFacts DEF FInv, Highest, Ports
<1>2. 1..Highest \subseteq Ports
  BY <1>1, HighestNat DEF FInv
<1>3. KnownKeys \subseteq Keys
  BY <1>2 DEF KnownKeys, Keys, Planes
<1>4. KnownFlows \subseteq Flows
  BY <1>3 DEF KnownFlows, Flows
<1>5. \A s \in Segment : segs[s] \in [patch : Segment \cup {None}, of : Ports,
                                      dev : Segment \cup {Bridge, None}, tagged : BOOLEAN]
  <2>. SUFFICES ASSUME NEW s \in Segment
                PROVE  segs[s] \in [patch : Segment \cup {None}, of : Ports,
                                   dev : Segment \cup {Bridge, None}, tagged : BOOLEAN]
    OBVIOUS
  <2>1. CASE segs[s] = NoBinding
    BY <1>1, <2>1 DEF NoBinding
  <2>2. CASE segs[s] \in Binding
    BY <1>2, <2>2 DEF Binding
  <2>. QED BY <2>1, <2>2, Bindings
<1>. QED BY <1>1, <1>3, <1>4, <1>5 DEF FInv, PortsKnown, BindingsKnown

LEMMA KeysTyped == ASSUME FInv, NEW S \in SUBSET KnownFlows PROVE keys(S) \subseteq Keys
BY KnownTypes DEF keys, KnownFlows

LEMMA RestInductive == ASSUME IInv, FInv, RestTyped, [Next]_vars PROVE RestTyped'
<1>1. plane \in Planes /\ flows \subseteq KnownFlows /\ MaxFaults \in Nat
  BY ConstantsAssumption DEF ConstantsAssumption, IInv, Typed, FInv, FlowsKnown
<1>2. faults' \in 0..MaxFaults
  <2>1. faults' = faults \/ (faults < MaxFaults /\ faults' = faults + 1)
    BY DEF Next, ChangeIntent, MovePort, ForeignDelete, OvsRestart, Downgrade, Crash, Shutdown,
      Process, Start, RemoveOVSFlows, Cycle, BeginCycle, EnsureSegments, refreshSegmentBindings,
      PublishOwned, DumpFlows, applyFlowAdds, AddsLand, AddsFail, DeleteStale, EndPlane, Subscribe,
      TakeEvent, Fault, NoFault, boundVars, vars
  <2>. QED BY <1>1, <2>1 DEF RestTyped
<1>3. ofctl' \in [stdin : BOOLEAN, bundle : BOOLEAN]
  <2>1. ofctl' = ofctl \/ ofctl' = [ofctl EXCEPT !.bundle = FALSE]
    BY DEF Next, ChangeIntent, MovePort, ForeignDelete, OvsRestart, Downgrade, Crash, Shutdown,
      Process, Start, RemoveOVSFlows, Cycle, BeginCycle, EnsureSegments, PublishOwned, DumpFlows,
      applyFlowAdds, DeleteStale, EndPlane, Subscribe, TakeEvent, bridgeVars, vars
  <2>. QED BY <2>1 DEF RestTyped
<1>4. bundleOK' \in BOOLEAN
  BY DEF Next, ChangeIntent, MovePort, ForeignDelete, OvsRestart, Downgrade, Crash, Shutdown, Fresh,
    Process, Start, RemoveOVSFlows, Cycle, BeginCycle, EnsureSegments, PublishOwned, DumpFlows,
    applyFlowAdds, AddsLand, AddsFail, bundled, DeleteStale, EndPlane, Subscribe, TakeEvent,
    agentVars, vars, RestTyped
<1>5. trigger' \in BOOLEAN
  BY DEF Next, ChangeIntent, MovePort, ForeignDelete, OvsRestart, Downgrade, Crash, Shutdown, Fresh,
    Process, Start, RemoveOVSFlows, Cycle, BeginCycle, EnsureSegments, PublishOwned, DumpFlows,
    applyFlowAdds, DeleteStale, EndPlane, Subscribe, TakeEvent, watchVars, vars, RestTyped
<1>6. owned' \in [Planes -> SUBSET Keys]
  <2>1. keys(desired(plane)) \subseteq Keys
    BY <1>1, DesiredKnown, KeysTyped
  <2>2. CASE PublishOwned
    BY <2>1, <2>2 DEF PublishOwned, RestTyped
  <2>3. CASE ~PublishOwned
    <3>1. owned' = owned \/ owned' = [p \in Planes |-> {}] \/ owned' = [owned EXCEPT !["mactweak"] = {}]
      BY <2>3 DEF Next, ChangeIntent, MovePort, ForeignDelete, OvsRestart, Downgrade, Crash, Shutdown,
        Fresh, Process, Start, RemoveOVSFlows, Cycle, BeginCycle, EnsureSegments, DumpFlows,
        applyFlowAdds, DeleteStale, EndPlane, Subscribe, TakeEvent, agentVars, vars
    <3>. QED BY <3>1 DEF RestTyped
  <2>. QED BY <2>2, <2>3
<1>7. failed' \in SUBSET Planes
  <2>1. failed' \subseteq failed \cup Planes
    BY <1>1, PlaneNames DEF Next, ChangeIntent, MovePort, ForeignDelete, OvsRestart, Downgrade, Crash,
      Shutdown, Fresh, Process, Start, RemoveOVSFlows, Cycle, BeginCycle, EnsureSegments,
      PublishOwned, DumpFlows, applyFlowAdds, AddsLand, AddsFail, PlaneFails, DeleteStale, EndPlane,
      Subscribe, TakeEvent, agentVars, vars
  <2>. QED BY <2>1 DEF RestTyped
<1>8. events' \in SUBSET Keys
  <2>1. \A S \in SUBSET flows : Notify(S) => events' \subseteq events \cup Keys
    BY <1>1, KeysTyped DEF Notify
  <2>2. ASSUME NEW f \in flows, ForeignDelete(f) PROVE events' \subseteq events \cup Keys
    BY <2>1, <2>2 DEF ForeignDelete
  <2>3. CASE DeleteStale
    <3>1. PICK f \in cur : events' = events \/ Notify({g \in flows : g.key = f.key})
      BY <2>3 DEF DeleteStale
    <3>. DEFINE gone == {g \in flows : g.key = f.key}
    <3>2. keys(gone) \subseteq Keys
      BY <1>1, KeysTyped
    <3>3. events' = events \/ events' = events \cup keys(gone)
      BY <3>1 DEF Notify
    <3>. HIDE DEF gone
    <3>. QED BY <3>2, <3>3 DEF RestTyped
  <2>4. ASSUME NEW k \in events, TakeEvent(k) PROVE events' \subseteq events
    BY <2>4 DEF TakeEvent
  <2>5. ASSUME \/ UNCHANGED vars \/ ChangeIntent \/ \E s \in Segment : MovePort(s)
               \/ OvsRestart \/ Downgrade \/ Crash \/ Shutdown \/ Process
               \/ BeginCycle \/ EnsureSegments \/ PublishOwned \/ DumpFlows
               \/ applyFlowAdds \/ EndPlane \/ Subscribe
        PROVE  events' \subseteq events
    BY <2>5 DEF ChangeIntent, MovePort, OvsRestart, Downgrade, Crash, Shutdown, Fresh, Process,
      Start, RemoveOVSFlows, BeginCycle, EnsureSegments, PublishOwned, DumpFlows,
      applyFlowAdds, EndPlane, Subscribe, watchVars, vars
  <2>. QED BY <2>2, <2>3, <2>4, <2>5 DEF Next, Cycle, RestTyped
<1>. QED BY <1>2, <1>3, <1>4, <1>5, <1>6, <1>7, <1>8 DEF RestTyped

(* No step leaves the ranges of the state, and no two flows of the bridge     *)
(* share a match (reconcileFlowPlane replaces in place; fallbackBinding is    *)
(* only taken from a port that is there).                                     *)
THEOREM TypeCorrect == Spec => []TypeOK
<1>1. Init => FInv /\ RestTyped
  <2>. SUFFICES ASSUME Init PROVE RestTyped
    BY InitKnown
  <2>1. /\ ofctl \in [stdin : BOOLEAN, bundle : BOOLEAN]
        /\ bundleOK = FALSE /\ trigger = FALSE /\ failed = {} /\ events = {} /\ faults = 0
        /\ owned = [p \in Planes |-> {}]
    BY DEF Init
  <2>2. 0 \in 0..MaxFaults
    BY ConstantsAssumption DEF ConstantsAssumption
  <2>. QED BY <2>1, <2>2 DEF RestTyped
<1>2. IInv /\ FInv /\ RestTyped /\ [Next]_vars => FInv' /\ RestTyped'
  BY KnownInductive, RestInductive
<1>3. IInv /\ FInv /\ RestTyped => TypeOK
  <2>. SUFFICES ASSUME IInv, FInv, RestTyped PROVE TypeOK
    OBVIOUS
  <2>1. flows \in SUBSET Flows /\ cur \in SUBSET Flows /\ \A f, g \in flows : f.key = g.key => f = g
    BY KnownTypes DEF FInv, FlowsKnown, OnePerKey
  <2>2. pc \in {"down", "idle", "segs", "own", "dump", "add", "del", "rm"}
    BY DEF IInv, Typed, Stopped, Reconciling
  <2>3. changes \in 0..MaxChanges
    BY SegmentFacts DEF FInv
  <2>. QED BY <2>1, <2>2, <2>3, KnownTypes DEF TypeOK, FInv, IInv, Typed, RestTyped
<1>. QED BY <1>1, <1>2, <1>3, Invariance, PTL DEF Spec
=============================================================================
