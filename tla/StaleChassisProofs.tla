------------------------ MODULE StaleChassisProofs ------------------------
(* For any chassis, routers and faults: what an agent removes as stale has    *)
(* outlasted a whole grace period of its own, and rows, trackers and counters *)
(* keep their types.                                                          *)
EXTENDS StaleChassis, TLAPS

(* What is tracked as overdue has been waited for, and only that is removed.  *)
Waited ==
  /\ \A x, c \in Chassis : missing[x][c] = "old" => c \in waited[x]
  /\ \A x \in Chassis : stale[x] \subseteq waited[x]

Tracker ==
  /\ missing \in [Chassis -> [Chassis -> {"no", "new", "old"}]]
  /\ waited \in [Chassis -> SUBSET Chassis]
  /\ stale \in [Chassis -> SUBSET Chassis]

IInv == Tracker /\ Waited

-----------------------------------------------------------------------------
LEMMA InitIInv == Init => IInv
BY ConstantsAssumption DEF Init, IInv, Tracker, Waited

(* An agent that starts again waits from the beginning.                       *)
LEMMA Resets ==
  ASSUME IInv, NEW x \in Chassis, NEW phase, AgentReset(x, phase)
  PROVE  IInv'
<1>1. /\ missing' = [missing EXCEPT ![x] = [c \in Chassis |-> "no"]]
      /\ waited' = [waited EXCEPT ![x] = {}]
      /\ stale' = [stale EXCEPT ![x] = {}]
  BY DEF AgentReset, Set
<1>. QED BY <1>1 DEF IInv, Tracker, Waited

LEMMA SameTracker == ASSUME IInv, UNCHANGED trackVars PROVE IInv'
BY DEF IInv, Tracker, Waited, trackVars

LEMMA Environment ==
  ASSUME IInv, NEW c \in Chassis, Leave(c) \/ Return(c) \/ AgentStart(c) \/ AgentRestart(c)
  PROVE  IInv'
<1>1. \/ UNCHANGED trackVars
      \/ \E phase \in Phases : AgentReset(c, phase)
  BY DEF Leave, Return, AgentStart, AgentRestart, AgentKept, Phases
<1>. QED BY <1>1, SameTracker, Resets

LEMMA Grace ==
  ASSUME IInv, NEW x \in Chassis, NEW c \in Chassis, GraceOver(x, c)
  PROVE  IInv'
<1>1. /\ missing' = [missing EXCEPT ![x][c] = "old"]
      /\ waited' = [waited EXCEPT ![x] = waited[x] \cup {c}]
      /\ stale' = stale
  BY DEF GraceOver, Set
<1>2. Tracker'
  BY <1>1 DEF IInv, Tracker
<1>3. \A y \in Chassis : waited[y] \subseteq waited'[y]
  BY <1>1 DEF IInv, Tracker
<1>4. ASSUME NEW y \in Chassis, NEW d \in Chassis, missing'[y][d] = "old"
      PROVE  d \in waited'[y]
  <2>1. CASE y = x /\ d = c
    BY <1>1, <2>1 DEF IInv, Tracker
  <2>2. CASE ~(y = x /\ d = c)
    <3>1. missing'[y][d] = missing[y][d]
      BY <1>1, <2>2 DEF IInv, Tracker
    <3>. QED BY <1>3, <1>4, <3>1 DEF IInv, Waited
  <2>. QED BY <2>1, <2>2
<1>5. \A y \in Chassis : stale'[y] \subseteq waited'[y]
  BY <1>1, <1>3 DEF IInv, Waited
<1>. QED BY <1>2, <1>4, <1>5 DEF IInv, Waited

(* A chassis that is back is neither waited for nor tracked any more.         *)
LEMMA Scanning == ASSUME IInv, NEW x \in Chassis, Scan(x) PROVE IInv'
<1>1. CASE UNCHANGED <<missing, waited>> /\ EndCycle(x)
  <2>1. stale' = [stale EXCEPT ![x] = {}]
    BY <1>1 DEF EndCycle, Set
  <2>. QED BY <1>1, <2>1 DEF IInv, Tracker, Waited
<1>2. CASE /\ missing' = Set(missing, x, Track(x))
           /\ waited' = Set(waited, x, waited[x] \ view[x].all)
           /\ \/ stale' = Set(stale, x, {})
              \/ stale' = Set(stale, x, {c \in Chassis : Track(x)[c] = "old"})
  <2> DEFINE S == {c \in Chassis : Track(x)[c] = "old"}
  <2>1. Track(x) \in [Chassis -> {"no", "new", "old"}]
    BY DEF IInv, Tracker, Track
  <2>2. \A c \in S : missing[x][c] = "old" /\ c \notin view[x].all
    BY DEF Track
  <2>3. S \subseteq waited[x] \ view[x].all
    BY <2>2 DEF IInv, Waited
  <2>4. Tracker'
    <3>1. S \in SUBSET Chassis /\ waited[x] \ view[x].all \in SUBSET Chassis
      BY DEF IInv, Tracker
    <3>2. \E T \in SUBSET Chassis : stale' = Set(stale, x, T)
      BY <1>2, <3>1
    <3> HIDE DEF S
    <3>. QED BY <1>2, <2>1, <3>1, <3>2 DEF IInv, Tracker, Set
  <2>5. /\ missing'[x] = Track(x) /\ waited'[x] = waited[x] \ view[x].all
        /\ stale'[x] \subseteq S
    BY <1>2 DEF IInv, Tracker, Set
  <2>6. \A y \in Chassis \ {x} :
          missing'[y] = missing[y] /\ waited'[y] = waited[y] /\ stale'[y] = stale[y]
    BY <1>2 DEF IInv, Tracker, Set
  <2> HIDE DEF S
  <2>7. \A c \in Chassis : missing'[x][c] = "old" => c \in waited'[x]
    BY <2>3, <2>5 DEF S
  <2>. QED BY <2>3, <2>4, <2>5, <2>6, <2>7 DEF IInv, Waited
<1>. QED BY <1>1, <1>2 DEF Scan, EndCycle

LEMMA Deleting ==
  ASSUME IInv, NEW x \in Chassis, ListStale(x) \/ DeleteStaleBindings(x)
  PROVE  IInv'
<1>1. waited' = waited /\ (stale' = stale \/ stale' = Set(stale, x, {}))
  BY DEF ListStale, DeleteStaleBindings, EndCycle
<1>2. missing' = missing \/ missing' = Set(missing, x, Forget(x))
  BY DEF ListStale, DeleteStaleBindings
<1>3. /\ Forget(x) \in [Chassis -> {"no", "new", "old"}]
      /\ \A c \in Chassis : Forget(x)[c] = "old" => missing[x][c] = "old"
  BY DEF Forget, IInv, Tracker
<1>4. Tracker'
  BY <1>1, <1>2, <1>3 DEF IInv, Tracker, Set
<1>5. \A y, c \in Chassis : missing'[y][c] = "old" => missing[y][c] = "old"
  BY <1>2, <1>3 DEF IInv, Tracker, Set
<1>6. \A y \in Chassis : stale'[y] \subseteq stale[y]
  BY <1>1 DEF IInv, Tracker, Set
<1>. QED BY <1>1, <1>4, <1>5, <1>6 DEF IInv, Waited

LEMMA Inductive == IInv /\ [Next]_vars => IInv'
<1> SUFFICES ASSUME IInv, [Next]_vars PROVE IInv'
  OBVIOUS
<1>1. CASE UNCHANGED vars
  BY <1>1, SameTracker DEF vars, trackVars
<1>2. CASE \E c \in Chassis : Leave(c) \/ Return(c) \/ AgentStart(c) \/ AgentRestart(c)
  BY <1>2, Environment
<1>3. CASE \E r \in Router : Rebind(r)
  BY <1>3, SameTracker DEF Rebind, AgentKept
<1>4. CASE \E x, c \in Chassis : GraceOver(x, c)
  BY <1>4, Grace
<1>5. CASE \E x \in Chassis : \/ TakeSnapshot(x) \/ FindDefaultRoute(x) \/ WriteDefaultRoute(x)
                              \/ FindUnmarked(x) \/ MarkTakeoverReady(x)
                              \/ DeleteStaleRoute(x)
  BY <1>5, SameTracker DEF TakeSnapshot, FindDefaultRoute, WriteDefaultRoute, FindUnmarked,
     MarkTakeoverReady, DeleteStaleRoute
<1>6. CASE \E x \in Chassis : Scan(x)
  BY <1>6, Scanning
<1>7. CASE \E x \in Chassis : ListStale(x) \/ DeleteStaleBindings(x)
  BY <1>7, Deleting
<1>. QED BY <1>1, <1>2, <1>3, <1>4, <1>5, <1>6, <1>7 DEF Next, Reconcile

LEMMA Invariance == Spec => []IInv
BY InitIInv, Inductive, PTL DEF Spec

(* Whoever returns and leaves, and whichever agent restarts: an agent removes *)
(* only chassis that stayed away for a grace period since it last saw them.   *)
THEOREM GraceOutwaited == Spec => WaitsOutGrace
<1>1. IInv' => \A x \in Chassis : stale[x]' \subseteq waited[x]'
  BY DEF IInv, Waited
<1>2. IInv /\ [Next]_vars => [\A x \in Chassis : stale[x]' \subseteq waited[x]']_vars
  BY <1>1, Inductive
<1>. QED BY <1>2, Invariance, PTL DEF Spec, WaitsOutGrace

-----------------------------------------------------------------------------
(* The types of the state, and what an agent is about to delete. *)

EnvTyped == up \in SUBSET Chassis /\ bound \in [Router -> Chassis]
Counted == faults \in 0..MaxFaults /\ moves \in 0..MaxMoves
NbTyped ==
  /\ row \in [RowId -> Rows \cup {NoRow}]
  /\ mac \in [Router -> Chassis \cup {NoChassis}]
ReadTyped ==
  /\ todo \in [Chassis -> SUBSET Router]
  /\ copies \in [Chassis -> SUBSET (RowId \X Rows)]
AgentTyped ==
  /\ pc \in [Chassis -> Phases]
  /\ view \in [Chassis -> [all : SUBSET Chassis, local : SUBSET Router]]
  /\ ReadTyped
OnlyStaleDeleted ==
  \A x \in Chassis : pc[x] = "delete" => \A d \in copies[x] : d[2].tag \in stale[x]

Handling == \A x \in Chassis : pc[x] \in {"route", "write"} => todo[x] # {}

AgentInv == AgentTyped /\ OnlyStaleDeleted /\ Handling
StaleInv == EnvTyped /\ Counted /\ NbTyped /\ AgentInv

LEMMA NoViewTyped == NoView \in [all : SUBSET Chassis, local : SUBSET Router]
BY DEF NoView

LEMMA CopiesTyped ==
  ASSUME NbTyped, NEW S \in SUBSET Existing
  PROVE  Copy(S) \in SUBSET (RowId \X Rows) /\ \A d \in Copy(S) : d[2] = row[d[1]] /\ d[1] \in S
<1>1. \A u \in S : u \in RowId /\ row[u] \in Rows
  BY DEF Existing, NbTyped
<1>. QED BY <1>1 DEF Copy

(* A step of agent x that leaves the other agents as they are.                *)
LEMMA Others ==
  ASSUME AgentInv, IInv, NEW x \in Chassis,
         NEW phase \in Phases, NEW v \in [all : SUBSET Chassis, local : SUBSET Router],
         NEW T \in SUBSET Router, NEW C \in SUBSET (RowId \X Rows), NEW S,
         pc' = Set(pc, x, phase), view' = Set(view, x, v), todo' = Set(todo, x, T),
         copies' = Set(copies, x, C), stale' = Set(stale, x, S),
         phase = "delete" => \A d \in C : d[2].tag \in S,
         phase \in {"route", "write"} => T # {}
  PROVE  AgentInv'
<1>1. AgentTyped'
  BY DEF AgentInv, AgentTyped, ReadTyped, Set
<1>2. pc'[x] = phase /\ todo'[x] = T /\ copies'[x] = C /\ stale'[x] = S
  BY DEF AgentInv, AgentTyped, ReadTyped, IInv, Tracker, Set
<1>3. \A y \in Chassis \ {x} :
        pc'[y] = pc[y] /\ todo'[y] = todo[y] /\ copies'[y] = copies[y] /\ stale'[y] = stale[y]
  BY DEF AgentInv, AgentTyped, ReadTyped, IInv, Tracker, Set
<1>. QED BY <1>1, <1>2, <1>3 DEF AgentInv, OnlyStaleDeleted, Handling

(* What x leaves alone it sets to what it was.                                *)
LEMMA SetSame ==
  ASSUME AgentTyped, IInv, NEW x \in Chassis
  PROVE  /\ Set(pc, x, pc[x]) = pc /\ Set(view, x, view[x]) = view
         /\ Set(todo, x, todo[x]) = todo /\ Set(copies, x, copies[x]) = copies
         /\ Set(stale, x, stale[x]) = stale
         /\ pc[x] \in Phases /\ view[x] \in [all : SUBSET Chassis, local : SUBSET Router]
         /\ todo[x] \in SUBSET Router /\ copies[x] \in SUBSET (RowId \X Rows)
BY DEF AgentTyped, ReadTyped, IInv, Tracker, Set

LEMMA KeptTyped ==
  ASSUME AgentInv, UNCHANGED <<pc, view, todo, copies, stale>>
  PROVE  AgentInv'
BY DEF AgentInv, AgentTyped, ReadTyped, OnlyStaleDeleted, Handling

LEMMA ResetTyped ==
  ASSUME AgentInv, IInv, NEW x \in Chassis, NEW phase \in {"off", "idle"},
         AgentReset(x, phase)
  PROVE  AgentInv'
<1>1. phase \in Phases /\ phase \notin {"route", "write", "delete"}
  BY DEF Phases
<1>. QED BY <1>1, Others, NoViewTyped DEF AgentReset, Goto

LEMMA EndTyped ==
  ASSUME AgentInv, IInv, NEW x \in Chassis, EndCycle(x)
  PROVE  AgentInv'
<1>1. "idle" \in Phases
  BY DEF Phases
<1>. QED BY <1>1, Others, NoViewTyped DEF EndCycle, Goto

LEMMA CountedInductive == ASSUME Counted, [Next]_vars PROVE Counted'
<1>1. MaxFaults \in Nat /\ MaxMoves \in Nat
  BY ConstantsAssumption DEF ConstantsAssumption
<1>2. faults' = faults \/ (faults < MaxFaults /\ faults' = faults + 1)
  BY DEF Next, Leave, Return, AgentStart, AgentRestart, Rebind, GraceOver, Reconcile, TakeSnapshot,
    FindDefaultRoute, ensureStaticMACBinding, WriteDefaultRoute, FindUnmarked, MarkTakeoverReady,
    Scan, ListStale, DeleteStaleRoute, DeleteStaleBindings, Fault, NoFault, vars
<1>3. moves' = moves \/ (moves < MaxMoves /\ moves' = moves + 1)
  BY DEF Next, Leave, Return, AgentStart, AgentRestart, Rebind, GraceOver, Reconcile, TakeSnapshot,
    FindDefaultRoute, WriteDefaultRoute, FindUnmarked, MarkTakeoverReady, Scan, ListStale,
    DeleteStaleRoute, DeleteStaleBindings, Move, envVars, vars
<1>. QED BY <1>1, <1>2, <1>3 DEF Counted

LEMMA EnvInductive == ASSUME EnvTyped, [Next]_vars PROVE EnvTyped'
<1>1. ASSUME NEW r \in Router, Rebind(r) PROVE EnvTyped'
  BY <1>1 DEF Rebind, Set, EnvTyped
<1>2. ASSUME NEW c \in Chassis, Leave(c) \/ Return(c) PROVE EnvTyped'
  BY <1>2 DEF Leave, Return, EnvTyped
<1>3. ASSUME \/ UNCHANGED vars
             \/ \E c \in Chassis : AgentStart(c) \/ AgentRestart(c)
             \/ \E x, c \in Chassis : GraceOver(x, c)
             \/ \E x \in Chassis : Reconcile(x)
      PROVE  EnvTyped'
  BY <1>3 DEF AgentStart, AgentRestart, GraceOver, Reconcile, TakeSnapshot, FindDefaultRoute,
    WriteDefaultRoute, FindUnmarked, MarkTakeoverReady, Scan, ListStale, DeleteStaleRoute,
    DeleteStaleBindings, envVars, vars, EnvTyped
<1>. QED BY <1>1, <1>2, <1>3 DEF Next

LEMMA MACTyped ==
  ASSUME NbTyped, NEW x \in Chassis, ensureStaticMACBinding(x)
  PROVE  mac' \in [Router -> Chassis \cup {NoChassis}]
BY DEF ensureStaticMACBinding, Set, NbTyped

(* A row is created, copied with another tag or marker, or removed.           *)
LEMMA WritesTyped ==
  ASSUME NbTyped, AgentInv, NEW x \in Chassis, WriteDefaultRoute(x)
  PROVE  NbTyped'
<1>1. mac' \in [Router -> Chassis \cup {NoChassis}]
  BY MACTyped DEF WriteDefaultRoute, NbTyped
<1>2. ASSUME NEW d \in copies[x], row' = Retag(x, d) PROVE row' \in [RowId -> Rows \cup {NoRow}]
  <2>1. d[1] \in RowId /\ d[2] \in Rows
    BY DEF AgentInv, AgentTyped, ReadTyped
  <2>2. [d[2] EXCEPT !.tag = x] \in Rows
    BY <2>1 DEF Rows
  <2>. QED BY <1>2, <2>1, <2>2 DEF Retag, Set, NbTyped
<1>3. ASSUME row' = Create(x, NextRouter(todo[x]), NewId), RowId \ (Existing \cup Remembered) # {}
      PROVE  row' \in [RowId -> Rows \cup {NoRow}]
  <2>1. todo[x] # {} /\ todo[x] \subseteq Router
    BY DEF WriteDefaultRoute, AgentInv, AgentTyped, ReadTyped, Handling
  <2>2. NextRouter(todo[x]) \in Router
    BY <2>1 DEF NextRouter
  <2>3. [router |-> NextRouter(todo[x]), tag |-> x, ready |-> NoChassis] \in Rows
    BY <2>2 DEF Rows
  <2>. DEFINE new == [router |-> NextRouter(todo[x]), tag |-> x, ready |-> NoChassis]
  <2>4. row' = [row EXCEPT ![NewId] = new]
    BY <1>3 DEF Create, Set
  <2>. HIDE DEF new
  <2>. QED BY <2>3, <2>4 DEF NbTyped, new
<1>. QED BY <1>1, <1>2, <1>3 DEF WriteDefaultRoute, NbTyped

LEMMA StampsTyped ==
  ASSUME NbTyped, AgentInv, NEW x \in Chassis
  PROVE  Stamp(x) \in [RowId -> Rows \cup {NoRow}]
<1>1. \A d \in copies[x] : [d[2] EXCEPT !.ready = x] \in Rows
  BY DEF AgentInv, AgentTyped, ReadTyped, Rows
<1>. QED BY <1>1 DEF Stamp, NbTyped

LEMMA NbInductive == ASSUME NbTyped, AgentInv, [Next]_vars PROVE NbTyped'
<1>1. ASSUME NEW x \in Chassis, FindDefaultRoute(x) PROVE NbTyped'
  BY <1>1, MACTyped DEF FindDefaultRoute, NbTyped
<1>2. ASSUME NEW x \in Chassis, MarkTakeoverReady(x) PROVE NbTyped'
  BY <1>2, StampsTyped DEF MarkTakeoverReady, NbTyped
<1>3. ASSUME NEW x \in Chassis, DeleteStaleRoute(x) PROVE NbTyped'
  BY <1>3 DEF DeleteStaleRoute, Set, NbTyped
<1>4. ASSUME NEW x \in Chassis, DeleteStaleBindings(x) PROVE NbTyped'
  BY <1>4 DEF DeleteStaleBindings, NbTyped
<1>5. ASSUME \/ UNCHANGED vars
             \/ \E c \in Chassis : Leave(c) \/ Return(c) \/ AgentStart(c) \/ AgentRestart(c)
             \/ \E r \in Router : Rebind(r)
             \/ \E x, c \in Chassis : GraceOver(x, c)
             \/ \E x \in Chassis : TakeSnapshot(x) \/ FindUnmarked(x) \/ Scan(x) \/ ListStale(x)
      PROVE  NbTyped'
  BY <1>5 DEF Leave, Return, AgentStart, AgentRestart, Rebind, GraceOver, TakeSnapshot,
    FindUnmarked, Scan, ListStale, nbVars, vars, NbTyped
<1>. QED BY <1>1, <1>2, <1>3, <1>4, <1>5, WritesTyped DEF Next, Reconcile

LEMMA PhaseNames ==
  \A p \in {"off", "idle", "route", "write", "mark", "stamp", "scan", "list", "delete", "unbind"} :
    p \in Phases
BY DEF Phases

(* The routing of the local routers.                                          *)
LEMMA RoutingKept ==
  ASSUME NbTyped, EnvTyped, AgentInv, IInv, NEW x \in Chassis,
         TakeSnapshot(x) \/ FindDefaultRoute(x) \/ WriteDefaultRoute(x)
  PROVE  AgentInv'
<1>1. /\ stale' = Set(stale, x, stale[x]) /\ pc[x] \in Phases /\ todo[x] \in SUBSET Router
      /\ view[x] \in [all : SUBSET Chassis, local : SUBSET Router]
      /\ copies[x] \in SUBSET (RowId \X Rows)
  BY SetSame DEF TakeSnapshot, FindDefaultRoute, WriteDefaultRoute, trackVars, AgentInv
<1>2. CASE TakeSnapshot(x)
  <2>. DEFINE local == {r \in Router : bound[r] = x /\ x \in up}
  <2>1. /\ view' = Set(view, x, [all |-> up, local |-> local])
        /\ todo' = Set(todo, x, local)
        /\ pc' = Set(pc, x, IF local = {} THEN "scan" ELSE "route")
        /\ copies' = Set(copies, x, copies[x])
    BY <1>2, SetSame DEF TakeSnapshot, Goto, AgentInv
  <2>2. [all |-> up, local |-> local] \in [all : SUBSET Chassis, local : SUBSET Router]
    BY DEF EnvTyped
  <2>3. local \in SUBSET Router /\ (IF local = {} THEN "scan" ELSE "route") \in Phases
    BY PhaseNames
  <2>. HIDE DEF local
  <2>. QED BY <1>1, <2>1, <2>2, <2>3, Others
<1>3. CASE AfterRouter(x) /\ UNCHANGED view /\ \E C \in SUBSET (RowId \X Rows) : copies' = Set(copies, x, C)
  <2>. DEFINE rest == todo[x] \ {NextRouter(todo[x])}
              phase == IF rest = {} THEN "mark" ELSE "route"
  <2>1. todo' = Set(todo, x, rest) /\ pc' = Set(pc, x, phase) /\ view' = Set(view, x, view[x])
    BY <1>3, SetSame DEF AfterRouter, Goto, AgentInv
  <2>2. rest \in SUBSET Router /\ phase \in Phases /\ phase # "delete"
    BY <1>1, PhaseNames
  <2>3. phase \in {"route", "write"} => rest # {}
    OBVIOUS
  <2>. HIDE DEF rest, phase
  <2>. QED BY <1>1, <1>3, <2>1, <2>2, <2>3, Others
<1>4. CASE /\ pc[x] = "route" /\ Goto(x, "write") /\ UNCHANGED <<view, todo>>
           /\ \E C \in SUBSET (RowId \X Rows) : copies' = Set(copies, x, C)
  <2>1. /\ pc' = Set(pc, x, "write") /\ view' = Set(view, x, view[x])
        /\ todo' = Set(todo, x, todo[x]) /\ todo[x] # {}
    BY <1>4, SetSame DEF Goto, AgentInv, Handling
  <2>. QED BY <1>1, <1>4, <2>1, PhaseNames, Others
<1>5. CASE FindDefaultRoute(x)
  <2>1. view' = view /\ pc[x] = "route" /\ copies = Set(copies, x, copies[x])
    BY <1>5, SetSame DEF FindDefaultRoute, AgentInv
  <2>2. \A u \in RowsOf(NextRouter(todo[x])) : Copy({u}) \in SUBSET (RowId \X Rows)
    BY CopiesTyped DEF RowsOf
  <2>3. \/ copies' = Set(copies, x, {}) /\ Goto(x, "write") /\ UNCHANGED todo
        \/ AfterRouter(x) /\ UNCHANGED copies
        \/ \E u \in RowsOf(NextRouter(todo[x])) :
             copies' = Set(copies, x, Copy({u})) /\ Goto(x, "write") /\ UNCHANGED todo
    BY <1>5 DEF FindDefaultRoute
  <2>. QED BY <1>1, <1>3, <1>4, <2>1, <2>2, <2>3
<1>6. CASE WriteDefaultRoute(x)
  BY <1>3, <1>6 DEF WriteDefaultRoute
<1>. QED BY <1>2, <1>5, <1>6

LEMMA MarkingKept ==
  ASSUME NbTyped, AgentInv, IInv, NEW x \in Chassis, FindUnmarked(x) \/ MarkTakeoverReady(x)
  PROVE  AgentInv'
<1>1. /\ view' = Set(view, x, view[x]) /\ todo' = Set(todo, x, todo[x])
      /\ stale' = Set(stale, x, stale[x]) /\ todo[x] \in SUBSET Router
      /\ view[x] \in [all : SUBSET Chassis, local : SUBSET Router]
  BY SetSame DEF FindUnmarked, MarkTakeoverReady, trackVars, AgentInv
<1>2. CASE FindUnmarked(x)
  <2>. DEFINE S == {u \in Existing : row[u].router \in view[x].local /\ row[u].ready # x}
              phase == IF S = {} THEN "scan" ELSE "stamp"
  <2>1. copies' = Set(copies, x, Copy(S)) /\ pc' = Set(pc, x, phase)
    BY <1>2 DEF FindUnmarked, Goto
  <2>2. Copy(S) \in SUBSET (RowId \X Rows) /\ phase \in Phases
        /\ phase \notin {"route", "write", "delete"}
    BY CopiesTyped, PhaseNames
  <2>. HIDE DEF S, phase
  <2>. QED BY <1>1, <2>1, <2>2, Others
<1>3. CASE MarkTakeoverReady(x)
  <2>1. copies' = Set(copies, x, {}) /\ pc' = Set(pc, x, "scan")
    BY <1>3 DEF MarkTakeoverReady, Goto
  <2>. QED BY <1>1, <2>1, PhaseNames, Others
<1>. QED BY <1>2, <1>3

(* The cleanup lists, and keeps in hand, only rows of the stale.              *)
LEMMA CleanupKept ==
  ASSUME NbTyped, AgentInv, IInv, NEW x \in Chassis,
         Scan(x) \/ ListStale(x) \/ DeleteStaleRoute(x) \/ DeleteStaleBindings(x)
  PROVE  AgentInv'
<1>1. /\ todo[x] \in SUBSET Router /\ copies[x] \in SUBSET (RowId \X Rows) /\ pc[x] \in Phases
      /\ view[x] \in [all : SUBSET Chassis, local : SUBSET Router]
  BY SetSame DEF AgentInv
<1>2. CASE EndCycle(x)
  BY <1>2, EndTyped
<1>3. CASE Scan(x) /\ ~EndCycle(x)
  <2>1. PICK S : stale' = Set(stale, x, S)
    BY <1>3 DEF Scan
  <2>2. /\ pc' = Set(pc, x, "list") /\ view' = Set(view, x, view[x])
        /\ todo' = Set(todo, x, todo[x]) /\ copies' = Set(copies, x, copies[x])
    BY <1>3, SetSame DEF Scan, Goto, AgentInv
  <2>. QED BY <1>1, <2>1, <2>2, PhaseNames, Others
<1>4. CASE ListStale(x) /\ ~EndCycle(x)
  <2>1. /\ copies' = Set(copies, x, Copy(StaleRows(x))) /\ todo' = Set(todo, x, staleBindingKeys(x))
        /\ pc' = Set(pc, x, "delete") /\ view' = Set(view, x, view[x])
        /\ stale' = Set(stale, x, stale[x])
    BY <1>4, SetSame DEF ListStale, Goto, AgentInv
  <2>2. /\ Copy(StaleRows(x)) \in SUBSET (RowId \X Rows)
        /\ \A d \in Copy(StaleRows(x)) : d[2].tag \in stale[x]
    BY CopiesTyped DEF StaleRows
  <2>3. staleBindingKeys(x) \in SUBSET Router
    BY DEF staleBindingKeys, StaleRows, Existing, NbTyped, Rows
  <2>. QED BY <1>1, <2>1, <2>2, <2>3, PhaseNames, Others
<1>5. CASE DeleteStaleRoute(x)
  <2>1. PICK d \in copies[x] : copies' = Set(copies, x, copies[x] \ {d})
    BY <1>5 DEF DeleteStaleRoute
  <2>2. /\ pc' = Set(pc, x, pc[x]) /\ todo' = Set(todo, x, todo[x]) /\ view' = Set(view, x, view[x])
        /\ stale' = Set(stale, x, stale[x]) /\ pc[x] = "delete"
    BY <1>5, SetSame DEF DeleteStaleRoute, trackVars, AgentInv
  <2>3. \A e \in copies[x] \ {d} : e[2].tag \in stale[x]
    BY <2>2 DEF AgentInv, OnlyStaleDeleted
  <2>. QED BY <1>1, <2>1, <2>2, <2>3, Others
<1>. QED BY <1>2, <1>3, <1>4, <1>5 DEF DeleteStaleBindings

LEMMA AgentInductive == ASSUME NbTyped, EnvTyped, AgentInv, IInv, [Next]_vars PROVE AgentInv'
<1>1. CASE UNCHANGED vars
  BY <1>1, KeptTyped DEF vars
<1>2. ASSUME NEW c \in Chassis, Leave(c) \/ Return(c) \/ AgentStart(c) \/ AgentRestart(c)
      PROVE  AgentInv'
  <2>1. \/ UNCHANGED <<pc, view, todo, copies, stale>>
        \/ AgentReset(c, "off") \/ AgentReset(c, "idle")
    BY <1>2 DEF Leave, Return, AgentStart, AgentRestart, AgentKept, trackVars
  <2>. QED BY <2>1, KeptTyped, ResetTyped
<1>3. CASE \E r \in Router : Rebind(r)
  BY <1>3, KeptTyped DEF Rebind, AgentKept, trackVars
<1>4. CASE \E x, c \in Chassis : GraceOver(x, c)
  BY <1>4, KeptTyped DEF GraceOver
<1>5. CASE \E x \in Chassis : Reconcile(x)
  BY <1>5, RoutingKept, MarkingKept, CleanupKept DEF Reconcile
<1>. QED BY <1>1, <1>2, <1>3, <1>4, <1>5 DEF Next

LEMMA InitStaleInv == Init => StaleInv
<1> SUFFICES ASSUME Init PROVE StaleInv
  OBVIOUS
<1>1. EnvTyped
  BY ConstantsAssumption DEF ConstantsAssumption, Init, EnvTyped
<1>2. Counted
  BY ConstantsAssumption DEF ConstantsAssumption, Init, Counted
<1>3. NbTyped
  <2>1. CASE row = [u \in RowId |-> NoRow] /\ mac = [r \in Router |-> NoChassis]
    BY <2>1 DEF NbTyped
  <2>. DEFINE routes(id, tag) ==
         [u \in RowId |-> IF \E r \in Router : id[r] = u
            THEN LET r == CHOOSE r \in Router : id[r] = u
                 IN  [router |-> r, tag |-> tag[r], ready |-> tag[r]]
            ELSE NoRow]
  <2>2. ASSUME NEW tag \in [Router -> Chassis], NEW id
        PROVE  routes(id, tag) \in [RowId -> Rows \cup {NoRow}]
    <3>1. \A r \in Router : [router |-> r, tag |-> tag[r], ready |-> tag[r]] \in Rows
      BY DEF Rows
    <3>. QED BY <3>1
  <2>3. CASE \E tag \in [Router -> Chassis] :
               row = routes(CHOOSE id \in [Router -> RowId] : IsInjective(id), tag) /\ mac = tag
    <3>. HIDE DEF routes
    <3>. QED BY <2>2, <2>3 DEF NbTyped
  <2>. QED BY <2>1, <2>3 DEF Init
<1>4. AgentInv
  BY NoViewTyped, PhaseNames DEF Init, AgentInv, AgentTyped, ReadTyped, OnlyStaleDeleted, Handling
<1>. QED BY <1>1, <1>2, <1>3, <1>4 DEF StaleInv

(* Every row keeps naming a router and a chassis, and the rows an agent       *)
(* deletes one by one are those it has read with the tag of a chassis it      *)
(* found stale (CleanupStaleChassisManagedEntries), whatever others write.    *)
THEOREM TypeCorrect == Spec => []TypeOK
<1>1. IInv /\ StaleInv /\ [Next]_vars => StaleInv'
  BY CountedInductive, EnvInductive, NbInductive, AgentInductive DEF StaleInv
<1>2. IInv /\ StaleInv => TypeOK
  BY DEF TypeOK, StaleInv, EnvTyped, Counted, NbTyped, AgentInv, AgentTyped, ReadTyped,
    OnlyStaleDeleted, IInv, Tracker
<1>. QED BY <1>1, <1>2, InitStaleInv, Invariance, PTL DEF Spec
=============================================================================
