--------------------------- MODULE HostPlaneProofs ---------------------------
(* What the agent never does to its host, for any worlds, configurations,     *)
(* faults and operators: route a packet back into the veth (NoLoop), delete   *)
(* what is not its own (OperatorsKept), stop translating a VIP before it is   *)
(* shut down (RulesetStays); and that it loses track of nothing               *)
(* (NothingForgotten, LeavesClean).  Then that the state stays well formed    *)
(* (TypeOK), that a cycle wants what the rows of its routers ask for          *)
(* (WantsServed), and that one undisturbed cycle gives it to them, whatever   *)
(* it found (CycleDelivers, CycleRealises).                                   *)
EXTENDS HostPlane, TLAPS

(* The rules are added in a group that begins with the ingress exception.     *)
Guarded(s) ==
  \A i \in 1..Len(s) : s[i] = "rules" =>
    \E j \in 1..(i - 1) : s[j] = "ingress" /\ \A k \in j..i : s[k] \in LeakGroup

(* The exception is removed after the rules.                                  *)
Ordered(s) ==
  \A i \in 1..Len(s) : s[i] = "uningress" => \E j \in 1..(i - 1) : s[j] = "unrule"

Fields == {"bridge", "veth", "ingress", "rules", "routes", "vlan", "list", "addr",
           "nft", "dnat"}

(* What is still to be done is guarded by what has been done.                 *)
StepsLeft ==
  /\ phase # "stop" => todo \in Seq(UpNames)
  /\ phase = "stop" => todo \in Seq(DownNames)
  /\ spoilt \/ host.ingress \/ Guarded(todo)
  /\ spoilt \/ host.rules = {} \/ Ordered(todo)

Excepted == spoilt \/ host.rules = {} \/ host.ingress

HostTyped ==
  /\ host = [f \in Fields |-> host[f]]
  /\ host.vlan \in [Tag -> LinkStates]

IInv == HostTyped /\ StepsLeft /\ Excepted

-----------------------------------------------------------------------------
(* Sequences of steps. *)

LEMMA ConcatGuarded ==
  ASSUME NEW S, NEW s \in Seq(S), NEW t \in Seq(S), Guarded(s), Guarded(t)
  PROVE  Guarded(s \o t)
<1> SUFFICES ASSUME NEW i \in 1..Len(s \o t), (s \o t)[i] = "rules"
             PROVE  \E j \in 1..(i - 1) : /\ (s \o t)[j] = "ingress"
                                          /\ \A k \in j..i : (s \o t)[k] \in LeakGroup
  BY DEF Guarded
<1>1. /\ Len(s \o t) = Len(s) + Len(t)
      /\ \A k \in 1..Len(s) : (s \o t)[k] = s[k]
      /\ \A k \in (Len(s) + 1)..(Len(s) + Len(t)) : (s \o t)[k] = t[k - Len(s)]
      /\ Len(s) \in Nat /\ Len(t) \in Nat
  OBVIOUS
<1>2. CASE i <= Len(s)
  <2>0. i \in 1..Len(s) /\ s[i] = "rules"
    BY <1>1, <1>2
  <2>1. PICK j \in 1..(i - 1) : s[j] = "ingress" /\ \A k \in j..i : s[k] \in LeakGroup
    BY <2>0 DEF Guarded
  <2>2. \A k \in j..i : k \in 1..Len(s) /\ (s \o t)[k] = s[k]
    BY <1>1, <2>0, <2>1
  <2>. QED BY <2>0, <2>1, <2>2
<1>3. CASE i > Len(s)
  <2>1. i - Len(s) \in 1..Len(t) /\ t[i - Len(s)] = "rules"
    BY <1>1, <1>3
  <2>2. PICK j \in 1..(i - Len(s) - 1) :
          t[j] = "ingress" /\ \A k \in j..(i - Len(s)) : t[k] \in LeakGroup
    BY <2>1 DEF Guarded
  <2>3. j + Len(s) \in 1..(i - 1) /\ (s \o t)[j + Len(s)] = "ingress"
    BY <1>1, <1>3, <2>1, <2>2
  <2>4. ASSUME NEW k \in (j + Len(s))..i PROVE (s \o t)[k] \in LeakGroup
    <3>1. k - Len(s) \in j..(i - Len(s)) /\ (s \o t)[k] = t[k - Len(s)]
      BY <1>1, <1>3, <2>1, <2>2, <2>4
    <3>. QED BY <2>2, <3>1
  <2>. QED BY <2>3, <2>4
<1>4. i <= Len(s) \/ i > Len(s)
  BY <1>1
<1>. QED BY <1>2, <1>3, <1>4

LEMMA ConcatOrdered ==
  ASSUME NEW S, NEW s \in Seq(S), NEW t \in Seq(S), Ordered(s), Ordered(t)
  PROVE  Ordered(s \o t)
<1> SUFFICES ASSUME NEW i \in 1..Len(s \o t), (s \o t)[i] = "uningress"
             PROVE  \E j \in 1..(i - 1) : (s \o t)[j] = "unrule"
  BY DEF Ordered
<1>1. /\ Len(s \o t) = Len(s) + Len(t)
      /\ \A k \in 1..Len(s) : (s \o t)[k] = s[k]
      /\ \A k \in (Len(s) + 1)..(Len(s) + Len(t)) : (s \o t)[k] = t[k - Len(s)]
      /\ Len(s) \in Nat /\ Len(t) \in Nat
  OBVIOUS
<1>2. CASE i <= Len(s)
  <2>1. i \in 1..Len(s) /\ s[i] = "uningress"
    BY <1>1, <1>2
  <2>2. PICK j \in 1..(i - 1) : s[j] = "unrule"
    BY <2>1 DEF Ordered
  <2>. QED BY <1>1, <1>2, <2>2
<1>3. CASE i > Len(s)
  <2>1. i - Len(s) \in 1..Len(t) /\ t[i - Len(s)] = "uningress"
    BY <1>1, <1>3
  <2>2. PICK j \in 1..(i - Len(s) - 1) : t[j] = "unrule"
    BY <2>1 DEF Ordered
  <2>3. j + Len(s) \in 1..(i - 1) /\ (s \o t)[j + Len(s)] = "unrule"
    BY <1>1, <1>3, <2>1, <2>2
  <2>. QED BY <2>3
<1>4. i <= Len(s) \/ i > Len(s)
  BY <1>1
<1>. QED BY <1>2, <1>3, <1>4

(* A literal sequence without the steps in question.                          *)
LEMMA PlainSteps ==
  ASSUME NEW S, NEW s \in Seq(S), "rules" \notin S \/ \A i \in 1..Len(s) : s[i] # "rules"
  PROVE  Guarded(s)
BY DEF Guarded

LEMMA LeakStepsGuarded == LeakSteps \in Seq(UpNames) /\ Guarded(LeakSteps)
<1>1. /\ LeakSteps \in Seq(UpNames) /\ Len(LeakSteps) = 4
      /\ LeakSteps[1] = "ingress" /\ LeakSteps[2] = "routes"
      /\ LeakSteps[3] = "rules" /\ LeakSteps[4] = "stale"
  BY DEF LeakSteps, UpNames
<1>2. SUFFICES ASSUME NEW i \in 1..Len(LeakSteps), LeakSteps[i] = "rules"
               PROVE  LeakSteps[1] = "ingress" /\ 1 \in 1..(i - 1)
                      /\ \A k \in 1..i : LeakSteps[k] \in LeakGroup
  BY <1>1 DEF Guarded
<1>3. i = 3
  BY <1>1, <1>2
<1>. QED BY <1>1, <1>3 DEF LeakGroup

LEMMA PortForwardStepsGuarded ==
  PortForwardSteps \in Seq(UpNames) /\ Guarded(PortForwardSteps)
<1> DEFINE three == <<"vips", "nft", "dnat">>
<1>1. PortForwardSteps = IF cfg.vips = {} THEN <<>> ELSE three
  BY DEF PortForwardSteps
<1>2. three \in Seq(UpNames) /\ Guarded(three)
  BY DEF UpNames, Guarded
<1>3. <<>> \in Seq(UpNames) /\ Guarded(<<>>)
  BY DEF Guarded
<1>. QED BY <1>1, <1>2, <1>3

GuardedSteps == {s \in Seq(UpNames) : Guarded(s)}

LEMMA StartStepsGuarded == StartSteps \in GuardedSteps
<1> DEFINE none == <<>>  up == <<"veth", "ingress">>  first == <<"first">>
           bridged == <<"bridge", "veth", "ingress">>  nat == <<"nft", "dnat">>
           last == <<"connect", "first">>
           leak == IF cfg.network_cidr = {} THEN none ELSE LeakSteps
           dnat == IF cfg.vips = {} THEN none ELSE nat
<1>1. \A s, t \in GuardedSteps : s \o t \in GuardedSteps
  BY ConcatGuarded DEF GuardedSteps
<1>2. none \in GuardedSteps /\ first \in GuardedSteps
  BY DEF GuardedSteps, Guarded, UpNames
<1>3. up \in GuardedSteps /\ bridged \in GuardedSteps
  BY DEF GuardedSteps, Guarded, UpNames
<1>4. nat \in GuardedSteps /\ last \in GuardedSteps
  BY DEF GuardedSteps, Guarded, UpNames
<1>5. leak \in GuardedSteps /\ dnat \in GuardedSteps
  BY <1>2, <1>4, LeakStepsGuarded DEF GuardedSteps
<1>6. PortForwardSteps \in GuardedSteps
  BY PortForwardStepsGuarded DEF GuardedSteps
<1> HIDE DEF none, up, first, bridged, nat, last, leak, dnat
<1>7. (((up \o leak) \o PortForwardSteps) \o first) \in GuardedSteps
  BY <1>1, <1>2, <1>3, <1>5, <1>6
<1>8. (((bridged \o leak) \o dnat) \o last) \in GuardedSteps
  BY <1>1, <1>3, <1>4, <1>5
<1>9. StartSteps = IF PortForwardOnly(cfg) THEN ((up \o leak) \o PortForwardSteps) \o first
                   ELSE ((bridged \o leak) \o dnat) \o last
  BY DEF StartSteps, none, up, first, bridged, nat, last, leak, dnat
<1>. QED BY <1>7, <1>8, <1>9

LEMMA CycleStepsGuarded == ASSUME NEW active PROVE CycleSteps(active) \in GuardedSteps
<1> DEFINE head == <<"segments", "list">>  list == <<"list">>
<1>1. \A s, t \in GuardedSteps : s \o t \in GuardedSteps
  BY ConcatGuarded DEF GuardedSteps
<1>2. head \in GuardedSteps /\ list \in GuardedSteps
  BY DEF GuardedSteps, Guarded, UpNames
<1>3. PortForwardSteps \in GuardedSteps /\ LeakSteps \in GuardedSteps
  BY PortForwardStepsGuarded, LeakStepsGuarded DEF GuardedSteps
<1> HIDE DEF head, list
<1>4. /\ ((head \o PortForwardSteps) \o LeakSteps) \in GuardedSteps
      /\ ((LeakSteps \o list) \o PortForwardSteps) \in GuardedSteps
  BY <1>1, <1>2, <1>3
<1>5. CycleSteps(active) = IF PortForwardOnly(cfg) THEN PortForwardSteps
                           ELSE IF active THEN (head \o PortForwardSteps) \o LeakSteps
                           ELSE (LeakSteps \o list) \o PortForwardSteps
  BY DEF CycleSteps, head, list
<1>. QED BY <1>3, <1>4, <1>5

OrderedSteps == {s \in Seq(DownNames) : Ordered(s)}

LEMMA StopStepsOrdered == StopSteps \in OrderedSteps
<1> DEFINE none == <<>>  nat == <<"unnft", "undnat", "unvip">>  list == <<"list">>
           vlan == <<"list", "unvlan">>  bridge == <<"unbridge">>
<1>1. \A s, t \in OrderedSteps : s \o t \in OrderedSteps
  BY ConcatOrdered DEF OrderedSteps
<1>2. none \in OrderedSteps /\ nat \in OrderedSteps
  BY DEF OrderedSteps, Ordered, DownNames
<1>3. list \in OrderedSteps /\ vlan \in OrderedSteps /\ bridge \in OrderedSteps
  BY DEF OrderedSteps, Ordered, DownNames
<1>4. UnleakSteps \in OrderedSteps
  <2>1. /\ UnleakSteps \in Seq(DownNames) /\ Len(UnleakSteps) = 3
        /\ UnleakSteps[1] = "unrule" /\ UnleakSteps[2] = "uningress"
        /\ UnleakSteps[3] = "unlink"
    BY DEF UnleakSteps, DownNames
  <2>2. ASSUME NEW i \in 1..Len(UnleakSteps), UnleakSteps[i] = "uningress"
        PROVE  1 \in 1..(i - 1) /\ UnleakSteps[1] = "unrule"
    <3>1. i \in {1, 2, 3}
      BY <2>1
    <3>. QED BY <2>1, <2>2, <3>1
  <2>. QED BY <2>1, <2>2 DEF OrderedSteps, Ordered
<1>5. UnforwardSteps \in OrderedSteps
  BY <1>2 DEF UnforwardSteps
<1> HIDE DEF none, nat, list, vlan, bridge
<1>6. /\ ((list \o UnforwardSteps) \o UnleakSteps) \in OrderedSteps
      /\ (((vlan \o UnforwardSteps) \o UnleakSteps) \o bridge) \in OrderedSteps
  BY <1>1, <1>3, <1>4, <1>5
<1>7. StopSteps = IF PortForwardOnly(cfg) THEN (list \o UnforwardSteps) \o UnleakSteps
                  ELSE ((vlan \o UnforwardSteps) \o UnleakSteps) \o bridge
  BY DEF StopSteps, list, vlan, bridge
<1>. QED BY <1>6, <1>7

LEMMA TailGuarded ==
  ASSUME NEW S, NEW s \in Seq(S), s # <<>>, Guarded(s), Head(s) # "ingress"
  PROVE  Guarded(Tail(s))
<1> SUFFICES ASSUME NEW i \in 1..Len(Tail(s)), Tail(s)[i] = "rules"
             PROVE  \E j \in 1..(i - 1) : /\ Tail(s)[j] = "ingress"
                                          /\ \A k \in j..i : Tail(s)[k] \in LeakGroup
  BY DEF Guarded
<1>1. /\ Len(s) \in Nat /\ Len(s) > 0 /\ Len(Tail(s)) = Len(s) - 1
      /\ \A k \in 1..(Len(s) - 1) : Tail(s)[k] = s[k + 1]
      /\ Head(s) = s[1]
  OBVIOUS
<1>2. i + 1 \in 1..Len(s) /\ s[i + 1] = "rules"
  BY <1>1
<1>3. PICK j \in 1..i : s[j] = "ingress" /\ \A k \in j..(i + 1) : s[k] \in LeakGroup
  BY <1>2 DEF Guarded
<1>4. j # 1
  BY <1>1, <1>3
<1>5. j - 1 \in 1..(i - 1) /\ Tail(s)[j - 1] = "ingress"
  BY <1>1, <1>3, <1>4
<1>6. ASSUME NEW k \in (j - 1)..i PROVE Tail(s)[k] \in LeakGroup
  <2>1. k + 1 \in j..(i + 1) /\ Tail(s)[k] = s[k + 1]
    BY <1>1, <1>3, <1>4
  <2>. QED BY <1>3, <2>1
<1>. QED BY <1>5, <1>6

LEMMA TailOrdered ==
  ASSUME NEW S, NEW s \in Seq(S), s # <<>>, Ordered(s), Head(s) # "unrule"
  PROVE  Ordered(Tail(s))
<1> SUFFICES ASSUME NEW i \in 1..Len(Tail(s)), Tail(s)[i] = "uningress"
             PROVE  \E j \in 1..(i - 1) : Tail(s)[j] = "unrule"
  BY DEF Ordered
<1>1. /\ Len(s) \in Nat /\ Len(s) > 0 /\ Len(Tail(s)) = Len(s) - 1
      /\ \A k \in 1..(Len(s) - 1) : Tail(s)[k] = s[k + 1]
      /\ Head(s) = s[1]
  OBVIOUS
<1>2. i + 1 \in 1..Len(s) /\ s[i + 1] = "uningress"
  BY <1>1
<1>3. PICK j \in 1..i : s[j] = "unrule"
  BY <1>2 DEF Ordered
<1>4. j # 1
  BY <1>1, <1>3
<1>5. j - 1 \in 1..(i - 1) /\ Tail(s)[j - 1] = "unrule"
  BY <1>1, <1>3, <1>4
<1>. QED BY <1>5

(* A skipped group takes its rules along.                                     *)
LEMMA SkipGuarded ==
  ASSUME NEW group \in {LeakGroup, PortForwardGroup}, todo \in Seq(UpNames), Guarded(todo),
         Skip(group)
  PROVE  todo' \in Seq(UpNames) /\ Guarded(todo')
<1>1. PICK n \in 1..Len(todo) :
        /\ \A k \in 1..n : todo[k] \in group
        /\ n < Len(todo) => todo[n + 1] \notin group
        /\ todo' = SubSeq(todo, n + 1, Len(todo))
  BY DEF Skip
<1>2. /\ todo' \in Seq(UpNames) /\ Len(todo) \in Nat /\ Len(todo') = Len(todo) - n
      /\ \A k \in 1..(Len(todo) - n) : todo'[k] = todo[k + n]
  BY <1>1
<1>3. ASSUME NEW i \in 1..Len(todo'), todo'[i] = "rules"
      PROVE  \E j \in 1..(i - 1) : todo'[j] = "ingress" /\ \A k \in j..i : todo'[k] \in LeakGroup
  <2>1. i + n \in 1..Len(todo) /\ todo[i + n] = "rules" /\ n < Len(todo)
    BY <1>2, <1>3
  <2>2. PICK j \in 1..(i + n - 1) :
          todo[j] = "ingress" /\ \A k \in j..(i + n) : todo[k] \in LeakGroup
    BY <2>1 DEF Guarded
  <2>3. j > n
    <3>1. SUFFICES ASSUME j <= n PROVE FALSE
      BY <2>2
    <3>2. todo[j] \in group /\ todo[n + 1] \notin group
      BY <1>1, <2>1, <2>2, <3>1
    <3>3. group = LeakGroup
      BY <2>2, <3>2 DEF LeakGroup, PortForwardGroup
    <3>4. n + 1 \in j..(i + n)
      BY <1>1, <2>1, <2>2, <3>1
    <3>. QED BY <2>2, <3>2, <3>3, <3>4
  <2>4. j - n \in 1..(i - 1) /\ todo'[j - n] = "ingress"
    BY <1>2, <2>1, <2>2, <2>3
  <2>5. ASSUME NEW k \in (j - n)..i PROVE todo'[k] \in LeakGroup
    <3>1. k + n \in j..(i + n) /\ todo'[k] = todo[k + n]
      BY <1>2, <2>1, <2>2, <2>3
    <3>. QED BY <2>2, <3>1
  <2>. QED BY <2>4, <2>5
<1>. QED BY <1>2, <1>3 DEF Guarded

LEMMA UpOrdered == ASSUME NEW s \in Seq(UpNames) PROVE Ordered(s)
BY DEF Ordered, UpNames

LEMMA DownGuarded == ASSUME NEW s \in Seq(DownNames) PROVE Guarded(s)
BY DEF Guarded, DownNames

-----------------------------------------------------------------------------
(* What a step does to the steps left, to the host and to the configuration.  *)

(* A step is done, and what the others wait for it to do is done.             *)
LEMMA Advance ==
  ASSUME StepsLeft, todo # <<>>, todo' = Tail(todo), phase' = phase,
         phase # "stop" =>
           /\ Head(todo) = "ingress" => spoilt' \/ host'.ingress
           /\ spoilt \/ host.ingress => spoilt' \/ host'.ingress,
         phase = "stop" =>
           /\ Head(todo) = "unrule" => spoilt' \/ host'.rules = {}
           /\ spoilt \/ host.rules = {} => spoilt' \/ host'.rules = {}
  PROVE  StepsLeft'
<1>1. CASE phase # "stop"
  <2>1. todo \in Seq(UpNames) /\ todo' \in Seq(UpNames)
    BY <1>1 DEF StepsLeft
  <2>2. Ordered(todo')
    BY <2>1, UpOrdered
  <2>3. spoilt' \/ host'.ingress \/ Guarded(todo')
    BY <1>1, <2>1, TailGuarded DEF StepsLeft
  <2>. QED BY <1>1, <2>1, <2>2, <2>3 DEF StepsLeft, Ordered, Guarded
<1>2. CASE phase = "stop"
  <2>1. todo \in Seq(DownNames) /\ todo' \in Seq(DownNames)
    BY <1>2 DEF StepsLeft
  <2>2. Guarded(todo')
    BY <2>1, DownGuarded
  <2>3. spoilt' \/ host'.rules = {} \/ Ordered(todo')
    BY <1>2, <2>1, TailOrdered DEF StepsLeft
  <2>. QED BY <1>2, <2>1, <2>2, <2>3 DEF StepsLeft, Ordered, Guarded
<1>. QED BY <1>1, <1>2

LEMMA Skipping ==
  ASSUME StepsLeft, phase # "stop", NEW group \in {LeakGroup, PortForwardGroup},
         Skip(group), phase' = phase,
         spoilt \/ host.ingress => spoilt' \/ host'.ingress
  PROVE  StepsLeft'
<1>1. todo \in Seq(UpNames)
  BY DEF StepsLeft
<1>2. todo' \in Seq(UpNames)
  BY <1>1 DEF Skip
<1>3. spoilt' \/ host'.ingress \/ Guarded(todo')
  BY <1>1, SkipGuarded DEF StepsLeft
<1>. QED BY <1>2, <1>3, UpOrdered DEF StepsLeft, Ordered, Guarded

LEMMA NewSteps ==
  ASSUME phase' # "stop", todo' \in GuardedSteps
  PROVE  StepsLeft'
BY UpOrdered DEF StepsLeft, GuardedSteps, Ordered, Guarded

LEMMA NoSteps == ASSUME todo' = <<>> PROVE StepsLeft'
BY DEF StepsLeft, Ordered, Guarded

(* Steps that leave the agent's own state alone.                              *)
LEMMA SameSteps ==
  ASSUME StepsLeft, UNCHANGED <<todo, phase, spoilt>>,
         host'.ingress <=> host.ingress, host.rules = {} => host'.rules = {}
  PROVE  StepsLeft'
BY DEF StepsLeft, Ordered, Guarded

(* One field of the host is written.                                          *)
LEMMA Written ==
  ASSUME HostTyped, NEW f \in Fields \ {"vlan"}, NEW X, host' = [host EXCEPT ![f] = X]
  PROVE  HostTyped' /\ host'[f] = X /\ \A g \in Fields \ {f} : host'[g] = host[g]
BY DEF HostTyped, Fields

LEMMA VlanWritten ==
  ASSUME HostTyped, NEW X \in [Tag -> LinkStates], host' = [host EXCEPT !.vlan = X]
  PROVE  HostTyped' /\ host'.vlan = X /\ \A g \in Fields \ {"vlan"} : host'[g] = host[g]
BY DEF HostTyped, Fields

LEMMA HostSame == ASSUME HostTyped, host' = host PROVE HostTyped'
BY DEF HostTyped

(* What OperatorsKept says of a step.                                         *)
KeepsOperators ==
  /\ \A t \in Tag : host.vlan[t] \notin {"none", "ours"} => host'.vlan[t] = host.vlan[t]
  /\ host.addr \ host'.addr \subseteq Managed(cfg)

LEMMA SameHostKeeps == ASSUME UNCHANGED <<host>> PROVE KeepsOperators
BY DEF KeepsOperators

LEMMA OtherFieldsKeep ==
  ASSUME host'.vlan = host.vlan, host'.addr = host.addr
  PROVE  KeepsOperators
BY DEF KeepsOperators

-----------------------------------------------------------------------------
(* OVN, the operator and the process. *)

LEMMA Outside ==
  ASSUME IInv, ChangeRows \/ EditFile \/ RequestReload \/ BeginRefresh \/ EndRefresh
  PROVE  IInv' /\ KeepsOperators
<1>1. UNCHANGED <<host, todo, phase, spoilt, cfg>>
  BY DEF ChangeRows, EditFile, RequestReload, BeginRefresh, EndRefresh, runVars, histVars
<1>2. StepsLeft'
  BY <1>1, SameSteps DEF IInv
<1>. QED BY <1>1, <1>2, HostSame, SameHostKeeps DEF IInv, Excepted

LEMMA DriftStep == ASSUME IInv, Drift PROVE IInv' /\ KeepsOperators
<1>1. UNCHANGED <<todo, phase, cfg>>
  BY DEF Drift, runVars
<1>2. CASE UNCHANGED spoilt /\ \E n \in host.rules : host' = [host EXCEPT !.rules = @ \ {n}]
  <2>1. PICK n \in host.rules : host' = [host EXCEPT !.rules = @ \ {n}]
    BY <1>2
  <2>2. /\ HostTyped' /\ host'.rules = host.rules \ {n} /\ host'.ingress = host.ingress
        /\ host'.vlan = host.vlan /\ host'.addr = host.addr
    BY <2>1, Written DEF IInv, Fields
  <2>3. StepsLeft'
    BY <1>1, <1>2, <2>2, SameSteps DEF IInv
  <2>. QED BY <1>1, <1>2, <2>2, <2>3, OtherFieldsKeep DEF IInv, Excepted
<1>3. CASE UNCHANGED spoilt /\ \E n \in host.routes : host' = [host EXCEPT !.routes = @ \ {n}]
  <2>1. /\ HostTyped' /\ host'.rules = host.rules /\ host'.ingress = host.ingress
        /\ host'.vlan = host.vlan /\ host'.addr = host.addr
    BY <1>3, Written DEF IInv, Fields
  <2>2. StepsLeft'
    BY <1>1, <1>3, <2>1, SameSteps DEF IInv
  <2>. QED BY <1>1, <1>3, <2>1, <2>2, OtherFieldsKeep DEF IInv, Excepted
<1>4. CASE host' = [host EXCEPT !.ingress = FALSE] /\ spoilt' = TRUE
  <2>1. /\ HostTyped' /\ host'.vlan = host.vlan /\ host'.addr = host.addr
    BY <1>4, Written DEF IInv, Fields
  <2>2. StepsLeft'
    BY <1>1, <1>4 DEF IInv, StepsLeft
  <2>. QED BY <1>1, <1>4, <2>1, <2>2, OtherFieldsKeep DEF IInv, Excepted
<1>5. CASE UNCHANGED spoilt /\ host' = [host EXCEPT !.nft = {}]
  <2>1. /\ HostTyped' /\ host'.rules = host.rules /\ host'.ingress = host.ingress
        /\ host'.vlan = host.vlan /\ host'.addr = host.addr
    BY <1>5, Written DEF IInv, Fields
  <2>2. StepsLeft'
    BY <1>1, <1>5, <2>1, SameSteps DEF IInv
  <2>. QED BY <1>1, <1>5, <2>1, <2>2, OtherFieldsKeep DEF IInv, Excepted
<1>6. CASE UNCHANGED spoilt /\ \E v \in host.addr \cap Managed(cfg) :
             host' = [host EXCEPT !.addr = @ \ {v}]
  <2>1. PICK v \in host.addr \cap Managed(cfg) : host' = [host EXCEPT !.addr = @ \ {v}]
    BY <1>6
  <2>2. /\ HostTyped' /\ host'.rules = host.rules /\ host'.ingress = host.ingress
        /\ host'.vlan = host.vlan /\ host'.addr = host.addr \ {v}
    BY <2>1, Written DEF IInv, Fields
  <2>3. StepsLeft'
    BY <1>1, <1>6, <2>2, SameSteps DEF IInv
  <2>. QED BY <1>1, <1>6, <2>2, <2>3 DEF IInv, Excepted, KeepsOperators
<1>. QED BY <1>2, <1>3, <1>4, <1>5, <1>6 DEF Drift

LEMMA ProcessEnds ==
  ASSUME IInv, Crash \/ AbortStart \/ Exit
  PROVE  IInv' /\ KeepsOperators
<1>1. UNCHANGED <<host, spoilt, cfg>> /\ todo' = <<>>
  BY DEF Crash, AbortStart, Exit, Down, histVars
<1>. QED BY <1>1, NoSteps, HostSame, SameHostKeeps DEF IInv, Excepted

LEMMA ProcessStarts == ASSUME IInv, Start PROVE IInv' /\ KeepsOperators
<1>1. /\ UNCHANGED <<host, spoilt>> /\ todo' = <<"setup">> /\ phase' = "start"
  BY DEF Start
<1>2. todo' \in GuardedSteps
  BY <1>1 DEF GuardedSteps, Guarded, UpNames
<1>3. StepsLeft'
  BY <1>1, <1>2, NewSteps
<1>. QED BY <1>1, <1>3, HostSame, SameHostKeeps DEF IInv, Excepted

LEMMA SigtermStep == ASSUME IInv, Sigterm PROVE IInv' /\ KeepsOperators
<1>1. UNCHANGED <<host, spoilt, cfg>>
  BY DEF Sigterm, histVars
<1>2. StepsLeft'
  <2>1. CASE phase' = "stop" /\ todo' = StopSteps
    BY <2>1, StopStepsOrdered, DownGuarded DEF StepsLeft, OrderedSteps, Guarded, Ordered
  <2>2. CASE Down
    BY <2>2, NoSteps DEF Down
  <2>. QED BY <2>1, <2>2 DEF Sigterm
<1>. QED BY <1>1, <1>2, HostSame, SameHostKeeps DEF IInv, Excepted

LEMMA StepsChosen ==
  ASSUME IInv, Run \/ BeginCycle
  PROVE  IInv' /\ KeepsOperators
<1>1. UNCHANGED <<host, spoilt, cfg>>
  BY DEF Run, BeginCycle, histVars
<1>2. CASE Run
  <2>1. phase' = phase /\ todo' = StartSteps /\ Step("setup")
    BY <1>2 DEF Run
  <2>2. phase # "stop"
    BY <2>1 DEF IInv, StepsLeft, Step, DownNames
  <2>. QED BY <1>1, <2>1, <2>2, StartStepsGuarded, NewSteps, HostSame,
              SameHostKeeps DEF IInv, Excepted
<1>3. CASE BeginCycle
  <2>1. phase' = "run" /\ todo' \in GuardedSteps
    BY <1>3, CycleStepsGuarded DEF BeginCycle
  <2>. QED BY <1>1, <2>1, NewSteps, HostSame, SameHostKeeps DEF IInv, Excepted
<1>. QED BY <1>2, <1>3

(* A reload deletes the addresses it withdraws but `stuck`, empties the list  *)
(* unless that fails, and writes nothing else; what it leaves is noted.       *)
Withdrawn == withdrawnManagedVIPs(cfg, planReload(file)) \cap host.addr
OnlyWithdrew(stuck) ==
  /\ host'.addr = host.addr \ (Withdrawn \ stuck)
  /\ \A f \in Fields \ {"addr", "list"} : host'[f] = host[f]
  /\ residue \subseteq residue' /\ \A v \in stuck : <<"addr", v>> \in residue'
  /\ \/ host'.list = [host.list EXCEPT ![cfg.list] = {}]
     \/ /\ host'.list = host.list
        /\ planReload(file).list = cfg.list \/ <<"list", cfg.list>> \in residue'

LEMMA ReloadWrites ==
  ASSUME HostTyped, handleReload
  PROVE  HostTyped' /\ \E stuck \in SUBSET Withdrawn : OnlyWithdrew(stuck)
<1> DEFINE next == planReload(file)
           renamed == next.list # cfg.list
           Cleaned(stuck, emptied) ==
             [host EXCEPT !.addr = @ \ (Withdrawn \ stuck),
                          !.list = IF emptied THEN [@ EXCEPT ![cfg.list] = {}] ELSE @]
<1>1. PICK stuck \in SUBSET Withdrawn :
        \E emptied \in {renamed, FALSE} :
          /\ host' = Cleaned(stuck, emptied)
          /\ residue' = residue \cup {<<"addr", v>> : v \in stuck}
                          \cup (IF emptied = renamed THEN {} ELSE {<<"list", cfg.list>>})
  BY DEF handleReload, Withdrawn
<1>2. PICK emptied \in {renamed, FALSE} :
        /\ host' = Cleaned(stuck, emptied)
        /\ residue' = residue \cup {<<"addr", v>> : v \in stuck}
                        \cup (IF emptied = renamed THEN {} ELSE {<<"list", cfg.list>>})
  BY <1>1
<1>3. residue \subseteq residue' /\ \A v \in stuck : <<"addr", v>> \in residue'
  BY <1>2
<1> HIDE DEF next
<1>4. CASE emptied
  <2>1. host' = [host EXCEPT !.addr = @ \ (Withdrawn \ stuck), !.list = [@ EXCEPT ![cfg.list] = {}]]
    BY <1>2, <1>4
  <2>2. /\ HostTyped' /\ host'.addr = host.addr \ (Withdrawn \ stuck)
        /\ host'.list = [host.list EXCEPT ![cfg.list] = {}]
        /\ \A f \in Fields \ {"addr", "list"} : host'[f] = host[f]
    BY <2>1 DEF HostTyped, Fields
  <2>. QED BY <1>3, <2>2 DEF OnlyWithdrew
<1>5. CASE ~emptied
  <2>1. host' = [host EXCEPT !.addr = @ \ (Withdrawn \ stuck), !.list = @]
    BY <1>2, <1>5
  <2>2. /\ HostTyped' /\ host'.addr = host.addr \ (Withdrawn \ stuck)
        /\ host'.list = host.list
        /\ \A f \in Fields \ {"addr", "list"} : host'[f] = host[f]
    BY <2>1 DEF HostTyped, Fields
  <2>3. next.list = cfg.list \/ <<"list", cfg.list>> \in residue'
    BY <1>2, <1>5
  <2>. QED BY <1>3, <2>2, <2>3 DEF OnlyWithdrew, next
<1>. QED BY <1>4, <1>5

LEMMA ReloadStep == ASSUME IInv, handleReload PROVE IInv' /\ KeepsOperators
<1>1. UNCHANGED <<todo, phase, spoilt>>
  BY DEF handleReload, runVars
<1>2. HostTyped' /\ \E stuck \in SUBSET Withdrawn : OnlyWithdrew(stuck)
  BY ReloadWrites DEF IInv
<1>3. /\ host'.rules = host.rules /\ host'.ingress = host.ingress
      /\ host'.vlan = host.vlan /\ host.addr \ host'.addr \subseteq Withdrawn
  BY <1>2 DEF OnlyWithdrew, Fields
<1>4. Withdrawn \subseteq Managed(cfg)
  BY DEF Withdrawn, withdrawnManagedVIPs
<1>5. StepsLeft'
  BY <1>1, <1>3, SameSteps DEF IInv
<1>. QED BY <1>1, <1>2, <1>3, <1>4, <1>5 DEF IInv, Excepted, KeepsOperators

-----------------------------------------------------------------------------
(* The steps of set-up and reconcile. *)

(* A step that leaves rules and exception alone.                              *)
LEMMA QuietStep ==
  ASSUME IInv, NEW name, name \notin {"ingress", "unrule"}, Step(name), Done,
         UNCHANGED <<phase, cfg, spoilt>>, HostTyped',
         host'.rules = host.rules, host'.ingress = host.ingress
  PROVE  IInv'
<1>1. todo # <<>> /\ Head(todo) # "ingress" /\ Head(todo) # "unrule" /\ todo' = Tail(todo)
  BY DEF Step, Done
<1>2. StepsLeft'
  BY <1>1, Advance DEF IInv
<1>. QED BY <1>2 DEF IInv, Excepted

LEMMA QuietFailure ==
  ASSUME IInv, phase # "stop", NEW kind, NEW group \in {LeakGroup, PortForwardGroup},
         Fails(kind, group), UNCHANGED <<phase, cfg, spoilt>>, HostTyped',
         host'.rules = host.rules, host'.ingress = host.ingress
  PROVE  IInv'
<1>1. StepsLeft'
  BY Skipping DEF IInv, Fails
<1>. QED BY <1>1 DEF IInv, Excepted

LEMMA StepUp ==
  ASSUME IInv, NEW name \in UpNames \ {"list"}, Step(name)
  PROVE  phase # "stop"
<1>1. CASE phase = "stop"
  <2>1. todo \in Seq(DownNames) /\ todo # <<>> /\ Head(todo) = name
    BY <1>1 DEF IInv, StepsLeft, Step
  <2>2. name \in DownNames
    BY <2>1
  <2>. QED BY <2>2 DEF UpNames, DownNames
<1>. QED BY <1>1

LEMMA PlainHostSteps ==
  ASSUME IInv,
         \/ EnsureBridgeIP \/ SetupVethLeak \/ Connect
         \/ ReconcileFRRPrefixList \/ applyNftRuleset \/ ensureDNATRouting
  PROVE  IInv' /\ KeepsOperators
<1>1. UNCHANGED <<phase, cfg, spoilt>>
  BY DEF EnsureBridgeIP, SetupVethLeak, SetUp, Connect, ReconcileFRRPrefixList,
         applyNftRuleset, ensureDNATRouting, Keep, KeepAll, histVars
<1>2. /\ HostTyped' /\ host'.rules = host.rules /\ host'.ingress = host.ingress
      /\ host'.vlan = host.vlan /\ host'.addr = host.addr
  <2>1. CASE host' = host
    BY <2>1, HostSame DEF IInv
  <2>2. CASE host' # host
    <3>1. CASE EnsureBridgeIP
      BY <3>1, Written DEF EnsureBridgeIP, SetUp, IInv, Fields
    <3>2. CASE SetupVethLeak
      BY <3>2, Written DEF SetupVethLeak, SetUp, IInv, Fields
    <3>3. CASE ReconcileFRRPrefixList
      <4>1. host' = [host EXCEPT !.list = [@ EXCEPT ![cfg.list] = PrefixList]]
        BY <2>2, <3>3 DEF ReconcileFRRPrefixList
      <4>. QED BY <4>1, Written DEF IInv, Fields
    <3>4. CASE applyNftRuleset
      <4>1. PICK X : host' = [host EXCEPT !.nft = X]
        BY <2>2, <3>4 DEF applyNftRuleset
      <4>. QED BY <4>1, Written DEF IInv, Fields
    <3>5. CASE ensureDNATRouting
      BY <2>2, <3>5, Written DEF ensureDNATRouting, IInv, Fields
    <3>. QED BY <2>2, <3>1, <3>2, <3>3, <3>4, <3>5 DEF Connect
  <2>. QED BY <2>1, <2>2
<1>3. KeepsOperators
  BY <1>2, OtherFieldsKeep
<1>4. CASE \E name \in {"bridge", "veth", "connect", "list", "nft", "dnat"} : Step(name) /\ Done
  BY <1>1, <1>2, <1>3, <1>4, QuietStep
<1>5. CASE \E kind \in FaultKinds, name \in {"nft", "dnat"} :
             Step(name) /\ Fails(kind, PortForwardGroup)
  <2>1. phase # "stop"
    BY <1>5, StepUp DEF UpNames
  <2>. QED BY <1>1, <1>2, <1>3, <1>5, <2>1, QuietFailure
<1>. QED BY <1>4, <1>5 DEF EnsureBridgeIP, SetupVethLeak, SetUp, Connect,
     ReconcileFRRPrefixList, applyNftRuleset, ensureDNATRouting, Done, FaultKinds

(* The interfaces of the operator are adopted or refused, never touched.      *)
Respects(X) ==
  /\ X \in [Tag -> LinkStates]
  /\ \A t \in Tag : host.vlan[t] \notin {"none", "ours"} => X[t] = host.vlan[t]

LEMMA LinkedRespects ==
  ASSUME IInv, NEW S
  PROVE  Respects(Linked(S)) /\ \A K : Respects(Pruned(Linked(S), K)) /\ Respects(Pruned(host.vlan, K))
BY DEF IInv, HostTyped, Respects, Linked, Pruned, LinkStates

LEMMA UnmarkedRespects ==
  ASSUME NEW X, Respects(X), NEW t, host.vlan[t] = "none"
  PROVE  Respects([X EXCEPT ![t] = "unmarked"])
BY DEF Respects, LinkStates

LEMMA SegmentStep == ASSUME IInv, EnsureSegments PROVE IInv' /\ KeepsOperators
<1>1. Step("segments") /\ Done /\ UNCHANGED <<phase, cfg, spoilt>>
  BY DEF EnsureSegments, KeepAll
<1>2. PICK X : Respects(X) /\ host' = [host EXCEPT !.vlan = X]
  <2>1. CASE host' = [host EXCEPT !.vlan = Pruned(@, boundTags(bound))]
    BY <2>1, LinkedRespects
  <2>2. CASE \E S : host' = [host EXCEPT !.vlan = Linked(S)]
    BY <2>2, LinkedRespects
  <2>3. CASE \E S : host' = [host EXCEPT !.vlan = Pruned(Linked(S), S)]
    BY <2>3, LinkedRespects
  <2>4. CASE \E S : \E t \in S :
               /\ host.vlan[t] = "none"
               /\ host' = [host EXCEPT !.vlan = [Pruned(Linked(S), S) EXCEPT ![t] = "unmarked"]]
    <3>0. PICK S : \E t \in S :
            /\ host.vlan[t] = "none"
            /\ host' = [host EXCEPT !.vlan = [Pruned(Linked(S), S) EXCEPT ![t] = "unmarked"]]
      BY <2>4
    <3>1. PICK t \in S :
            /\ host.vlan[t] = "none"
            /\ host' = [host EXCEPT !.vlan = [Pruned(Linked(S), S) EXCEPT ![t] = "unmarked"]]
      BY <3>0
    <3>2. Respects([Pruned(Linked(S), S) EXCEPT ![t] = "unmarked"])
      BY <3>1, LinkedRespects, UnmarkedRespects
    <3>. QED BY <3>1, <3>2
  <2>. QED BY <2>1, <2>2, <2>3, <2>4 DEF EnsureSegments
<1>3. /\ HostTyped' /\ host'.vlan = X /\ host'.rules = host.rules
      /\ host'.ingress = host.ingress /\ host'.addr = host.addr
  BY <1>2, VlanWritten DEF IInv, Respects, Fields
<1>. QED BY <1>1, <1>2, <1>3, QuietStep DEF KeepsOperators, Respects

LEMMA AddressStep == ASSUME IInv, reconcilePortForwardVIPs PROVE IInv' /\ KeepsOperators
<1> DEFINE due == IF announceVIPs THEN Managed(cfg) \ host.addr ELSE Managed(cfg) \cap host.addr
<1>1. Step("vips") /\ UNCHANGED <<phase, cfg, spoilt>> /\ phase # "stop"
  BY StepUp DEF reconcilePortForwardVIPs, Keep, KeepAll, histVars, UpNames
<1>2. PICK S \in SUBSET due :
        /\ host' = [host EXCEPT !.addr = IF announceVIPs THEN host.addr \cup S ELSE host.addr \ S]
        /\ Done \/ Fails("addr", PortForwardGroup)
  BY DEF reconcilePortForwardVIPs
<1>3. /\ HostTyped' /\ host'.rules = host.rules /\ host'.ingress = host.ingress
      /\ host'.vlan = host.vlan
      /\ host'.addr = IF announceVIPs THEN host.addr \cup S ELSE host.addr \ S
  BY <1>2, Written DEF IInv, Fields
<1>4. KeepsOperators
  BY <1>2, <1>3 DEF KeepsOperators
<1>5. IInv'
  BY <1>1, <1>2, <1>3, QuietStep, QuietFailure
<1>. QED BY <1>4, <1>5

LEMMA IngressStep == ASSUME IInv, ensureVethIngressRule PROVE IInv' /\ KeepsOperators
<1>1. Step("ingress") /\ UNCHANGED <<phase, cfg>> /\ phase # "stop"
  BY StepUp DEF ensureVethIngressRule, KeepAll, UpNames
<1>2. CASE host' = [host EXCEPT !.ingress = TRUE] /\ spoilt' = FALSE /\ Done
  <2>1. /\ HostTyped' /\ host'.ingress = TRUE
        /\ host'.vlan = host.vlan /\ host'.addr = host.addr
    BY <1>2, Written DEF IInv, Fields
  <2>2. StepsLeft'
    BY <1>1, <1>2, <2>1, Advance DEF IInv, Step, Done
  <2>. QED BY <1>1, <2>1, <2>2, OtherFieldsKeep DEF IInv, Excepted
<1>3. CASE Fails("rule", LeakGroup) /\ UNCHANGED <<host, spoilt>>
  <2>1. IInv'
    BY <1>1, <1>3, QuietFailure, HostSame DEF IInv
  <2>. QED BY <1>3, <2>1, SameHostKeeps
<1>. QED BY <1>2, <1>3 DEF ensureVethIngressRule

LEMMA RouteStep == ASSUME IInv, addLeakRoutes PROVE IInv' /\ KeepsOperators
<1>1. Step("routes") /\ UNCHANGED <<phase, cfg, spoilt>> /\ phase # "stop"
  BY StepUp DEF addLeakRoutes, Keep, KeepAll, histVars, UpNames
<1>2. PICK S : /\ host' = [host EXCEPT !.routes = host.routes \cup S]
               /\ Done \/ Fails("route", LeakGroup)
  BY DEF addLeakRoutes
<1>3. /\ HostTyped' /\ host'.rules = host.rules /\ host'.ingress = host.ingress
      /\ host'.vlan = host.vlan /\ host'.addr = host.addr
  BY <1>2, Written DEF IInv, Fields
<1>4. IInv'
  BY <1>1, <1>2, <1>3, QuietStep, QuietFailure
<1>. QED BY <1>3, <1>4, OtherFieldsKeep

(* The exception is there when the rules are due: nothing before them in the  *)
(* steps left could still make it.                                            *)
LEMMA RuleStep == ASSUME IInv, addLeakRules PROVE IInv' /\ KeepsOperators
<1>1. Step("rules") /\ UNCHANGED <<phase, cfg, spoilt>> /\ phase # "stop"
  BY StepUp DEF addLeakRules, Keep, KeepAll, histVars, UpNames
<1>2. PICK S : /\ host' = [host EXCEPT !.rules = host.rules \cup S]
               /\ Done \/ Fails("rule", LeakGroup)
  BY DEF addLeakRules
<1>3. /\ HostTyped' /\ host'.ingress = host.ingress
      /\ host'.vlan = host.vlan /\ host'.addr = host.addr
  BY <1>2, Written DEF IInv, Fields
<1>4. spoilt \/ host.ingress
  <2>1. SUFFICES ASSUME Guarded(todo) PROVE FALSE
    BY DEF IInv, StepsLeft
  <2>2. todo \in Seq(UpNames) /\ todo # <<>> /\ todo[1] = "rules"
    BY <1>1 DEF IInv, StepsLeft, Step
  <2>3. 1 \in 1..Len(todo)
    BY <2>2
  <2>. QED BY <2>1, <2>2, <2>3 DEF Guarded
<1>5. StepsLeft'
  <2>1. CASE Done
    BY <1>1, <1>3, <1>4, <2>1, Advance DEF IInv, Step, Done
  <2>2. CASE Fails("rule", LeakGroup)
    BY <1>1, <1>3, <2>2, Skipping DEF IInv, Fails
  <2>. QED BY <1>2, <2>1, <2>2
<1>. QED BY <1>1, <1>3, <1>4, <1>5, OtherFieldsKeep DEF IInv, Excepted

LEMMA StaleStep == ASSUME IInv, removeStaleLeaks PROVE IInv' /\ KeepsOperators
<1>1. Step("stale") /\ Done /\ UNCHANGED <<phase, cfg, spoilt>> /\ phase # "stop"
  BY StepUp DEF removeStaleLeaks, Keep, KeepAll, histVars, UpNames
<1>2. PICK K : host' = [host EXCEPT !.routes = host.routes \cap K, !.rules = host.rules \cap K]
  BY DEF removeStaleLeaks
<1>3. /\ HostTyped' /\ host'.ingress = host.ingress /\ host'.rules = host.rules \cap K
      /\ host'.vlan = host.vlan /\ host'.addr = host.addr
  BY <1>2 DEF IInv, HostTyped, Fields
<1>4. StepsLeft'
  BY <1>1, <1>3, Advance DEF IInv, Step, Done
<1>. QED BY <1>1, <1>3, <1>4, OtherFieldsKeep DEF IInv, Excepted

LEMMA NexthopStep == ASSUME IInv, RefreshVethNexthop PROVE IInv' /\ KeepsOperators
<1>1. /\ UNCHANGED <<phase, cfg, spoilt>> /\ phase = "run"
      /\ host' = [host EXCEPT !.routes = {}] /\ todo' \in {LeakSteps, <<>>}
  BY DEF RefreshVethNexthop, Idle, Keep, KeepAll, histVars
<1>2. /\ HostTyped' /\ host'.rules = host.rules /\ host'.ingress = host.ingress
      /\ host'.vlan = host.vlan /\ host'.addr = host.addr
  BY <1>1, Written DEF IInv, Fields
<1>3. StepsLeft'
  BY <1>1, LeakStepsGuarded, NewSteps, NoSteps DEF GuardedSteps
<1>. QED BY <1>1, <1>2, <1>3, OtherFieldsKeep DEF IInv, Excepted

-----------------------------------------------------------------------------
(* The steps of the teardown. *)

LEMMA StepDown ==
  ASSUME IInv, NEW name \in DownNames \ {"list"}, Step(name)
  PROVE  phase = "stop"
<1>1. SUFFICES ASSUME phase # "stop" PROVE FALSE
  OBVIOUS
<1>2. todo \in Seq(UpNames) /\ todo # <<>> /\ Head(todo) = name
  BY <1>1 DEF IInv, StepsLeft, Step
<1>3. name \in UpNames
  BY <1>2
<1>. QED BY <1>3 DEF UpNames, DownNames

(* A removal that fails leaves the host alone.                                *)
LEMMA Unremoved ==
  ASSUME IInv, NEW name \in DownNames \ {"list"}, NEW left, Remove(name, left), host' # left
  PROVE  IInv' /\ KeepsOperators
<1>1. /\ Step(name) /\ Done /\ UNCHANGED <<phase, cfg, host>>
      /\ spoilt' = (spoilt \/ name = "unrule")
  BY DEF Remove, KeepAll
<1>2. phase = "stop"
  BY <1>1, StepDown
<1>3. todo # <<>> /\ Head(todo) = name /\ todo' = Tail(todo)
  BY <1>1 DEF Step, Done
<1>4. name = "unrule" => spoilt'
  BY <1>1
<1>5. spoilt => spoilt'
  BY <1>1
<1>6. StepsLeft'
  BY <1>1, <1>2, <1>3, <1>4, <1>5, Advance DEF IInv
<1>. QED BY <1>1, <1>5, <1>6, HostSame, SameHostKeeps DEF IInv, Excepted

LEMMA QuietRemoval ==
  ASSUME IInv, NEW name \in DownNames \ {"list", "unrule"}, NEW left, Remove(name, left),
         host' = left, HostTyped', host'.rules = host.rules, host'.ingress = host.ingress
  PROVE  IInv'
<1>1. Step(name) /\ Done /\ UNCHANGED <<phase, cfg>> /\ name \notin {"ingress", "unrule"}
  BY DEF Remove, KeepAll, DownNames
<1>2. spoilt' = (spoilt \/ name = "unrule") \/ spoilt' = spoilt
  BY DEF Remove, histVars
<1>3. CASE spoilt' = spoilt
  BY <1>1, <1>3, QuietStep
<1>4. CASE spoilt' # spoilt
  <2>1. UNCHANGED host
    BY <1>4 DEF Remove, histVars
  <2>2. phase = "stop" /\ todo # <<>> /\ Head(todo) = name /\ todo' = Tail(todo)
    BY <1>1, StepDown DEF Step, Done
  <2>3. spoilt => spoilt'
    BY <1>2, <1>4
  <2>4. StepsLeft'
    BY <1>1, <2>1, <2>2, <2>3, Advance DEF IInv
  <2>. QED BY <1>1, <2>1, <2>3, <2>4 DEF IInv, Excepted
<1>. QED BY <1>3, <1>4

LEMMA PlainRemovals ==
  ASSUME IInv,
         \/ TeardownSegmentInterfaces \/ TeardownPortForward
         \/ cleanupDNATRouting \/ RemoveBridgeIP
  PROVE  IInv' /\ KeepsOperators
<1>1. CASE TeardownSegmentInterfaces
  <2> DEFINE left == [host EXCEPT !.vlan = Pruned(host.vlan, {})]
  <2>1. Remove("unvlan", left) /\ "unvlan" \in DownNames \ {"list", "unrule"}
    BY <1>1 DEF TeardownSegmentInterfaces, DownNames
  <2>2. Pruned(host.vlan, {}) \in [Tag -> LinkStates] /\ Respects(Pruned(host.vlan, {}))
    BY LinkedRespects DEF Respects
  <2>3. CASE host' = left
    <3>1. /\ HostTyped' /\ host'.vlan = Pruned(host.vlan, {}) /\ host'.addr = host.addr
          /\ host'.rules = host.rules /\ host'.ingress = host.ingress
      BY <2>2, <2>3, VlanWritten DEF IInv, Fields
    <3>2. KeepsOperators
      BY <2>2, <3>1 DEF KeepsOperators, Respects
    <3>. QED BY <2>1, <2>3, <3>1, <3>2, QuietRemoval
  <2>. QED BY <2>1, <2>3, Unremoved
<1>2. CASE Remove("unvip", [host EXCEPT !.addr = host.addr \ Managed(cfg)])
  <2> DEFINE left == [host EXCEPT !.addr = host.addr \ Managed(cfg)]
  <2>1. Remove("unvip", left) /\ "unvip" \in DownNames \ {"list", "unrule"}
    BY <1>2 DEF DownNames
  <2>2. CASE host' = left
    <3>1. /\ HostTyped' /\ host'.vlan = host.vlan /\ host'.addr = host.addr \ Managed(cfg)
          /\ host'.rules = host.rules /\ host'.ingress = host.ingress
      BY <2>2, Written DEF IInv, Fields
    <3>2. KeepsOperators
      BY <3>1 DEF KeepsOperators
    <3>. QED BY <2>1, <2>2, <3>1, <3>2, QuietRemoval
  <2>. QED BY <2>1, <2>2, Unremoved
<1>3. ASSUME NEW f \in {"nft", "dnat", "bridge"}, NEW X,
             NEW name \in DownNames \ {"list", "unrule"},
             Remove(name, [host EXCEPT ![f] = X])
      PROVE  IInv' /\ KeepsOperators
  <2>1. CASE host' = [host EXCEPT ![f] = X]
    <3>1. /\ HostTyped' /\ host'.vlan = host.vlan /\ host'.addr = host.addr
          /\ host'.rules = host.rules /\ host'.ingress = host.ingress
      BY <2>1, Written DEF IInv, Fields
    <3>. QED BY <1>3, <2>1, <3>1, QuietRemoval, OtherFieldsKeep
  <2>. QED BY <1>3, <2>1, Unremoved
<1>. QED BY <1>1, <1>2, <1>3 DEF TeardownPortForward, cleanupDNATRouting, RemoveBridgeIP, DownNames

LEMMA RuleRemoval ==
  ASSUME IInv, Remove("unrule", [host EXCEPT !.rules = {}])
  PROVE  IInv' /\ KeepsOperators
<1>1. Step("unrule") /\ Done /\ UNCHANGED <<phase, cfg>> /\ "unrule" \in DownNames \ {"list"}
  BY DEF Remove, KeepAll, DownNames
<1>2. CASE host' = [host EXCEPT !.rules = {}]
  <2>1. /\ HostTyped' /\ host'.rules = {}
        /\ host'.vlan = host.vlan /\ host'.addr = host.addr
    BY <1>2, Written DEF IInv, Fields
  <2>2. phase = "stop" /\ todo # <<>> /\ todo' = Tail(todo)
    BY <1>1, StepDown DEF Step, Done
  <2>3. StepsLeft'
    BY <1>1, <2>1, <2>2, Advance DEF IInv
  <2>. QED BY <1>1, <2>1, <2>3, OtherFieldsKeep DEF IInv, Excepted
<1>. QED BY <1>1, <1>2, Unremoved

LEMMA LinkRemoval ==
  ASSUME IInv, Remove("unlink", [host EXCEPT !.routes = {}, !.veth = FALSE])
  PROVE  IInv' /\ KeepsOperators
<1> DEFINE left == [host EXCEPT !.routes = {}, !.veth = FALSE]
<1>1. "unlink" \in DownNames \ {"list", "unrule"}
  BY DEF DownNames
<1>2. CASE host' = left
  <2>1. /\ HostTyped' /\ host'.rules = host.rules /\ host'.ingress = host.ingress
        /\ host'.vlan = host.vlan /\ host'.addr = host.addr
    BY <1>2 DEF IInv, HostTyped, Fields
  <2>. QED BY <1>1, <1>2, <2>1, QuietRemoval, OtherFieldsKeep
<1>. QED BY <1>1, <1>2, Unremoved

(* The rules are gone when the exception is removed.                          *)
LEMMA IngressRemoval == ASSUME IInv, removeVethIngressRules PROVE IInv' /\ KeepsOperators
<1> DEFINE left == [host EXCEPT !.ingress = FALSE]
<1>1. /\ Remove("uningress", left) /\ Step("uningress") /\ Done /\ UNCHANGED <<phase, cfg>>
      /\ "uningress" \in DownNames \ {"list"}
  BY DEF removeVethIngressRules, Remove, KeepAll, DownNames
<1>2. phase = "stop"
  BY <1>1, StepDown
<1>3. spoilt \/ host.rules = {}
  <2>1. SUFFICES ASSUME Ordered(todo) PROVE FALSE
    BY DEF IInv, StepsLeft
  <2>2. todo \in Seq(DownNames) /\ todo # <<>> /\ todo[1] = "uningress"
    BY <1>1, <1>2 DEF IInv, StepsLeft, Step
  <2>3. 1 \in 1..Len(todo)
    BY <2>2
  <2>. QED BY <2>1, <2>2, <2>3 DEF Ordered
<1>4. CASE host' = left
  <2>1. /\ HostTyped' /\ host'.rules = host.rules
        /\ host'.vlan = host.vlan /\ host'.addr = host.addr
    BY <1>4, Written DEF IInv, Fields
  <2>2. spoilt => spoilt'
    BY <1>1 DEF Remove, histVars
  <2>3. todo # <<>> /\ Head(todo) = "uningress" /\ todo' = Tail(todo)
    BY <1>1 DEF Step, Done
  <2>4. StepsLeft'
    BY <1>1, <1>2, <1>3, <2>1, <2>2, <2>3, Advance DEF IInv
  <2>. QED BY <1>1, <1>3, <2>1, <2>2, <2>4, OtherFieldsKeep DEF IInv, Excepted
<1>. QED BY <1>1, <1>4, Unremoved

-----------------------------------------------------------------------------
LEMMA InitIInv == Init => IInv
<1> SUFFICES ASSUME Init PROVE IInv
  OBVIOUS
<1>1. /\ host = [bridge |-> FALSE, veth |-> FALSE, ingress |-> FALSE, rules |-> {},
                 routes |-> {}, vlan |-> Foreign.vlan, list |-> [n \in Name |-> {}],
                 addr |-> Foreign.addr, nft |-> {}, dnat |-> FALSE]
      /\ phase = "down" /\ todo = <<>>
  BY DEF Init
<1>2. Foreign.vlan \in [Tag -> LinkStates]
  BY HostPlaneAssumption DEF LinkStates
<1>3. HostTyped
  BY <1>1, <1>2 DEF HostTyped, Fields
<1>4. StepsLeft
  BY <1>1 DEF StepsLeft, Guarded, Ordered
<1>. QED BY <1>1, <1>3, <1>4 DEF IInv, Excepted

LEMMA Inductive == IInv /\ [Next]_vars => IInv' /\ KeepsOperators
<1> SUFFICES ASSUME IInv, [Next]_vars PROVE IInv' /\ KeepsOperators
  OBVIOUS
<1>1. CASE UNCHANGED vars
  <2>1. UNCHANGED <<host, todo, phase, spoilt, cfg>>
    BY <1>1 DEF vars, runVars, histVars
  <2>2. StepsLeft'
    BY <2>1, SameSteps DEF IInv
  <2>. QED BY <2>1, <2>2, HostSame, SameHostKeeps DEF IInv, Excepted
<1>2. CASE ChangeRows \/ EditFile \/ RequestReload \/ Refresh
  BY <1>2, Outside DEF Refresh
<1>3. CASE Drift
  BY <1>3, DriftStep
<1>4. CASE Crash \/ AbortStart \/ Exit
  BY <1>4, ProcessEnds
<1>5. CASE Start \/ Sigterm \/ handleReload
  BY <1>5, ProcessStarts, SigtermStep, ReloadStep
<1>6. CASE Run \/ BeginCycle
  BY <1>6, StepsChosen
<1>7. CASE \/ EnsureBridgeIP \/ SetupVethLeak \/ Connect
           \/ ReconcileFRRPrefixList \/ applyNftRuleset \/ ensureDNATRouting
  BY <1>7, PlainHostSteps
<1>8. CASE EnsureSegments \/ reconcilePortForwardVIPs
  BY <1>8, SegmentStep, AddressStep
<1>9. CASE \/ ensureVethIngressRule \/ addLeakRoutes \/ addLeakRules \/ removeStaleLeaks
           \/ RefreshVethNexthop
  BY <1>9, IngressStep, RouteStep, RuleStep, StaleStep, NexthopStep
<1>10. CASE cleanup
  <2>1. CASE \/ TeardownSegmentInterfaces \/ TeardownPortForward
             \/ cleanupDNATRouting \/ RemoveBridgeIP
    BY <2>1, PlainRemovals
  <2>2. CASE TeardownVethLeak
    BY <2>2, RuleRemoval, LinkRemoval DEF TeardownVethLeak
  <2>3. CASE removeVethIngressRules
    BY <2>3, IngressRemoval
  <2>. QED BY <1>10, <2>1, <2>2, <2>3 DEF cleanup
<1>. QED BY <1>1, <1>2, <1>3, <1>4, <1>5, <1>6, <1>7, <1>8, <1>9, <1>10 DEF Next, Agent

LEMMA Invariance == Spec => []IInv
BY InitIInv, Inductive, PTL DEF Spec

(* The veth pair never gets the source rule of a network without the ingress  *)
(* exception, in no order of set-up, reconcile, shutdown and crash.           *)
THEOREM NoPacketLoop == Spec => []NoLoop
<1>1. IInv => NoLoop
  BY DEF IInv, Excepted, NoLoop
<1>. QED BY <1>1, Invariance, PTL

(* Interfaces and addresses of the operator survive every step, the clean-up  *)
(* of a shutdown and of a reload among them.                                  *)
THEOREM OperatorsSafe == Spec => OperatorsKept
<1>1. IInv /\ [Next]_vars =>
        [/\ \A t \in Tag : host.vlan[t] \notin {"none", "ours"} => host'.vlan[t] = host.vlan[t]
         /\ host.addr \ host'.addr \subseteq Managed(cfg)]_vars
  BY Inductive DEF KeepsOperators
<1>. QED BY <1>1, Invariance, PTL DEF Spec, OperatorsKept

-----------------------------------------------------------------------------
(* The ruleset.  Before a shutdown only applyNftRuleset writes it, as a whole, *)
(* from the running configuration; what it may leave are the rules before.    *)
LEMMA OtherFields ==
  ASSUME HostTyped, NEW X, NEW Y,
         \/ host' = host
         \/ \E f \in Fields \ {"nft"} : host' = [host EXCEPT ![f] = X]
         \/ host' = [host EXCEPT !.addr = X, !.list = Y]
         \/ host' = [host EXCEPT !.routes = X, !.rules = Y]
  PROVE  host'.nft = host.nft
BY DEF HostTyped, Fields

LEMMA RulesetWrites ==
  ASSUME IInv, Next, phase # "stop", ~Drift
  PROVE  \/ host'.nft = host.nft
         \/ /\ cfg' = cfg
            /\ host'.nft = {Ruleset} \/ host'.nft = host.nft \cup {Ruleset}
<1> USE DEF IInv, Fields
<1>1. CASE ChangeRows \/ EditFile \/ RequestReload \/ Refresh
  BY <1>1 DEF ChangeRows, EditFile, RequestReload, Refresh, BeginRefresh, EndRefresh
<1>0. CASE handleReload
  BY <1>0, ReloadWrites DEF OnlyWithdrew
<1>2. CASE Crash \/ AbortStart \/ Exit \/ Sigterm
  BY <1>2 DEF Crash, AbortStart, Exit, Sigterm, Down
<1>3. CASE Start \/ Run \/ BeginCycle \/ Connect
  BY <1>3 DEF Start, Run, BeginCycle, Connect
<1>4. CASE EnsureBridgeIP \/ SetupVethLeak \/ ensureDNATRouting
  BY <1>4, OtherFields DEF EnsureBridgeIP, SetupVethLeak, SetUp, ensureDNATRouting
<1>5. CASE ReconcileFRRPrefixList
  <2>1. \/ host' = host
        \/ host' = [host EXCEPT !.list = [@ EXCEPT ![cfg.list] = PrefixList]]
    BY <1>5 DEF ReconcileFRRPrefixList
  <2>. QED BY <2>1, OtherFields
<1>6. CASE EnsureSegments
  <2>1. \E X : host' = [host EXCEPT !.vlan = X]
    BY <1>6 DEF EnsureSegments
  <2>. QED BY <2>1, OtherFields
<1>7. CASE reconcilePortForwardVIPs
  <2>1. \E X : host' = [host EXCEPT !.addr = X]
    BY <1>7 DEF reconcilePortForwardVIPs
  <2>. QED BY <2>1, OtherFields
<1>8. CASE applyNftRuleset
  <2>1. /\ cfg' = cfg
        /\ \/ host' = host
           \/ host' = [host EXCEPT !.nft = {Ruleset}]
           \/ host' = [host EXCEPT !.nft = host.nft \cup {Ruleset}]
    BY <1>8 DEF applyNftRuleset, Keep, KeepAll
  <2>. QED BY <2>1, Written
<1>9. CASE ensureVethIngressRule \/ addLeakRoutes \/ addLeakRules \/ RefreshVethNexthop
  <2>1. \/ host' = host
        \/ \E f \in {"ingress", "routes", "rules"} : \E X : host' = [host EXCEPT ![f] = X]
    BY <1>9 DEF ensureVethIngressRule, addLeakRoutes, addLeakRules, RefreshVethNexthop
  <2>. QED BY <2>1, OtherFields
<1>10. CASE removeStaleLeaks
  <2>1. \E X, Y : host' = [host EXCEPT !.routes = X, !.rules = Y]
    BY <1>10 DEF removeStaleLeaks
  <2>. QED BY <2>1, OtherFields
<1>11. ~cleanup
  <2>1. SUFFICES ASSUME NEW name \in DownNames \ {"list"}, NEW left, Remove(name, left)
                 PROVE  FALSE
    BY <2>1 DEF cleanup, TeardownSegmentInterfaces, TeardownPortForward,
      cleanupDNATRouting, TeardownVethLeak, removeVethIngressRules,
      RemoveBridgeIP, DownNames
  <2>2. phase = "stop"
    BY <2>1, StepDown DEF Remove
  <2>. QED BY <2>2
<1>. QED BY <1>0, <1>1, <1>2, <1>3, <1>4, <1>5, <1>6, <1>7, <1>8, <1>9, <1>10, <1>11
         DEF Next, Agent

(* A VIP that is translated and stays configured is translated after every    *)
(* step until a shutdown begins, the operator's removal of the table apart: a *)
(* start, a cycle, a reload, an update that fails and a crash among them      *)
(* (applyNftRuleset replaces the table in one transaction).                   *)
THEOREM VIPsStayTranslated == Spec => RulesetStays
<1>1. IInv /\ [Next]_vars =>
        [phase # "stop" /\ ~Drift =>
           \A v \in VIPs(cfg) \cap VIPs(cfg') :
             (\E r \in host.nft : v \in r.vips) => \E r \in host'.nft : v \in r.vips]_vars
  <2> SUFFICES ASSUME IInv, Next, phase # "stop", ~Drift,
                      NEW v \in VIPs(cfg) \cap VIPs(cfg'),
                      \E r \in host.nft : v \in r.vips
               PROVE  \E r \in host'.nft : v \in r.vips
    OBVIOUS
  <2>1. Ruleset.vips = VIPs(cfg)
    BY DEF Ruleset, buildNftRuleset, writeDNATChain, VIPs
  <2>. QED BY <2>1, RulesetWrites
<1>. QED BY <1>1, Invariance, PTL DEF Spec, RulesetStays
-----------------------------------------------------------------------------
(* What the agent has on the host: each part of it is looked after under the  *)
(* running configuration, with the step that will remove it still to come     *)
(* once the teardown has begun, or it is a residue.                           *)
Names(s) == {s[i] : i \in 1..Len(s)}
Due(name) == phase = "stop" => name \in Names(todo)

AddrAccounted ==
  \A v \in host.addr \ Foreign.addr :
    <<"addr", v>> \in residue \/ (v \in Managed(cfg) /\ Due("unvip"))

ListAccounted ==
  \A n \in Name : host.list[n] # {} =>
    <<"list", n>> \in residue \/ (n = cfg.list /\ Due("list"))

VlanAccounted ==
  \A t \in Tag :
    /\ host.vlan[t] = "ours" =>
         <<"ours", t>> \in residue \/ (~PortForwardOnly(cfg) /\ Due("unvlan"))
    /\ host.vlan[t] = "unmarked" => <<"unmarked", t>> \in residue

VethAccounted ==
  /\ host.veth => <<"veth", "veth">> \in residue \/ Due("unlink")
  /\ host.routes # {} => <<"veth", "routes">> \in residue \/ Due("unlink")
  /\ host.rules # {} => <<"veth", "rules">> \in residue \/ Due("unrule")
  /\ host.ingress => <<"veth", "ingress">> \in residue \/ Due("uningress")

NatAccounted ==
  /\ host.nft # {} => <<"nat", "nft">> \in residue \/ (cfg.vips # {} /\ Due("unnft"))
  /\ host.dnat => <<"nat", "dnat">> \in residue \/ (cfg.vips # {} /\ Due("undnat"))

BridgeAccounted ==
  host.bridge =>
    <<"bridge", "address">> \in residue \/ (~PortForwardOnly(cfg) /\ Due("unbridge"))

Accounted ==
  /\ AddrAccounted /\ ListAccounted /\ VlanAccounted
  /\ VethAccounted /\ NatAccounted /\ BridgeAccounted

(* The steps of a configuration that has no use for them are never planned.   *)
Fit(s) ==
  /\ {"bridge", "segments"} \cap Names(s) # {} => ~PortForwardOnly(cfg)
  /\ {"nft", "dnat"} \cap Names(s) # {} => cfg.vips # {}

HostInv ==
  /\ Fit(todo)
  /\ phase = "down" => todo = <<>>
  /\ host.list = [n \in Name |-> host.list[n]]
  /\ phase # "down" => Accounted

(* The parts are all there is.                                                *)
LEMMA AccountedItems ==
  ASSUME Accounted PROVE Items(host) \subseteq Handles(cfg) \cup residue
<1> SUFFICES ASSUME NEW x \in Items(host) PROVE x \in Handles(cfg) \cup residue
  OBVIOUS
<1> USE DEF Accounted
<1>1. CASE \E v \in host.addr \ Foreign.addr : x = <<"addr", v>>
  BY <1>1 DEF AddrAccounted, Handles
<1>2. CASE \E n \in Name : host.list[n] # {} /\ x = <<"list", n>>
  BY <1>2 DEF ListAccounted, Handles
<1>3. CASE \E t \in Tag : host.vlan[t] \in {"ours", "unmarked"} /\ x = <<host.vlan[t], t>>
  BY <1>3 DEF VlanAccounted, Handles
<1>4. CASE x \in {<<"veth", p>> : p \in {"veth", "ingress", "rules", "routes"}}
  BY <1>4 DEF Handles
<1>5. CASE \/ host.nft # {} /\ x = <<"nat", "nft">>
           \/ host.dnat /\ x = <<"nat", "dnat">>
  BY <1>5 DEF NatAccounted, Handles
<1>6. CASE host.bridge /\ x = <<"bridge", "address">>
  BY <1>6 DEF BridgeAccounted, Handles
<1>. QED BY <1>1, <1>2, <1>3, <1>4, <1>5, <1>6 DEF Items

LEMMA LeftoverItems ==
  ASSUME Accounted, phase = "stop", todo = <<>> PROVE Items(host) \subseteq residue
<1>1. \A name : ~Due(name)
  BY DEF Due, Names
<1> SUFFICES ASSUME NEW x \in Items(host) PROVE x \in residue
  OBVIOUS
<1> USE <1>1 DEF Accounted
<1>2. CASE \E v \in host.addr \ Foreign.addr : x = <<"addr", v>>
  BY <1>2 DEF AddrAccounted
<1>3. CASE \E n \in Name : host.list[n] # {} /\ x = <<"list", n>>
  BY <1>3 DEF ListAccounted
<1>4. CASE \E t \in Tag : host.vlan[t] \in {"ours", "unmarked"} /\ x = <<host.vlan[t], t>>
  BY <1>4 DEF VlanAccounted
<1>5. CASE \/ host.veth /\ x = <<"veth", "veth">>
           \/ host.ingress /\ x = <<"veth", "ingress">>
           \/ host.rules # {} /\ x = <<"veth", "rules">>
           \/ host.routes # {} /\ x = <<"veth", "routes">>
  BY <1>5 DEF VethAccounted
<1>6. CASE \/ host.nft # {} /\ x = <<"nat", "nft">>
           \/ host.dnat /\ x = <<"nat", "dnat">>
  BY <1>6 DEF NatAccounted
<1>7. CASE host.bridge /\ x = <<"bridge", "address">>
  BY <1>7 DEF BridgeAccounted
<1>. QED BY <1>2, <1>3, <1>4, <1>5, <1>6, <1>7 DEF Items

(* What a start finds is looked after, or is a residue from then on.          *)
LEMMA FoundAtStart ==
  ASSUME Items(host') \subseteq Handles(cfg') \cup residue', phase' # "stop"
  PROVE  Accounted'
<1>1. \A name : Due(name)'
  BY DEF Due
<1>2. AddrAccounted'
  <2>1. SUFFICES ASSUME NEW v \in host'.addr \ Foreign.addr
                 PROVE  <<"addr", v>> \in residue' \/ v \in Managed(cfg')
    BY <1>1, <2>1 DEF AddrAccounted
  <2>2. <<"addr", v>> \in Items(host')
    BY DEF Items
  <2>. QED BY <2>2 DEF Handles
<1>3. ListAccounted'
  <2>1. SUFFICES ASSUME NEW n \in Name, host'.list[n] # {}
                 PROVE  <<"list", n>> \in residue' \/ n = cfg'.list
    BY <1>1, <2>1 DEF ListAccounted
  <2>2. <<"list", n>> \in Items(host')
    BY <2>1 DEF Items
  <2>. QED BY <2>2 DEF Handles
<1>4. VlanAccounted'
  <2>1. SUFFICES ASSUME NEW t \in Tag, host'.vlan[t] \in {"ours", "unmarked"}
                 PROVE  \/ <<host'.vlan[t], t>> \in residue'
                        \/ host'.vlan[t] = "ours" /\ ~PortForwardOnly(cfg')
    BY <1>1, <2>1 DEF VlanAccounted
  <2>2. <<host'.vlan[t], t>> \in Handles(cfg') \cup residue'
    BY <2>1 DEF Items
  <2>3. ASSUME NEW k \in {"ours", "unmarked"}, <<k, t>> \in Handles(cfg')
        PROVE  k = "ours" /\ ~PortForwardOnly(cfg')
    BY <2>3 DEF Handles
  <2>. QED BY <2>1, <2>2, <2>3
<1>5. VethAccounted'
  BY <1>1 DEF VethAccounted
<1>6. NatAccounted'
  <2>1. host'.nft # {} => <<"nat", "nft">> \in Items(host')
    BY DEF Items
  <2>2. host'.dnat => <<"nat", "dnat">> \in Items(host')
    BY DEF Items
  <2>. QED BY <1>1, <2>1, <2>2 DEF NatAccounted, Handles
<1>7. BridgeAccounted'
  <2>1. host'.bridge => <<"bridge", "address">> \in Items(host')
    BY DEF Items
  <2>. QED BY <1>1, <2>1 DEF BridgeAccounted, Handles
<1>. QED BY <1>2, <1>3, <1>4, <1>5, <1>6, <1>7 DEF Accounted

LEMMA ConcatNames ==
  ASSUME NEW S, NEW s \in Seq(S), NEW t \in Seq(S)
  PROVE  Names(s \o t) = Names(s) \cup Names(t)
<1>1. /\ Len(s) \in Nat /\ Len(t) \in Nat /\ Len(s \o t) = Len(s) + Len(t)
      /\ \A i \in 1..Len(s) : (s \o t)[i] = s[i]
      /\ \A i \in 1..Len(t) : (s \o t)[i + Len(s)] = t[i]
  OBVIOUS
<1>2. ASSUME NEW i \in 1..Len(s \o t) PROVE (s \o t)[i] \in Names(s) \cup Names(t)
  <2>1. CASE i \in 1..Len(s)
    BY <1>1, <2>1 DEF Names
  <2>2. CASE i \notin 1..Len(s)
    <3>1. i - Len(s) \in 1..Len(t) /\ i = (i - Len(s)) + Len(s)
      BY <1>1, <2>2
    <3>2. (s \o t)[i] = t[i - Len(s)]
      BY <1>1, <3>1
    <3>. QED BY <3>1, <3>2 DEF Names
  <2>. QED BY <2>1, <2>2
<1>3. ASSUME NEW i \in 1..Len(s) PROVE s[i] \in Names(s \o t)
  <2>1. i \in 1..Len(s \o t) /\ (s \o t)[i] = s[i]
    BY <1>1
  <2>. QED BY <2>1 DEF Names
<1>4. ASSUME NEW i \in 1..Len(t) PROVE t[i] \in Names(s \o t)
  <2>1. i + Len(s) \in 1..Len(s \o t) /\ (s \o t)[i + Len(s)] = t[i]
    BY <1>1
  <2>. QED BY <2>1 DEF Names
<1>. QED BY <1>2, <1>3, <1>4 DEF Names

LEMMA TailNames ==
  ASSUME NEW S, NEW s \in Seq(S), s # <<>>
  PROVE  /\ Head(s) \in Names(s)
         /\ Names(Tail(s)) \subseteq Names(s)
         /\ Names(s) \subseteq {Head(s)} \cup Names(Tail(s))
<1>1. /\ Len(s) \in Nat /\ Len(s) > 0 /\ Len(Tail(s)) = Len(s) - 1
      /\ Head(s) = s[1] /\ \A i \in 1..Len(Tail(s)) : Tail(s)[i] = s[i + 1]
  OBVIOUS
<1>2. Head(s) \in Names(s)
  BY <1>1 DEF Names
<1>3. ASSUME NEW i \in 1..Len(Tail(s)) PROVE Tail(s)[i] \in Names(s)
  <2>1. i + 1 \in 1..Len(s) /\ Tail(s)[i] = s[i + 1]
    BY <1>1
  <2>. QED BY <2>1 DEF Names
<1>4. ASSUME NEW i \in 1..Len(s), i # 1 PROVE s[i] \in Names(Tail(s))
  <2>1. i - 1 \in 1..Len(Tail(s)) /\ Tail(s)[i - 1] = s[i]
    BY <1>1, <1>4
  <2>. QED BY <2>1 DEF Names
<1>. QED BY <1>1, <1>2, <1>3, <1>4 DEF Names

LEMMA SkipNames ==
  ASSUME NEW S, todo \in Seq(S), NEW group, Skip(group)
  PROVE  Names(todo') \subseteq Names(todo)
<1>1. PICK n \in 1..Len(todo) : todo' = SubSeq(todo, n + 1, Len(todo))
  BY DEF Skip
<1>2. ASSUME NEW i \in 1..Len(todo') PROVE todo'[i] \in Names(todo)
  <2>1. i + n \in 1..Len(todo) /\ todo'[i] = todo[i + n]
    BY <1>1
  <2>. QED BY <2>1 DEF Names
<1>. QED BY <1>2 DEF Names

LEMMA ConcatFit ==
  ASSUME NEW S, NEW s \in Seq(S), NEW t \in Seq(S), Fit(s), Fit(t)
  PROVE  Fit(s \o t)
BY ConcatNames DEF Fit

FitSteps == {s \in Seq(UpNames) : Fit(s)}

LEMMA PlannedFit == StartSteps \in FitSteps /\ \A active : CycleSteps(active) \in FitSteps
<1> DEFINE none == <<>>  up == <<"veth", "ingress">>  first == <<"first">>
           bridged == <<"bridge", "veth", "ingress">>  nat == <<"nft", "dnat">>
           last == <<"connect", "first">>  three == <<"vips", "nft", "dnat">>
           head == <<"segments", "list">>  list == <<"list">>
           leak == IF cfg.network_cidr = {} THEN none ELSE LeakSteps
           dnat == IF cfg.vips = {} THEN none ELSE nat
<1>1. \A s, t \in FitSteps : s \o t \in FitSteps
  BY ConcatFit DEF FitSteps
<1>2. /\ none \in FitSteps /\ first \in FitSteps /\ up \in FitSteps
      /\ last \in FitSteps /\ list \in FitSteps /\ LeakSteps \in FitSteps
  BY DEF FitSteps, Fit, Names, UpNames, LeakSteps
<1>3. cfg.vips # {} => nat \in FitSteps /\ three \in FitSteps
  BY DEF FitSteps, Fit, Names, UpNames
<1>4. ~PortForwardOnly(cfg) => bridged \in FitSteps /\ head \in FitSteps
  BY DEF FitSteps, Fit, Names, UpNames
<1>5. leak \in FitSteps /\ dnat \in FitSteps /\ PortForwardSteps \in FitSteps
  BY <1>2, <1>3 DEF PortForwardSteps
<1> HIDE DEF none, up, first, bridged, nat, last, three, head, list, leak, dnat
<1>6. ((up \o leak) \o PortForwardSteps) \o first \in FitSteps
  BY <1>1, <1>2, <1>5
<1>7. ~PortForwardOnly(cfg) => ((bridged \o leak) \o dnat) \o last \in FitSteps
  BY <1>1, <1>2, <1>4, <1>5
<1>8. ~PortForwardOnly(cfg) => /\ (head \o PortForwardSteps) \o LeakSteps \in FitSteps
                               /\ (LeakSteps \o list) \o PortForwardSteps \in FitSteps
  BY <1>1, <1>2, <1>4, <1>5
<1>9. StartSteps = IF PortForwardOnly(cfg) THEN ((up \o leak) \o PortForwardSteps) \o first
                   ELSE ((bridged \o leak) \o dnat) \o last
  BY DEF StartSteps, none, up, first, bridged, nat, last, leak, dnat
<1>10. ASSUME NEW active
       PROVE  CycleSteps(active) =
                IF PortForwardOnly(cfg) THEN PortForwardSteps
                ELSE IF active THEN (head \o PortForwardSteps) \o LeakSteps
                ELSE (LeakSteps \o list) \o PortForwardSteps
  BY DEF CycleSteps, head, list
<1>. QED BY <1>5, <1>6, <1>7, <1>8, <1>9, <1>10

(* The teardown has a step for whatever the configuration looks after.        *)
LEMMA StopStepsCover ==
  /\ Fit(StopSteps)
  /\ {"list", "unrule", "uningress", "unlink"} \subseteq Names(StopSteps)
  /\ cfg.vips # {} => {"unnft", "undnat", "unvip"} \subseteq Names(StopSteps)
  /\ ~PortForwardOnly(cfg) => {"unvlan", "unbridge"} \subseteq Names(StopSteps)
<1> DEFINE none == <<>>  nat == <<"unnft", "undnat", "unvip">>  list == <<"list">>
           vlan == <<"list", "unvlan">>  bridge == <<"unbridge">>
<1>1. /\ none \in Seq(DownNames) /\ nat \in Seq(DownNames) /\ list \in Seq(DownNames)
      /\ vlan \in Seq(DownNames) /\ bridge \in Seq(DownNames)
      /\ UnleakSteps \in Seq(DownNames)
  BY DEF UnleakSteps, DownNames
<1>2. /\ Names(nat) = {"unnft", "undnat", "unvip"} /\ Names(list) = {"list"}
      /\ Names(vlan) = {"list", "unvlan"} /\ Names(bridge) = {"unbridge"}
      /\ Names(UnleakSteps) = {"unrule", "uningress", "unlink"} /\ Names(none) = {}
  BY DEF Names, UnleakSteps
<1>3. UnforwardSteps = IF cfg.vips = {} THEN none ELSE nat
  BY DEF UnforwardSteps
<1>4. StopSteps = IF PortForwardOnly(cfg) THEN (list \o UnforwardSteps) \o UnleakSteps
                  ELSE ((vlan \o UnforwardSteps) \o UnleakSteps) \o bridge
  BY DEF StopSteps
<1> HIDE DEF none, nat, list, vlan, bridge
<1>5. \A s, t \in Seq(DownNames) :
        /\ s \o t \in Seq(DownNames)
        /\ Names(s) \subseteq Names(s \o t) /\ Names(t) \subseteq Names(s \o t)
  BY ConcatNames
<1>6. UnforwardSteps \in Seq(DownNames)
  BY <1>1, <1>3
<1>7. cfg.vips # {} => {"unnft", "undnat", "unvip"} \subseteq Names(UnforwardSteps)
  <2>1. SUFFICES ASSUME cfg.vips # {} PROVE UnforwardSteps = nat
    BY <1>2, <2>1, Zenon
  <2>. QED BY <1>3, <2>1
<1>8. Names(StopSteps) \subseteq DownNames
  BY StopStepsOrdered DEF OrderedSteps, Names
<1>9. Fit(StopSteps)
  BY <1>8 DEF Fit, DownNames
<1>10. CASE PortForwardOnly(cfg)
  <2> DEFINE two == list \o UnforwardSteps
  <2>1. /\ two \in Seq(DownNames)
        /\ Names(list) \subseteq Names(two) /\ Names(UnforwardSteps) \subseteq Names(two)
    BY <1>1, <1>5, <1>6
  <2>2. StopSteps = two \o UnleakSteps
    BY <1>4, <1>10
  <2> HIDE DEF two
  <2>3. Names(two) \subseteq Names(StopSteps) /\ Names(UnleakSteps) \subseteq Names(StopSteps)
    <3>1. Names(two) \subseteq Names(two \o UnleakSteps)
      BY <1>1, <1>5, <2>1
    <3>2. Names(UnleakSteps) \subseteq Names(two \o UnleakSteps)
      BY <1>1, <1>5, <2>1
    <3>. QED BY <2>2, <3>1, <3>2, Zenon
  <2>. QED BY <1>2, <1>7, <1>9, <1>10, <2>1, <2>3
<1>11. CASE ~PortForwardOnly(cfg)
  <2> DEFINE two == vlan \o UnforwardSteps  three == two \o UnleakSteps
  <2>1. /\ two \in Seq(DownNames)
        /\ Names(vlan) \subseteq Names(two) /\ Names(UnforwardSteps) \subseteq Names(two)
    BY <1>1, <1>5, <1>6
  <2> HIDE DEF two
  <2>2. /\ three \in Seq(DownNames)
        /\ Names(two) \subseteq Names(three) /\ Names(UnleakSteps) \subseteq Names(three)
    BY <1>1, <1>5, <2>1
  <2>3. StopSteps = three \o bridge
    BY <1>4, <1>11 DEF two
  <2> HIDE DEF three
  <2>4. Names(three) \subseteq Names(StopSteps) /\ Names(bridge) \subseteq Names(StopSteps)
    <3>1. Names(three) \subseteq Names(three \o bridge)
      BY <1>1, <1>5, <2>2
    <3>2. Names(bridge) \subseteq Names(three \o bridge)
      BY <1>1, <1>5, <2>2
    <3>. QED BY <2>3, <3>1, <3>2, Zenon
  <2>. QED BY <1>2, <1>7, <1>9, <1>11, <2>1, <2>2, <2>4
<1>. QED BY <1>10, <1>11
-----------------------------------------------------------------------------
(* What becomes of the parts in a step. *)

LEMMA FitLess ==
  ASSUME Fit(todo), cfg' = cfg, Names(todo') \subseteq Names(todo)
  PROVE  Fit(todo)'
BY DEF Fit, PortForwardOnly

LEMMA PlannedLess ==
  ASSUME IInv, Fit(todo), cfg' = cfg, NEW group,
         todo' = todo \/ (todo # <<>> /\ Done) \/ Skip(group)
  PROVE  Fit(todo)'
<1>1. PICK S : todo \in Seq(S)
  BY DEF IInv, StepsLeft
<1>2. Names(todo') \subseteq Names(todo)
  BY <1>1, TailNames, SkipNames DEF Done
<1>. QED BY <1>2, FitLess

(* Outside the teardown nothing has to be removed yet.                        *)
LEMMA Working ==
  ASSUME Accounted, phase' # "stop", cfg' = cfg, residue \subseteq residue'
  PROVE  /\ VethAccounted'
         /\ (\A v \in host'.addr : v \in host.addr \/ v \in Managed(cfg)) => AddrAccounted'
         /\ (\A n \in Name \ {cfg.list} : host'.list[n] = host.list[n]) => ListAccounted'
         /\ (\A t \in Tag :
               /\ host'.vlan[t] = "ours" => host.vlan[t] = "ours" \/ ~PortForwardOnly(cfg)
               /\ host'.vlan[t] = "unmarked" =>
                    host.vlan[t] = "unmarked" \/ <<"unmarked", t>> \in residue')
              => VlanAccounted'
         /\ (/\ host'.nft # {} => host.nft # {} \/ cfg.vips # {}
             /\ host'.dnat => host.dnat \/ cfg.vips # {})
              => NatAccounted'
         /\ (host'.bridge => host.bridge \/ ~PortForwardOnly(cfg)) => BridgeAccounted'
<1> USE DEF Accounted
<1>1. \A name : Due(name)'
  BY DEF Due
<1>2. VethAccounted'
  BY <1>1 DEF VethAccounted
<1>3. (\A v \in host'.addr : v \in host.addr \/ v \in Managed(cfg)) => AddrAccounted'
  BY <1>1 DEF AddrAccounted
<1>4. (\A n \in Name \ {cfg.list} : host'.list[n] = host.list[n]) => ListAccounted'
  BY <1>1 DEF ListAccounted
<1>5. (\A t \in Tag :
        /\ host'.vlan[t] = "ours" => host.vlan[t] = "ours" \/ ~PortForwardOnly(cfg)
        /\ host'.vlan[t] = "unmarked" =>
             host.vlan[t] = "unmarked" \/ <<"unmarked", t>> \in residue')
       => VlanAccounted'
  BY <1>1 DEF VlanAccounted
<1>6. (/\ host'.nft # {} => host.nft # {} \/ cfg.vips # {}
       /\ host'.dnat => host.dnat \/ cfg.vips # {})
       => NatAccounted'
  BY <1>1 DEF NatAccounted
<1>7. (host'.bridge => host.bridge \/ ~PortForwardOnly(cfg)) => BridgeAccounted'
  BY <1>1 DEF BridgeAccounted
<1>. QED BY <1>2, <1>3, <1>4, <1>5, <1>6, <1>7

(* What is not added to is looked after as before, if its step is still to    *)
(* come.                                                                      *)
LEMMA Keeping ==
  ASSUME Accounted, cfg' = cfg, residue \subseteq residue'
  PROVE  /\ (Due("unvip") => Due("unvip")') /\ host'.addr \subseteq host.addr => AddrAccounted'
         /\ (Due("list") => Due("list")') /\ host'.list = host.list => ListAccounted'
         /\ (Due("unvlan") => Due("unvlan")') /\ host'.vlan = host.vlan => VlanAccounted'
         /\ (/\ Due("unlink") => Due("unlink")'
             /\ Due("unrule") => Due("unrule")'
             /\ Due("uningress") => Due("uningress")'
             /\ host'.veth => host.veth
             /\ host'.routes \subseteq host.routes
             /\ host'.rules \subseteq host.rules
             /\ host'.ingress => host.ingress)
              => VethAccounted'
         /\ (/\ Due("unnft") => Due("unnft")'
             /\ Due("undnat") => Due("undnat")'
             /\ host'.nft # {} => host.nft # {}
             /\ host'.dnat => host.dnat)
              => NatAccounted'
         /\ (Due("unbridge") => Due("unbridge")') /\ (host'.bridge => host.bridge) => BridgeAccounted'
<1> USE DEF Accounted
<1>1. (Due("unvip") => Due("unvip")') /\ host'.addr \subseteq host.addr => AddrAccounted'
  BY DEF AddrAccounted
<1>2. (Due("list") => Due("list")') /\ host'.list = host.list => ListAccounted'
  BY DEF ListAccounted
<1>3. (Due("unvlan") => Due("unvlan")') /\ host'.vlan = host.vlan => VlanAccounted'
  BY DEF VlanAccounted
<1>4. (/\ Due("unlink") => Due("unlink")'
       /\ Due("unrule") => Due("unrule")'
       /\ Due("uningress") => Due("uningress")'
       /\ host'.veth => host.veth
       /\ host'.routes \subseteq host.routes
       /\ host'.rules \subseteq host.rules
       /\ host'.ingress => host.ingress)
        => VethAccounted'
  BY DEF VethAccounted
<1>5. (/\ Due("unnft") => Due("unnft")'
       /\ Due("undnat") => Due("undnat")'
       /\ host'.nft # {} => host.nft # {}
       /\ host'.dnat => host.dnat)
        => NatAccounted'
  BY DEF NatAccounted
<1>6. (Due("unbridge") => Due("unbridge")') /\ (host'.bridge => host.bridge) => BridgeAccounted'
  BY DEF BridgeAccounted
<1>. QED BY <1>1, <1>2, <1>3, <1>4, <1>5, <1>6

LEMMA OutsideAccounted ==
  ASSUME IInv, HostInv, ChangeRows \/ EditFile \/ RequestReload \/ Refresh \/ Drift
  PROVE  HostInv'
<1>1. UNCHANGED <<todo, phase, cfg, residue>>
  BY DEF ChangeRows, EditFile, RequestReload, Refresh, BeginRefresh, EndRefresh, Drift,
         runVars, histVars
<1>2. \A name : Due(name) => Due(name)'
  BY <1>1 DEF Due
<1>3. /\ host'.list = host.list /\ host'.vlan = host.vlan /\ host'.veth = host.veth
      /\ host'.bridge = host.bridge /\ host'.dnat = host.dnat
      /\ host'.addr \subseteq host.addr /\ host'.rules \subseteq host.rules
      /\ host'.routes \subseteq host.routes /\ (host'.ingress => host.ingress)
      /\ (host'.nft # {} => host.nft # {})
  <2>1. CASE ~Drift
    BY <2>1 DEF ChangeRows, EditFile, RequestReload, Refresh, BeginRefresh, EndRefresh
  <2>2. CASE \/ \E n \in host.rules : host' = [host EXCEPT !.rules = @ \ {n}]
             \/ \E n \in host.routes : host' = [host EXCEPT !.routes = @ \ {n}]
    BY <2>2 DEF IInv, HostTyped, Fields
  <2>3. CASE \/ host' = [host EXCEPT !.ingress = FALSE]
             \/ host' = [host EXCEPT !.nft = {}]
             \/ \E v \in host.addr : host' = [host EXCEPT !.addr = @ \ {v}]
    BY <2>3 DEF IInv, HostTyped, Fields
  <2>. QED BY <2>1, <2>2, <2>3 DEF Drift
<1>4. Fit(todo)'
  BY <1>1, FitLess DEF HostInv
<1>5. phase # "down" => Accounted'
  BY <1>1, <1>2, <1>3, Keeping DEF HostInv, Accounted
<1>. QED BY <1>1, <1>3, <1>4, <1>5 DEF HostInv

LEMMA DownAccounted ==
  ASSUME HostInv, Down, UNCHANGED host
  PROVE  HostInv'
BY DEF HostInv, Down, Fit, Names

LEMMA StartAccounted == ASSUME HostInv, Start PROVE HostInv'
<1>1. /\ phase' = "start" /\ todo' = <<"setup">> /\ host' = host
      /\ Items(host') \subseteq Handles(cfg') \cup residue'
  BY DEF Start
<1>2. Fit(todo)'
  BY <1>1 DEF Fit, Names
<1>. QED BY <1>1, <1>2, FoundAtStart DEF HostInv

LEMMA SigtermAccounted == ASSUME IInv, HostInv, Sigterm PROVE HostInv'
<1>1. CASE ~cfg.cleanup
  BY <1>1, DownAccounted DEF Sigterm
<1>2. CASE cfg.cleanup
  <2>1. /\ phase = "run" /\ phase' = "stop" /\ todo' = StopSteps
        /\ UNCHANGED <<host, cfg, residue>>
    BY <1>2 DEF Sigterm, Idle, histVars
  <2>2. Fit(todo)'
    BY <2>1, StopStepsCover DEF Fit, PortForwardOnly
  <2>3. /\ Due("list")' /\ Due("unrule")' /\ Due("uningress")' /\ Due("unlink")'
        /\ cfg.vips # {} => Due("unnft")' /\ Due("undnat")' /\ Due("unvip")'
        /\ ~PortForwardOnly(cfg) => Due("unvlan")' /\ Due("unbridge")'
    BY <2>1, StopStepsCover DEF Due
  <2>4. Managed(cfg) # {} => cfg.vips # {}
    BY DEF Managed
  <2>5. Accounted
    BY <2>1 DEF HostInv
  <2>6. AddrAccounted'
    BY <2>1, <2>3, <2>4, <2>5 DEF Accounted, AddrAccounted
  <2>7. ListAccounted' /\ VethAccounted'
    BY <2>1, <2>3, <2>5 DEF Accounted, ListAccounted, VethAccounted
  <2>8. VlanAccounted'
    BY <2>1, <2>3, <2>5 DEF Accounted, VlanAccounted
  <2>9. NatAccounted' /\ BridgeAccounted'
    BY <2>1, <2>3, <2>5 DEF Accounted, NatAccounted, BridgeAccounted
  <2>. QED BY <2>1, <2>2, <2>6, <2>7, <2>8, <2>9 DEF HostInv, Accounted
<1>. QED BY <1>1, <1>2

(* The steps that are chosen anew fit the configuration they are chosen for.  *)
LEMMA ChosenAccounted ==
  ASSUME IInv, HostInv, Run \/ BeginCycle \/ Connect
  PROVE  HostInv'
<1>1. UNCHANGED <<host, cfg, residue>> /\ phase # "stop" /\ phase # "down"
      /\ phase' \in {phase, "run"}
  <2>1. CASE Run
    BY <2>1, StepUp DEF Run, UpNames, histVars, HostInv, Step
  <2>2. CASE BeginCycle
    BY <2>2, StepUp DEF BeginCycle, UpNames, histVars, HostInv, Step, Idle
  <2>3. CASE Connect
    BY <2>3, StepUp DEF Connect, UpNames, histVars, HostInv, Step
  <2>. QED BY <2>1, <2>2, <2>3
<1>2. Fit(todo)'
  <2>1. CASE Run \/ BeginCycle
    <3>1. Fit(todo')
      BY <2>1, PlannedFit DEF Run, BeginCycle, FitSteps
    <3>. QED BY <1>1, <3>1 DEF Fit, PortForwardOnly
  <2>2. CASE Connect
    BY <1>1, <2>2, PlannedLess DEF Connect, HostInv, Step, Done
  <2>. QED BY <2>1, <2>2
<1>3. Accounted
  BY <1>1 DEF HostInv
<1>4. Accounted'
  BY <1>1, <1>3, Working DEF Accounted
<1>. QED BY <1>1, <1>2, <1>4 DEF HostInv

(* A reload keeps the mode, and whether VIPs are forwarded at all; what it no *)
(* longer looks after it has cleaned up, or it is a residue.                  *)
LEMMA ReloadedMode ==
  /\ planReload(file).remotes = cfg.remotes
  /\ planReload(file).vips = {} <=> cfg.vips = {}
BY DEF planReload, Merged, Applied, reloadableKeys, Key

LEMMA ReloadAccounted == ASSUME IInv, HostInv, handleReload PROVE HostInv'
<1> DEFINE next == planReload(file)
           gone == Withdrawn
<1>1. UNCHANGED <<todo, phase>> /\ phase = "run" /\ cfg' = next
  BY DEF handleReload, runVars, Idle
<1>2. next.remotes = cfg.remotes /\ (next.vips = {} <=> cfg.vips = {})
  BY ReloadedMode
<1>3. PICK stuck \in SUBSET gone : OnlyWithdrew(stuck)
  BY ReloadWrites DEF IInv
<1>4. host.addr \cap Managed(cfg) \subseteq gone \cup Managed(next)
  BY DEF Withdrawn, withdrawnManagedVIPs
<1>5. Accounted /\ host.list = [n \in Name |-> host.list[n]]
  BY <1>1 DEF HostInv
<1>6. /\ residue \subseteq residue' /\ \A v \in stuck : <<"addr", v>> \in residue'
      /\ host'.addr = host.addr \ (gone \ stuck)
      /\ \A f \in Fields \ {"addr", "list"} : host'[f] = host[f]
  BY <1>3 DEF OnlyWithdrew
<1>7. /\ host'.list = [n \in Name |-> host'.list[n]]
      /\ \A n \in Name \ {cfg.list} : host'.list[n] = host.list[n]
      /\ \/ cfg.list \in Name => host'.list[cfg.list] = {}
         \/ next.list = cfg.list
         \/ <<"list", cfg.list>> \in residue'
  BY <1>3, <1>5 DEF OnlyWithdrew
<1> HIDE DEF next, gone
<1>8. \A name : Due(name)'
  BY <1>1 DEF Due
<1>9. Fit(todo)'
  BY <1>1, <1>2 DEF HostInv, Fit, PortForwardOnly
<1>10. AddrAccounted'
  <2>1. SUFFICES ASSUME NEW v \in host'.addr \ Foreign.addr
                 PROVE  <<"addr", v>> \in residue' \/ v \in Managed(cfg')
    BY <1>8, <2>1 DEF AddrAccounted
  <2>2. <<"addr", v>> \in residue \/ v \in Managed(cfg)
    BY <1>5, <1>6 DEF Accounted, AddrAccounted
  <2>. QED BY <1>1, <1>4, <1>6, <2>1, <2>2
<1>11. ListAccounted'
  <2>1. SUFFICES ASSUME NEW n \in Name, host'.list[n] # {}
                 PROVE  <<"list", n>> \in residue' \/ n = cfg'.list
    BY <1>8, <2>1 DEF ListAccounted
  <2>2. CASE n # cfg.list
    BY <1>5, <1>6, <1>7, <2>1, <2>2 DEF Accounted, ListAccounted
  <2>3. CASE n = cfg.list
    BY <1>1, <1>7, <2>1, <2>3
  <2>. QED BY <2>2, <2>3
<1>12. VlanAccounted'
  BY <1>1, <1>2, <1>5, <1>6, <1>8 DEF Accounted, VlanAccounted, Fields, PortForwardOnly
<1>13. VethAccounted'
  BY <1>8 DEF VethAccounted
<1>14. NatAccounted'
  BY <1>1, <1>2, <1>5, <1>6, <1>8 DEF Accounted, NatAccounted, Fields
<1>15. BridgeAccounted'
  BY <1>1, <1>2, <1>5, <1>6, <1>8 DEF Accounted, BridgeAccounted, Fields, PortForwardOnly
<1>. QED BY <1>1, <1>7, <1>9, <1>10, <1>11, <1>12, <1>13, <1>14, <1>15 DEF HostInv, Accounted

(* A step of the set-up or of a cycle that writes none of the fields that     *)
(* depend on the configuration.                                               *)
LEMMA PlainAccounted ==
  ASSUME IInv, HostInv, phase # "stop", phase # "down", UNCHANGED <<phase, cfg>>,
         residue \subseteq residue', Fit(todo)',
         \A f \in {"bridge", "vlan", "list", "addr", "nft", "dnat"} : host'[f] = host[f]
  PROVE  HostInv'
<1>1. Accounted
  BY DEF HostInv
<1>2. Accounted'
  BY <1>1, Working DEF Accounted
<1>. QED BY <1>2 DEF HostInv

LEMMA SetupAccounted ==
  ASSUME IInv, HostInv, EnsureBridgeIP \/ SetupVethLeak
  PROVE  HostInv'
<1>1. PICK name \in {"bridge", "veth"} : SetUp(name, [host EXCEPT ![name] = TRUE])
  BY DEF EnsureBridgeIP, SetupVethLeak
<1>2. /\ Step(name) /\ UNCHANGED <<phase, cfg, residue>> /\ Done
      /\ phase # "stop" /\ phase # "down"
  BY <1>1, StepUp DEF SetUp, Keep, KeepAll, histVars, UpNames, HostInv, Step
<1>3. Fit(todo)'
  BY <1>2, PlannedLess DEF HostInv, Step
<1>4. \A f \in Fields \ {name} : host'[f] = host[f]
  BY <1>1 DEF SetUp, IInv, HostTyped, Fields
<1>5. CASE name = "veth"
  BY <1>2, <1>3, <1>4, <1>5, PlainAccounted DEF Fields
<1>6. CASE name = "bridge"
  <2>1. ~PortForwardOnly(cfg)
    <3>1. PICK S : todo \in Seq(S)
      BY DEF IInv, StepsLeft
    <3>2. "bridge" \in Names(todo)
      BY <1>2, <1>6, <3>1, TailNames DEF Step
    <3>. QED BY <3>2 DEF HostInv, Fit
  <2>2. Accounted
    BY <1>2 DEF HostInv
  <2>3. Accounted'
    BY <1>2, <1>4, <1>6, <2>1, <2>2, Working DEF Accounted, Fields
  <2>. QED BY <1>2, <1>3, <1>4, <1>6, <2>3 DEF HostInv, Fields
<1>. QED BY <1>5, <1>6

Marked(X) ==
  \A t \in Tag : X[t] = "unmarked" =>
    host.vlan[t] = "unmarked" \/ <<"unmarked", t>> \in residue'

LEMMA LinkedMarked ==
  ASSUME NEW S
  PROVE  Marked(Linked(S)) /\ \A K : Marked(Pruned(Linked(S), K)) /\ Marked(Pruned(host.vlan, K))
BY DEF Marked, Linked, Pruned

LEMMA AliasMarked ==
  ASSUME NEW S, NEW u, <<"unmarked", u>> \in residue'
  PROVE  Marked([Pruned(Linked(S), S) EXCEPT ![u] = "unmarked"])
<1>1. Marked(Pruned(Linked(S), S))
  BY LinkedMarked
<1>. QED BY <1>1 DEF Marked, Pruned

LEMMA SegmentsAccounted == ASSUME IInv, HostInv, EnsureSegments PROVE HostInv'
<1>1. /\ Step("segments") /\ Done /\ UNCHANGED <<phase, cfg>>
      /\ phase # "stop" /\ phase # "down"
  BY StepUp DEF EnsureSegments, KeepAll, UpNames, HostInv, Step
<1>2. ~PortForwardOnly(cfg)
  <2>1. PICK S : todo \in Seq(S)
    BY DEF IInv, StepsLeft
  <2>2. "segments" \in Names(todo)
    BY <1>1, <2>1, TailNames DEF Step
  <2>. QED BY <2>2 DEF HostInv, Fit
<1>3. PICK X : Marked(X) /\ residue \subseteq residue' /\ host' = [host EXCEPT !.vlan = X]
  <2>1. CASE UNCHANGED residue /\ host' = [host EXCEPT !.vlan = Pruned(@, boundTags(bound))]
    BY <2>1, LinkedMarked
  <2>2. CASE UNCHANGED residue /\ \E S : host' = [host EXCEPT !.vlan = Linked(S)]
    BY <2>2, LinkedMarked
  <2>3. CASE UNCHANGED residue /\ \E S : host' = [host EXCEPT !.vlan = Pruned(Linked(S), S)]
    BY <2>3, LinkedMarked
  <2>4. CASE \E S : \E u \in S :
               /\ host' = [host EXCEPT !.vlan = [Pruned(Linked(S), S) EXCEPT ![u] = "unmarked"]]
               /\ residue' = residue \cup {<<"unmarked", u>>}
    <3>0. PICK S : \E u \in S :
             /\ host' = [host EXCEPT !.vlan = [Pruned(Linked(S), S) EXCEPT ![u] = "unmarked"]]
             /\ residue' = residue \cup {<<"unmarked", u>>}
      BY <2>4
    <3>1. PICK u \in S :
             /\ host' = [host EXCEPT !.vlan = [Pruned(Linked(S), S) EXCEPT ![u] = "unmarked"]]
             /\ residue' = residue \cup {<<"unmarked", u>>}
      BY <3>0
    <3>2. Marked([Pruned(Linked(S), S) EXCEPT ![u] = "unmarked"])
      BY <3>1, AliasMarked
    <3>. QED BY <3>1, <3>2
  <2>. QED BY <2>1, <2>2, <2>3, <2>4 DEF EnsureSegments
<1>4. host'.vlan = X /\ \A f \in Fields \ {"vlan"} : host'[f] = host[f]
  BY <1>3 DEF IInv, HostTyped, Fields
<1>5. Accounted
  BY <1>1 DEF HostInv
<1>6. Fit(todo)'
  BY <1>1, PlannedLess DEF HostInv, Step
<1>7. Accounted'
  BY <1>1, <1>2, <1>3, <1>4, <1>5, Working DEF Accounted, Fields, Marked
<1>. QED BY <1>1, <1>4, <1>6, <1>7 DEF HostInv, Fields

(* Writes of fields that depend on the configuration: what is written is      *)
(* looked after.                                                              *)
LEMMA AddressAccounted == ASSUME IInv, HostInv, reconcilePortForwardVIPs PROVE HostInv'
<1>1. /\ UNCHANGED <<phase, cfg, residue>> /\ Step("vips")
      /\ phase # "stop" /\ phase # "down"
  BY StepUp DEF reconcilePortForwardVIPs, Keep, KeepAll, histVars, UpNames, HostInv, Step
<1>2. PICK X : /\ host' = [host EXCEPT !.addr = X] /\ X \subseteq host.addr \cup Managed(cfg)
               /\ Done \/ Skip(PortForwardGroup)
  BY DEF reconcilePortForwardVIPs, Fails
<1>3. host'.addr = X /\ \A f \in Fields \ {"addr"} : host'[f] = host[f]
  BY <1>2 DEF IInv, HostTyped, Fields
<1>4. Fit(todo)'
  BY <1>1, <1>2, PlannedLess DEF HostInv, Step
<1>5. Accounted
  BY <1>1 DEF HostInv
<1>6. Accounted'
  BY <1>1, <1>2, <1>3, <1>5, Working DEF Accounted, Fields
<1>. QED BY <1>1, <1>3, <1>4, <1>6 DEF HostInv, Fields

LEMMA NatStepAccounted ==
  ASSUME IInv, HostInv, applyNftRuleset \/ ensureDNATRouting
  PROVE  HostInv'
<1>1. PICK name \in {"nft", "dnat"} :
        /\ Step(name)
        /\ host' = host \/ \E Y : host' = [host EXCEPT ![name] = Y]
        /\ Done \/ Skip(PortForwardGroup)
        /\ UNCHANGED <<phase, cfg, residue>>
  BY DEF applyNftRuleset, ensureDNATRouting, Fails, Keep, KeepAll, histVars
<1>2. phase # "stop" /\ phase # "down" /\ todo # <<>>
  BY <1>1, StepUp DEF UpNames, HostInv, Step
<1>3. cfg.vips # {}
  <2>1. PICK S : todo \in Seq(S)
    BY DEF IInv, StepsLeft
  <2>2. {"nft", "dnat"} \cap Names(todo) # {}
    BY <1>1, <2>1, TailNames DEF Step
  <2>. QED BY <2>2 DEF HostInv, Fit
<1>4. \A f \in Fields \ {"nft", "dnat"} : host'[f] = host[f]
  BY <1>1 DEF IInv, HostTyped, Fields
<1>5. Fit(todo)'
  BY <1>1, <1>2, PlannedLess DEF HostInv
<1>6. Accounted
  BY <1>2 DEF HostInv
<1>7. Accounted'
  BY <1>1, <1>2, <1>3, <1>4, <1>6, Working DEF Accounted, Fields
<1>. QED BY <1>1, <1>2, <1>4, <1>5, <1>7 DEF HostInv, Fields

LEMMA LeakAccounted ==
  ASSUME IInv, HostInv,
         \/ ensureVethIngressRule \/ addLeakRoutes \/ addLeakRules \/ removeStaleLeaks
         \/ RefreshVethNexthop
  PROVE  HostInv'
<1>1. UNCHANGED <<phase, cfg, residue>>
  BY DEF ensureVethIngressRule, addLeakRoutes, addLeakRules, removeStaleLeaks,
         RefreshVethNexthop, Keep, KeepAll, histVars
<1>2. phase # "stop" /\ phase # "down"
  <2>1. CASE \E name \in {"ingress", "routes", "rules", "stale"} : Step(name)
    BY <2>1, StepUp DEF UpNames, HostInv, Step
  <2>2. CASE Idle
    BY <2>2 DEF Idle
  <2>. QED BY <2>1, <2>2 DEF ensureVethIngressRule, addLeakRoutes, addLeakRules,
              removeStaleLeaks, RefreshVethNexthop
<1>3. Fit(todo)'
  <2>1. CASE RefreshVethNexthop
    <3>1. todo' \in {LeakSteps, <<>>}
      BY <2>1 DEF RefreshVethNexthop
    <3>2. Fit(LeakSteps) /\ Fit(<<>>)
      BY DEF Fit, Names, LeakSteps
    <3>3. Fit(todo')
      BY <3>1, <3>2
    <3>. QED BY <1>1, <3>3 DEF Fit, PortForwardOnly
  <2>2. CASE ~RefreshVethNexthop
    <3>1. todo # <<>> /\ (Done \/ Skip(LeakGroup))
      BY <2>2 DEF ensureVethIngressRule, addLeakRoutes, addLeakRules, removeStaleLeaks,
                  Fails, Step
    <3>. QED BY <1>1, <3>1, PlannedLess DEF HostInv
  <2>. QED BY <2>1, <2>2
<1>4. \A f \in {"bridge", "vlan", "list", "addr", "nft", "dnat"} : host'[f] = host[f]
  <2>1. CASE ensureVethIngressRule
    BY <2>1 DEF ensureVethIngressRule, IInv, HostTyped, Fields
  <2>2. CASE addLeakRoutes \/ RefreshVethNexthop
    <3>1. \E Y : host' = [host EXCEPT !.routes = Y]
      BY <2>2 DEF addLeakRoutes, RefreshVethNexthop
    <3>. QED BY <3>1 DEF IInv, HostTyped, Fields
  <2>3. CASE addLeakRules
    <3>1. \E Y : host' = [host EXCEPT !.rules = Y]
      BY <2>3 DEF addLeakRules
    <3>. QED BY <3>1 DEF IInv, HostTyped, Fields
  <2>4. CASE removeStaleLeaks
    <3>1. \E Y, Z : host' = [host EXCEPT !.routes = Y, !.rules = Z]
      BY <2>4 DEF removeStaleLeaks
    <3>. QED BY <3>1 DEF IInv, HostTyped, Fields
  <2>. QED BY <2>1, <2>2, <2>3, <2>4
<1>. QED BY <1>1, <1>2, <1>3, <1>4, PlainAccounted

LEMMA ListStepAccounted == ASSUME IInv, HostInv, ReconcileFRRPrefixList PROVE HostInv'
<1>1. /\ UNCHANGED <<phase, cfg>> /\ Step("list") /\ Done /\ phase # "down"
      /\ residue \subseteq residue'
  BY DEF ReconcileFRRPrefixList, KeepAll, HostInv, Step
<1>2. \/ host' = host
      \/ host' = [host EXCEPT !.list = [host.list EXCEPT ![cfg.list] = PrefixList]]
  BY DEF ReconcileFRRPrefixList
<1>3. host.list = [n \in Name |-> host.list[n]]
  BY DEF HostInv
<1>4. /\ \A f \in Fields \ {"list"} : host'[f] = host[f]
      /\ host'.list = [n \in Name |-> host'.list[n]]
      /\ \A n \in Name \ {cfg.list} : host'.list[n] = host.list[n]
  BY <1>2, <1>3 DEF IInv, HostTyped, Fields
<1>5. Fit(todo)'
  BY <1>1, PlannedLess DEF HostInv, Step
<1>6. Accounted
  BY <1>1 DEF HostInv
<1>7. CASE phase # "stop"
  <2>1. Accounted'
    BY <1>1, <1>4, <1>6, <1>7, Working DEF Accounted, Fields
  <2>. QED BY <1>1, <1>4, <1>5, <2>1 DEF HostInv
<1>8. CASE phase = "stop"
  <2>1. ASSUME NEW name, name # "list" PROVE Due(name) => Due(name)'
    BY <1>1, <1>8, <2>1, TailNames DEF Due, Step, Done, IInv, StepsLeft
  <2>2. ASSUME NEW n \in Name, host'.list[n] # {} PROVE <<"list", n>> \in residue'
    <3>1. CASE n # cfg.list
      BY <1>1, <1>4, <1>6, <2>2, <3>1 DEF Accounted, ListAccounted
    <3>2. CASE n = cfg.list /\ host' = host
      <4>1. \/ residue' = residue \cup {<<"list", cfg.list>>}
            \/ host' = [host EXCEPT !.list[cfg.list] = PrefixList]
        BY <1>8 DEF ReconcileFRRPrefixList
      <4>2. CASE residue' = residue \cup {<<"list", cfg.list>>}
        BY <3>2, <4>2
      <4>3. CASE host' = [host EXCEPT !.list[cfg.list] = PrefixList]
        <5>1. host'.list[n] = PrefixList
          BY <1>3, <3>2, <4>3 DEF IInv, HostTyped, Fields
        <5>. QED BY <1>8, <2>2, <5>1 DEF PrefixList
      <4>. QED BY <4>1, <4>2, <4>3
    <3>3. CASE n = cfg.list /\ host' # host
      <4>1. host'.list[n] = PrefixList
        BY <1>2, <1>3, <3>3 DEF IInv, HostTyped, Fields
      <4>. QED BY <1>8, <2>2, <4>1 DEF PrefixList
    <3>. QED BY <3>1, <3>2, <3>3
  <2>3. ListAccounted'
    BY <2>2 DEF ListAccounted
  <2>4. Accounted'
    BY <1>1, <1>4, <1>6, <2>1, <2>3, Keeping DEF Accounted, Fields
  <2>. QED BY <1>1, <1>4, <1>5, <2>4 DEF HostInv
<1>. QED BY <1>7, <1>8
-----------------------------------------------------------------------------
(* The teardown: its step removes a part, or what it could not remove is a    *)
(* residue.                                                                   *)
LEMMA ItemsOf ==
  ASSUME NEW h
  PROVE  /\ \A v : <<"addr", v>> \in Items(h) <=> v \in h.addr \ Foreign.addr
         /\ \A t \in Tag : <<"ours", t>> \in Items(h) <=> h.vlan[t] = "ours"
         /\ \A p \in {"veth", "ingress"} : <<"veth", p>> \in Items(h) <=> h[p]
         /\ \A p \in {"rules", "routes"} : <<"veth", p>> \in Items(h) <=> h[p] # {}
         /\ <<"nat", "nft">> \in Items(h) <=> h.nft # {}
         /\ <<"nat", "dnat">> \in Items(h) <=> h.dnat
         /\ <<"bridge", "address">> \in Items(h) <=> h.bridge
<1>1. \A v : <<"addr", v>> \in Items(h) <=> v \in h.addr \ Foreign.addr
  BY DEF Items
<1>2. \A t \in Tag : <<"ours", t>> \in Items(h) <=> h.vlan[t] = "ours"
  BY DEF Items
<1>3. <<"veth", "veth">> \in Items(h) <=> h["veth"]
  BY DEF Items
<1>4. <<"veth", "ingress">> \in Items(h) <=> h["ingress"]
  BY DEF Items
<1>5. <<"veth", "rules">> \in Items(h) <=> h["rules"] # {}
  BY DEF Items
<1>6. <<"veth", "routes">> \in Items(h) <=> h["routes"] # {}
  BY DEF Items
<1>7. <<"nat", "nft">> \in Items(h) <=> h.nft # {}
  BY DEF Items
<1>8. <<"nat", "dnat">> \in Items(h) <=> h.dnat
  BY DEF Items
<1>9. <<"bridge", "address">> \in Items(h) <=> h.bridge
  BY DEF Items
<1>. QED BY <1>1, <1>2, <1>3, <1>4, <1>5, <1>6, <1>7, <1>8, <1>9

(* What every step of the teardown has in common.                             *)
LEMMA RemovalSteps ==
  ASSUME IInv, HostInv, NEW name \in DownNames \ {"list"}, NEW left, Remove(name, left)
  PROVE  /\ phase = "stop" /\ UNCHANGED <<phase, cfg>> /\ Fit(todo)' /\ Accounted
         /\ residue \subseteq residue'
         /\ \A other : other # name /\ Due(other) => Due(other)'
         /\ host' = left \/ (host' = host /\ Items(host) \ Items(left) \subseteq residue')
<1>1. /\ Step(name) /\ Done /\ UNCHANGED <<phase, cfg>> /\ residue \subseteq residue'
      /\ phase = "stop"
  BY StepDown DEF Remove, KeepAll, histVars
<1>2. \A other : other # name /\ Due(other) => Due(other)'
  BY <1>1, TailNames DEF Due, Step, Done, IInv, StepsLeft
<1>3. Fit(todo)' /\ Accounted
  BY <1>1, PlannedLess DEF HostInv, Step
<1>4. host' = left \/ (host' = host /\ Items(host) \ Items(left) \subseteq residue')
  BY DEF Remove
<1>. QED BY <1>1, <1>2, <1>3, <1>4

LEMMA VlanRemoved == ASSUME IInv, HostInv, TeardownSegmentInterfaces PROVE HostInv'
<1> DEFINE left == [host EXCEPT !.vlan = Pruned(@, {})]
<1>1. /\ phase = "stop" /\ UNCHANGED <<phase, cfg>> /\ Fit(todo)' /\ Accounted
      /\ residue \subseteq residue'
      /\ \A other : other # "unvlan" /\ Due(other) => Due(other)'
      /\ host' = left \/ (host' = host /\ Items(host) \ Items(left) \subseteq residue')
  BY RemovalSteps DEF TeardownSegmentInterfaces, DownNames
<1>2. left.vlan = Pruned(host.vlan, {}) /\ \A f \in Fields \ {"vlan"} : left[f] = host[f]
  BY DEF IInv, HostTyped, Fields
<1> HIDE DEF left
<1>3. \A f \in Fields \ {"vlan"} : host'[f] = host[f]
  BY <1>1, <1>2
<1>4. VlanAccounted'
  <2>1. CASE host' = left
    BY <1>1, <1>2, <2>1 DEF Accounted, VlanAccounted, Pruned
  <2>2. CASE host' = host /\ Items(host) \ Items(left) \subseteq residue'
    <3>1. ASSUME NEW t \in Tag, host.vlan[t] = "ours" PROVE <<"ours", t>> \in residue'
      <4>1. left.vlan[t] # "ours"
        BY <1>2, <3>1 DEF Pruned
      <4>. QED BY <2>2, <3>1, <4>1, ItemsOf
    <3>. QED BY <1>1, <2>2, <3>1 DEF Accounted, VlanAccounted
  <2>. QED BY <1>1, <2>1, <2>2
<1>5. Accounted'
  BY <1>1, <1>3, <1>4, Keeping DEF Accounted, Fields
<1>. QED BY <1>1, <1>3, <1>5 DEF HostInv, Fields

LEMMA AddressRemoved ==
  ASSUME IInv, HostInv, Remove("unvip", [host EXCEPT !.addr = @ \ Managed(cfg)])
  PROVE  HostInv'
<1> DEFINE left == [host EXCEPT !.addr = @ \ Managed(cfg)]
<1>1. /\ phase = "stop" /\ UNCHANGED <<phase, cfg>> /\ Fit(todo)' /\ Accounted
      /\ residue \subseteq residue'
      /\ \A other : other # "unvip" /\ Due(other) => Due(other)'
      /\ host' = left \/ (host' = host /\ Items(host) \ Items(left) \subseteq residue')
  BY RemovalSteps DEF DownNames
<1>2. left.addr = host.addr \ Managed(cfg) /\ \A f \in Fields \ {"addr"} : left[f] = host[f]
  BY DEF IInv, HostTyped, Fields
<1> HIDE DEF left
<1>3. \A f \in Fields \ {"addr"} : host'[f] = host[f]
  BY <1>1, <1>2
<1>4. ASSUME NEW v \in host'.addr \ Foreign.addr PROVE <<"addr", v>> \in residue'
  <2>1. v \in host.addr \ Foreign.addr
    BY <1>1, <1>2, <1>4
  <2>2. CASE v \notin Managed(cfg)
    BY <1>1, <2>1, <2>2 DEF Accounted, AddrAccounted
  <2>3. CASE v \in Managed(cfg)
    <3>1. v \notin left.addr
      BY <1>2, <2>3
    <3>. QED BY <1>1, <1>4, <2>1, <3>1, ItemsOf
  <2>. QED BY <2>2, <2>3
<1>5. AddrAccounted'
  BY <1>4 DEF AddrAccounted
<1>6. Accounted'
  BY <1>1, <1>3, <1>5, Keeping DEF Accounted, Fields
<1>. QED BY <1>1, <1>3, <1>6 DEF HostInv, Fields

LEMMA NatRemoved ==
  ASSUME IInv, HostInv,
         Remove("unnft", [host EXCEPT !.nft = {}]) \/ cleanupDNATRouting
  PROVE  HostInv'
<1>1. CASE Remove("unnft", [host EXCEPT !.nft = {}])
  <2> DEFINE left == [host EXCEPT !.nft = {}]
  <2>1. /\ phase = "stop" /\ UNCHANGED <<phase, cfg>> /\ Fit(todo)' /\ Accounted
        /\ residue \subseteq residue'
        /\ \A other : other # "unnft" /\ Due(other) => Due(other)'
        /\ host' = left \/ (host' = host /\ Items(host) \ Items(left) \subseteq residue')
    BY <1>1, RemovalSteps DEF DownNames
  <2>2. left.nft = {} /\ \A f \in Fields \ {"nft"} : left[f] = host[f]
    BY DEF IInv, HostTyped, Fields
  <2> HIDE DEF left
  <2>3. \A f \in Fields \ {"nft"} : host'[f] = host[f]
    BY <2>1, <2>2
  <2>4. host'.nft # {} => <<"nat", "nft">> \in residue'
    BY <2>1, <2>2, ItemsOf
  <2>5. NatAccounted'
    BY <2>1, <2>3, <2>4 DEF Accounted, NatAccounted, Fields
  <2>6. Accounted'
    BY <2>1, <2>3, <2>5, Keeping DEF Accounted, Fields
  <2>. QED BY <2>1, <2>3, <2>6 DEF HostInv, Fields
<1>2. CASE cleanupDNATRouting
  <2> DEFINE left == [host EXCEPT !.dnat = FALSE]
  <2>1. /\ phase = "stop" /\ UNCHANGED <<phase, cfg>> /\ Fit(todo)' /\ Accounted
        /\ residue \subseteq residue'
        /\ \A other : other # "undnat" /\ Due(other) => Due(other)'
        /\ host' = left \/ (host' = host /\ Items(host) \ Items(left) \subseteq residue')
    BY <1>2, RemovalSteps DEF cleanupDNATRouting, DownNames
  <2>2. left.dnat = FALSE /\ \A f \in Fields \ {"dnat"} : left[f] = host[f]
    BY DEF IInv, HostTyped, Fields
  <2> HIDE DEF left
  <2>3. \A f \in Fields \ {"dnat"} : host'[f] = host[f]
    BY <2>1, <2>2
  <2>4. host'.dnat => <<"nat", "dnat">> \in residue'
    BY <2>1, <2>2, ItemsOf
  <2>5. NatAccounted'
    BY <2>1, <2>3, <2>4 DEF Accounted, NatAccounted, Fields
  <2>6. Accounted'
    BY <2>1, <2>3, <2>5, Keeping DEF Accounted, Fields
  <2>. QED BY <2>1, <2>3, <2>6 DEF HostInv, Fields
<1>. QED BY <1>1, <1>2

LEMMA BridgeRemoved == ASSUME IInv, HostInv, RemoveBridgeIP PROVE HostInv'
<1> DEFINE left == [host EXCEPT !.bridge = FALSE]
<1>1. /\ phase = "stop" /\ UNCHANGED <<phase, cfg>> /\ Fit(todo)' /\ Accounted
      /\ residue \subseteq residue'
      /\ \A other : other # "unbridge" /\ Due(other) => Due(other)'
      /\ host' = left \/ (host' = host /\ Items(host) \ Items(left) \subseteq residue')
  BY RemovalSteps DEF RemoveBridgeIP, DownNames
<1>2. left.bridge = FALSE /\ \A f \in Fields \ {"bridge"} : left[f] = host[f]
  BY DEF IInv, HostTyped, Fields
<1> HIDE DEF left
<1>3. \A f \in Fields \ {"bridge"} : host'[f] = host[f]
  BY <1>1, <1>2
<1>4. host'.bridge => <<"bridge", "address">> \in residue'
  BY <1>1, <1>2, ItemsOf
<1>5. BridgeAccounted'
  BY <1>4 DEF BridgeAccounted
<1>6. Accounted'
  BY <1>1, <1>3, <1>5, Keeping DEF Accounted, Fields
<1>. QED BY <1>1, <1>3, <1>6 DEF HostInv, Fields

LEMMA VethRemoved ==
  ASSUME IInv, HostInv, TeardownVethLeak \/ removeVethIngressRules
  PROVE  HostInv'
<1> DEFINE Veth == {"veth", "routes", "rules", "ingress"}
<1>1. PICK name, left :
        /\ name \in {"unrule", "uningress", "unlink"}
        /\ Remove(name, left)
        /\ \A f \in Fields \ Veth : left[f] = host[f]
        /\ name = "unrule" => left.rules = {}
        /\ name = "uningress" => ~left.ingress
        /\ name = "unlink" => ~left.veth /\ left.routes = {}
        /\ left.rules \in {host.rules, {}} /\ left.routes \in {host.routes, {}}
        /\ (left.ingress => host.ingress) /\ (left.veth => host.veth)
  <2>1. CASE Remove("unrule", [host EXCEPT !.rules = {}])
    <3> DEFINE left == [host EXCEPT !.rules = {}]
    <3>1. left.rules = {} /\ \A f \in Fields \ {"rules"} : left[f] = host[f]
      BY DEF IInv, HostTyped, Fields
    <3>2. Remove("unrule", left)
      BY <2>1
    <3> HIDE DEF left
    <3>. QED BY <3>1, <3>2 DEF Fields
  <2>2. CASE Remove("unlink", [host EXCEPT !.routes = {}, !.veth = FALSE])
    <3> DEFINE left == [host EXCEPT !.routes = {}, !.veth = FALSE]
    <3>1. /\ left.routes = {} /\ left.veth = FALSE
          /\ \A f \in Fields \ {"routes", "veth"} : left[f] = host[f]
      BY DEF IInv, HostTyped, Fields
    <3>2. Remove("unlink", left)
      BY <2>2
    <3> HIDE DEF left
    <3>. QED BY <3>1, <3>2 DEF Fields
  <2>3. CASE Remove("uningress", [host EXCEPT !.ingress = FALSE])
    <3> DEFINE left == [host EXCEPT !.ingress = FALSE]
    <3>1. left.ingress = FALSE /\ \A f \in Fields \ {"ingress"} : left[f] = host[f]
      BY DEF IInv, HostTyped, Fields
    <3>2. Remove("uningress", left)
      BY <2>3
    <3> HIDE DEF left
    <3>. QED BY <3>1, <3>2 DEF Fields
  <2>. QED BY <2>1, <2>2, <2>3 DEF TeardownVethLeak, removeVethIngressRules
<1>2. /\ phase = "stop" /\ UNCHANGED <<phase, cfg>> /\ Fit(todo)' /\ Accounted
      /\ residue \subseteq residue'
      /\ \A other : other # name /\ Due(other) => Due(other)'
      /\ host' = left \/ (host' = host /\ Items(host) \ Items(left) \subseteq residue')
  BY <1>1, RemovalSteps DEF DownNames
<1>3. \A f \in Fields \ Veth : host'[f] = host[f]
  BY <1>1, <1>2
<1>4. VethAccounted
  BY <1>2 DEF Accounted
<1>5. host'.veth => <<"veth", "veth">> \in residue' \/ Due("unlink")'
  <2>1. CASE name # "unlink"
    BY <1>1, <1>2, <1>4, <2>1 DEF VethAccounted
  <2>2. CASE name = "unlink"
    BY <1>1, <1>2, <2>2, ItemsOf
  <2>. QED BY <2>1, <2>2
<1>6. host'.routes # {} => <<"veth", "routes">> \in residue' \/ Due("unlink")'
  <2>1. CASE name # "unlink"
    BY <1>1, <1>2, <1>4, <2>1 DEF VethAccounted
  <2>2. CASE name = "unlink"
    BY <1>1, <1>2, <2>2, ItemsOf
  <2>. QED BY <2>1, <2>2
<1>7. host'.rules # {} => <<"veth", "rules">> \in residue' \/ Due("unrule")'
  <2>1. CASE name # "unrule"
    BY <1>1, <1>2, <1>4, <2>1 DEF VethAccounted
  <2>2. CASE name = "unrule"
    BY <1>1, <1>2, <2>2, ItemsOf
  <2>. QED BY <2>1, <2>2
<1>8. host'.ingress => <<"veth", "ingress">> \in residue' \/ Due("uningress")'
  <2>1. CASE name # "uningress"
    BY <1>1, <1>2, <1>4, <2>1 DEF VethAccounted
  <2>2. CASE name = "uningress"
    BY <1>1, <1>2, <2>2, ItemsOf
  <2>. QED BY <2>1, <2>2
<1>9. VethAccounted'
  BY <1>5, <1>6, <1>7, <1>8 DEF VethAccounted
<1>10. Accounted'
  BY <1>1, <1>2, <1>3, <1>9, Keeping DEF Accounted, Fields
<1>. QED BY <1>2, <1>3, <1>10 DEF HostInv, Fields

-----------------------------------------------------------------------------
LEMMA InitHostInv == Init => HostInv
BY DEF Init, HostInv, Fit, Names

LEMMA HostInductive == IInv /\ HostInv /\ [Next]_vars => HostInv'
<1> SUFFICES ASSUME IInv, HostInv, [Next]_vars PROVE HostInv'
  OBVIOUS
<1>1. CASE ChangeRows \/ EditFile \/ RequestReload \/ Refresh \/ Drift
  BY <1>1, OutsideAccounted
<1>2. CASE Crash \/ AbortStart \/ Exit
  BY <1>2, DownAccounted DEF Crash, AbortStart, Exit
<1>3. CASE Start \/ Sigterm \/ handleReload
  BY <1>3, StartAccounted, SigtermAccounted, ReloadAccounted
<1>4. CASE Run \/ BeginCycle \/ Connect
  BY <1>4, ChosenAccounted
<1>5. CASE EnsureBridgeIP \/ SetupVethLeak \/ EnsureSegments \/ ReconcileFRRPrefixList
  BY <1>5, SetupAccounted, SegmentsAccounted, ListStepAccounted
<1>6. CASE reconcilePortForwardVIPs \/ applyNftRuleset \/ ensureDNATRouting
  BY <1>6, AddressAccounted, NatStepAccounted
<1>7. CASE \/ ensureVethIngressRule \/ addLeakRoutes \/ addLeakRules \/ removeStaleLeaks
           \/ RefreshVethNexthop
  BY <1>7, LeakAccounted
<1>8. CASE cleanup
  BY <1>8, VlanRemoved, AddressRemoved, NatRemoved, VethRemoved, BridgeRemoved
     DEF cleanup, TeardownPortForward
<1>9. CASE UNCHANGED vars
  <2>1. UNCHANGED <<host, todo, phase, cfg, residue>>
    BY <1>9 DEF vars, runVars, histVars
  <2>2. Fit(todo)'
    BY <2>1, FitLess DEF HostInv
  <2>3. \A name : Due(name) => Due(name)'
    BY <2>1 DEF Due
  <2>4. phase # "down" => Accounted'
    BY <2>1, <2>3, Keeping DEF HostInv, Accounted
  <2>. QED BY <2>1, <2>2, <2>4 DEF HostInv
<1>. QED BY <1>1, <1>2, <1>3, <1>4, <1>5, <1>6, <1>7, <1>8, <1>9 DEF Next, Agent

LEMMA HostInvariance == Spec => []HostInv
BY InitHostInv, HostInductive, Invariance, PTL DEF Spec

(* Whatever the agent has on the host is something its running configuration  *)
(* makes it look after, or a failed clean-up's or a predecessor's (planReload *)
(* and the clean-up in handleReload).                                         *)
THEOREM AllLookedAfter == Spec => []NothingForgotten
<1>1. HostInv => NothingForgotten
  BY AccountedItems DEF HostInv, NothingForgotten
<1>. QED BY <1>1, HostInvariance, PTL

(* A completed clean-up leaves nothing but what it could not remove.          *)
THEOREM ShutdownComplete == Spec => []LeavesClean
<1>1. HostInv => LeavesClean
  BY LeftoverItems DEF HostInv, LeavesClean
<1>. QED BY <1>1, HostInvariance, PTL

-----------------------------------------------------------------------------
(* Types.  The set-up takes the configured networks as they are, while a      *)
(* cycle takes their IPv4 part only: that the kernel's tables hold IPv4       *)
(* networks needs a configuration without others.                             *)
ConfiguredIPv4 == \A f \in Files : loadConfig(f).network_cidr \subseteq V4Net

OvnTyped ==
  /\ now \in 1..Len(History) /\ refreshing \in 0..now /\ signal \in BOOLEAN
  /\ view \in [Tables -> 0..now]

ProcessTyped ==
  /\ file \in Files /\ cfg \in Configs /\ hup \in BOOLEAN /\ spoilt \in BOOLEAN
  /\ phase \in {"down", "start", "run", "stop"}

NetworksIPv4 == cfg.network_cidr \subseteq V4Net

TagsOf(segments) == {s.tag : s \in segments} \subseteq Tag \cup {None}

MemTyped == goal.nets \subseteq V4Net /\ TagsOf(goal.desired.segments) /\ TagsOf(bound)

LeakTyped == seen \subseteq V4Net /\ host.rules \subseteq V4Net /\ host.routes \subseteq V4Net

Counted == faults \in 0..MaxFaults /\ changes \in 0..MaxChanges

WellFormed == OvnTyped /\ ProcessTyped /\ MemTyped /\ Counted

TInv == WellFormed /\ NetworksIPv4 /\ LeakTyped /\ host.addr \subseteq V4

(* A fault and a change each use up one of their bound.                       *)
LEMMA EachCounted ==
  ASSUME Counted, NoFault \/ \E kind : Fault(kind), UNCHANGED changes \/ Change
  PROVE  Counted'
BY HostPlaneAssumption DEF Counted, NoFault, Fault, Change

LEMMA CountedInductive == ASSUME Counted, Next PROVE Counted'
<1>1. CASE ChangeRows \/ EditFile \/ RequestReload \/ Start \/ Refresh \/ Run \/ BeginCycle
           \/ Connect \/ Exit
  BY <1>1, EachCounted
     DEF ChangeRows, EditFile, RequestReload, Start, Refresh, BeginRefresh, EndRefresh, Run,
         BeginCycle, Connect, Exit, boundVars, NoFault
<1>2. CASE Drift \/ Crash \/ AbortStart \/ Sigterm
  BY <1>2, EachCounted DEF Drift, Crash, AbortStart, Sigterm, NoFault
<1>3. CASE handleReload
  BY <1>3, EachCounted DEF handleReload
<1>4. CASE EnsureBridgeIP \/ SetupVethLeak
  BY <1>4, EachCounted DEF EnsureBridgeIP, SetupVethLeak, SetUp, Keep, KeepAll
<1>5. CASE EnsureSegments
  BY <1>5, EachCounted DEF EnsureSegments, KeepAll
<1>6. CASE ReconcileFRRPrefixList \/ applyNftRuleset \/ ensureDNATRouting
           \/ ensureVethIngressRule
  BY <1>6, EachCounted DEF ReconcileFRRPrefixList, applyNftRuleset, ensureDNATRouting,
     ensureVethIngressRule, Fails, Keep, KeepAll
<1>7. CASE reconcilePortForwardVIPs
  BY <1>7, EachCounted DEF reconcilePortForwardVIPs, Fails, Keep, KeepAll
<1>8. CASE addLeakRoutes \/ addLeakRules \/ removeStaleLeaks \/ RefreshVethNexthop
  BY <1>8, EachCounted DEF addLeakRoutes, addLeakRules, removeStaleLeaks,
     RefreshVethNexthop, Fails, Keep, KeepAll
<1>9. CASE cleanup
  <2>1. PICK name, left : Remove(name, left)
    BY <1>9 DEF cleanup, TeardownSegmentInterfaces, TeardownPortForward, cleanupDNATRouting,
                TeardownVethLeak, removeVethIngressRules, RemoveBridgeIP
  <2>. QED BY <2>1, EachCounted DEF Remove, KeepAll
<1>. QED BY <1>1, <1>2, <1>3, <1>4, <1>5, <1>6, <1>7, <1>8, <1>9 DEF Next, Agent

-----------------------------------------------------------------------------
(* OVN, the configuration and the process. *)

LEMMA OvnInductive == ASSUME OvnTyped, Next PROVE OvnTyped'
<1>0. Len(History) \in Nat /\ now \in Nat /\ 1 <= now /\ now <= Len(History)
  BY HostPlaneAssumption DEF OvnTyped
<1>a. ASSUME NEW n \in Nat, now <= n
      PROVE  refreshing \in 0..n /\ view \in [Tables -> 0..n]
  <2>1. 0..now \subseteq 0..n
    BY <1>0, <1>a
  <2>. QED BY <2>1 DEF OvnTyped
<1>b. [t \in Tables |-> now] \in [Tables -> 0..now] /\ NoView \in [Tables -> 0..now]
  BY <1>0 DEF NoView
<1>1. CASE ChangeRows
  <2>1. now' = now + 1 /\ now < Len(History) /\ UNCHANGED <<refreshing, view>>
        /\ signal' \in BOOLEAN
    BY <1>1 DEF ChangeRows
  <2>2. now + 1 \in Nat /\ now <= now + 1 /\ now + 1 \in 1..Len(History)
    BY <2>1, <1>0
  <2>3. refreshing \in 0..(now + 1) /\ view \in [Tables -> 0..(now + 1)]
    BY <2>2, <1>a
  <2>. QED BY <2>1, <2>2, <2>3 DEF OvnTyped
<1>2. CASE BeginRefresh
  <2>1. UNCHANGED <<now, view>> /\ refreshing' = now /\ signal' \in BOOLEAN
    BY <1>2 DEF BeginRefresh
  <2>2. now \in 0..now
    BY <1>0
  <2>. QED BY <2>1, <2>2 DEF OvnTyped
<1>3. CASE EndRefresh
  <2>1. view' \in [Tables -> refreshing..now] /\ refreshing' = 0 /\ UNCHANGED <<now, signal>>
    BY <1>3 DEF EndRefresh, Reads
  <2>2. refreshing..now \subseteq 0..now
    BY <1>0 DEF OvnTyped
  <2>. QED BY <2>1, <2>2, <1>0 DEF OvnTyped
<1>4. CASE Connect
  <2>1. view' \in [Tables -> 0..now] /\ UNCHANGED <<now, refreshing, signal>>
    BY <1>4, <1>b DEF Connect
  <2>. QED BY <2>1 DEF OvnTyped
<1>5. CASE Crash \/ AbortStart \/ Exit
  <2>1. now' = now /\ refreshing' = 0 /\ signal' \in BOOLEAN /\ view' \in [Tables -> 0..now]
    BY <1>5, <1>b DEF Crash, AbortStart, Exit, Down
  <2>2. 0 \in 0..now
    BY <1>0
  <2>. QED BY <2>1, <2>2 DEF OvnTyped
<1>6. CASE Sigterm
  <2>1. now' = now /\ refreshing' = 0 /\ signal' \in BOOLEAN /\ view' \in [Tables -> 0..now]
    BY <1>6, <1>b DEF Sigterm, Down, OvnTyped
  <2>2. 0 \in 0..now
    BY <1>0
  <2>. QED BY <2>1, <2>2 DEF OvnTyped
<1>7. CASE UNCHANGED ovnVars
  BY <1>7 DEF ovnVars, OvnTyped
<1>8. CASE EditFile \/ RequestReload \/ Drift \/ Start \/ handleReload \/ Run \/ BeginCycle
  BY <1>7, <1>8 DEF EditFile, RequestReload, Drift, Start, handleReload, Run, BeginCycle
<1>9. CASE \/ EnsureBridgeIP \/ SetupVethLeak \/ EnsureSegments \/ ReconcileFRRPrefixList
           \/ reconcilePortForwardVIPs \/ applyNftRuleset \/ ensureDNATRouting
           \/ ensureVethIngressRule \/ addLeakRoutes \/ addLeakRules \/ removeStaleLeaks
           \/ RefreshVethNexthop
  BY <1>7, <1>9 DEF EnsureBridgeIP, SetupVethLeak, SetUp, EnsureSegments,
     ReconcileFRRPrefixList, reconcilePortForwardVIPs, applyNftRuleset, ensureDNATRouting,
     ensureVethIngressRule, addLeakRoutes, addLeakRules, removeStaleLeaks,
     RefreshVethNexthop, Keep, KeepAll
<1>10. CASE cleanup
  <2>1. PICK name, left : Remove(name, left)
    BY <1>10 DEF cleanup, TeardownSegmentInterfaces, TeardownPortForward, cleanupDNATRouting,
                 TeardownVethLeak, removeVethIngressRules, RemoveBridgeIP
  <2>. QED BY <1>7, <2>1 DEF Remove, KeepAll
<1>. QED BY <1>1, <1>2, <1>3, <1>4, <1>5, <1>6, <1>8, <1>9, <1>10 DEF Next, Agent, Refresh

(* Over the defaults every key has a value, whatever the file and the         *)
(* environment leave open.                                                    *)
LEMMA LayersComplete == ASSUME NEW f \in Files PROVE loadConfig(f) \in Configs
<1>1. f \in Layers /\ Env \in Layers /\ Default \in Configs
  BY HostPlaneAssumption
<1>2. \A k \in Key : loadConfig(f)[k] =
        IF Env[k] # Unset THEN Env[k] ELSE IF f[k] # Unset THEN f[k] ELSE Default[k]
  BY DEF loadConfig, applyEnvConfig, applyFileConfig
<1>3. loadConfig(f) = [k \in Key |-> loadConfig(f)[k]]
  BY DEF loadConfig, applyEnvConfig
<1>4. \A c : c = [k \in Key |-> c[k]] /\ c.remotes \in {"none", "one", "both"}
             /\ c.network_cidr \in SUBSET Net /\ c.list \in Name /\ c.vips \in SUBSET VIP
             /\ c.cleanup \in BOOLEAN => c \in Configs
  BY DEF Key, Configs
<1> HIDE DEF loadConfig
<1>5. loadConfig(f).remotes \in {"none", "one", "both"} /\ loadConfig(f).list \in Name
  BY <1>1, <1>2 DEF Layers, Or, Configs, Key
<1>6. loadConfig(f).network_cidr \in SUBSET Net
  BY <1>1, <1>2 DEF Layers, Or, Configs, Key
<1>7. loadConfig(f).vips \in SUBSET VIP
  BY <1>1, <1>2 DEF Layers, Or, Configs, Key
<1>8. loadConfig(f).cleanup \in BOOLEAN
  BY <1>1, <1>2 DEF Layers, Or, Configs, Key
<1>. QED BY <1>3, <1>4, <1>5, <1>6, <1>7, <1>8

(* A reload keeps the keys it may not apply, the networks among them.         *)
LEMMA ReloadTyped ==
  ASSUME NEW f \in Files, cfg \in Configs
  PROVE  planReload(f) \in Configs /\ planReload(f).network_cidr = cfg.network_cidr
<1> DEFINE next == loadConfig(f)
           merged == Merged(cfg, next)
<1>1. next \in Configs
  BY LayersComplete
<1> HIDE DEF next
<1>2. merged \in Configs /\ merged.network_cidr = cfg.network_cidr
  BY <1>1 DEF Merged, Applied, reloadableKeys, Key, Configs
<1>. QED BY <1>2 DEF planReload, next

LEMMA ProcessInductive ==
  ASSUME ProcessTyped, Next
  PROVE  ProcessTyped' /\ (ConfiguredIPv4 /\ NetworksIPv4 => NetworksIPv4')
<1>1. CASE Start
  BY <1>1, LayersComplete DEF Start, ProcessTyped, ConfiguredIPv4, NetworksIPv4
<1>2. CASE handleReload
  <2>1. cfg' = planReload(file) /\ hup' = FALSE /\ UNCHANGED <<file, phase, spoilt>>
    BY <1>2 DEF handleReload, runVars
  <2>. QED BY <2>1, ReloadTyped DEF ProcessTyped, NetworksIPv4
<1>3. CASE Crash \/ AbortStart \/ Exit \/ Sigterm
  BY <1>3 DEF Crash, AbortStart, Exit, Sigterm, Down, histVars, ProcessTyped, NetworksIPv4
<1>4. CASE EditFile \/ RequestReload \/ Drift \/ BeginCycle
  BY <1>4 DEF EditFile, RequestReload, Drift, BeginCycle, histVars, runVars, ProcessTyped, NetworksIPv4
<1>5. CASE ensureVethIngressRule
  BY <1>5 DEF ensureVethIngressRule, KeepAll, ProcessTyped, NetworksIPv4
<1>6. CASE cleanup
  <2>1. PICK name, left : Remove(name, left)
    BY <1>6 DEF cleanup, TeardownSegmentInterfaces, TeardownPortForward, cleanupDNATRouting,
                TeardownVethLeak, removeVethIngressRules, RemoveBridgeIP
  <2>2. UNCHANGED <<file, cfg, hup, phase>> /\ spoilt' \in {spoilt, TRUE, FALSE}
    BY <2>1 DEF Remove, KeepAll, histVars
  <2>. QED BY <2>2 DEF ProcessTyped, NetworksIPv4
<1>7. CASE UNCHANGED <<file, cfg, hup, phase, spoilt>>
  BY <1>7 DEF ProcessTyped, NetworksIPv4
<1>8. CASE ChangeRows \/ Refresh \/ Run \/ Connect
  BY <1>7, <1>8 DEF ChangeRows, Refresh, BeginRefresh, EndRefresh, Run, Connect, histVars,
     runVars
<1>9. CASE \/ EnsureBridgeIP \/ SetupVethLeak \/ EnsureSegments \/ ReconcileFRRPrefixList
           \/ reconcilePortForwardVIPs \/ applyNftRuleset \/ ensureDNATRouting
           \/ addLeakRoutes \/ addLeakRules \/ removeStaleLeaks \/ RefreshVethNexthop
  BY <1>7, <1>9 DEF EnsureBridgeIP, SetupVethLeak, SetUp, EnsureSegments,
     ReconcileFRRPrefixList, reconcilePortForwardVIPs, applyNftRuleset, ensureDNATRouting,
     addLeakRoutes, addLeakRules, removeStaleLeaks, RefreshVethNexthop, Keep, KeepAll,
     histVars
<1>. QED BY <1>1, <1>2, <1>3, <1>4, <1>5, <1>6, <1>8, <1>9 DEF Next, Agent

-----------------------------------------------------------------------------
(* What is wanted. *)

LocalnetTyped(t) == \A b \in Rows(t, "localnet") : b.tag \in Tag \cup {None}

(* The tag of a segment is that of the localnet port it was found by.         *)
LEMMA SegmentTag ==
  ASSUME NEW t, LocalnetTyped(t), NEW lrp, segmentsByLRP(t, lrp) # None
  PROVE  segmentsByLRP(t, lrp).tag \in Tag \cup {None}
<1> DEFINE ports == {n \in Rows(t, "localnet") :
                       \E p \in Rows(t, "patch") : p.lrp = lrp /\ p.dp = n.dp}
           found == {[port |-> l.port, tag |-> l.tag] : l \in ports}
<1>1. segmentsByLRP(t, lrp) = AnyOf(found)
  BY DEF segmentsByLRP
<1>2. \A x \in found : x.tag \in Tag \cup {None}
  BY DEF LocalnetTyped
<1>3. found # {}
  BY <1>1 DEF AnyOf
<1> HIDE DEF found
<1>4. AnyOf(found) \in found
  BY <1>3 DEF AnyOf
<1>. QED BY <1>1, <1>2, <1>4

LEMMA WantedTyped ==
  ASSUME NEW t, LocalnetTyped(t), NEW manual
  PROVE  TagsOf(buildDesiredSegments(OVNState(t, manual)))
<1> DEFINE s == OVNState(t, manual)
<1>1. s.routers = collectLocalRouters(t)
  BY DEF OVNState
<1> HIDE DEF s
<1>2. ASSUME NEW r \in s.routers, r.segment # None
      PROVE  r.segment.tag \in Tag \cup {None}
  <2> DEFINE active == localLRPUUIDSet(t)
             first(q) == q.ports[CHOOSE k \in DOMAIN q.ports :
                                   /\ q.ports[k] \in active
                                   /\ \A n \in 1..(k - 1) : q.ports[n] \notin active]
             row(q) == CHOOSE p \in t.lrp : p.uuid = first(q)
             segment(q) == segmentsByLRP(t, row(q).name)
             local == {q \in t.lr : \E k \in DOMAIN q.ports : q.ports[k] \in active}
  <2>1. s.routers = {[nats |-> q.nats, mac |-> row(q).mac, ip |-> row(q).ip,
                      net |-> row(q).net, segment |-> segment(q)] : q \in local}
    BY <1>1 DEF collectLocalRouters
  <2> HIDE DEF row, local
  <2>2. PICK q \in local : r = [nats |-> q.nats, mac |-> row(q).mac, ip |-> row(q).ip,
                                net |-> row(q).net, segment |-> segment(q)]
    BY <2>1, <1>2
  <2>3. r.segment = segmentsByLRP(t, row(q).name)
    BY <2>2
  <2>. QED BY <1>2, <2>3, SegmentTag
<1>3. TagsOf({IF r.segment = None THEN [port |-> None, tag |-> None] ELSE r.segment :
                r \in s.routers})
  BY <1>2 DEF TagsOf
<1>. QED BY <1>3 DEF buildDesiredSegments, s

LEMMA GoalTyped ==
  ASSUME OvnTyped, NEW c
  PROVE  /\ Goal(GetState(view, c), c).nets \subseteq V4Net
         /\ TagsOf(Goal(GetState(view, c), c).desired.segments)
<1> DEFINE rows == [t \in Tables |-> IF view[t] = 0 \/ PortForwardOnly(c) THEN {}
                                     ELSE History[view[t]][t]]
<1>1. LocalnetTyped(rows)
  <2>1. rows.pb = IF view.pb = 0 \/ PortForwardOnly(c) THEN {} ELSE History[view.pb].pb
    BY DEF Tables
  <2>2. view.pb # 0 => view.pb \in DOMAIN History
    BY HostPlaneAssumption DEF OvnTyped, Tables
  <2> HIDE DEF rows
  <2>3. CASE rows.pb = {}
    BY <2>3 DEF LocalnetTyped, Rows
  <2>4. CASE rows.pb # {}
    <3>1. view.pb \in DOMAIN History /\ Rows(rows, "localnet") = Rows(History[view.pb], "localnet")
      BY <2>1, <2>2, <2>4 DEF Rows
    <3>. QED BY <3>1, HostPlaneAssumption DEF LocalnetTyped
  <2>. QED BY <2>3, <2>4
<1>2. GetState(view, c) = OVNState(rows, c.network_cidr)
  BY DEF GetState
<1>3. TagsOf(buildDesiredSegments(GetState(view, c)))
  <2> HIDE DEF rows
  <2>. QED BY <1>1, <1>2, WantedTyped
<1>4. Goal(GetState(view, c), c).desired.segments = buildDesiredSegments(GetState(view, c))
  BY DEF Goal, computeDesiredState
<1>5. Goal(GetState(view, c), c).nets \subseteq V4Net
  BY DEF Goal, computeEffectiveNetworks
<1>. QED BY <1>3, <1>4, <1>5

LEMMA NoGoalTyped == NoGoal.nets \subseteq V4Net /\ TagsOf(NoGoal.desired.segments)
<1>1. LocalnetTyped(NoRows)
  BY DEF LocalnetTyped, Rows, NoRows, Tables
<1>2. NoGoal.desired.segments = buildDesiredSegments(OVNState(NoRows, {}))
  BY DEF NoGoal, computeDesiredState
<1>. QED BY <1>1, <1>2, WantedTyped DEF NoGoal

LEMMA MemInductive == ASSUME OvnTyped, MemTyped, Next PROVE MemTyped'
<1>1. CASE UNCHANGED <<goal, bound>>
  BY <1>1 DEF MemTyped, TagsOf
<1>2. CASE Down
  BY <1>2, NoGoalTyped DEF Down, MemTyped, TagsOf
<1>3. CASE Crash \/ AbortStart \/ Exit \/ Sigterm
  BY <1>1, <1>2, <1>3 DEF Crash, AbortStart, Exit, Sigterm, memVars
<1>4. CASE BeginCycle
  <2>1. goal' = Goal(GetState(view, cfg), cfg) /\ bound' = bound
    BY <1>4 DEF BeginCycle
  <2>. QED BY <2>1, GoalTyped DEF MemTyped, TagsOf
<1>5. CASE EnsureSegments
  <2>1. goal' = goal /\ bound' \subseteq bound \cup goal.desired.segments
    BY <1>5 DEF EnsureSegments
  <2>. QED BY <2>1 DEF MemTyped, TagsOf
<1>6. CASE ChangeRows \/ EditFile \/ RequestReload \/ Drift \/ Start \/ handleReload
           \/ Refresh \/ Run \/ Connect
  BY <1>1, <1>6 DEF ChangeRows, EditFile, RequestReload, Drift, Start, handleReload,
     Refresh, BeginRefresh, EndRefresh, Run, Connect, memVars
<1>7. CASE \/ EnsureBridgeIP \/ SetupVethLeak \/ ReconcileFRRPrefixList
           \/ reconcilePortForwardVIPs \/ applyNftRuleset \/ ensureDNATRouting
           \/ ensureVethIngressRule \/ addLeakRoutes \/ addLeakRules \/ removeStaleLeaks
           \/ RefreshVethNexthop
  BY <1>1, <1>7 DEF EnsureBridgeIP, SetupVethLeak, SetUp, ReconcileFRRPrefixList,
     reconcilePortForwardVIPs, applyNftRuleset, ensureDNATRouting, ensureVethIngressRule,
     addLeakRoutes, addLeakRules, removeStaleLeaks, RefreshVethNexthop, KeepMem, memVars
<1>8. CASE cleanup
  <2>1. PICK name, left : Remove(name, left)
    BY <1>8 DEF cleanup, TeardownSegmentInterfaces, TeardownPortForward, cleanupDNATRouting,
                TeardownVethLeak, removeVethIngressRules, RemoveBridgeIP
  <2>. QED BY <1>1, <2>1 DEF Remove, KeepMem, memVars
<1>. QED BY <1>3, <1>4, <1>5, <1>6, <1>7, <1>8 DEF Next, Agent

-----------------------------------------------------------------------------
(* The leak networks and the addresses. *)

HostV4 == LeakTyped /\ host.addr \subseteq V4

SameLeaks == /\ host'.rules = host.rules /\ host'.routes = host.routes
             /\ host'.addr = host.addr

LEMMA SameKept == ASSUME HostV4, SameLeaks, seen' = seen \/ seen' = {} PROVE HostV4'
BY DEF HostV4, LeakTyped, SameLeaks

LEMMA OtherWritten ==
  ASSUME HostTyped, NEW f \in Fields \ {"rules", "routes", "addr"}, NEW X,
         host' = [host EXCEPT ![f] = X]
  PROVE  SameLeaks
BY DEF HostTyped, Fields, SameLeaks

LEMMA ConfiguredV4 ==
  ASSUME ProcessTyped, NetworksIPv4, MemTyped
  PROVE  LeakNets \subseteq V4Net /\ Managed(cfg) \subseteq V4
BY DEF ProcessTyped, NetworksIPv4, MemTyped, LeakNets, Managed, Configs, VIP

LEMMA DriftV4 == ASSUME HostTyped, HostV4, Drift PROVE HostV4'
<1>1. seen' = seen
  BY DEF Drift, memVars
<1>2. CASE \E n \in host.rules : host' = [host EXCEPT !.rules = @ \ {n}]
  <2>1. PICK n : host' = [host EXCEPT !.rules = @ \ {n}]
    BY <1>2
  <2>2. host'.rules = host.rules \ {n} /\ host'.routes = host.routes /\ host'.addr = host.addr
    BY <2>1, Written DEF Fields
  <2>. QED BY <1>1, <2>2 DEF HostV4, LeakTyped
<1>3. CASE \E n \in host.routes : host' = [host EXCEPT !.routes = @ \ {n}]
  <2>1. PICK n : host' = [host EXCEPT !.routes = @ \ {n}]
    BY <1>3
  <2>2. host'.routes = host.routes \ {n} /\ host'.rules = host.rules /\ host'.addr = host.addr
    BY <2>1, Written DEF Fields
  <2>. QED BY <1>1, <2>2 DEF HostV4, LeakTyped
<1>4. CASE \/ host' = [host EXCEPT !.ingress = FALSE]
           \/ host' = [host EXCEPT !.nft = {}]
  <2>1. SameLeaks
    BY <1>4, OtherWritten DEF Fields
  <2>. QED BY <1>1, <2>1, SameKept
<1>5. CASE \E v \in host.addr \cap Managed(cfg) : host' = [host EXCEPT !.addr = @ \ {v}]
  <2>1. PICK v : host' = [host EXCEPT !.addr = @ \ {v}]
    BY <1>5
  <2>2. host'.addr = host.addr \ {v} /\ host'.rules = host.rules /\ host'.routes = host.routes
    BY <2>1, Written DEF Fields
  <2>. QED BY <1>1, <2>2 DEF HostV4, LeakTyped
<1>. QED BY <1>2, <1>3, <1>4, <1>5 DEF Drift

LEMMA ReloadV4 == ASSUME HostTyped, HostV4, handleReload PROVE HostV4'
<1>1. seen' = seen
  BY DEF handleReload, memVars
<1>2. \E stuck \in SUBSET Withdrawn : OnlyWithdrew(stuck)
  BY ReloadWrites
<1>3. /\ host'.rules = host.rules /\ host'.routes = host.routes
      /\ host'.addr \subseteq host.addr
  BY <1>2 DEF OnlyWithdrew, Fields
<1>. QED BY <1>1, <1>3 DEF HostV4, LeakTyped

LEMMA AddressV4 ==
  ASSUME HostTyped, HostV4, ProcessTyped, NetworksIPv4, MemTyped, reconcilePortForwardVIPs
  PROVE  HostV4'
<1>1. seen' = seen
  BY DEF reconcilePortForwardVIPs, KeepMem, memVars
<1>2. PICK X \in SUBSET (host.addr \cup Managed(cfg)) : host' = [host EXCEPT !.addr = X]
  BY DEF reconcilePortForwardVIPs
<1>3. host'.addr = X /\ host'.rules = host.rules /\ host'.routes = host.routes
  BY <1>2, Written DEF Fields
<1>. QED BY <1>1, <1>2, <1>3, ConfiguredV4 DEF HostV4, LeakTyped

LEMMA LeaksV4 ==
  ASSUME HostTyped, HostV4, ProcessTyped, NetworksIPv4, MemTyped,
         addLeakRoutes \/ addLeakRules \/ removeStaleLeaks \/ RefreshVethNexthop
  PROVE  HostV4'
<1>1. CASE addLeakRoutes
  <2>1. PICK S \in SUBSET LeakNets : host' = [host EXCEPT !.routes = @ \cup S]
    BY <1>1 DEF addLeakRoutes
  <2>2. seen' = host.rules \/ seen' = {}
    BY <1>1 DEF addLeakRoutes
  <2>3. /\ host'.routes = host.routes \cup S /\ host'.rules = host.rules
        /\ host'.addr = host.addr
    BY <2>1, Written DEF Fields
  <2>. QED BY <2>2, <2>3, ConfiguredV4 DEF HostV4, LeakTyped
<1>2. CASE addLeakRules
  <2>1. PICK S \in SUBSET LeakNets : host' = [host EXCEPT !.rules = @ \cup S]
    BY <1>2 DEF addLeakRules
  <2>2. seen' = {}
    BY <1>2 DEF addLeakRules
  <2>3. /\ host'.rules = host.rules \cup S /\ host'.routes = host.routes
        /\ host'.addr = host.addr
    BY <2>1, Written DEF Fields
  <2>. QED BY <2>2, <2>3, ConfiguredV4 DEF HostV4, LeakTyped
<1>3. CASE removeStaleLeaks
  <2>1. PICK S : host' = [host EXCEPT !.routes = @ \cap S, !.rules = @ \cap S]
    BY <1>3 DEF removeStaleLeaks
  <2>2. seen' = seen
    BY <1>3 DEF removeStaleLeaks, KeepMem, memVars
  <2>3. /\ host'.routes = host.routes \cap S /\ host'.rules = host.rules \cap S
        /\ host'.addr = host.addr
    BY <2>1 DEF HostTyped, Fields
  <2>. QED BY <2>2, <2>3 DEF HostV4, LeakTyped
<1>4. CASE RefreshVethNexthop
  <2>1. host' = [host EXCEPT !.routes = {}] /\ seen' = seen
    BY <1>4 DEF RefreshVethNexthop, KeepMem, memVars
  <2>2. host'.routes = {} /\ host'.rules = host.rules /\ host'.addr = host.addr
    BY <2>1, Written DEF Fields
  <2>. QED BY <2>1, <2>2 DEF HostV4, LeakTyped
<1>. QED BY <1>1, <1>2, <1>3, <1>4

(* What is removed is removed from what was there.                            *)
LEMMA RemovedV4 == ASSUME HostTyped, HostV4, cleanup PROVE HostV4'
<1> DEFINE Less(h) == /\ h.rules \subseteq host.rules /\ h.routes \subseteq host.routes
                      /\ h.addr \subseteq host.addr
<1>1. PICK name, left : Remove(name, left) /\ Less(left)
  <2>1. CASE TeardownSegmentInterfaces
    <3>1. Less([host EXCEPT !.vlan = Pruned(@, {})])
      BY DEF HostTyped, Fields
    <3>. QED BY <2>1, <3>1 DEF TeardownSegmentInterfaces
  <2>2. CASE TeardownPortForward
    <3>1. Less([host EXCEPT !.nft = {}]) /\ Less([host EXCEPT !.addr = @ \ Managed(cfg)])
      BY DEF HostTyped, Fields
    <3>. QED BY <2>2, <3>1 DEF TeardownPortForward
  <2>3. CASE cleanupDNATRouting
    <3>1. Less([host EXCEPT !.dnat = FALSE])
      BY DEF HostTyped, Fields
    <3>. QED BY <2>3, <3>1 DEF cleanupDNATRouting
  <2>4. CASE TeardownVethLeak
    <3>1. /\ Less([host EXCEPT !.rules = {}])
          /\ Less([host EXCEPT !.routes = {}, !.veth = FALSE])
      BY DEF HostTyped, Fields
    <3>. QED BY <2>4, <3>1 DEF TeardownVethLeak
  <2>5. CASE removeVethIngressRules
    <3>1. Less([host EXCEPT !.ingress = FALSE])
      BY DEF HostTyped, Fields
    <3>. QED BY <2>5, <3>1 DEF removeVethIngressRules
  <2>6. CASE RemoveBridgeIP
    <3>1. Less([host EXCEPT !.bridge = FALSE])
      BY DEF HostTyped, Fields
    <3>. QED BY <2>6, <3>1 DEF RemoveBridgeIP
  <2>. QED BY <2>1, <2>2, <2>3, <2>4, <2>5, <2>6 DEF cleanup
<1>2. (host' = left \/ host' = host) /\ seen' = seen
  BY <1>1 DEF Remove, KeepMem, memVars
<1>. QED BY <1>1, <1>2 DEF HostV4, LeakTyped

LEMMA V4Inductive ==
  ASSUME HostTyped, HostV4, ProcessTyped, NetworksIPv4, MemTyped, Next
  PROVE  HostV4'
<1>1. CASE UNCHANGED host /\ (seen' = seen \/ seen' = {})
  BY <1>1, SameKept DEF SameLeaks
<1>2. CASE \/ ChangeRows \/ EditFile \/ RequestReload \/ Crash \/ Start \/ AbortStart
           \/ Sigterm \/ Refresh \/ Run \/ Connect \/ BeginCycle \/ Exit
  BY <1>1, <1>2 DEF ChangeRows, EditFile, RequestReload, Crash, Start, AbortStart, Sigterm,
     Refresh, BeginRefresh, EndRefresh, Run, Connect, BeginCycle, Exit, Down, memVars
<1>3. CASE \/ EnsureBridgeIP \/ SetupVethLeak \/ EnsureSegments \/ ReconcileFRRPrefixList
           \/ applyNftRuleset \/ ensureDNATRouting \/ ensureVethIngressRule
  <2>1. seen' = seen
    BY <1>3 DEF EnsureBridgeIP, SetupVethLeak, SetUp, EnsureSegments, ReconcileFRRPrefixList,
       applyNftRuleset, ensureDNATRouting, ensureVethIngressRule, KeepMem, memVars
  <2>2. \/ host' = host
        \/ \E f \in {"bridge", "veth", "vlan", "list", "nft", "dnat", "ingress"} : \E X :
             host' = [host EXCEPT ![f] = X]
    <3>1. CASE EnsureBridgeIP \/ SetupVethLeak \/ applyNftRuleset \/ ensureDNATRouting
               \/ ensureVethIngressRule
      BY <3>1 DEF EnsureBridgeIP, SetupVethLeak, SetUp, applyNftRuleset, ensureDNATRouting,
         ensureVethIngressRule
    <3>2. CASE EnsureSegments
      <4>1. \E X : host' = [host EXCEPT !.vlan = X]
        BY <3>2 DEF EnsureSegments
      <4>. QED BY <4>1
    <3>3. CASE ReconcileFRRPrefixList
      <4>1. host' = host \/ host' = [host EXCEPT !.list = [@ EXCEPT ![cfg.list] = PrefixList]]
        BY <3>3 DEF ReconcileFRRPrefixList
      <4>. QED BY <4>1
    <3>. QED BY <1>3, <3>1, <3>2, <3>3
  <2>3. SameLeaks
    BY <2>2, OtherWritten DEF SameLeaks, Fields
  <2>. QED BY <2>1, <2>3, SameKept
<1>4. CASE Drift \/ handleReload \/ reconcilePortForwardVIPs \/ cleanup
  BY <1>4, DriftV4, ReloadV4, AddressV4, RemovedV4
<1>5. CASE addLeakRoutes \/ addLeakRules \/ removeStaleLeaks \/ RefreshVethNexthop
  BY <1>5, LeaksV4
<1>. QED BY <1>2, <1>3, <1>4, <1>5 DEF Next, Agent

LEMMA InitWellFormed == ASSUME Init PROVE WellFormed
<1>1. OvnTyped
  <2>1. 1 \in 1..Len(History) /\ NoView \in [Tables -> 0..1]
    BY HostPlaneAssumption DEF NoView
  <2>2. now = 1 /\ refreshing = 0 /\ view = NoView
    BY DEF Init
  <2>3. signal \in BOOLEAN
    <3>1. signal = FALSE
      BY DEF Init
    <3>. QED BY <3>1
  <2>. QED BY <2>1, <2>2, <2>3 DEF OvnTyped
<1>2. ProcessTyped
  BY LayersComplete DEF Init, ProcessTyped
<1>3. MemTyped
  BY NoGoalTyped DEF Init, MemTyped, TagsOf
<1>4. Counted
  BY HostPlaneAssumption DEF Init, Counted
<1>. QED BY <1>1, <1>2, <1>3, <1>4 DEF WellFormed

LEMMA InitTyped == ASSUME ConfiguredIPv4, Init PROVE TInv
<1>1. WellFormed
  BY InitWellFormed
<1>2. NetworksIPv4
  BY DEF Init, ConfiguredIPv4, NetworksIPv4
<1>3. LeakTyped /\ host.addr \subseteq V4
  <2>1. host.rules = {} /\ host.routes = {} /\ seen = {} /\ host.addr = Foreign.addr
    BY DEF Init
  <2>2. Foreign.addr \subseteq V4
    BY HostPlaneAssumption
  <2>. QED BY <2>1, <2>2 DEF LeakTyped
<1>. QED BY <1>1, <1>2, <1>3 DEF TInv

LEMMA WellFormedInductive == WellFormed /\ [Next]_vars => WellFormed'
<1>1. ASSUME WellFormed, UNCHANGED vars PROVE WellFormed'
  BY <1>1 DEF vars, ovnVars, runVars, memVars, histVars, boundVars, WellFormed, OvnTyped,
     ProcessTyped, MemTyped, TagsOf, Counted
<1>2. ASSUME WellFormed, Next PROVE WellFormed'
  BY <1>2, OvnInductive, ProcessInductive, MemInductive, CountedInductive DEF WellFormed
<1>. QED BY <1>1, <1>2

LEMMA WellFormedInvariance == Spec => []WellFormed
BY InitWellFormed, WellFormedInductive, PTL DEF Spec

LEMMA TypedInductive ==
  ASSUME ConfiguredIPv4
  PROVE  IInv /\ TInv /\ [Next]_vars => TInv'
<1>1. ASSUME TInv, UNCHANGED vars PROVE TInv'
  <2>1. WellFormed'
    BY <1>1, WellFormedInductive DEF TInv
  <2>2. UNCHANGED <<cfg, host, seen>>
    BY <1>1 DEF vars, memVars
  <2>. QED BY <1>1, <2>1, <2>2 DEF TInv, NetworksIPv4, LeakTyped
<1>2. ASSUME IInv, TInv, Next PROVE TInv'
  <2>1. WellFormed' /\ NetworksIPv4'
    BY <1>2, WellFormedInductive, ProcessInductive DEF TInv, WellFormed
  <2>2. LeakTyped' /\ (host.addr \subseteq V4)'
    BY <1>2, V4Inductive DEF IInv, TInv, WellFormed, HostV4
  <2>. QED BY <2>1, <2>2 DEF TInv
<1>. QED BY <1>1, <1>2

(* Through any worlds, reloads, faults and restarts the agent's state is well *)
(* formed: a view is never ahead of OVN, the kernel tables and the listing of *)
(* the rules hold IPv4 networks, a VIP's address is an IPv4 address, a bound  *)
(* segment's tag is one OVN has.                                              *)
THEOREM TypeCorrect == ASSUME ConfiguredIPv4 PROVE Spec => []TypeOK
<1>1. Init => TInv
  BY InitTyped
<1>2. IInv /\ TInv /\ [Next]_vars => TInv'
  BY TypedInductive
<1>3. IInv /\ TInv => TypeOK
  <2>1. ASSUME IInv, TInv PROVE TypeOK
    <3>1. todo \in Seq(UpNames \cup DownNames)
      <4>1. todo \in Seq(UpNames) \/ todo \in Seq(DownNames)
        BY <2>1 DEF IInv, StepsLeft
      <4>. QED BY <4>1
    <3>2. seen \subseteq Net
      BY <2>1, DesiredStateAssumption DEF TInv, LeakTyped
    <3>. QED BY <2>1, <3>1, <3>2 DEF TInv, WellFormed, OvnTyped, ProcessTyped, MemTyped, TagsOf,
                LeakTyped, Counted, IInv, HostTyped, TypeOK
  <2>. QED BY <2>1
<1>. QED BY <1>1, <1>2, <1>3, Invariance, PTL DEF Spec

-----------------------------------------------------------------------------
(* What is wanted, computed from the rows by the joins of refreshState and    *)
(* computeDesiredState, is what the rows of this chassis's routers ask for.   *)

PortsOf(t) ==
  {p \in t.lrp : \E b \in t.pb, c \in t.chassis :
     b.type = "chassisredirect" /\ b.lrp = p.name /\ b.chassis \in c.refs /\ c.host = Host}
Owns(r, p) == \E k \in DOMAIN r.ports : r.ports[k] = p.uuid

(* What the OVN schemas and northd keep true of their rows: names and uuids   *)
(* are keys, a port has a MAC and a router, a chassis its references to       *)
(* itself, a router port one switch; and, without load balancers and with     *)
(* northd up to date, a gateway port lists NAT addresses of its router only.  *)
SchemaKept(t) ==
  /\ \A p, q \in t.lrp : p.uuid = q.uuid \/ p.name = q.name => p = q
  /\ \A p \in t.lrp : p.mac # None /\ p.name # None /\ \E r \in t.lr : Owns(r, p)
  /\ \A c, d \in t.chassis : c.refs \cap d.refs # {} => c = d
  /\ \A r \in t.lr : r.ports \in Seq({p.uuid : p \in t.lrp})
  /\ \A p, q \in Rows(t, "patch") : p.lrp = q.lrp => p.dp = q.dp
  /\ \A b \in Rows(t, "patch") : \A r \in t.lr : \A p \in t.lrp :
       b.lrp = p.name /\ Owns(r, p) => b.nat \subseteq {n.ip : n \in {m \in t.nat : m.id \in r.nats}}

(* The deployments the agent is written for: a router has one gateway port    *)
(* here and a switch one localnet port.                                       *)
OneGatewayPort(t) ==
  /\ \A r \in t.lr : \A k, n \in DOMAIN r.ports :
       {r.ports[k], r.ports[n]} \subseteq {p.uuid : p \in PortsOf(t)} => k = n
  /\ \A l, n \in Rows(t, "localnet") : l.dp = n.dp => l = n

(* None is no value of a row.                                                 *)
NoneIsAbsent ==
  /\ Host # None
  /\ \A x, y : [port |-> x, tag |-> y] # None /\ [mac |-> x, segment |-> y] # None

LEMMA AnyOfSome == ASSUME NEW S, S # {} PROVE AnyOf(S) \in S
BY DEF AnyOf

(* The chassis a binding names, where it names one that has a row.            *)
LEMMA HostOf ==
  ASSUME NEW t, SchemaKept(t), NoneIsAbsent, NEW ref
  PROVE  hostnameByRef(t, ref) = Host <=> \E c \in t.chassis : ref \in c.refs /\ c.host = Host
<1> DEFINE found == {d \in t.chassis : ref \in d.refs}
           hosts == {c.host : c \in found}
<1>1. hostnameByRef(t, ref) = AnyOf(hosts)
  BY DEF hostnameByRef
<1>2. \A c, d \in found : c = d
  BY DEF SchemaKept
<1>3. CASE hosts = {}
  <2>1. AnyOf(hosts) = None
    BY <1>3 DEF AnyOf
  <2>2. found = {}
    BY <1>3
  <2> HIDE DEF hosts
  <2>. QED BY <1>1, <2>1, <2>2 DEF NoneIsAbsent
<1>4. CASE hosts # {}
  <2>1. AnyOf(hosts) \in hosts
    BY <1>4, AnyOfSome
  <2>2. PICK c \in found : AnyOf(hosts) = c.host
    BY <2>1
  <2> HIDE DEF hosts
  <2>. QED BY <1>1, <1>2, <2>2
<1>. QED BY <1>3, <1>4

LEMMA LocalPorts ==
  ASSUME NEW t, SchemaKept(t), NoneIsAbsent
  PROVE  /\ \A p \in t.lrp : p.name \in localCRPorts(t) <=> p \in PortsOf(t)
         /\ localLRPUUIDSet(t) = {p.uuid : p \in PortsOf(t)}
<1>1. ASSUME NEW p \in t.lrp
      PROVE  p.name \in localCRPorts(t) <=> p \in PortsOf(t)
  <2>1. p.name # None
    BY DEF SchemaKept
  <2>2. p.name \in localCRPorts(t) <=>
          \E b \in t.pb : /\ b.type = "chassisredirect" /\ b.lrp = p.name
                          /\ hostnameByRef(t, b.chassis) = Host
    BY <2>1 DEF localCRPorts, Rows
  <2>3. p \in PortsOf(t) <=>
          \E b \in t.pb : /\ b.type = "chassisredirect" /\ b.lrp = p.name
                          /\ \E c \in t.chassis : b.chassis \in c.refs /\ c.host = Host
    BY DEF PortsOf
  <2>. QED BY <2>2, <2>3, HostOf
<1>2. PortsOf(t) \subseteq t.lrp
  BY DEF PortsOf
<1>. QED BY <1>1, <1>2 DEF localLRPUUIDSet

(* A router with a gateway port here is counted with that port's row.         *)
RouterRow(t, r, p) ==
  [nats |-> r.nats, mac |-> p.mac, ip |-> p.ip, net |-> p.net,
   segment |-> segmentsByLRP(t, p.name)]

LEMMA LocalRouters ==
  ASSUME NEW t, SchemaKept(t), OneGatewayPort(t), NoneIsAbsent
  PROVE  /\ \A x \in collectLocalRouters(t) : \E r \in t.lr, p \in PortsOf(t) :
              Owns(r, p) /\ x = RouterRow(t, r, p)
         /\ \A r \in t.lr, p \in PortsOf(t) :
              Owns(r, p) => RouterRow(t, r, p) \in collectLocalRouters(t)
<1> DEFINE active == localLRPUUIDSet(t)
           first(q) == q.ports[CHOOSE k \in DOMAIN q.ports :
                                 /\ q.ports[k] \in active
                                 /\ \A n \in 1..(k - 1) : q.ports[n] \notin active]
           row(q) == CHOOSE p \in t.lrp : p.uuid = first(q)
           local == {q \in t.lr : \E k \in DOMAIN q.ports : q.ports[k] \in active}
<1>1. active = {p.uuid : p \in PortsOf(t)}
  BY LocalPorts
<1>2. collectLocalRouters(t) =
        {[nats |-> q.nats, mac |-> row(q).mac, ip |-> row(q).ip, net |-> row(q).net,
          segment |-> segmentsByLRP(t, row(q).name)] : q \in local}
  BY DEF collectLocalRouters
<1> HIDE DEF active
<1>3. ASSUME NEW r \in t.lr, NEW p \in PortsOf(t), Owns(r, p)
      PROVE  r \in local /\ row(r) = p
  <2>1. PICK k \in DOMAIN r.ports : r.ports[k] = p.uuid
    BY <1>3 DEF Owns
  <2>2. r.ports[k] \in active /\ k \in Nat /\ 1..(k - 1) \subseteq DOMAIN r.ports
    <3>1. r.ports \in Seq({q.uuid : q \in t.lrp})
      BY DEF SchemaKept
    <3>. QED BY <1>1, <2>1, <3>1
  <2>3. \A n \in DOMAIN r.ports : r.ports[n] \in active => n = k
    BY <1>1, <2>1, <2>2 DEF OneGatewayPort
  <2>4. \A n \in 1..(k - 1) : n \in DOMAIN r.ports => r.ports[n] \notin active
    BY <2>2, <2>3
  <2>6. first(r) = p.uuid
    BY <2>1, <2>2, <2>3, <2>4
  <2>7. p \in t.lrp /\ \A q \in t.lrp : q.uuid = p.uuid => q = p
    BY DEF PortsOf, SchemaKept
  <2> HIDE DEF first
  <2>. QED BY <2>2, <2>6, <2>7
<1>4. ASSUME NEW r \in local PROVE \E p \in PortsOf(t) : Owns(r, p)
  BY <1>1 DEF Owns
<1> HIDE DEF row, local
<1>5. local \subseteq t.lr
  BY DEF local
<1>6. ASSUME NEW x \in collectLocalRouters(t)
      PROVE  \E r \in t.lr, p \in PortsOf(t) : Owns(r, p) /\ x = RouterRow(t, r, p)
  <2>1. PICK r \in local :
          x = [nats |-> r.nats, mac |-> row(r).mac, ip |-> row(r).ip, net |-> row(r).net,
               segment |-> segmentsByLRP(t, row(r).name)]
    BY <1>2
  <2>2. PICK p \in PortsOf(t) : Owns(r, p)
    BY <1>4
  <2>3. row(r) = p
    BY <1>3, <1>5, <2>2
  <2>. QED BY <1>5, <2>1, <2>2, <2>3 DEF RouterRow
<1>7. ASSUME NEW r \in t.lr, NEW p \in PortsOf(t), Owns(r, p)
      PROVE  RouterRow(t, r, p) \in collectLocalRouters(t)
  <2>1. r \in local /\ row(r) = p
    BY <1>3, <1>7
  <2>. QED BY <1>2, <2>1 DEF RouterRow
<1>. QED BY <1>6, <1>7

NetsOf(t, manual) == IF manual # {} THEN manual ELSE {p.net : p \in PortsOf(t)}

(* The addresses of the ports, and the translated addresses of their routers  *)
(* within the networks.                                                       *)
NatOf(t, manual) ==
  {n \in t.nat : /\ \E r \in t.lr, p \in PortsOf(t) : Owns(r, p) /\ n.id \in r.nats
                 /\ \E w \in NetsOf(t, manual) : n.ip \in InNet[w]}
IPsOf(t, manual) ==
  V4 \cap ({p.ip : p \in PortsOf(t)} \cup {n.ip : n \in NatOf(t, manual)})

LEMMA NetsServed ==
  ASSUME NEW t, SchemaKept(t), OneGatewayPort(t), NoneIsAbsent, NEW manual
  PROVE  /\ {r.net : r \in collectLocalRouters(t)} = {p.net : p \in PortsOf(t)}
         /\ collectLocalRouters(t) = {} <=> PortsOf(t) = {}
         /\ effectiveNetworkFilters(manual, {r.net : r \in collectLocalRouters(t)}) =
              NetsOf(t, manual)
<1>1. \A p \in PortsOf(t) : \E r \in t.lr : Owns(r, p)
  BY DEF SchemaKept, PortsOf
<1>2. ASSUME NEW x \in collectLocalRouters(t) PROVE \E p \in PortsOf(t) : x.net = p.net
  <2>1. PICK r \in t.lr, p \in PortsOf(t) : Owns(r, p) /\ x = RouterRow(t, r, p)
    BY LocalRouters
  <2>. QED BY <2>1 DEF RouterRow
<1>3. ASSUME NEW p \in PortsOf(t) PROVE \E x \in collectLocalRouters(t) : x.net = p.net
  <2>1. PICK r \in t.lr : Owns(r, p)
    BY <1>1
  <2>2. RouterRow(t, r, p) \in collectLocalRouters(t)
    BY <2>1, LocalRouters
  <2>. QED BY <2>2 DEF RouterRow
<1>4. {r.net : r \in collectLocalRouters(t)} = {p.net : p \in PortsOf(t)}
  BY <1>2, <1>3
<1>. QED BY <1>2, <1>3, <1>4 DEF effectiveNetworkFilters, NetsOf

(* An address is known where one of the sources has a MAC for it.             *)
LEMMA KnownAddress ==
  ASSUME NEW ip, NEW sb, NEW nb
  PROVE  Attribute(ip, "mac", sb, nb) # None <=>
           \E x \in sb \cup nb : x.ip = ip /\ x.mac # None
<1> DEFINE of(S) == {x["mac"] : x \in {y \in S : y.ip = ip}} \ {None}
           known == IF of(sb) # {} THEN of(sb) ELSE of(nb)
<1>1. Attribute(ip, "mac", sb, nb) = AnyOf(known)
  BY DEF Attribute
<1>2. known # {} <=> \E x \in sb \cup nb : x.ip = ip /\ x.mac # None
  OBVIOUS
<1>3. None \notin known
  OBVIOUS
<1> HIDE DEF known
<1>4. AnyOf(known) # None <=> known # {}
  BY <1>3, AnyOfSome DEF AnyOf
<1>. QED BY <1>1, <1>2, <1>4

(* Where something is served, the filters are the networks.                   *)
LEMMA FiltersAreNets ==
  ASSUME NEW t, NEW manual, NEW p \in PortsOf(t), NEW ip
  PROVE  passes(ip, NetsOf(t, manual)) <=> \E w \in NetsOf(t, manual) : ip \in InNet[w]
BY DEF passes, NetsOf

LEMMA NBAddress ==
  ASSUME NEW t, SchemaKept(t), OneGatewayPort(t), NoneIsAbsent, NEW manual, NEW ip
  PROVE  (\E x \in addNBNATs(t, collectLocalRouters(t), NetsOf(t, manual)) :
            x.ip = ip /\ x.mac # None)
         <=> \E n \in NatOf(t, manual) : n.ip = ip
<1> DEFINE routers == collectLocalRouters(t)
           nets == NetsOf(t, manual)
           entry(n, r) == [ip |-> n.ip, snat |-> n.snat, mac |-> r.mac,
                           segment |-> segmentName(r.segment)]
           taken(r) == {m \in t.nat : m.id \in r.nats /\ passes(m.ip, nets)}
           nb == addNBNATs(t, routers, nets)
<1>1. nb = UNION {{entry(n, r) : n \in taken(r)} : r \in {q \in routers : q.mac # None}}
  BY DEF addNBNATs
<1>2. ASSUME NEW x \in nb, x.ip = ip PROVE \E n \in NatOf(t, manual) : n.ip = ip
  <2>1. PICK q \in routers : x \in {entry(n, q) : n \in taken(q)}
    BY <1>1
  <2>2. PICK n \in taken(q) : x = entry(n, q)
    BY <2>1
  <2>3. PICK r \in t.lr, p \in PortsOf(t) : Owns(r, p) /\ q = RouterRow(t, r, p)
    BY LocalRouters
  <2>4. n \in t.nat /\ n.id \in r.nats /\ passes(n.ip, nets) /\ n.ip = ip
    BY <1>2, <2>2, <2>3 DEF RouterRow
  <2> HIDE DEF nets
  <2>5. \E w \in NetsOf(t, manual) : n.ip \in InNet[w]
    BY <2>4, FiltersAreNets DEF nets
  <2>. QED BY <2>3, <2>4, <2>5 DEF NatOf
<1>3. ASSUME NEW n \in NatOf(t, manual), n.ip = ip
      PROVE  \E x \in nb : x.ip = ip /\ x.mac # None
  <2>1. PICK r \in t.lr, p \in PortsOf(t) : Owns(r, p) /\ n.id \in r.nats
    BY DEF NatOf
  <2> DEFINE q == RouterRow(t, r, p)
  <2>2. q \in routers
    BY <2>1, LocalRouters
  <2>3. q.mac # None /\ q.mac = p.mac /\ q.nats = r.nats
    BY DEF RouterRow, SchemaKept, PortsOf
  <2> HIDE DEF q
  <2>4. n \in taken(q)
    BY <2>1, <2>3, FiltersAreNets DEF NatOf
  <2>5. entry(n, q) \in nb
    BY <1>1, <2>2, <2>3, <2>4
  <2>6. entry(n, q).ip = ip /\ entry(n, q).mac # None
    BY <1>3, <2>3
  <2> HIDE DEF entry, nb
  <2>. QED BY <2>5, <2>6
<1>. QED BY <1>2, <1>3

(* A gateway port's own list adds nothing to its router's rows.               *)
LEMMA SBAddress ==
  ASSUME NEW t, SchemaKept(t), OneGatewayPort(t), NoneIsAbsent, NEW manual,
         NEW x \in addSBGatewayNATAddresses(t, NetsOf(t, manual)), x.mac # None
  PROVE  \E n \in NatOf(t, manual) : n.ip = x.ip
<1> DEFINE nets == NetsOf(t, manual)
           mac(b) == AnyOf({l.mac : l \in {q \in t.lrp : q.name = b.lrp}})
           entry(ip, b) == [ip |-> ip, snat |-> TRUE,
                            segment |-> segmentName(segmentsByLRP(t, b.lrp)), mac |-> mac(b)]
           listed(b) == {i \in b.nat : passes(i, nets)}
<1>1. PICK b \in Rows(t, "patch") : b.lrp \in localCRPorts(t) /\ x \in {entry(ip, b) : ip \in listed(b)}
  BY DEF addSBGatewayNATAddresses
<1>2. PICK ip \in listed(b) : x = entry(ip, b)
  BY <1>1
<1>3. x.ip = ip /\ x.mac = mac(b)
  BY <1>2
<1>4. PICK p \in t.lrp : p.name = b.lrp
  BY <1>3 DEF AnyOf
<1>5. p \in PortsOf(t)
  BY <1>1, <1>4, LocalPorts
<1>6. PICK r \in t.lr : Owns(r, p)
  BY DEF SchemaKept
<1>7. PICK n \in t.nat : n.id \in r.nats /\ n.ip = ip
  BY <1>1, <1>2, <1>4, <1>6 DEF SchemaKept
<1>8. \E w \in NetsOf(t, manual) : n.ip \in InNet[w]
  <2>1. passes(ip, NetsOf(t, manual))
    BY <1>2
  <2>. QED BY <1>5, <1>7, <2>1, FiltersAreNets
<1>. QED BY <1>3, <1>5, <1>6, <1>7, <1>8 DEF NatOf

LEMMA StaticsServed ==
  ASSUME NEW t, SchemaKept(t), OneGatewayPort(t), NoneIsAbsent, NEW manual, NEW vips, NEW announce
  PROVE  computeDesiredState(OVNState(t, manual), vips, announce).statics = IPsOf(t, manual)
<1> DEFINE routers == collectLocalRouters(t)
           nets == NetsOf(t, manual)
           nb == addNBNATs(t, routers, nets)
           sb == addSBGatewayNATAddresses(t, nets)
           s == OVNState(t, manual)
           targets == buildHairpinTargets(s)
           own(ip) == {r \in routers : r.ip = ip /\ r.mac # None}
<1>1. computeDesiredState(s, vips, announce).statics = {ip \in V4 : targets[ip] # None}
  BY DEF computeDesiredState
<1>2. s.routers = routers /\ \A ip \in IP : s.mac[ip] = Attribute(ip, "mac", sb, nb)
  <2>1. effectiveNetworkFilters(manual, {r.net : r \in routers}) = nets
    BY NetsServed
  <2>. QED BY <2>1 DEF OVNState
<1> HIDE DEF s
<1>3. \A ip \in IP : targets[ip] # None <=> own(ip) # {} \/ s.mac[ip] # None
  <2> SUFFICES ASSUME NEW ip \in IP
               PROVE  targets[ip] # None <=> own(ip) # {} \/ s.mac[ip] # None
    OBVIOUS
  <2>1. targets[ip] =
          IF own(ip) # {}
            THEN LET r == CHOOSE r \in own(ip) : TRUE
                 IN  [mac |-> r.mac, segment |-> segmentName(r.segment)]
          ELSE IF s.mac[ip] # None THEN [mac |-> s.mac[ip], segment |-> s.segment[ip]]
          ELSE None
    BY <1>2 DEF buildHairpinTargets
  <2>2. CASE own(ip) # {}
    <3>1. PICK x, y : targets[ip] = [mac |-> x, segment |-> y]
      BY <2>1, <2>2
    <3>. QED BY <2>2, <3>1 DEF NoneIsAbsent
  <2>3. CASE own(ip) = {} /\ s.mac[ip] # None
    <3>1. targets[ip] = [mac |-> s.mac[ip], segment |-> s.segment[ip]]
      BY <2>1, <2>3
    <3>. QED BY <2>3, <3>1 DEF NoneIsAbsent
  <2>4. CASE own(ip) = {} /\ s.mac[ip] = None
    BY <2>1, <2>4
  <2>. QED BY <2>2, <2>3, <2>4
<1> HIDE DEF targets
<1>4. \A ip : own(ip) # {} <=> \E p \in PortsOf(t) : p.ip = ip
  <2>1. ASSUME NEW ip, NEW x \in own(ip) PROVE \E p \in PortsOf(t) : p.ip = ip
    <3>1. PICK r \in t.lr, p \in PortsOf(t) : Owns(r, p) /\ x = RouterRow(t, r, p)
      BY LocalRouters
    <3>. QED BY <3>1 DEF RouterRow
  <2>2. ASSUME NEW p \in PortsOf(t) PROVE own(p.ip) # {}
    <3>1. PICK r \in t.lr : Owns(r, p)
      BY DEF SchemaKept, PortsOf
    <3>2. RouterRow(t, r, p) \in routers
      BY <3>1, LocalRouters
    <3>3. RouterRow(t, r, p).ip = p.ip /\ RouterRow(t, r, p).mac = p.mac /\ p.mac # None
      BY DEF RouterRow, SchemaKept, PortsOf
    <3> HIDE DEF routers
    <3>. QED BY <3>2, <3>3
  <2>. QED BY <2>1, <2>2
<1> HIDE DEF own
<1>5. \A ip \in IP : s.mac[ip] # None <=> \E n \in NatOf(t, manual) : n.ip = ip
  <2> SUFFICES ASSUME NEW ip \in IP
               PROVE  s.mac[ip] # None <=> \E n \in NatOf(t, manual) : n.ip = ip
    OBVIOUS
  <2>1. s.mac[ip] # None <=> \E x \in sb \cup nb : x.ip = ip /\ x.mac # None
    BY <1>2, KnownAddress
  <2>2. (\E x \in nb : x.ip = ip /\ x.mac # None) <=> \E n \in NatOf(t, manual) : n.ip = ip
    BY NBAddress
  <2>3. (\E x \in sb : x.ip = ip /\ x.mac # None) => \E n \in NatOf(t, manual) : n.ip = ip
    BY SBAddress
  <2> HIDE DEF sb, nb
  <2>. QED BY <2>1, <2>2, <2>3
<1>6. \A ip \in V4 : targets[ip] # None <=>
        (\E p \in PortsOf(t) : p.ip = ip) \/ \E n \in NatOf(t, manual) : n.ip = ip
  BY <1>3, <1>4, <1>5, DesiredStateAssumption
<1>. QED BY <1>1, <1>6 DEF IPsOf, s

TagsFor(t) ==
  {l.tag : l \in {b \in Rows(t, "localnet") :
     /\ b.tag # None
     /\ \E q \in Rows(t, "patch"), p \in PortsOf(t) : q.lrp = p.name /\ q.dp = b.dp}}

LEMMA TagsServed ==
  ASSUME NEW t, SchemaKept(t), OneGatewayPort(t), NoneIsAbsent, NEW manual
  PROVE  {g.tag : g \in buildDesiredSegments(OVNState(t, manual))} \ {None} = TagsFor(t)
<1> DEFINE routers == collectLocalRouters(t)
           ports(lrp) == {n \in Rows(t, "localnet") :
                            \E p \in Rows(t, "patch") : p.lrp = lrp /\ p.dp = n.dp}
           found(lrp) == {[port |-> l.port, tag |-> l.tag] : l \in ports(lrp)}
           wanted == {IF r.segment = None THEN [port |-> None, tag |-> None] ELSE r.segment :
                        r \in routers}
<1>1. buildDesiredSegments(OVNState(t, manual)) = wanted
  BY DEF buildDesiredSegments, OVNState
<1>2. ASSUME NEW lrp, NEW l \in ports(lrp)
      PROVE  segmentsByLRP(t, lrp) = [port |-> l.port, tag |-> l.tag]
  <2>1. \A n \in ports(lrp) : n = l
    BY DEF SchemaKept, OneGatewayPort
  <2>2. found(lrp) # {}
    OBVIOUS
  <2>3. segmentsByLRP(t, lrp) = AnyOf(found(lrp))
    BY DEF segmentsByLRP
  <2>4. AnyOf(found(lrp)) \in found(lrp)
    BY <2>2, AnyOfSome
  <2> HIDE DEF ports
  <2>5. PICK n \in ports(lrp) : AnyOf(found(lrp)) = [port |-> n.port, tag |-> n.tag]
    BY <2>4
  <2>. QED BY <2>1, <2>3, <2>5
<1>3. ASSUME NEW lrp, ports(lrp) = {} PROVE segmentsByLRP(t, lrp) = None
  BY <1>3 DEF segmentsByLRP, AnyOf
<1> HIDE DEF ports, found
<1>4. ASSUME NEW g \in wanted, g.tag # None PROVE g.tag \in TagsFor(t)
  <2>1. PICK x \in routers : g = IF x.segment = None THEN [port |-> None, tag |-> None]
                                 ELSE x.segment
    OBVIOUS
  <2>2. x.segment # None /\ g = x.segment
    <3>1. [port |-> None, tag |-> None].tag = None
      OBVIOUS
    <3>. QED BY <1>4, <2>1, <3>1
  <2>3. PICK r \in t.lr, p \in PortsOf(t) : Owns(r, p) /\ x = RouterRow(t, r, p)
    BY LocalRouters
  <2>4. x.segment = segmentsByLRP(t, p.name)
    BY <2>3 DEF RouterRow
  <2>5. PICK l \in ports(p.name) : TRUE
    BY <1>3, <2>2, <2>4
  <2>6. g = [port |-> l.port, tag |-> l.tag]
    BY <1>2, <2>2, <2>4
  <2>7. g.tag = l.tag
    BY <2>6
  <2>. QED BY <1>4, <2>7 DEF TagsFor, ports
<1>5. ASSUME NEW tag \in TagsFor(t) PROVE \E g \in wanted : g.tag = tag /\ tag # None
  <2>1. PICK l \in Rows(t, "localnet"), q \in Rows(t, "patch"), p \in PortsOf(t) :
          l.tag = tag /\ tag # None /\ q.lrp = p.name /\ q.dp = l.dp
    BY DEF TagsFor
  <2>2. l \in ports(p.name)
    BY <2>1 DEF ports
  <2>3. PICK r \in t.lr : Owns(r, p)
    BY DEF SchemaKept, PortsOf
  <2> DEFINE x == RouterRow(t, r, p)
  <2>4. x \in routers
    BY <2>3, LocalRouters
  <2>5. x.segment = [port |-> l.port, tag |-> l.tag] /\ x.segment # None
    BY <1>2, <2>2 DEF RouterRow, NoneIsAbsent
  <2> HIDE DEF x, routers
  <2>6. x.segment \in wanted
    BY <2>4, <2>5
  <2>7. x.segment.tag = tag
    BY <2>1, <2>5
  <2>. QED BY <2>1, <2>6, <2>7
<1> HIDE DEF wanted
<1>. QED BY <1>1, <1>4, <1>5

(* With a snapshot of the present OVN a cycle wants exactly what the rows of  *)
(* this chassis's routers ask for: their networks, the addresses of their     *)
(* ports and of their NAT rows, the tags of their switches; of a peer's       *)
(* routers nothing.                                                           *)
Current == [t \in Tables |-> now]
Wants(wanted) ==
  /\ wanted.active <=> ServedRouters # {}
  /\ wanted.nets = ServedNets \cap V4Net
  /\ wanted.desired.statics = ServedIPs
  /\ {s.tag : s \in wanted.desired.segments} \ {None} = ServedTags

WantsServed ==
  [][/\ BeginCycle /\ view = Current /\ ~PortForwardOnly(cfg)
     /\ SchemaKept(World) /\ OneGatewayPort(World)
     => Wants(goal')]_vars

LEMMA CurrentWants ==
  ASSUME OvnTyped, NoneIsAbsent, ~PortForwardOnly(cfg),
         SchemaKept(World), OneGatewayPort(World)
  PROVE  Wants(Goal(GetState(Current, cfg), cfg))
<1> DEFINE rows == [t \in Tables |-> IF Current[t] = 0 \/ PortForwardOnly(cfg) THEN {}
                                     ELSE History[Current[t]][t]]
           s == OVNState(rows, cfg.network_cidr)
           wanted == Goal(s, cfg)
<1>1. GetState(Current, cfg) = s
  BY DEF GetState
<1>2. /\ rows.pb = World.pb /\ rows.chassis = World.chassis /\ rows.lrp = World.lrp
      /\ rows.lr = World.lr /\ rows.nat = World.nat
  <2>1. \A t \in Tables : rows[t] = World[t]
    <3>1. now # 0
      BY HostPlaneAssumption DEF OvnTyped
    <3>. QED BY <3>1 DEF World, Current
  <2> HIDE DEF rows
  <2>. QED BY <2>1 DEF Tables
<1> HIDE DEF rows
<1>3. PortsOf(rows) = ServedPorts /\ PortsOf(World) = ServedPorts
  BY <1>2 DEF PortsOf, ServedPorts
<1>4. \A type : Rows(rows, type) = Rows(World, type)
  BY <1>2 DEF Rows
<1>5. SchemaKept(rows)
  BY <1>2, <1>4 DEF SchemaKept
<1>6. OneGatewayPort(rows)
  BY <1>2, <1>3, <1>4 DEF OneGatewayPort
<1>7. s.routers = collectLocalRouters(rows) /\ s.nets = {r.net : r \in s.routers}
  BY DEF OVNState
<1>8. wanted.active <=> ServedRouters # {}
  <2>1. wanted.active <=> s.routers # {}
    BY DEF Goal
  <2>2. s.routers = {} <=> ServedPorts = {}
    BY <1>3, <1>5, <1>6, <1>7, NetsServed
  <2>3. \A p \in ServedPorts : \E r \in World.lr : Owns(r, p)
    BY DEF SchemaKept, ServedPorts
  <2>4. ServedRouters # {} <=> ServedPorts # {}
    BY <2>3 DEF ServedRouters, Owns
  <2>. QED BY <2>1, <2>2, <2>4
<1>9. NetsOf(rows, cfg.network_cidr) = ServedNets
  BY <1>3 DEF NetsOf, ServedNets
<1>10. wanted.nets = ServedNets \cap V4Net
  <2>1. effectiveNetworkFilters(cfg.network_cidr, s.nets) = ServedNets
    BY <1>5, <1>6, <1>7, <1>9, NetsServed
  <2>. QED BY <2>1 DEF Goal, computeEffectiveNetworks
<1>11. wanted.desired.statics = ServedIPs
  <2>1. wanted.desired.statics = IPsOf(rows, cfg.network_cidr)
    BY <1>5, <1>6, StaticsServed DEF Goal
  <2>2. NatOf(rows, cfg.network_cidr) =
          {m \in World.nat : /\ \E r \in ServedRouters : m.id \in r.nats
                             /\ \E w \in ServedNets : m.ip \in InNet[w]}
    BY <1>2, <1>3, <1>9 DEF NatOf, ServedRouters, Owns
  <2>. QED BY <1>3, <2>1, <2>2 DEF IPsOf, ServedIPs
<1>12. {g.tag : g \in wanted.desired.segments} \ {None} = ServedTags
  <2>1. wanted.desired.segments = buildDesiredSegments(s)
    BY DEF Goal, computeDesiredState
  <2>2. {g.tag : g \in buildDesiredSegments(s)} \ {None} = TagsFor(rows)
    BY <1>5, <1>6, TagsServed
  <2>3. TagsFor(rows) = ServedTags
    <3>1. TagsFor(rows) =
            {l.tag : l \in {b \in Rows(World, "localnet") :
               /\ b.tag # None
               /\ \E q \in Rows(World, "patch"), p \in ServedPorts :
                    q.lrp = p.name /\ q.dp = b.dp}}
      BY <1>3, <1>4 DEF TagsFor
    <3>2. \A b : b \in Rows(World, "localnet") <=> b \in World.pb /\ b.type = "localnet"
      BY DEF Rows
    <3>3. \A b : (\E q \in Rows(World, "patch"), p \in ServedPorts :
                    q.lrp = p.name /\ q.dp = b.dp)
                 <=> \E q \in World.pb, p \in ServedPorts :
                       q.type = "patch" /\ q.lrp = p.name /\ q.dp = b.dp
      BY DEF Rows
    <3>. QED BY <3>1, <3>2, <3>3 DEF ServedTags
  <2>. QED BY <2>1, <2>2, <2>3
<1>. QED BY <1>1, <1>8, <1>10, <1>11, <1>12 DEF Wants

(* The joins of the refresh and of computeDesiredState give what the rows     *)
(* mean, for any content of the tables that keeps the schema.                 *)
THEOREM WantedIsServed == ASSUME NoneIsAbsent PROVE Spec => WantsServed
<1>1. WellFormed =>
        (/\ BeginCycle /\ view = Current /\ ~PortForwardOnly(cfg)
         /\ SchemaKept(World) /\ OneGatewayPort(World)
         => Wants(goal'))
  BY CurrentWants DEF BeginCycle, WellFormed
<1>. QED BY <1>1, WellFormedInvariance, PTL DEF WantsServed

-----------------------------------------------------------------------------
(* What a cycle achieves when no step of it fails and nothing is removed      *)
(* meanwhile: each of its steps leaves the host as the goal has it, and no    *)
(* later step undoes that.                                                    *)
Got(name) ==
  /\ name = "segments" => \A t \in Tag : /\ t \in WantedTags => host.vlan[t] # "none"
                                         /\ t \notin WantedTags => host.vlan[t] # "ours"
  /\ name = "list" => host.list[cfg.list] = PrefixList
  /\ name = "vips" => IF announceVIPs THEN Managed(cfg) \subseteq host.addr
                                      ELSE Managed(cfg) \cap host.addr = {}
  /\ name = "nft" => host.nft = {Ruleset}
  /\ name = "dnat" => host.dnat
  /\ name = "ingress" => host.ingress
  /\ name = "routes" => LeakNets \subseteq host.routes
  /\ name = "rules" => LeakNets \subseteq host.rules
  /\ name = "stale" => host.routes \cup host.rules \subseteq LeakNets

Begun == phase = "run" /\ todo = CycleSteps(goal.active)
Ends == phase = "run" /\ todo # <<>> /\ todo' = <<>>
Delivered == phase = "run" /\ \A name \in Names(CycleSteps(goal.active)) : Got(name)

Achieved == \A name \in Names(CycleSteps(goal.active)) \ Names(todo) : Got(name)

(* What holds in the middle of a cycle in which nothing has failed.           *)
Progress ==
  phase = "run" /\ todo # <<>> =>
    {"setup", "first"} \cap Names(todo) = {} /\ Achieved /\ seen \subseteq host.rules

(* The listing of the rules is used by the very next step, and "first" is the *)
(* last step of a set-up.                                                     *)
Planned(s) ==
  \A i \in 1..Len(s) :
    /\ s[i] = "routes" => i < Len(s) /\ s[i + 1] = "rules"
    /\ s[i] = "first" => Len(s) <= i

SeenInv == seen # {} => Step("rules")

(* The interfaces of the bound segments exist.                                *)
BoundPresent == phase # "stop" => \A t \in boundTags(bound) : host.vlan[t] # "none"

(* The veth pair and the bridge's address are made before the first cycle.    *)
Made(part) == host[part] \/ part \in Names(todo)
SetUpInv ==
  /\ phase = "start" => \/ todo = <<"setup">>
                        \/ Made("veth") /\ (PortForwardOnly(cfg) \/ Made("bridge"))
  /\ phase = "run" => host.veth /\ (PortForwardOnly(cfg) \/ host.bridge)

CycleInv == Planned(todo) /\ SeenInv /\ BoundPresent /\ SetUpInv

LEMMA ConcatPlanned ==
  ASSUME NEW S, NEW s \in Seq(S), NEW t \in Seq(S), Planned(s), Planned(t),
         "first" \notin Names(s)
  PROVE  Planned(s \o t)
<1>1. /\ Len(s) \in Nat /\ Len(t) \in Nat /\ Len(s \o t) = Len(s) + Len(t)
      /\ \A i \in 1..Len(s) : (s \o t)[i] = s[i]
      /\ \A i \in 1..Len(t) : (s \o t)[i + Len(s)] = t[i]
  OBVIOUS
<1> SUFFICES ASSUME NEW i \in 1..Len(s \o t)
             PROVE  /\ (s \o t)[i] = "routes" => i < Len(s \o t) /\ (s \o t)[i + 1] = "rules"
                    /\ (s \o t)[i] = "first" => Len(s \o t) <= i
  BY DEF Planned
<1>2. CASE i \in 1..Len(s)
  <2>1. (s \o t)[i] = s[i] /\ s[i] # "first"
    BY <1>1, <1>2 DEF Names
  <2>2. s[i] = "routes" => i + 1 \in 1..Len(s) /\ s[i + 1] = "rules"
    BY <1>1, <1>2 DEF Planned
  <2>3. s[i] = "routes" => (s \o t)[i + 1] = "rules" /\ i < Len(s \o t)
    BY <1>1, <2>2
  <2>. QED BY <2>1, <2>3
<1>3. CASE i \notin 1..Len(s)
  <2> DEFINE k == i - Len(s)
  <2>1. k \in 1..Len(t) /\ i = k + Len(s)
    BY <1>1, <1>3
  <2>2. (s \o t)[i] = t[k]
    BY <1>1, <2>1
  <2>3. t[k] = "first" => Len(t) <= k
    BY <2>1 DEF Planned
  <2>4. t[k] = "routes" => k + 1 \in 1..Len(t) /\ t[k + 1] = "rules"
    BY <1>1, <2>1 DEF Planned
  <2>5. t[k] = "routes" => (s \o t)[(k + 1) + Len(s)] = "rules"
    BY <1>1, <2>4
  <2>6. (k + 1) + Len(s) = i + 1
    BY <1>1, <2>1
  <2>. QED BY <1>1, <2>1, <2>2, <2>3, <2>4, <2>5, <2>6
<1>. QED BY <1>2, <1>3

LEMMA TailPlanned ==
  ASSUME NEW S, NEW s \in Seq(S), s # <<>>, Planned(s)
  PROVE  /\ Planned(Tail(s))
         /\ Head(s) = "routes" => Tail(s) # <<>> /\ Head(Tail(s)) = "rules"
         /\ Head(s) = "first" => Tail(s) = <<>>
<1>1. /\ Len(s) \in Nat /\ Len(s) > 0 /\ Len(Tail(s)) = Len(s) - 1 /\ Tail(s) \in Seq(S)
      /\ Head(s) = s[1] /\ \A i \in 1..(Len(s) - 1) : Tail(s)[i] = s[i + 1]
  OBVIOUS
<1>2. ASSUME NEW i \in 1..Len(Tail(s))
      PROVE  /\ Tail(s)[i] = "routes" => i < Len(Tail(s)) /\ Tail(s)[i + 1] = "rules"
             /\ Tail(s)[i] = "first" => Len(Tail(s)) <= i
  <2>1. i + 1 \in 1..Len(s) /\ Tail(s)[i] = s[i + 1]
    BY <1>1
  <2>2. s[i + 1] = "first" => Len(s) <= i + 1
    BY <2>1 DEF Planned
  <2>3. s[i + 1] = "routes" => i + 1 < Len(s) /\ s[(i + 1) + 1] = "rules"
    BY <2>1 DEF Planned
  <2>4. i + 1 < Len(s) => Tail(s)[i + 1] = s[(i + 1) + 1]
    <3>1. i + 1 < Len(s) => i + 1 \in 1..(Len(s) - 1)
      BY <1>1
    <3>. QED BY <1>1, <3>1
  <2>5. i + 1 < Len(s) => i < Len(Tail(s))
    BY <1>1
  <2>6. Len(s) <= i + 1 => Len(Tail(s)) <= i
    BY <1>1
  <2>. QED BY <2>1, <2>2, <2>3, <2>4, <2>5, <2>6
<1>3. /\ s[1] = "routes" => 1 < Len(s) /\ s[1 + 1] = "rules"
      /\ s[1] = "first" => Len(s) <= 1
  <2>1. 1 \in 1..Len(s)
    BY <1>1
  <2>. QED BY <2>1 DEF Planned
<1>4. 1 < Len(s) => Tail(s) # <<>> /\ Head(Tail(s)) = s[1 + 1]
  <2>1. SUFFICES ASSUME 1 < Len(s) PROVE Tail(s) # <<>> /\ Head(Tail(s)) = s[1 + 1]
    OBVIOUS
  <2>2. 1 \in 1..(Len(s) - 1) /\ Tail(s)[1] = s[1 + 1]
    BY <1>1, <2>1
  <2>3. Len(Tail(s)) > 0
    BY <1>1, <2>1
  <2>. QED BY <1>1, <2>2, <2>3
<1>5. Len(s) <= 1 => Tail(s) = <<>>
  <2>1. Len(s) <= 1 => Len(Tail(s)) <= 0
    BY <1>1
  <2>2. Tail(s) # <<>> => Len(Tail(s)) > 0
    BY <1>1
  <2>. QED BY <1>1, <2>1, <2>2
<1>. QED BY <1>1, <1>2, <1>3, <1>4, <1>5 DEF Planned

LEMMA SkipPlanned ==
  ASSUME NEW S, todo \in Seq(S), NEW group, Skip(group), Planned(todo)
  PROVE  Planned(todo')
<1>1. PICK n \in 1..Len(todo) : todo' = SubSeq(todo, n + 1, Len(todo))
  BY DEF Skip
<1>2. /\ Len(todo) \in Nat /\ Len(todo') = Len(todo) - n
      /\ \A i \in 1..(Len(todo) - n) : todo'[i] = todo[i + n]
  BY <1>1
<1>3. ASSUME NEW i \in 1..Len(todo')
      PROVE  /\ todo'[i] = "routes" => i < Len(todo') /\ todo'[i + 1] = "rules"
             /\ todo'[i] = "first" => Len(todo') <= i
  <2>1. i + n \in 1..Len(todo) /\ todo'[i] = todo[i + n]
    BY <1>2
  <2>2. todo[i + n] = "first" => Len(todo) <= i + n
    BY <2>1 DEF Planned
  <2>3. todo[i + n] = "routes" => i + n < Len(todo) /\ todo[(i + n) + 1] = "rules"
    BY <2>1 DEF Planned
  <2>4. i + n < Len(todo) => todo'[i + 1] = todo[(i + 1) + n]
    <3>1. i + n < Len(todo) => i + 1 \in 1..(Len(todo) - n)
      BY <1>2
    <3>. QED BY <1>2, <3>1
  <2>5. (i + 1) + n = (i + n) + 1
    BY <1>2
  <2>. QED BY <1>2, <2>1, <2>2, <2>3, <2>4, <2>5
<1>. QED BY <1>3 DEF Planned

LEMMA DownPlanned == ASSUME NEW s \in Seq(DownNames) PROVE Planned(s)
BY DEF Planned, DownNames

PartSteps == {s \in Seq(UpNames \ {"setup", "first"}) : Planned(s)}

LEMMA ConcatParts ==
  ASSUME NEW s \in PartSteps, NEW t \in PartSteps
  PROVE  s \o t \in PartSteps /\ Names(s \o t) = Names(s) \cup Names(t)
<1> DEFINE S == UpNames \ {"setup", "first"}
<1>1. s \in Seq(S) /\ t \in Seq(S) /\ Planned(s) /\ Planned(t)
  BY DEF PartSteps
<1>2. "first" \notin Names(s)
  BY <1>1 DEF Names
<1> HIDE DEF S
<1>3. s \o t \in Seq(S) /\ Planned(s \o t) /\ Names(s \o t) = Names(s) \cup Names(t)
  BY <1>1, <1>2, ConcatPlanned, ConcatNames
<1>. QED BY <1>3 DEF PartSteps, S

LEMMA PartNames ==
  ASSUME NEW s \in PartSteps
  PROVE  s \in Seq(UpNames) /\ Planned(s) /\ "setup" \notin Names(s) /\ "first" \notin Names(s)
<1>1. s \in Seq(UpNames \ {"setup", "first"}) /\ Planned(s)
  BY DEF PartSteps
<1>2. s \in Seq(UpNames)
  BY <1>1
<1>. QED BY <1>1, <1>2 DEF Names

LEMMA LeakParts ==
  LeakSteps \in PartSteps /\ Names(LeakSteps) = {"ingress", "routes", "rules", "stale"}
<1>1. /\ LeakSteps \in Seq(UpNames \ {"setup", "first"}) /\ Len(LeakSteps) = 4
      /\ LeakSteps[1] = "ingress" /\ LeakSteps[2] = "routes"
      /\ LeakSteps[3] = "rules" /\ LeakSteps[4] = "stale"
  BY DEF LeakSteps, UpNames
<1>2. \A i \in 1..Len(LeakSteps) : i \in {1, 2, 3, 4}
  BY <1>1
<1>3. Planned(LeakSteps)
  BY <1>1, <1>2 DEF Planned
<1>4. Names(LeakSteps) = {LeakSteps[1], LeakSteps[2], LeakSteps[3], LeakSteps[4]}
  <2>1. 1..Len(LeakSteps) = {1, 2, 3, 4}
    BY <1>1, <1>2
  <2>. QED BY <2>1 DEF Names
<1>. QED BY <1>1, <1>3, <1>4 DEF PartSteps

LEMMA ForwardParts ==
  /\ PortForwardSteps \in PartSteps
  /\ Names(PortForwardSteps) = IF cfg.vips = {} THEN {} ELSE PortForwardGroup
<1> DEFINE none == <<>>  three == <<"vips", "nft", "dnat">>
<1>1. none \in PartSteps /\ Names(none) = {}
  BY DEF PartSteps, Planned, Names
<1>2. three \in PartSteps
  BY DEF PartSteps, Planned, UpNames
<1>3. Names(three) = PortForwardGroup
  <2>1. 1..Len(three) = {1, 2, 3}
    OBVIOUS
  <2>. QED BY <2>1 DEF Names, PortForwardGroup
<1>. QED BY <1>1, <1>2, <1>3 DEF PortForwardSteps

(* The steps of a cycle, and what a set-up makes.                             *)
LEMMA CycleParts ==
  ASSUME NEW active
  PROVE  /\ CycleSteps(active) \in PartSteps
         /\ cfg.vips # {} => PortForwardGroup \subseteq Names(CycleSteps(active))
         /\ ~PortForwardOnly(cfg) =>
              LeakGroup \cup {"list"} \subseteq Names(CycleSteps(active))
         /\ ~PortForwardOnly(cfg) /\ active => "segments" \in Names(CycleSteps(active))
<1> DEFINE head == <<"segments", "list">>  list == <<"list">>
           c == CycleSteps(active)
<1>1. head \in PartSteps /\ Names(head) = {"segments", "list"}
  <2>1. head \in PartSteps /\ 1..Len(head) = {1, 2}
    BY DEF PartSteps, Planned, UpNames
  <2>. QED BY <2>1 DEF Names
<1>2. list \in PartSteps /\ Names(list) = {"list"}
  BY DEF PartSteps, Planned, UpNames, Names
<1> HIDE DEF head, list
<1>3. /\ (head \o PortForwardSteps) \o LeakSteps \in PartSteps
      /\ Names((head \o PortForwardSteps) \o LeakSteps) =
           (Names(head) \cup Names(PortForwardSteps)) \cup Names(LeakSteps)
  <2>1. /\ head \o PortForwardSteps \in PartSteps
        /\ Names(head \o PortForwardSteps) = Names(head) \cup Names(PortForwardSteps)
    BY <1>1, ForwardParts, ConcatParts
  <2>. QED BY <2>1, LeakParts, ConcatParts
<1>4. /\ (LeakSteps \o list) \o PortForwardSteps \in PartSteps
      /\ Names((LeakSteps \o list) \o PortForwardSteps) =
           (Names(LeakSteps) \cup Names(list)) \cup Names(PortForwardSteps)
  <2>1. /\ LeakSteps \o list \in PartSteps
        /\ Names(LeakSteps \o list) = Names(LeakSteps) \cup Names(list)
    BY <1>2, LeakParts, ConcatParts
  <2>. QED BY <2>1, ForwardParts, ConcatParts
<1>5. c = IF PortForwardOnly(cfg) THEN PortForwardSteps
          ELSE IF active THEN (head \o PortForwardSteps) \o LeakSteps
          ELSE (LeakSteps \o list) \o PortForwardSteps
  BY DEF CycleSteps, head, list
<1> HIDE DEF c
<1>6. CASE PortForwardOnly(cfg)
  <2>1. c = PortForwardSteps
    BY <1>5, <1>6
  <2>. QED BY <1>6, <2>1, ForwardParts DEF c
<1>7. CASE ~PortForwardOnly(cfg) /\ active
  <2>1. c = (head \o PortForwardSteps) \o LeakSteps
    BY <1>5, <1>7
  <2>2. c \in PartSteps /\ Names(c) = (Names(head) \cup Names(PortForwardSteps)) \cup Names(LeakSteps)
    BY <1>3, <2>1
  <2>. QED BY <1>1, <2>2, ForwardParts, LeakParts DEF c, LeakGroup
<1>8. CASE ~PortForwardOnly(cfg) /\ ~active
  <2>1. c = (LeakSteps \o list) \o PortForwardSteps
    BY <1>5, <1>8
  <2>2. c \in PartSteps /\ Names(c) = (Names(LeakSteps) \cup Names(list)) \cup Names(PortForwardSteps)
    BY <1>4, <2>1
  <2>. QED BY <1>2, <1>8, <2>2, ForwardParts, LeakParts DEF c, LeakGroup
<1>. QED BY <1>6, <1>7, <1>8

LEMMA StartParts ==
  /\ Planned(StartSteps)
  /\ "veth" \in Names(StartSteps)
  /\ PortForwardOnly(cfg) \/ "bridge" \in Names(StartSteps)
<1> DEFINE none == <<>>  up == <<"veth", "ingress">>  first == <<"first">>
           bridged == <<"bridge", "veth", "ingress">>  nat == <<"nft", "dnat">>
           last == <<"connect", "first">>
           leak == IF cfg.network_cidr = {} THEN none ELSE LeakSteps
           dnat == IF cfg.vips = {} THEN none ELSE nat
           a == (up \o leak) \o PortForwardSteps
           b == (bridged \o leak) \o dnat
<1>1. none \in PartSteps /\ up \in PartSteps /\ bridged \in PartSteps /\ nat \in PartSteps
  BY DEF PartSteps, Planned, UpNames
<1>2. first \in Seq(UpNames) /\ Planned(first) /\ last \in Seq(UpNames) /\ Planned(last)
  BY DEF Planned, UpNames
<1>3. "veth" \in Names(up) /\ {"bridge", "veth"} \subseteq Names(bridged)
  <2>1. up[1] = "veth" /\ 1 \in 1..Len(up)
    OBVIOUS
  <2>2. bridged[1] = "bridge" /\ bridged[2] = "veth" /\ 1 \in 1..Len(bridged) /\ 2 \in 1..Len(bridged)
    OBVIOUS
  <2> HIDE DEF up, bridged
  <2>. QED BY <2>1, <2>2 DEF Names
<1>4. leak \in PartSteps /\ dnat \in PartSteps
  BY <1>1, LeakParts
<1> HIDE DEF none, up, first, bridged, nat, last, leak, dnat
<1>5. a \in PartSteps /\ Names(a) = (Names(up) \cup Names(leak)) \cup Names(PortForwardSteps)
  <2>1. up \o leak \in PartSteps /\ Names(up \o leak) = Names(up) \cup Names(leak)
    BY <1>1, <1>4, ConcatParts
  <2>. QED BY <2>1, ForwardParts, ConcatParts
<1>6. b \in PartSteps /\ Names(b) = (Names(bridged) \cup Names(leak)) \cup Names(dnat)
  <2>1. bridged \o leak \in PartSteps /\ Names(bridged \o leak) = Names(bridged) \cup Names(leak)
    BY <1>1, <1>4, ConcatParts
  <2>. QED BY <1>4, <2>1, ConcatParts
<1> HIDE DEF a, b
<1>7. ASSUME NEW s \in PartSteps, NEW t \in Seq(UpNames), Planned(t)
      PROVE  Planned(s \o t) /\ Names(s) \subseteq Names(s \o t)
  <2>1. s \in Seq(UpNames) /\ Planned(s) /\ "first" \notin Names(s)
    BY PartNames
  <2>. QED BY <1>7, <2>1, ConcatPlanned, ConcatNames
<1>8. StartSteps = IF PortForwardOnly(cfg) THEN a \o first ELSE b \o last
  BY DEF StartSteps, none, up, first, bridged, nat, last, leak, dnat, a, b
<1>9. CASE PortForwardOnly(cfg)
  BY <1>2, <1>3, <1>5, <1>7, <1>8, <1>9
<1>10. CASE ~PortForwardOnly(cfg)
  BY <1>2, <1>3, <1>6, <1>7, <1>8, <1>10
<1>. QED BY <1>9, <1>10

LEMMA TodoPlanned == ASSUME IInv, HostInv, Planned(todo), Next PROVE Planned(todo')
<1>0. PICK S : todo \in Seq(S)
  BY DEF IInv, StepsLeft
<1>1. CASE todo' = todo
  BY <1>1
<1>2. CASE todo' = <<>>
  BY <1>2 DEF Planned
<1>3. CASE todo # <<>> /\ todo' = Tail(todo)
  BY <1>0, <1>3, TailPlanned
<1>4. CASE \E group : Skip(group)
  BY <1>0, <1>4, SkipPlanned
<1>5. CASE todo' = StartSteps \/ \E active : todo' = CycleSteps(active)
  BY <1>5, StartParts, CycleParts, PartNames
<1>6. CASE todo' = StopSteps \/ todo' = LeakSteps
  BY <1>6, StopStepsOrdered, DownPlanned, LeakParts DEF OrderedSteps, PartSteps
<1>7. CASE todo' = <<"setup">>
  BY <1>7 DEF Planned
<1>8. CASE ChangeRows \/ EditFile \/ RequestReload \/ Refresh \/ Drift \/ handleReload
  BY <1>1, <1>8 DEF ChangeRows, EditFile, RequestReload, Refresh, BeginRefresh, EndRefresh,
     Drift, handleReload, runVars
<1>9. CASE Crash \/ AbortStart \/ Exit \/ Sigterm
  BY <1>2, <1>6, <1>9 DEF Crash, AbortStart, Exit, Sigterm, Down
<1>10. CASE Start \/ Run \/ BeginCycle
  BY <1>5, <1>7, <1>10 DEF Start, Run, BeginCycle
<1>11. CASE RefreshVethNexthop
  BY <1>2, <1>6, <1>11 DEF RefreshVethNexthop
<1>12. CASE \/ EnsureBridgeIP \/ SetupVethLeak \/ Connect \/ EnsureSegments
            \/ ReconcileFRRPrefixList \/ removeStaleLeaks
  BY <1>3, <1>12 DEF EnsureBridgeIP, SetupVethLeak, SetUp, Connect, EnsureSegments,
     ReconcileFRRPrefixList, removeStaleLeaks, Step, Done
<1>13. CASE \/ reconcilePortForwardVIPs \/ applyNftRuleset \/ ensureDNATRouting
            \/ ensureVethIngressRule \/ addLeakRoutes \/ addLeakRules
  BY <1>3, <1>4, <1>13 DEF reconcilePortForwardVIPs, applyNftRuleset, ensureDNATRouting,
     ensureVethIngressRule, addLeakRoutes, addLeakRules, Fails, Step, Done
<1>14. CASE cleanup
  <2>1. PICK name, left : Remove(name, left)
    BY <1>14 DEF cleanup, TeardownSegmentInterfaces, TeardownPortForward, cleanupDNATRouting,
                 TeardownVethLeak, removeVethIngressRules, RemoveBridgeIP
  <2>. QED BY <1>3, <2>1 DEF Remove, Step, Done
<1>. QED BY <1>8, <1>9, <1>10, <1>11, <1>12, <1>13, <1>14 DEF Next, Agent

LEMMA SeenKept ==
  ASSUME SeenInv, seen' = seen \/ seen' = {}, todo' = todo \/ ~Step("rules")
  PROVE  SeenInv'
BY DEF SeenInv, Step

LEMMA NoListing == ASSUME SeenInv, Idle \/ todo = <<>> PROVE seen = {}
BY DEF SeenInv, Step, Idle

LEMMA SeenInductive ==
  ASSUME IInv, HostInv, Planned(todo), SeenInv, Next PROVE SeenInv'
<1>1. ASSUME NEW name, name # "rules", Step(name) PROVE ~Step("rules")
  BY <1>1 DEF Step
<1>2. CASE ChangeRows \/ EditFile \/ RequestReload \/ Refresh \/ Drift \/ handleReload
  BY <1>2, SeenKept DEF ChangeRows, EditFile, RequestReload, Refresh, BeginRefresh,
     EndRefresh, Drift, handleReload, runVars, memVars
<1>3. CASE Down
  BY <1>3 DEF Down, SeenInv
<1>4. CASE Crash \/ AbortStart \/ Exit
  BY <1>3, <1>4 DEF Crash, AbortStart, Exit
<1>5. CASE Sigterm \/ Start \/ RefreshVethNexthop
  <2>1. Down \/ (seen' = seen /\ seen = {})
    BY <1>5, NoListing DEF Sigterm, Start, RefreshVethNexthop, KeepMem, memVars, HostInv
  <2>. QED BY <1>3, <2>1 DEF SeenInv
<1>6. CASE Run \/ Connect \/ BeginCycle
  <2>1. seen' = seen
    BY <1>6 DEF Run, Connect, BeginCycle, memVars
  <2>2. Idle \/ Step("setup") \/ Step("connect") \/ Step("first")
    BY <1>6 DEF Run, Connect, BeginCycle
  <2>3. ~Step("rules")
    BY <2>2 DEF Step, Idle
  <2>. QED BY <2>1, <2>3, SeenKept
<1>7. CASE \/ EnsureBridgeIP \/ SetupVethLeak \/ EnsureSegments \/ ReconcileFRRPrefixList
           \/ reconcilePortForwardVIPs \/ applyNftRuleset \/ ensureDNATRouting
           \/ ensureVethIngressRule \/ removeStaleLeaks
  <2>1. seen' = seen
    BY <1>7 DEF EnsureBridgeIP, SetupVethLeak, SetUp, EnsureSegments,
       ReconcileFRRPrefixList, reconcilePortForwardVIPs, applyNftRuleset,
       ensureDNATRouting, ensureVethIngressRule, removeStaleLeaks, KeepMem, memVars
  <2>2. ~Step("rules")
    BY <1>7 DEF EnsureBridgeIP, SetupVethLeak, SetUp, EnsureSegments,
       ReconcileFRRPrefixList, reconcilePortForwardVIPs, applyNftRuleset,
       ensureDNATRouting, ensureVethIngressRule, removeStaleLeaks, Step
  <2>. QED BY <2>1, <2>2, SeenKept
<1>8. CASE addLeakRoutes
  <2>1. CASE seen' = {}
    BY <2>1 DEF SeenInv
  <2>2. CASE Done
    <3>1. Step("routes")
      BY <1>8 DEF addLeakRoutes
    <3>2. PICK S : todo \in Seq(S)
      BY DEF IInv, StepsLeft
    <3>3. Tail(todo) # <<>> /\ Head(Tail(todo)) = "rules"
      BY <3>1, <3>2, TailPlanned DEF Step
    <3>. QED BY <2>2, <3>3 DEF SeenInv, Step, Done
  <2>. QED BY <1>8, <2>1, <2>2 DEF addLeakRoutes
<1>9. CASE addLeakRules
  BY <1>9 DEF addLeakRules, SeenInv
<1>10. CASE cleanup
  <2>1. PICK name, left : name \in DownNames \ {"list"} /\ Remove(name, left)
    BY <1>10 DEF cleanup, TeardownSegmentInterfaces, TeardownPortForward, cleanupDNATRouting,
                 TeardownVethLeak, removeVethIngressRules, RemoveBridgeIP, DownNames
  <2>2. name # "rules" /\ seen' = seen /\ Step(name)
    BY <2>1 DEF DownNames, Remove, KeepMem, memVars
  <2>. QED BY <1>1, <2>2, SeenKept
<1>. QED BY <1>2, <1>4, <1>5, <1>6, <1>7, <1>8, <1>9, <1>10 DEF Next, Agent

(* Outside the teardown the veth pair and the bridge's address stay, and only *)
(* EnsureSegments touches an interface.                                       *)
LEMMA KeptFields ==
  ASSUME IInv, Next, phase # "stop"
  PROVE  /\ EnsureSegments \/ host'.vlan = host.vlan
         /\ host.veth => host'.veth
         /\ host.bridge => host'.bridge
<1> DEFINE Kept == /\ host'.vlan = host.vlan
                   /\ host.veth => host'.veth
                   /\ host.bridge => host'.bridge
<1> USE DEF IInv
<1>1. CASE host' = host
  BY <1>1
<1>2. CASE \E f \in {"list", "addr", "nft", "dnat", "ingress", "routes", "rules"} : \E X :
             host' = [host EXCEPT ![f] = X]
  BY <1>2, Written DEF Fields
<1>3. CASE \/ EnsureBridgeIP \/ SetupVethLeak
  <2>1. host' = [host EXCEPT !.bridge = TRUE] \/ host' = [host EXCEPT !.veth = TRUE]
    BY <1>3 DEF EnsureBridgeIP, SetupVethLeak, SetUp
  <2>. QED BY <2>1, Written DEF Fields
<1>4. CASE ChangeRows \/ EditFile \/ RequestReload \/ Refresh \/ Crash \/ Start \/ AbortStart
           \/ Sigterm \/ Run \/ Connect \/ BeginCycle \/ Exit
  BY <1>1, <1>4 DEF ChangeRows, EditFile, RequestReload, Refresh, BeginRefresh, EndRefresh,
     Crash, Start, AbortStart, Sigterm, Run, Connect, BeginCycle, Exit
<1>5. CASE \/ Drift \/ applyNftRuleset \/ ensureDNATRouting \/ ensureVethIngressRule
           \/ RefreshVethNexthop
  BY <1>1, <1>2, <1>5 DEF Drift, applyNftRuleset, ensureDNATRouting, ensureVethIngressRule,
     RefreshVethNexthop
<1>6. CASE addLeakRoutes \/ addLeakRules \/ reconcilePortForwardVIPs
  <2>1. \E f \in {"addr", "routes", "rules"} : \E X : host' = [host EXCEPT ![f] = X]
    BY <1>6 DEF addLeakRoutes, addLeakRules, reconcilePortForwardVIPs
  <2>. QED BY <1>2, <2>1
<1>7. CASE ReconcileFRRPrefixList
  <2>1. host' = host \/ host' = [host EXCEPT !.list = [@ EXCEPT ![cfg.list] = PrefixList]]
    BY <1>7 DEF ReconcileFRRPrefixList
  <2>. QED BY <1>1, <1>2, <2>1
<1>8. CASE removeStaleLeaks
  <2>1. PICK X, Y : host' = [host EXCEPT !.routes = X, !.rules = Y]
    BY <1>8 DEF removeStaleLeaks
  <2>. QED BY <2>1 DEF HostTyped, Fields
<1>9. CASE handleReload
  <2>1. PICK X, Y : host' = [host EXCEPT !.addr = X, !.list = Y]
    BY <1>9 DEF handleReload
  <2>. QED BY <2>1 DEF HostTyped, Fields
<1>10. CASE EnsureSegments
  <2>1. PICK X : host' = [host EXCEPT !.vlan = X]
    BY <1>10 DEF EnsureSegments
  <2>2. host'.veth = host.veth /\ host'.bridge = host.bridge
    BY <2>1 DEF HostTyped, Fields
  <2>. QED BY <1>10, <2>2
<1>11. ~cleanup
  <2>1. SUFFICES ASSUME NEW name \in DownNames \ {"list"}, NEW left, Remove(name, left)
                 PROVE  FALSE
    BY <2>1 DEF cleanup, TeardownSegmentInterfaces, TeardownPortForward,
      cleanupDNATRouting, TeardownVethLeak, removeVethIngressRules,
      RemoveBridgeIP, DownNames
  <2>2. phase = "stop"
    BY <2>1, StepDown DEF Remove
  <2>. QED BY <2>2
<1>. QED BY <1>3, <1>4, <1>5, <1>6, <1>7, <1>8, <1>9, <1>10, <1>11 DEF Next, Agent

(* Which actions make the phase another.                                      *)
LEMMA Phases ==
  ASSUME IInv, HostInv, Next
  PROVE  \/ Down \/ Start \/ BeginCycle
         \/ phase' = "stop" /\ cfg' = cfg
         \/ phase' = phase /\ phase # "stop" /\ (bound' = bound \/ EnsureSegments)
<1>1. CASE Crash \/ AbortStart \/ Exit \/ Sigterm
  BY <1>1 DEF Crash, AbortStart, Exit, Sigterm
<1>2. CASE cleanup
  <2>1. PICK name, left : name \in DownNames \ {"list"} /\ Remove(name, left)
    BY <1>2 DEF cleanup, TeardownSegmentInterfaces, TeardownPortForward, cleanupDNATRouting,
                TeardownVethLeak, removeVethIngressRules, RemoveBridgeIP, DownNames
  <2>. QED BY <2>1, StepDown DEF Remove, KeepAll
<1>3. CASE phase' = phase /\ phase = "stop"
  <2>1. CASE handleReload
    BY <1>3, <2>1 DEF handleReload, Idle
  <2>2. CASE Start \/ BeginCycle
    BY <2>2
  <2>3. CASE ChangeRows \/ EditFile \/ RequestReload \/ Refresh \/ Drift
    BY <1>3, <2>3 DEF ChangeRows, EditFile, RequestReload, Refresh, BeginRefresh, EndRefresh,
       Drift
  <2>4. CASE \/ Run \/ Connect \/ EnsureBridgeIP \/ SetupVethLeak \/ EnsureSegments
             \/ ReconcileFRRPrefixList \/ reconcilePortForwardVIPs \/ applyNftRuleset
             \/ ensureDNATRouting \/ ensureVethIngressRule \/ addLeakRoutes \/ addLeakRules
             \/ removeStaleLeaks \/ RefreshVethNexthop
    BY <1>3, <2>4 DEF Run, Connect, EnsureBridgeIP, SetupVethLeak, SetUp, EnsureSegments,
       ReconcileFRRPrefixList, reconcilePortForwardVIPs, applyNftRuleset, ensureDNATRouting,
       ensureVethIngressRule, addLeakRoutes, addLeakRules, removeStaleLeaks,
       RefreshVethNexthop, Keep, KeepAll
  <2>. QED BY <1>1, <1>2, <2>1, <2>2, <2>3, <2>4 DEF Next, Agent
<1>4. CASE ChangeRows \/ EditFile \/ RequestReload \/ Refresh \/ Drift \/ handleReload
  <2>1. phase' = phase /\ bound' = bound
    BY <1>4 DEF ChangeRows, EditFile, RequestReload, Refresh, BeginRefresh, EndRefresh,
       Drift, handleReload, runVars, memVars
  <2>. QED BY <1>3, <2>1
<1>5. CASE \/ Run \/ Connect \/ EnsureBridgeIP \/ SetupVethLeak \/ ReconcileFRRPrefixList
           \/ reconcilePortForwardVIPs \/ applyNftRuleset \/ ensureDNATRouting
           \/ ensureVethIngressRule \/ addLeakRoutes \/ addLeakRules \/ removeStaleLeaks
           \/ RefreshVethNexthop
  <2>1. phase' = phase /\ bound' = bound
    BY <1>5 DEF Run, Connect, EnsureBridgeIP, SetupVethLeak, SetUp, ReconcileFRRPrefixList,
       reconcilePortForwardVIPs, applyNftRuleset, ensureDNATRouting, ensureVethIngressRule,
       addLeakRoutes, addLeakRules, removeStaleLeaks, RefreshVethNexthop, Keep, KeepAll,
       KeepMem, memVars
  <2>. QED BY <1>3, <2>1
<1>6. CASE EnsureSegments
  <2>1. phase' = phase
    BY <1>6 DEF EnsureSegments, KeepAll
  <2>. QED BY <1>3, <1>6, <2>1
<1>. QED BY <1>1, <1>2, <1>4, <1>5, <1>6 DEF Next, Agent

(* A cycle that finds its bindings current keeps their interfaces, another    *)
(* binds what has an interface; a segment to be bound gets one unless the     *)
(* interface of its name is another VLAN.                                     *)
LEMMA LinkedPresent ==
  ASSUME NEW S, NEW K, S \subseteq K, NEW t \in Tag, t \in S
  PROVE  Linked(S)[t] # "none" /\ Pruned(Linked(S), K)[t] # "none"
BY DEF Linked, Pruned

LEMMA SegmentsPresent ==
  ASSUME HostTyped, MemTyped, BoundPresent, phase # "stop", EnsureSegments
  PROVE  BoundPresent'
<1>1. boundTags(goal.desired.segments) = WantedTags /\ WantedTags \subseteq Tag
  BY DEF boundTags, WantedTags, MemTyped, TagsOf
<1>2. CASE bound' = {}
  BY <1>2 DEF BoundPresent, boundTags
<1>3. CASE bound' = bound /\ host' = [host EXCEPT !.vlan = Pruned(@, boundTags(bound))]
  <2>1. boundTags(bound) \subseteq Tag
    BY DEF boundTags, MemTyped, TagsOf
  <2>2. host'.vlan = Pruned(host.vlan, boundTags(bound))
    BY <1>3 DEF HostTyped, Fields
  <2>3. \A t \in boundTags(bound) : host'.vlan[t] = host.vlan[t]
    BY <2>1, <2>2 DEF Pruned
  <2>. QED BY <1>3, <2>3 DEF BoundPresent
<1>4. CASE \E failed : LET ok == {t \in WantedTags \ failed : Adoptable(t)}
           IN  /\ bound' = {s \in goal.desired.segments : s.tag = None \/ s.tag \in ok}
               /\ \/ host' = [host EXCEPT !.vlan = Pruned(Linked(ok), ok)]
                  \/ host' = [host EXCEPT !.vlan = Linked(ok)]
                  \/ \E t \in ok : host' = [host EXCEPT !.vlan =
                                             [Pruned(Linked(ok), ok) EXCEPT ![t] = "unmarked"]]
  <2>1. PICK failed : LET ok == {t \in WantedTags \ failed : Adoptable(t)}
           IN  /\ bound' = {s \in goal.desired.segments : s.tag = None \/ s.tag \in ok}
               /\ \/ host' = [host EXCEPT !.vlan = Pruned(Linked(ok), ok)]
                  \/ host' = [host EXCEPT !.vlan = Linked(ok)]
                  \/ \E t \in ok : host' = [host EXCEPT !.vlan =
                                             [Pruned(Linked(ok), ok) EXCEPT ![t] = "unmarked"]]
    BY <1>4
  <2> DEFINE ok == {t \in WantedTags \ failed : Adoptable(t)}
  <2>2. boundTags(bound') \subseteq ok /\ ok \subseteq Tag
    <3>1. bound' = {s \in goal.desired.segments : s.tag = None \/ s.tag \in ok}
      BY <2>1
    <3>. QED BY <1>1, <3>1 DEF boundTags
  <2>3. \/ host'.vlan = Pruned(Linked(ok), ok)
        \/ host'.vlan = Linked(ok)
        \/ \E t \in ok : host'.vlan = [Pruned(Linked(ok), ok) EXCEPT ![t] = "unmarked"]
    <3>1. \/ host' = [host EXCEPT !.vlan = Pruned(Linked(ok), ok)]
          \/ host' = [host EXCEPT !.vlan = Linked(ok)]
          \/ \E t \in ok : host' = [host EXCEPT !.vlan =
                                     [Pruned(Linked(ok), ok) EXCEPT ![t] = "unmarked"]]
      BY <2>1
    <3> HIDE DEF ok
    <3>. QED BY <3>1 DEF HostTyped, Fields
  <2> HIDE DEF ok
  <2>4. ASSUME NEW t \in ok PROVE host'.vlan[t] # "none"
    <3>1. t \in Tag /\ Pruned(Linked(ok), ok)[t] # "none" /\ Linked(ok)[t] # "none"
      BY <2>2, LinkedPresent
    <3>2. CASE host'.vlan = Pruned(Linked(ok), ok) \/ host'.vlan = Linked(ok)
      BY <3>1, <3>2
    <3>3. CASE \E u \in ok : host'.vlan = [Pruned(Linked(ok), ok) EXCEPT ![u] = "unmarked"]
      <4>1. PICK u \in ok : host'.vlan = [Pruned(Linked(ok), ok) EXCEPT ![u] = "unmarked"]
        BY <3>3
      <4>2. t \in DOMAIN Pruned(Linked(ok), ok)
        BY <3>1 DEF Pruned
      <4>. QED BY <3>1, <4>1, <4>2
    <3>. QED BY <2>3, <3>2, <3>3
  <2>. QED BY <2>2, <2>4 DEF BoundPresent
<1>. QED BY <1>2, <1>3, <1>4 DEF EnsureSegments

LEMMA BoundInductive ==
  ASSUME IInv, HostInv, MemTyped, BoundPresent, Next PROVE BoundPresent'
<1>1. CASE Down
  BY <1>1 DEF Down, BoundPresent, boundTags
<1>2. CASE Start \/ BeginCycle
  <2>1. bound' = bound /\ host' = host
    BY <1>2 DEF Start, BeginCycle, memVars
  <2>2. phase # "stop"
    <3>1. CASE Start
      BY <3>1 DEF Start
    <3>2. CASE Idle
      BY <3>2 DEF Idle
    <3>3. CASE Step("first")
      BY <3>3, StepUp DEF UpNames
    <3>. QED BY <1>2, <3>1, <3>2, <3>3 DEF BeginCycle
  <2>. QED BY <2>1, <2>2 DEF BoundPresent
<1>3. CASE phase' = "stop"
  BY <1>3 DEF BoundPresent
<1>4. CASE phase # "stop" /\ EnsureSegments
  BY <1>4, SegmentsPresent DEF IInv
<1>5. CASE phase # "stop" /\ bound' = bound /\ ~EnsureSegments
  <2>1. host'.vlan = host.vlan
    BY <1>5, KeptFields
  <2>. QED BY <1>5, <2>1 DEF BoundPresent
<1>. QED BY <1>1, <1>2, <1>3, <1>4, <1>5, Phases

(* A step of the set-up is done, or one of a cycle.                           *)
LEMMA SetUpStep ==
  ASSUME IInv, SetUpInv, Next, phase # "stop", UNCHANGED <<phase, cfg>>,
         NEW name, name # "setup", Step(name), Done,
         name = "veth" => host'.veth, name = "bridge" => host'.bridge
  PROVE  SetUpInv'
<1>1. PICK S : todo \in Seq(S)
  BY DEF IInv, StepsLeft
<1>2. todo # <<>> /\ Head(todo) = name /\ todo' = Tail(todo)
  BY DEF Step, Done
<1>3. Names(todo) \subseteq {name} \cup Names(todo')
  BY <1>1, <1>2, TailNames
<1>4. (host.veth => host'.veth) /\ (host.bridge => host'.bridge)
  BY KeptFields
<1>5. PortForwardOnly(cfg)' <=> PortForwardOnly(cfg)
  BY DEF PortForwardOnly
<1>6. todo # <<"setup">>
  BY <1>2
<1>7. Made("veth") => Made("veth")'
  BY <1>3, <1>4 DEF Made
<1>8. Made("bridge") => Made("bridge")'
  BY <1>3, <1>4 DEF Made
<1>. QED BY <1>4, <1>5, <1>6, <1>7, <1>8 DEF SetUpInv

(* Nothing of the set-up is touched.                                          *)
LEMMA SetUpSame ==
  ASSUME IInv, SetUpInv, Next, phase # "stop", phase' = phase, todo' = todo \/ phase # "start",
         cfg'.remotes = cfg.remotes
  PROVE  SetUpInv'
<1>1. (host.veth => host'.veth) /\ (host.bridge => host'.bridge)
  BY KeptFields
<1>2. PortForwardOnly(cfg)' <=> PortForwardOnly(cfg)
  BY DEF PortForwardOnly
<1>3. CASE phase = "start"
  BY <1>1, <1>2, <1>3 DEF SetUpInv, Made
<1>4. CASE phase # "start"
  BY <1>1, <1>2, <1>4 DEF SetUpInv
<1>. QED BY <1>3, <1>4

LEMMA SetUpDone ==
  ASSUME IInv, HostInv, ProcessTyped, Planned(todo), SetUpInv, BeginCycle
  PROVE  phase' = "run" /\ host.veth /\ (PortForwardOnly(cfg) \/ host.bridge)
<1>1. phase' = "run"
  BY DEF BeginCycle
<1>2. CASE phase = "run"
  BY <1>1, <1>2 DEF SetUpInv
<1>3. CASE phase # "run"
  <2>1. Step("first")
    BY <1>3 DEF BeginCycle, Idle
  <2>2. phase # "stop"
    BY <2>1, StepUp DEF UpNames
  <2>3. phase = "start"
    BY <1>3, <2>1, <2>2 DEF HostInv, ProcessTyped, Step
  <2>4. PICK S : todo \in Seq(S)
    BY DEF IInv, StepsLeft
  <2>5. todo # <<>> /\ Head(todo) = "first" /\ Tail(todo) = <<>>
    BY <2>1, <2>4, TailPlanned DEF Step
  <2>6. Names(todo) \subseteq {"first"}
    <3>1. Names(<<>>) = {}
      BY DEF Names
    <3>2. Names(todo) \subseteq {Head(todo)} \cup Names(Tail(todo))
      BY <2>4, <2>5, TailNames
    <3>. QED BY <2>5, <3>1, <3>2
  <2>7. todo # <<"setup">>
    BY <2>5
  <2>8. (Made("veth") => host.veth) /\ (Made("bridge") => host.bridge)
    BY <2>6 DEF Made
  <2>. QED BY <1>1, <2>3, <2>7, <2>8 DEF SetUpInv
<1>. QED BY <1>2, <1>3

LEMMA SetUpInductive ==
  ASSUME IInv, HostInv, ProcessTyped, Planned(todo), SetUpInv, Next
  PROVE  SetUpInv'
<1>1. CASE Down \/ phase' = "stop"
  BY <1>1 DEF Down, SetUpInv
<1>2. CASE Start
  BY <1>2 DEF Start, SetUpInv
<1>3. CASE BeginCycle
  <2>1. host' = host /\ cfg' = cfg /\ phase' = "run"
    BY <1>3 DEF BeginCycle
  <2>. QED BY <1>3, <2>1, SetUpDone DEF SetUpInv, PortForwardOnly
<1> DEFINE Going == phase' = phase /\ phase # "stop"
<1>4. CASE Going /\ Run
  <2>1. todo' = StartSteps /\ UNCHANGED <<host, cfg>>
    BY <1>4 DEF Run
  <2>2. /\ "veth" \in Names(todo') /\ (PortForwardOnly(cfg) \/ "bridge" \in Names(todo'))
        /\ PortForwardOnly(cfg)' <=> PortForwardOnly(cfg)
    BY <2>1, StartParts DEF PortForwardOnly
  <2>. QED BY <1>4, <2>1, <2>2 DEF SetUpInv, Made
<1>5. CASE Going /\ (ChangeRows \/ EditFile \/ RequestReload \/ Refresh \/ Drift)
  <2>1. todo' = todo /\ cfg' = cfg
    BY <1>5 DEF ChangeRows, EditFile, RequestReload, Refresh, BeginRefresh, EndRefresh, Drift,
       runVars
  <2>. QED BY <1>5, <2>1, SetUpSame
<1>6. CASE Going /\ (handleReload \/ RefreshVethNexthop)
  <2>1. phase = "run"
    BY <1>6 DEF handleReload, RefreshVethNexthop, Idle
  <2>2. cfg' = planReload(file) \/ cfg' = cfg
    BY <1>6 DEF handleReload, RefreshVethNexthop, Keep, KeepAll
  <2>. QED BY <1>6, <2>1, <2>2, ReloadedMode, SetUpSame
<1>7. CASE Going /\ (EnsureBridgeIP \/ SetupVethLeak)
  <2>1. \/ Step("bridge") /\ host' = [host EXCEPT !.bridge = TRUE]
        \/ Step("veth") /\ host' = [host EXCEPT !.veth = TRUE]
    BY <1>7 DEF EnsureBridgeIP, SetupVethLeak, SetUp
  <2>2. Done /\ cfg' = cfg
    BY <1>7 DEF EnsureBridgeIP, SetupVethLeak, SetUp, Keep, KeepAll
  <2>3. \/ Step("bridge") /\ host'.bridge
        \/ Step("veth") /\ host'.veth
    BY <2>1, Written DEF IInv, Fields
  <2>. QED BY <1>7, <2>2, <2>3, SetUpStep
<1>8. CASE Going /\ (Connect \/ EnsureSegments \/ ReconcileFRRPrefixList \/ removeStaleLeaks)
  <2>1. Done /\ cfg' = cfg
    BY <1>8 DEF Connect, EnsureSegments, ReconcileFRRPrefixList, removeStaleLeaks, Keep,
       KeepAll, Done
  <2>2. \E name \in {"connect", "segments", "list", "stale"} : Step(name)
    BY <1>8 DEF Connect, EnsureSegments, ReconcileFRRPrefixList, removeStaleLeaks
  <2>. QED BY <1>8, <2>1, <2>2, SetUpStep
<1>9. CASE Going /\ (\/ reconcilePortForwardVIPs \/ applyNftRuleset \/ ensureDNATRouting
                     \/ ensureVethIngressRule \/ addLeakRoutes \/ addLeakRules)
  <2>1. cfg' = cfg /\ (Done \/ phase # "start")
    BY <1>9 DEF reconcilePortForwardVIPs, applyNftRuleset, ensureDNATRouting,
       ensureVethIngressRule, addLeakRoutes, addLeakRules, Fails, Keep, KeepAll
  <2>2. \E name \in PortForwardGroup \cup LeakGroup : Step(name)
    BY <1>9 DEF reconcilePortForwardVIPs, applyNftRuleset, ensureDNATRouting,
       ensureVethIngressRule, addLeakRoutes, addLeakRules, PortForwardGroup, LeakGroup
  <2>3. CASE Done
    BY <1>9, <2>1, <2>2, <2>3, SetUpStep DEF PortForwardGroup, LeakGroup
  <2>4. CASE phase # "start"
    BY <1>9, <2>1, <2>4, SetUpSame
  <2>. QED BY <2>1, <2>3, <2>4
<1>10. CASE Crash \/ AbortStart \/ Exit \/ Sigterm
  BY <1>1, <1>10 DEF Crash, AbortStart, Exit, Sigterm
<1>11. CASE cleanup
  <2>1. PICK name, left : name \in DownNames \ {"list"} /\ Remove(name, left)
    BY <1>11 DEF cleanup, TeardownSegmentInterfaces, TeardownPortForward, cleanupDNATRouting,
                 TeardownVethLeak, removeVethIngressRules, RemoveBridgeIP, DownNames
  <2>2. phase' = "stop"
    BY <2>1, StepDown DEF Remove, KeepAll
  <2>. QED BY <1>1, <2>2
<1>12. Down \/ Start \/ BeginCycle \/ phase' = "stop" \/ Going
  BY Phases
<1> HIDE DEF Going
<1>. QED BY <1>1, <1>2, <1>3, <1>4, <1>5, <1>6, <1>7, <1>8, <1>9, <1>10, <1>11, <1>12
         DEF Next, Agent

LEMMA InitCycleInv == Init => CycleInv
BY DEF Init, CycleInv, Planned, SeenInv, BoundPresent, boundTags, SetUpInv

LEMMA CycleInvInductive ==
  ASSUME IInv, HostInv, ProcessTyped, MemTyped, CycleInv, [Next]_vars PROVE CycleInv'
<1>1. CASE Next
  BY <1>1, TodoPlanned, SeenInductive, BoundInductive, SetUpInductive DEF CycleInv
<1>2. CASE UNCHANGED vars
  <2>1. UNCHANGED <<todo, phase, cfg, host, bound, seen>>
    BY <1>2 DEF vars, runVars, memVars
  <2>. QED BY <2>1 DEF CycleInv, Planned, SeenInv, Step, BoundPresent, boundTags, SetUpInv,
           Made, PortForwardOnly
<1>. QED BY <1>1, <1>2

-----------------------------------------------------------------------------
(* The steps of a cycle that no fault touches. *)

LEMMA NoFaults == ASSUME Counted, NoFault PROVE \A kind : ~Fault(kind)
BY HostPlaneAssumption DEF Counted, NoFault, Fault

LEMMA SameWants ==
  ASSUME UNCHANGED <<phase, cfg, goal>>
  PROVE  /\ WantedTags' = WantedTags /\ PrefixList' = PrefixList
         /\ (announceVIPs' <=> announceVIPs) /\ Managed(cfg)' = Managed(cfg)
         /\ Ruleset' = Ruleset /\ LeakNets' = LeakNets
         /\ \A active : CycleSteps(active)' = CycleSteps(active)
BY DEF WantedTags, PrefixList, announceVIPs, Managed, Ruleset, buildNftRuleset, LeakNets,
       CycleSteps, PortForwardSteps, PortForwardOnly, LeakSteps, writeDNATChain,
       writeSNATChain, collectHairpinVIPs, collectRouterMasqVIPs

(* What a step has achieved another one leaves alone.                         *)
LEMMA GotKept ==
  ASSUME UNCHANGED <<phase, cfg, goal>>, NEW name, Got(name),
         name = "segments" => host'.vlan = host.vlan,
         name = "list" => host'.list = host.list,
         name = "vips" => host'.addr = host.addr,
         name = "nft" => host'.nft = host.nft,
         name = "dnat" => host'.dnat = host.dnat,
         name = "ingress" => host'.ingress = host.ingress,
         name = "routes" => host.routes \cap LeakNets \subseteq host'.routes,
         name = "rules" => host.rules \cap LeakNets \subseteq host'.rules,
         name = "stale" => host'.routes \cup host'.rules
                             \subseteq (host.routes \cup host.rules) \cup LeakNets
  PROVE  Got(name)'
<1>1. name = "segments" => Got(name)'
  BY SameWants DEF Got
<1>2. name = "list" => Got(name)'
  BY SameWants DEF Got
<1>3. name = "vips" => Got(name)'
  BY SameWants DEF Got
<1>4. name \in {"nft", "dnat", "ingress"} => Got(name)'
  BY SameWants DEF Got
<1>5. name \in {"routes", "rules", "stale"} => Got(name)'
  BY SameWants DEF Got
<1>6. name \notin {"segments", "list", "vips", "nft", "dnat", "ingress", "routes", "rules",
                   "stale"} => Got(name)'
  BY DEF Got
<1>. QED BY <1>1, <1>2, <1>3, <1>4, <1>5, <1>6

(* The step is done and has got what it is for.                               *)
Does(name) ==
  /\ Step(name) /\ Done /\ UNCHANGED <<now, phase, cfg, goal>>
  /\ Got(name)'
  /\ \A other : other # name /\ Got(other) => Got(other)'
  /\ seen' \subseteq host'.rules

LEMMA DoesAchieves ==
  ASSUME IInv, Achieved, NEW name, Does(name)
  PROVE  Achieved' /\ Names(todo') \subseteq Names(todo)
<1>1. PICK S : todo \in Seq(S)
  BY DEF IInv, StepsLeft
<1>2. todo # <<>> /\ Head(todo) = name /\ todo' = Tail(todo)
  BY DEF Does, Step, Done
<1>3. Names(todo) \subseteq {name} \cup Names(todo') /\ Names(todo') \subseteq Names(todo)
  BY <1>1, <1>2, TailNames
<1>4. CycleSteps(goal.active)' = CycleSteps(goal.active)
  <2>1. goal' = goal
    BY DEF Does
  <2>2. \A active : CycleSteps(active)' = CycleSteps(active)
    BY SameWants DEF Does
  <2>. QED BY <2>1, <2>2
<1>5. ASSUME NEW other \in Names(CycleSteps(goal.active)), other \notin Names(todo')
      PROVE  Got(other)'
  <2>1. CASE other = name
    BY <2>1 DEF Does
  <2>2. CASE other # name
    BY <1>3, <1>5, <2>2 DEF Achieved, Does
  <2>. QED BY <2>1, <2>2
<1>6. ASSUME NEW other \in Names(CycleSteps(goal.active))' \ Names(todo)' PROVE Got(other)'
  <2>1. Names(CycleSteps(goal.active))' = Names(CycleSteps(goal.active))
    BY <1>4 DEF Names
  <2>. QED BY <1>5, <1>6, <2>1
<1>. QED BY <1>3, <1>6 DEF Achieved

LEMMA DoesOneField ==
  ASSUME HostTyped, NEW name, Step(name), Done, UNCHANGED <<now, phase, cfg, goal>>,
         seen' = seen, seen \subseteq host.rules, Got(name)',
         \/ host' = host /\ name = "connect"
         \/ \E X : host' = [host EXCEPT !.bridge = X] /\ name = "bridge"
         \/ \E X : host' = [host EXCEPT !.veth = X] /\ name = "veth"
         \/ \E X \in [Tag -> LinkStates] : host' = [host EXCEPT !.vlan = X] /\ name = "segments"
         \/ \E X : host' = [host EXCEPT !.list = X] /\ name = "list"
         \/ \E X : host' = [host EXCEPT !.addr = X] /\ name = "vips"
         \/ \E X : host' = [host EXCEPT !.nft = X] /\ name = "nft"
         \/ \E X : host' = [host EXCEPT !.dnat = X] /\ name = "dnat"
         \/ \E X : host' = [host EXCEPT !.ingress = X] /\ name = "ingress"
  PROVE  Does(name)
<1>1. /\ host'.rules = host.rules /\ host'.routes = host.routes
      /\ name # "segments" => host'.vlan = host.vlan
      /\ name # "list" => host'.list = host.list
      /\ name # "vips" => host'.addr = host.addr
      /\ name # "nft" => host'.nft = host.nft
      /\ name # "dnat" => host'.dnat = host.dnat
      /\ name # "ingress" => host'.ingress = host.ingress
  BY DEF HostTyped, Fields
<1>2. ASSUME NEW other, other # name, Got(other) PROVE Got(other)'
  BY <1>1, <1>2, GotKept
<1>. QED BY <1>1, <1>2 DEF Does

LEMMA DoesPlain ==
  ASSUME IInv, \A kind : ~Fault(kind), phase = "run", seen \subseteq host.rules,
         \/ Connect \/ EnsureBridgeIP \/ SetupVethLeak \/ applyNftRuleset
         \/ ensureDNATRouting \/ ensureVethIngressRule
  PROVE  \E name : Does(name)
<1>1. Done /\ UNCHANGED <<now, phase, cfg, goal>> /\ seen' = seen
  BY DEF Connect, EnsureBridgeIP, SetupVethLeak, SetUp, applyNftRuleset, ensureDNATRouting,
     ensureVethIngressRule, Fails, Keep, KeepAll, KeepMem, memVars, ovnVars, Done
<1>2. CASE Connect
  BY <1>1, <1>2, DoesOneField DEF Connect, IInv, Got
<1>3. CASE EnsureBridgeIP
  BY <1>1, <1>3, DoesOneField DEF EnsureBridgeIP, SetUp, IInv, Got
<1>4. CASE SetupVethLeak
  BY <1>1, <1>4, DoesOneField DEF SetupVethLeak, SetUp, IInv, Got
<1>5. CASE applyNftRuleset
  <2>1. Step("nft") /\ host' = [host EXCEPT !.nft = {Ruleset}]
    BY <1>5 DEF applyNftRuleset, Fails
  <2>2. Got("nft")'
    BY <1>1, <2>1, SameWants, Written DEF Got, IInv, Fields
  <2>. QED BY <1>1, <2>1, <2>2, DoesOneField DEF IInv
<1>6. CASE ensureDNATRouting
  <2>1. Step("dnat") /\ host' = [host EXCEPT !.dnat = TRUE]
    BY <1>6 DEF ensureDNATRouting, Fails
  <2>2. Got("dnat")'
    BY <2>1, Written DEF Got, IInv, Fields
  <2>. QED BY <1>1, <2>1, <2>2, DoesOneField DEF IInv
<1>7. CASE ensureVethIngressRule
  <2>1. Step("ingress") /\ host' = [host EXCEPT !.ingress = TRUE]
    BY <1>7 DEF ensureVethIngressRule, Fails
  <2>2. Got("ingress")'
    BY <2>1, Written DEF Got, IInv, Fields
  <2>. QED BY <1>1, <2>1, <2>2, DoesOneField DEF IInv
<1>. QED BY <1>2, <1>3, <1>4, <1>5, <1>6, <1>7

LEMMA DoesList ==
  ASSUME IInv, HostInv, ProcessTyped, \A kind : ~Fault(kind), phase = "run",
         seen \subseteq host.rules, ReconcileFRRPrefixList
  PROVE  Does("list")
<1>1. /\ Step("list") /\ Done /\ UNCHANGED <<now, phase, cfg, goal>> /\ seen' = seen
      /\ host' = [host EXCEPT !.list = [@ EXCEPT ![cfg.list] = PrefixList]]
  BY DEF ReconcileFRRPrefixList, KeepAll, KeepMem, memVars, ovnVars
<1>2. host'.list = [host.list EXCEPT ![cfg.list] = PrefixList]
  BY <1>1, Written DEF IInv, Fields
<1>3. cfg.list \in DOMAIN host.list
  <2>1. cfg.list \in Name
    BY DEF ProcessTyped, Configs
  <2>2. host.list = [n \in Name |-> host.list[n]]
    BY DEF HostInv
  <2>3. DOMAIN [n \in Name |-> host.list[n]] = Name
    OBVIOUS
  <2>4. DOMAIN host.list = Name
    BY <2>2, <2>3
  <2>. QED BY <2>1, <2>4
<1>4. Got("list")'
  <2>1. host'.list[cfg.list] = PrefixList
    BY <1>2, <1>3
  <2>. QED BY <1>1, <2>1, SameWants DEF Got
<1>. QED BY <1>1, <1>4, DoesOneField DEF IInv

LEMMA DoesVIPs ==
  ASSUME IInv, \A kind : ~Fault(kind), phase = "run", seen \subseteq host.rules,
         reconcilePortForwardVIPs
  PROVE  Does("vips")
<1> DEFINE X == IF announceVIPs THEN host.addr \cup (Managed(cfg) \ host.addr)
                ELSE host.addr \ (Managed(cfg) \cap host.addr)
<1>1. /\ Step("vips") /\ Done /\ UNCHANGED <<now, phase, cfg, goal>> /\ seen' = seen
      /\ host' = [host EXCEPT !.addr = X]
  BY DEF reconcilePortForwardVIPs, Fails, Keep, KeepAll, KeepMem, memVars, ovnVars
<1>2. host'.addr = X
  BY <1>1, Written DEF IInv, Fields
<1>3. Got("vips")'
  BY <1>1, <1>2, SameWants DEF Got
<1>. QED BY <1>1, <1>3, DoesOneField DEF IInv

LEMMA DoesSegments ==
  ASSUME IInv, MemTyped, BoundPresent, \A kind : ~Fault(kind), phase = "run",
         seen \subseteq host.rules, EnsureSegments
  PROVE  Does("segments")
<1> DEFINE ok == {t \in WantedTags \ {} : Adoptable(t)}
<1>1. Step("segments") /\ Done /\ UNCHANGED <<now, phase, cfg, goal>> /\ seen' = seen
  BY DEF EnsureSegments, KeepAll, ovnVars
<1>2. PICK X : /\ host' = [host EXCEPT !.vlan = X] /\ X \in [Tag -> LinkStates]
               /\ \/ bound = goal.desired.segments /\ X = Pruned(host.vlan, boundTags(bound))
                  \/ X = Pruned(Linked(ok), ok)
  <2>1. CASE bound = goal.desired.segments
    <3>1. host' = [host EXCEPT !.vlan = Pruned(host.vlan, boundTags(bound))]
      BY <2>1 DEF EnsureSegments
    <3>2. Pruned(host.vlan, boundTags(bound)) \in [Tag -> LinkStates]
      BY LinkedRespects DEF Respects
    <3>. QED BY <2>1, <3>1, <3>2
  <2>2. CASE bound # goal.desired.segments
    <3>1. host' = [host EXCEPT !.vlan = Pruned(Linked(ok), ok)]
      BY <2>2 DEF EnsureSegments
    <3>2. Pruned(Linked(ok), ok) \in [Tag -> LinkStates]
      BY LinkedRespects DEF Respects
    <3>. QED BY <3>1, <3>2
  <2>. QED BY <2>1, <2>2
<1>3. host'.vlan = X
  BY <1>2, VlanWritten DEF IInv
<1>4. ASSUME NEW t \in Tag
      PROVE  (t \in WantedTags => X[t] # "none") /\ (t \notin WantedTags => X[t] # "ours")
  <2>1. CASE bound = goal.desired.segments /\ X = Pruned(host.vlan, boundTags(bound))
    <3>1. boundTags(bound) = WantedTags
      BY <2>1 DEF boundTags, WantedTags
    <3>2. t \in WantedTags => host.vlan[t] # "none"
      BY <3>1 DEF BoundPresent
    <3>. QED BY <2>1, <3>1, <3>2 DEF Pruned
  <2>2. CASE X = Pruned(Linked(ok), ok)
    <3>1. t \in ok => X[t] # "none"
      BY <2>2, LinkedPresent
    <3>2. t \in WantedTags /\ t \notin ok => host.vlan[t] = "wrong"
      BY DEF Adoptable
    <3>3. t \notin ok => /\ Linked(ok)[t] = host.vlan[t] 
                         /\ X[t] = IF host.vlan[t] = "ours" THEN "none" ELSE host.vlan[t]
      BY <2>2 DEF Linked, Pruned
    <3>. QED BY <3>1, <3>2, <3>3
  <2>. QED BY <1>2, <2>1, <2>2
<1> HIDE DEF ok
<1>5. Got("segments")'
  <2>1. WantedTags' = WantedTags
    BY <1>1, SameWants
  <2>. QED BY <1>3, <1>4, <2>1 DEF Got
<1>. QED BY <1>1, <1>2, <1>5, DoesOneField DEF IInv

(* The rules are listed and then, before anything else is done, added.        *)
LEMMA DoesLeaks ==
  ASSUME IInv, SeenInv, \A kind : ~Fault(kind), phase = "run", seen \subseteq host.rules,
         addLeakRoutes \/ addLeakRules \/ removeStaleLeaks
  PROVE  \E name : Does(name)
<1>0. UNCHANGED <<now, phase, cfg, goal>>
  BY DEF addLeakRoutes, addLeakRules, removeStaleLeaks, Keep, KeepAll, KeepMem, memVars, ovnVars
<1> DEFINE Others == /\ host'.vlan = host.vlan /\ host'.list = host.list
                     /\ host'.addr = host.addr /\ host'.nft = host.nft
                     /\ host'.dnat = host.dnat /\ host'.ingress = host.ingress
<1>1. CASE addLeakRoutes
  <2>1. /\ Step("routes") /\ Done /\ host' = [host EXCEPT !.routes = @ \cup LeakNets]
        /\ seen' = host.rules
    BY <1>1 DEF addLeakRoutes, Fails
  <2>2. Others /\ host'.rules = host.rules /\ host'.routes = host.routes \cup LeakNets
    BY <2>1 DEF IInv, HostTyped, Fields
  <2>3. Got("routes")'
    BY <1>0, <2>2, SameWants DEF Got
  <2>4. ASSUME NEW other, Got(other) PROVE Got(other)'
    BY <1>0, <2>2, <2>4, GotKept
  <2>. QED BY <1>0, <2>1, <2>2, <2>3, <2>4 DEF Does
<1>2. CASE addLeakRules
  <2>1. /\ Step("rules") /\ Done /\ host' = [host EXCEPT !.rules = @ \cup (LeakNets \ seen)]
        /\ seen' = {}
    BY <1>2 DEF addLeakRules, Fails
  <2>2. /\ Others /\ host'.routes = host.routes
        /\ host'.rules = host.rules \cup (LeakNets \ seen)
    BY <2>1 DEF IInv, HostTyped, Fields
  <2>3. Got("rules")'
    <3>1. LeakNets \subseteq host'.rules
      BY <2>2
    <3>. QED BY <1>0, <3>1, SameWants DEF Got
  <2>4. ASSUME NEW other, Got(other) PROVE Got(other)'
    BY <1>0, <2>2, <2>4, GotKept
  <2>. QED BY <1>0, <2>1, <2>3, <2>4 DEF Does
<1>3. CASE removeStaleLeaks
  <2>1. /\ Step("stale") /\ Done /\ seen' = seen
        /\ host' = [host EXCEPT !.routes = @ \cap LeakNets, !.rules = @ \cap LeakNets]
    BY <1>3 DEF removeStaleLeaks, KeepMem, memVars, ovnVars
  <2>2. /\ Others /\ host'.routes = host.routes \cap LeakNets
        /\ host'.rules = host.rules \cap LeakNets
    BY <2>1 DEF IInv, HostTyped, Fields
  <2>3. Got("stale")'
    BY <1>0, <2>2, SameWants DEF Got
  <2>4. ASSUME NEW other, Got(other) PROVE Got(other)'
    BY <1>0, <2>2, <2>4, GotKept
  <2>5. seen' \subseteq host'.rules
    BY <2>1 DEF SeenInv, Step
  <2>. QED BY <1>0, <2>1, <2>3, <2>4, <2>5 DEF Does
<1>. QED BY <1>1, <1>2, <1>3

(* In the middle of a cycle, and without a fault, the cycle goes on.          *)
LEMMA CycleGoesOn ==
  ASSUME IInv, HostInv, ProcessTyped, MemTyped, CycleInv, Counted, Next, NoFault,
         Progress, phase = "run", todo # <<>>
  PROVE  /\ phase' = "run" /\ {"setup", "first"} \cap Names(todo') = {} /\ Achieved'
         /\ seen' \subseteq host'.rules
         /\ todo' = todo \/ UNCHANGED <<now, cfg, goal>>
<1>1. \A kind : ~Fault(kind)
  BY NoFaults
<1>2. /\ BoundPresent /\ SeenInv /\ Achieved /\ seen \subseteq host.rules
      /\ {"setup", "first"} \cap Names(todo) = {}
  BY DEF CycleInv, Progress
<1>3. CASE \E name : Does(name)
  <2>1. PICK name : Does(name)
    BY <1>3
  <2>. QED BY <1>2, <2>1, DoesAchieves DEF Does
<1>4. CASE ChangeRows \/ EditFile \/ RequestReload \/ Refresh
  <2>1. UNCHANGED <<phase, todo, cfg, goal, host, seen>>
    BY <1>4 DEF ChangeRows, EditFile, RequestReload, Refresh, BeginRefresh, EndRefresh,
       runVars, memVars
  <2>2. \A name : Got(name) => Got(name)'
    BY <2>1, GotKept
  <2>3. Names(CycleSteps(goal.active))' = Names(CycleSteps(goal.active))
    <3>1. CycleSteps(goal.active)' = CycleSteps(goal.active)
      <4>1. \A active : CycleSteps(active)' = CycleSteps(active)
        BY <2>1, SameWants
      <4>. QED BY <2>1, <4>1
    <3>. QED BY <3>1 DEF Names
  <2>4. Names(todo)' = Names(todo)
    BY <2>1 DEF Names
  <2>5. Achieved'
    BY <1>2, <2>2, <2>3, <2>4 DEF Achieved
  <2>. QED BY <1>2, <2>1, <2>4, <2>5 DEF Names
<1>5. CASE \/ EnsureBridgeIP \/ SetupVethLeak \/ Connect \/ EnsureSegments
           \/ ReconcileFRRPrefixList \/ reconcilePortForwardVIPs \/ applyNftRuleset
           \/ ensureDNATRouting \/ ensureVethIngressRule \/ addLeakRoutes \/ addLeakRules
           \/ removeStaleLeaks
  BY <1>1, <1>2, <1>3, <1>5, DoesPlain, DoesSegments, DoesList, DoesVIPs, DoesLeaks
<1>6. ~(Drift \/ Crash \/ RefreshVethNexthop)
  BY <1>1 DEF Drift, Crash, RefreshVethNexthop
<1>7. ~(Start \/ AbortStart \/ Sigterm \/ handleReload \/ Exit)
  BY DEF Start, AbortStart, Sigterm, handleReload, Exit, Idle
<1>8. ~(Run \/ BeginCycle)
  <2>1. PICK S : todo \in Seq(S)
    BY DEF IInv, StepsLeft
  <2>2. Head(todo) \notin {"setup", "first"}
    BY <1>2, <2>1, TailNames
  <2>. QED BY <2>2 DEF Run, BeginCycle, Idle, Step
<1>9. ~cleanup
  <2>1. SUFFICES ASSUME NEW name \in DownNames \ {"list"}, NEW left, Remove(name, left)
                 PROVE  FALSE
    BY <2>1 DEF cleanup, TeardownSegmentInterfaces, TeardownPortForward,
      cleanupDNATRouting, TeardownVethLeak, removeVethIngressRules,
      RemoveBridgeIP, DownNames
  <2>. QED BY <2>1, StepDown DEF Remove
<1>. QED BY <1>4, <1>5, <1>6, <1>7, <1>8, <1>9 DEF Next, Agent

LEMMA BeginProgress ==
  ASSUME SeenInv, BeginCycle
  PROVE  Progress'
<1>1. UNCHANGED <<cfg, seen>> /\ todo' = CycleSteps(goal'.active)
  BY DEF BeginCycle
<1>2. seen = {}
  BY DEF BeginCycle, SeenInv, Step, Idle
<1>3. {"setup", "first"} \cap Names(todo') = {}
  BY <1>1, CycleParts, PartNames
<1>4. Names(CycleSteps(goal.active))' = Names(todo)'
  BY <1>1 DEF Names, CycleSteps, PortForwardSteps, PortForwardOnly, LeakSteps
<1>5. Achieved'
  BY <1>4 DEF Achieved
<1>6. Names(todo)' = Names(todo')
  BY DEF Names
<1>. QED BY <1>1, <1>2, <1>3, <1>5, <1>6 DEF Progress

(* The other steps into a cycle.                                              *)
LEMMA NewCycle ==
  ASSUME IInv, HostInv, Counted, Next, NoFault, phase # "run" \/ todo = <<>>,
         phase' = "run", todo' # <<>>
  PROVE  BeginCycle
<1>1. BeginCycle \/ (phase = "run" /\ todo = <<>>)
  <2>1. ~Down /\ ~Start
    BY DEF Down, Start
  <2>. QED BY <2>1, Phases
<1>2. CASE phase = "run" /\ todo = <<>>
  <2>1. \A name : ~Step(name)
    BY <1>2 DEF Step
  <2>2. CASE ChangeRows \/ EditFile \/ RequestReload \/ Refresh \/ Drift \/ handleReload
    BY <1>2, <2>2 DEF ChangeRows, EditFile, RequestReload, Refresh, BeginRefresh,
       EndRefresh, Drift, handleReload, runVars
  <2>3. ~(Crash \/ AbortStart \/ Exit \/ Start \/ Sigterm)
    BY <1>2 DEF Crash, AbortStart, Exit, Start, Sigterm, Down
  <2>4. ~RefreshVethNexthop
    BY NoFaults DEF RefreshVethNexthop
  <2>5. ~(\/ Run \/ Connect \/ EnsureBridgeIP \/ SetupVethLeak \/ EnsureSegments
          \/ ReconcileFRRPrefixList \/ reconcilePortForwardVIPs \/ applyNftRuleset
          \/ ensureDNATRouting \/ ensureVethIngressRule \/ addLeakRoutes \/ addLeakRules
          \/ removeStaleLeaks)
    BY <2>1 DEF Run, Connect, EnsureBridgeIP, SetupVethLeak, SetUp, EnsureSegments,
       ReconcileFRRPrefixList, reconcilePortForwardVIPs, applyNftRuleset, ensureDNATRouting,
       ensureVethIngressRule, addLeakRoutes, addLeakRules, removeStaleLeaks
  <2>6. ~cleanup
    BY <2>1 DEF cleanup, TeardownSegmentInterfaces, TeardownPortForward, cleanupDNATRouting,
       TeardownVethLeak, removeVethIngressRules, RemoveBridgeIP, Remove
  <2>. QED BY <2>2, <2>3, <2>4, <2>5, <2>6 DEF Next, Agent
<1>. QED BY <1>1, <1>2

CycleSound == IInv /\ HostInv /\ WellFormed /\ CycleInv

LEMMA ProgressKept ==
  CycleSound /\ Progress /\ [Next]_vars /\ [NoFault]_vars => Progress'
<1> SUFFICES ASSUME CycleSound, Progress, [Next]_vars, [NoFault]_vars PROVE Progress'
  OBVIOUS
<1>1. CASE UNCHANGED vars
  <2>1. UNCHANGED <<now, todo, phase, cfg, host, goal, seen>>
    BY <1>1 DEF vars, ovnVars, runVars, memVars
  <2>2. \A name : Got(name) => Got(name)'
    BY <2>1, GotKept
  <2>3. CycleSteps(goal.active)' = CycleSteps(goal.active)
    <3>1. \A active : CycleSteps(active)' = CycleSteps(active)
      BY <2>1, SameWants
    <3>. QED BY <2>1, <3>1
  <2>4. /\ Names(CycleSteps(goal.active))' = Names(CycleSteps(goal.active))
        /\ Names(todo)' = Names(todo)
    BY <2>1, <2>3 DEF Names
  <2>. QED BY <2>1, <2>2, <2>4 DEF Progress, Achieved
<1>2. CASE Next /\ NoFault
  <2>1. SUFFICES ASSUME phase' = "run", todo' # <<>> PROVE Progress'
    BY DEF Progress
  <2>2. CASE phase = "run" /\ todo # <<>>
    <3>1. /\ {"setup", "first"} \cap Names(todo') = {} /\ Achieved'
          /\ seen' \subseteq host'.rules
      BY <1>2, <2>2, CycleGoesOn DEF CycleSound, WellFormed
    <3>2. Names(todo)' = Names(todo')
      BY DEF Names
    <3>. QED BY <3>1, <3>2 DEF Progress
  <2>3. CASE phase # "run" \/ todo = <<>>
    BY <1>2, <2>1, <2>3, NewCycle, BeginProgress DEF CycleSound, WellFormed, CycleInv
  <2>. QED BY <2>2, <2>3
<1>. QED BY <1>1, <1>2 DEF vars, boundVars, NoFault

LEMMA ProgressEnds ==
  CycleSound /\ Progress /\ [Next]_vars /\ [NoFault]_vars /\ Ends =>
    Delivered' /\ UNCHANGED <<now, cfg, goal>>
<1> SUFFICES ASSUME CycleSound, Progress, [Next]_vars, [NoFault]_vars, Ends
             PROVE  Delivered' /\ UNCHANGED <<now, cfg, goal>>
  OBVIOUS
<1>1. phase = "run" /\ todo # <<>> /\ todo' = <<>>
  BY DEF Ends
<1>2. Next /\ NoFault
  BY <1>1 DEF vars, runVars, boundVars, NoFault
<1>3. phase' = "run" /\ Achieved' /\ UNCHANGED <<now, cfg, goal>>
  BY <1>1, <1>2, CycleGoesOn DEF CycleSound, WellFormed
<1>4. Names(todo)' = {}
  BY <1>1 DEF Names
<1>. QED BY <1>3, <1>4 DEF Delivered, Achieved

LEMMA BegunProgress == CycleSound /\ Begun => Progress
<1> SUFFICES ASSUME CycleSound, Begun PROVE Progress
  OBVIOUS
<1>1. todo = CycleSteps(goal.active)
  BY DEF Begun
<1>2. {"setup", "first"} \cap Names(todo) = {}
  BY <1>1, CycleParts, PartNames
<1>3. ~Step("rules")
  <2>1. SUFFICES ASSUME Step("rules") PROVE FALSE
    OBVIOUS
  <2>2. todo \in Seq(UpNames) /\ Guarded(todo)
    BY <1>1, CycleStepsGuarded DEF GuardedSteps
  <2>3. 1 \in 1..Len(todo) /\ todo[1] = "rules"
    BY <2>1, <2>2 DEF Step
  <2>4. \E j \in 1..(1 - 1) : todo[j] = "ingress"
    BY <2>2, <2>3 DEF Guarded
  <2>. QED BY <2>4
<1>4. seen = {}
  BY <1>3 DEF CycleSound, CycleInv, SeenInv
<1>. QED BY <1>1, <1>2, <1>4 DEF Progress, Achieved

LEMMA CycleSoundness == Spec => []CycleSound
<1>1. CycleInv /\ (IInv /\ HostInv /\ WellFormed) /\ [Next]_vars => CycleInv'
  BY CycleInvInductive DEF WellFormed
<1>. QED BY <1>1, InitCycleInv, Invariance, HostInvariance, WellFormedInvariance, PTL
         DEF Spec, CycleSound

(* Every cycle in which nothing fails and nothing is removed leaves the host  *)
(* as its goal has it, whatever state earlier faults, reloads, restarts or    *)
(* the operator left it in: one cycle repairs it.                             *)
CycleDelivers == [](Begun => ([][NoFault]_vars => [][Ends => Delivered']_vars))

(* reconcile: no step of a cycle undoes another, and none relies on what an   *)
(* interrupted cycle would have had to leave behind.                          *)
THEOREM OneCycleRepairs == Spec => CycleDelivers
<1>1. CycleSound /\ Begun => Progress
  BY BegunProgress
<1>2. CycleSound /\ Progress /\ [Next]_vars /\ [NoFault]_vars => Progress'
  BY ProgressKept
<1>3. CycleSound /\ Progress /\ [Next]_vars /\ [NoFault]_vars => [Ends => Delivered']_vars
  BY ProgressEnds
<1>. QED BY <1>1, <1>2, <1>3, CycleSoundness, PTL DEF Spec, CycleDelivers

-----------------------------------------------------------------------------
(* A goal that is that of the present OVN and of the running configuration.   *)
CurrentGoal == goal = Goal(GetState(Current, cfg), cfg)

(* Without OVN the configured networks are wanted, and no router.             *)
LEMMA ForwardOnlyGoal ==
  ASSUME PortForwardOnly(cfg), CurrentGoal
  PROVE  /\ ~goal.active /\ goal.announce
         /\ goal.nets = cfg.network_cidr \cap V4Net
<1> DEFINE rows == [t \in Tables |-> {}]
           s == OVNState(rows, cfg.network_cidr)
<1>1. GetState(Current, cfg) = s
  BY DEF GetState
<1>2. collectLocalRouters(rows) = {}
  BY DEF collectLocalRouters, Tables
<1>3. s.routers = {} /\ s.nets = {}
  BY <1>2 DEF OVNState
<1>4. computeEffectiveNetworks(s, cfg.network_cidr) = cfg.network_cidr \cap V4Net
  BY <1>3 DEF computeEffectiveNetworks, effectiveNetworkFilters
<1> HIDE DEF s
<1>. QED BY <1>1, <1>3, <1>4 DEF CurrentGoal, Goal, vipRoutesAnnounceable

LEMMA AnnouncedVIPs ==
  ASSUME CurrentGoal
  PROVE  /\ goal.announce <=> PortForwardOnly(cfg) \/ goal.active
         /\ goal.active => goal.desired.announced = VIPs(cfg)
<1> DEFINE s == GetState(Current, cfg)
<1> HIDE DEF s
<1>1. goal = Goal(s, cfg)
  BY DEF CurrentGoal, s
<1>2. /\ goal.active <=> s.routers # {}
      /\ goal.announce <=> vipRoutesAnnounceable(s, PortForwardOnly(cfg))
      /\ goal.desired =
           computeDesiredState(s, VIPs(cfg), vipRoutesAnnounceable(s, PortForwardOnly(cfg)))
  BY <1>1 DEF Goal
<1>. QED BY <1>2 DEF vipRoutesAnnounceable, computeDesiredState

LEMMA ForwardedOf ==
  ASSUME Delivered
  PROVE  /\ IF goal.announce THEN Managed(cfg) \subseteq host.addr
            ELSE Managed(cfg) \cap host.addr = {}
         /\ cfg.vips # {} => /\ host.dnat
                             /\ \E r \in host.nft : /\ host.nft = {r} /\ r.vips = VIPs(cfg)
                                                    /\ r.guard = goal.nets
<1>1. phase = "run"
  BY DEF Delivered
<1>2. CASE cfg.vips = {}
  <2>1. Managed(cfg) = {}
    BY <1>2 DEF Managed
  <2>. QED BY <1>2, <2>1
<1>3. CASE cfg.vips # {}
  <2>1. Got("vips") /\ Got("nft") /\ Got("dnat")
    BY <1>3, CycleParts DEF Delivered, PortForwardGroup
  <2>2. host.nft = {Ruleset} /\ host.dnat
    BY <2>1 DEF Got
  <2>3. Ruleset.vips = VIPs(cfg) /\ Ruleset.guard = goal.nets
    BY <1>1 DEF Ruleset, buildNftRuleset, writeDNATChain, VIPs
  <2>4. announceVIPs <=> goal.announce
    BY <1>1 DEF announceVIPs
  <2>5. IF announceVIPs THEN Managed(cfg) \subseteq host.addr
        ELSE Managed(cfg) \cap host.addr = {}
    BY <2>1 DEF Got
  <2>. QED BY <2>2, <2>3, <2>4, <2>5
<1>. QED BY <1>2, <1>3

LEMMA LeaksOf ==
  ASSUME Delivered, ~PortForwardOnly(cfg)
  PROVE  /\ host.ingress
         /\ host.rules = LeakNets /\ host.routes = LeakNets
         /\ LeakNets = IF goal.active THEN goal.nets ELSE {}
         /\ host.list[cfg.list] =
              IF goal.active THEN goal.nets \cup goal.desired.announced ELSE {}
         /\ goal.active => Got("segments")
<1>1. phase = "run"
  BY DEF Delivered
<1>2. /\ Got("ingress") /\ Got("routes") /\ Got("rules") /\ Got("stale") /\ Got("list")
      /\ goal.active => Got("segments")
  BY CycleParts DEF Delivered, LeakGroup
<1>3. /\ host.ingress /\ LeakNets \subseteq host.routes /\ LeakNets \subseteq host.rules
      /\ host.routes \cup host.rules \subseteq LeakNets
      /\ host.list[cfg.list] = PrefixList
  BY <1>2 DEF Got
<1>. QED BY <1>1, <1>2, <1>3 DEF LeakNets, PrefixList

(* The host of a cycle whose goal is current is what the rows ask for.        *)
LEMMA DeliveredRealised ==
  ASSUME NoneIsAbsent, OvnTyped, SetUpInv, Delivered, CurrentGoal,
         SchemaKept(World), OneGatewayPort(World)
  PROVE  Realised
<1>1. host.veth /\ (PortForwardOnly(cfg) \/ host.bridge)
  BY DEF SetUpInv, Delivered
<1>2. CASE PortForwardOnly(cfg)
  <2>1. /\ Managed(cfg) \subseteq host.addr
        /\ cfg.vips # {} => /\ host.dnat
                            /\ \E r \in host.nft : /\ host.nft = {r} /\ r.vips = VIPs(cfg)
                                                   /\ r.guard = V4Net \cap cfg.network_cidr
    BY <1>2, ForwardOnlyGoal, ForwardedOf
  <2>. QED BY <1>1, <1>2, <2>1 DEF Realised
<1>3. CASE ~PortForwardOnly(cfg)
  <2>1. Wants(goal)
    BY <1>3, CurrentWants DEF CurrentGoal
  <2>2. /\ goal.active <=> ServedRouters # {}
        /\ goal.nets = ServedNets \cap V4Net
        /\ goal.desired.statics = ServedIPs
        /\ WantedTags = ServedTags
    BY <2>1 DEF Wants, WantedTags
  <2>3. goal.active => host.list[cfg.list] = (ServedNets \cap V4Net) \cup VIPs(cfg)
    BY <1>3, <2>2, LeaksOf, AnnouncedVIPs
  <2>4. ~goal.active => host.list[cfg.list] = {}
    BY <1>3, LeaksOf
  <2>5. ~goal.active => ServedIPs = {}
    <3>1. SUFFICES ASSUME ~goal.active PROVE ServedIPs = {}
      OBVIOUS
    <3>2. ServedRouters = {}
      BY <2>2, <3>1
    <3>3. ASSUME NEW p \in ServedPorts PROVE FALSE
      <4>1. PICK r \in World.lr : Owns(r, p)
        BY <3>3 DEF SchemaKept, ServedPorts
      <4>2. r \in ServedRouters
        BY <4>1 DEF Owns, ServedRouters
      <4>. QED BY <3>2, <4>2
    <3>. QED BY <3>2, <3>3 DEF ServedIPs
  <2>6. goal.active => \A t \in Tag : /\ t \in ServedTags => host.vlan[t] # "none"
                                      /\ t \notin ServedTags => host.vlan[t] # "ours"
    BY <1>3, <2>2, LeaksOf DEF Got
  <2>7. /\ IF goal.active THEN Managed(cfg) \subseteq host.addr
           ELSE Managed(cfg) \cap host.addr = {}
        /\ cfg.vips # {} => /\ host.dnat
                            /\ \E r \in host.nft : /\ host.nft = {r} /\ r.vips = VIPs(cfg)
                                                   /\ r.guard = V4Net \cap ServedNets
    BY <1>3, <2>2, ForwardedOf, AnnouncedVIPs
  <2>8. /\ host.ingress
        /\ goal.active => host.rules = ServedNets \cap V4Net /\ host.routes = ServedNets \cap V4Net
        /\ ~goal.active => host.rules = {} /\ host.routes = {}
    BY <1>3, <2>2, LeaksOf
  <2>9. CASE goal.active
    BY <1>1, <1>3, <2>2, <2>3, <2>6, <2>7, <2>8, <2>9 DEF Realised
  <2>10. CASE ~goal.active
    BY <1>1, <1>3, <2>2, <2>4, <2>5, <2>7, <2>8, <2>10 DEF Realised
  <2>. QED BY <2>9, <2>10
<1>. QED BY <1>2, <1>3

(* One undisturbed cycle whose goal is that of the present OVN (as after a    *)
(* refresh, WantsServed) gives Realised, the state that Converges says is     *)
(* reached in the end: with routers, on a standby and without OVN.            *)
CycleRealises ==
  [](Begun =>
       ([][NoFault]_vars =>
          [][Ends /\ CurrentGoal /\ SchemaKept(World) /\ OneGatewayPort(World)
             => Realised']_vars))

(* From the rows over the joins, the desired state and the steps of a         *)
(* reconcile to the host: the whole of a cycle is correct.                    *)
THEOREM OneCycleRealises == ASSUME NoneIsAbsent PROVE Spec => CycleRealises
<1> DEFINE Asked == CurrentGoal /\ SchemaKept(World) /\ OneGatewayPort(World)
<1>1. CycleSound /\ Begun => Progress
  BY BegunProgress
<1>2. CycleSound /\ Progress /\ [Next]_vars /\ [NoFault]_vars => Progress'
  BY ProgressKept
<1>3. CycleSound /\ Progress /\ [Next]_vars /\ [NoFault]_vars =>
        [Ends /\ Asked => Delivered' /\ Asked']_vars
  <2>1. ASSUME UNCHANGED <<now, cfg, goal>>, Asked PROVE Asked'
    <3>1. World' = World /\ Current' = Current
      BY <2>1 DEF World, Current
    <3>2. GetState(Current, cfg)' = GetState(Current, cfg)
      BY <2>1, <3>1 DEF GetState, PortForwardOnly
    <3>. QED BY <2>1, <3>1, <3>2 DEF CurrentGoal, SchemaKept, OneGatewayPort, PortsOf, Rows, Goal
  <2>. QED BY <2>1, ProgressEnds
<1>4. CycleSound /\ Delivered /\ Asked => Realised
  BY DeliveredRealised DEF CycleSound, WellFormed, CycleInv
<1> HIDE DEF Asked
<1>5. Spec => [](Begun => ([][NoFault]_vars => [][Ends /\ Asked => Realised']_vars))
  BY <1>1, <1>2, <1>3, <1>4, CycleSoundness, PTL DEF Spec
<1>. QED BY <1>5, PTL DEF CycleRealises, Asked
=============================================================================
