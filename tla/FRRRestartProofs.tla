-------------------------- MODULE FRRRestartProofs --------------------------
(* For any networks, restarts and interleavings: without a saved line, the    *)
(* agent's own writes never take a wanted network out of bgpd's prefix-list.  *)
EXTENDS FRRRestart, WellFoundedInduction, TLAPS

Typed ==
  /\ saved \in List /\ list \in [Daemon -> List]
  /\ up \subseteq Daemon
  /\ cur \in [Net -> 0..MaxSeq] /\ maxSeq \in 0..MaxSeq
  /\ pc \in {"prime", "idle", "list", "add", "repair"}

(* A restarted daemon has lost its copy, and two copies hold the same entries *)
(* as far as they go.                                                         *)
Agree ==
  /\ \A d \in Daemon \ up : list[d] = NoList
  /\ \A s \in Seq : \A d, e \in Daemon :
       list[d][s] # NoNet /\ list[e][s] # NoNet => list[d][s] = list[e][s]

(* What the cycle remembers is true of every copy, or was lost from it.       *)
Remembered ==
  /\ pc \in {"add", "repair"} =>
       \A n \in Net : cur[n] # 0 => \A d \in Daemon : list[d][cur[n]] \in {n, NoNet}
  /\ \A n, m \in Net : cur[n] # 0 /\ cur[n] = cur[m] => n = m

(* The next sequence number is free in every copy.                            *)
Fresh ==
  pc = "add" =>
    /\ \A d \in Daemon : \A s \in Seq : list[d][s] # NoNet => s <= maxSeq
    /\ \A n \in Net : cur[n] <= maxSeq

IInv == Typed /\ (saved = NoList => Agree /\ Remembered /\ Fresh)

-----------------------------------------------------------------------------
LEMMA LessIsWellFounded ==
  \E R : IsWellFoundedOn(R, Nat) /\ \A i, j \in Nat : i < j => <<i, j>> \in R
<1>1. IsWellFoundedOn(OpToRel(<, Nat), Nat)
  BY NatLessThanWellFounded
<1>2. \A i, j \in Nat : i < j => <<i, j>> \in OpToRel(<, Nat)
  BY DEF OpToRel
<1>. QED BY <1>1, <1>2

LEMMA Least == ASSUME NEW T, T \subseteq Nat, T # {} PROVE \E x \in T : \A y \in T : x <= y
<1>1. PICK R : IsWellFoundedOn(R, Nat) /\ \A i, j \in Nat : i < j => <<i, j>> \in R
  BY LessIsWellFounded
<1>2. \E x \in T : \A y \in T : ~(<<y, x>> \in R)
  <2>1. IsWellFoundedOn(R, Nat)
    BY <1>1
  <2>. QED BY ONLY <2>1, WFMin, T \subseteq Nat, T # {}
<1>3. PICK x \in T : \A y \in T : ~(<<y, x>> \in R)
  BY <1>2
<1>4. ASSUME NEW y \in T PROVE x <= y
  <2>1. x \in Nat /\ y \in Nat
    OBVIOUS
  <2>2. ~(y < x)
    BY <1>1, <1>3, <2>1
  <2>. QED BY <2>1, <2>2
<1>. QED BY <1>4

LEMMA MaxBounds ==
  ASSUME NEW N \in Nat, NEW S, S \subseteq 0..N, S # {}
  PROVE  Max(S) \in S /\ \A y \in S : Max(S) >= y
<1> DEFINE T == {n \in Nat : \E s \in S : n = N - s}
<1>0. PICK s \in S : TRUE
  OBVIOUS
<1>1. T \subseteq Nat /\ N - s \in T
  BY <1>0
<1>2. PICK x \in T : \A y \in T : x <= y
  BY <1>1, Least
<1>3. PICK m \in S : x = N - m
  BY <1>2
<1>4. ASSUME NEW y \in S PROVE m >= y
  <2>1. N - y \in T /\ y \in 0..N /\ m \in 0..N
    OBVIOUS
  <2>2. x <= N - y
    BY <1>2, <2>1
  <2>. QED BY <1>3, <2>1, <2>2
<1>. QED BY <1>4 DEF Max

LEMMA LastIsOneOf ==
  ASSUME NEW S, S \subseteq Seq, S # {}
  PROVE  lastOf(S) \in S
<1> DEFINE late == {s \in S : list["zebra"][s] = NoNet}
<1>1. MaxSeq \in Nat /\ S \subseteq 0..MaxSeq /\ late \subseteq 0..MaxSeq
  <2>1. MaxSeq \in Nat /\ Seq \subseteq 0..MaxSeq
    BY ConstantsAssumption DEF Seq
  <2>2. late \subseteq S
    OBVIOUS
  <2> HIDE DEF late
  <2>. QED BY <2>1, <2>2
<1>2. Max(S) \in S
  BY <1>1, MaxBounds
<1>3. late # {} => Max(late) \in late
  BY <1>1, MaxBounds
<1>. QED BY <1>2, <1>3 DEF lastOf

-----------------------------------------------------------------------------
LEMMA InitIInv == Init => IInv
<1> SUFFICES ASSUME Init PROVE IInv
  OBVIOUS
<1>1. Typed
  BY ConstantsAssumption DEF Init, Typed, List, NoList, Seq, NoEntries
<1>2. ASSUME saved = NoList PROVE Agree
  BY <1>2 DEF Init, Agree, NoList
<1>. QED BY <1>1, <1>2 DEF Init, IInv, Remembered, Fresh, NoEntries

(* FRR and OVN. *)

LEMMA Stopped == ASSUME IInv, NEW d \in Daemon, Stop(d) PROVE IInv'
<1>1. /\ up' = up \ {d} /\ list' = [list EXCEPT ![d] = NoList]
      /\ UNCHANGED <<saved, cur, maxSeq, pc>>
  BY DEF Stop, cycleVars
<1>2. NoList \in List /\ \A s \in Seq : NoList[s] = NoNet
  BY DEF NoList, List
<1>3. Typed'
  BY <1>1, <1>2 DEF IInv, Typed
<1>4. \A e \in Daemon, s \in Seq : list'[e][s] \in {list[e][s], NoNet}
  BY <1>1, <1>2 DEF IInv, Typed
<1>5. ASSUME saved = NoList PROVE Agree' /\ Remembered' /\ Fresh'
  <2>1. Agree /\ Remembered /\ Fresh
    BY <1>5 DEF IInv
  <2>2. Agree'
    <3>1. \A e \in Daemon \ up' : list'[e] = NoList
      BY <1>1, <2>1 DEF IInv, Typed, Agree
    <3>. QED BY <1>4, <2>1, <3>1 DEF Agree
  <2>3. \A n \in Net : cur[n] # 0 => cur[n] \in Seq
    BY DEF IInv, Typed, Seq
  <2>4. Remembered'
    BY <1>1, <1>4, <2>1, <2>3 DEF Remembered
  <2>5. Fresh'
    BY <1>1, <1>4, <2>1 DEF Fresh
  <2>. QED BY <2>2, <2>4, <2>5
<1>. QED BY <1>1, <1>3, <1>5 DEF IInv

(* Without a saved line there is nothing to load.                             *)
LEMMA LoadsNothing ==
  ASSUME IInv, NEW d \in Daemon, LoadSaved(d), saved = NoList
  PROVE  list' = list
<1>1. list' = [list EXCEPT ![d] =
                 [s \in Seq |-> IF saved[s] # NoNet THEN saved[s] ELSE list[d][s]]]
  BY DEF LoadSaved
<1>2. [s \in Seq |-> IF saved[s] # NoNet THEN saved[s] ELSE list[d][s]] = list[d]
  BY DEF IInv, Typed, List, NoList
<1>. QED BY <1>1, <1>2 DEF IInv, Typed

LEMMA SameLists ==
  ASSUME IInv, UNCHANGED <<list, saved, up, cur, maxSeq, pc>>
  PROVE  IInv'
BY DEF IInv, Typed, Agree, Remembered, Fresh

LEMMA Others ==
  ASSUME IInv,
         \/ \E d \in Daemon : Boot(d) \/ LoadSaved(d)
         \/ ChangeDesired \/ step
  PROVE  IInv'
<1>1. CASE ChangeDesired \/ step
  BY <1>1, SameLists DEF ChangeDesired, step, frrVars, cycleVars
<1>2. CASE \E d \in Daemon : Boot(d)
  <2>1. /\ up \subseteq up' /\ up' \subseteq Daemon
        /\ UNCHANGED <<list, saved, cur, maxSeq, pc>>
    BY <1>2 DEF Boot, cycleVars, IInv, Typed
  <2>. QED BY <2>1 DEF IInv, Typed, Agree, Remembered, Fresh
<1>3. ASSUME NEW d \in Daemon, LoadSaved(d) PROVE IInv'
  <2>1. UNCHANGED <<saved, up, cur, maxSeq, pc>>
    BY <1>3 DEF LoadSaved, cycleVars
  <2>2. CASE saved = NoList
    BY <1>3, <2>1, <2>2, LoadsNothing, SameLists
  <2>3. CASE saved # NoList
    <3>1. [s \in Seq |-> IF saved[s] # NoNet THEN saved[s] ELSE list[d][s]] \in List
      BY DEF IInv, Typed, List
    <3>2. list' \in [Daemon -> List]
      BY <1>3, <3>1 DEF LoadSaved, IInv, Typed
    <3>. QED BY <2>1, <2>3, <3>2 DEF IInv, Typed
  <2>. QED BY <2>2, <2>3
<1>. QED BY <1>1, <1>2, <1>3

-----------------------------------------------------------------------------
(* The cycle. *)

LEMMA BetweenWrites ==
  ASSUME IInv, prime \/ BeginCycle \/ CheckBGPD \/ Return
  PROVE  IInv'
<1>1. /\ UNCHANGED <<list, saved, up>>
      /\ pc' \in {"prime", "idle", "list", "repair"} /\ (pc' = "repair" => pc = "add")
      /\ \/ cur' = cur /\ maxSeq' = maxSeq
         \/ cur' = NoEntries /\ maxSeq' = 0
  BY DEF prime, BeginCycle, CheckBGPD, Return, EndCycle, frrVars
<1>2. NoEntries \in [Net -> 0..MaxSeq] /\ 0 \in 0..MaxSeq
  BY ConstantsAssumption DEF NoEntries
<1>3. Typed'
  BY <1>1, <1>2 DEF IInv, Typed
<1>4. CASE cur' = cur /\ maxSeq' = maxSeq
  BY <1>1, <1>3, <1>4 DEF IInv, Agree, Remembered, Fresh
<1>5. CASE cur' = NoEntries
  BY <1>1, <1>3, <1>5 DEF IInv, Agree, Remembered, Fresh, NoEntries
<1>. QED BY <1>1, <1>4, <1>5

(* The cycle starts from the union of the copies.                             *)
LEMMA Listing == ASSUME IInv, ListEntries PROVE IInv'
<1>1. UNCHANGED <<list, saved, up>>
  BY DEF ListEntries, frrVars
<1>2. CASE EndCycle
  BY <1>1, <1>2, ConstantsAssumption
     DEF EndCycle, NoEntries, IInv, Typed, Agree, Remembered, Fresh
<1>3. CASE /\ pc' = "add"
           /\ cur' = [n \in Net |-> IF seqs(n) = {} THEN 0 ELSE lastOf(seqs(n))]
           /\ maxSeq' = Max({0} \cup {s \in Seq : union(s) # NoNet})
  <2> DEFINE used == {s \in Seq : union(s) # NoNet}
  <2>1. MaxSeq \in Nat /\ {0} \cup used \subseteq 0..MaxSeq
    BY ConstantsAssumption DEF Seq
  <2>2. maxSeq' \in {0} \cup used /\ \A s \in used : s <= maxSeq'
    <3>1. Max({0} \cup used) \in {0} \cup used /\ \A y \in {0} \cup used : Max({0} \cup used) >= y
      BY <2>1, MaxBounds
    <3>2. \A y \in used : y \in 0..MaxSeq
      BY <2>1
    <3>. QED BY <1>3, <2>1, <3>1, <3>2
  <2>3. \A n \in Net : \/ cur'[n] = 0
                       \/ cur'[n] \in Seq /\ union(cur'[n]) = n
    <3>1. ASSUME NEW n \in Net, seqs(n) # {} PROVE lastOf(seqs(n)) \in Seq
                                                   /\ union(lastOf(seqs(n))) = n
      <4>1. seqs(n) \subseteq Seq
        BY DEF seqs
      <4>2. lastOf(seqs(n)) \in seqs(n)
        BY <3>1, <4>1, LastIsOneOf
      <4>. QED BY <4>2 DEF seqs
    <3>. QED BY <1>3, <3>1
  <2>4. NoNet \notin Net
    BY ConstantsAssumption
  <2>5. Typed'
    <3>1. cur' \in [Net -> 0..MaxSeq]
      BY <1>3, <2>1, <2>3 DEF Seq
    <3>. QED BY <1>1, <1>3, <2>1, <2>2, <3>1 DEF IInv, Typed
  <2>6. \A d \in Daemon, s \in Seq : list[d][s] # NoNet => s \in used
    BY DEF union, Daemon
  <2>7. ASSUME saved = NoList PROVE Agree' /\ Remembered' /\ Fresh'
    <3>1. Agree
      BY <2>7 DEF IInv
    <3>2. \A d \in Daemon, s \in Seq : list[d][s] \in {union(s), NoNet}
      BY <3>1 DEF Agree, union, Daemon
    <3>3. \A n \in Net : cur'[n] # 0 => cur'[n] \in used
      BY <2>3, <2>4
    <3>4. Fresh'
      <4>1. \A n \in Net : cur'[n] <= maxSeq'
        <5>1. maxSeq' \in 0..MaxSeq
          BY <2>1, <2>2
        <5> HIDE DEF used
        <5>. QED BY <2>1, <2>2, <3>3, <5>1
      <4> HIDE DEF used
      <4>. QED BY <1>1, <2>2, <2>6, <4>1 DEF Fresh
    <3>5. Remembered'
      BY <1>1, <2>3, <3>2 DEF Remembered
    <3>6. Agree'
      BY <1>1, <3>1 DEF Agree
    <3>. QED BY <3>4, <3>5, <3>6
  <2>. QED BY <1>1, <2>5, <2>7 DEF IInv
<1>. QED BY <1>2, <1>3 DEF ListEntries

(* A write reaches the daemons that are up, all alike.                        *)
LEMMA Writes ==
  ASSUME IInv, NEW s, NEW x \in Net \cup {NoNet}, Write(s, x)
  PROVE  /\ list' \in [Daemon -> List]
         /\ \A d \in Daemon, t \in Seq :
              list'[d][t] = IF d \in up /\ t = s THEN x ELSE list[d][t]
         /\ \A d \in Daemon \ up : list'[d] = list[d]
BY DEF Write, IInv, Typed, List

LEMMA WritesAgree ==
  ASSUME IInv, Agree, NEW s, NEW x \in Net \cup {NoNet}, Write(s, x), up' = up
  PROVE  Agree'
<1>1. /\ \A d \in Daemon, t \in Seq :
           list'[d][t] = IF d \in up /\ t = s THEN x ELSE list[d][t]
      /\ \A d \in Daemon \ up : list'[d] = list[d]
  BY Writes
<1>2. \A d \in Daemon \ up, t \in Seq : list[d][t] = NoNet
  BY DEF Agree, NoList
<1>. QED BY <1>1, <1>2 DEF Agree

(* With no daemon up the write fails, and with it the cycle.                  *)
LEMMA CycleFails ==
  ASSUME IInv, up = {}, NEW s, NEW x \in Net \cup {NoNet}, Write(s, x), EndCycle,
         UNCHANGED <<saved, up>>
  PROVE  IInv' /\ list' = list
<1>1. list' = list
  <2>1. \A d \in Daemon : list'[d] = list[d]
    BY DEF Write
  <2>. QED BY <2>1 DEF Write, IInv, Typed
<1>. QED BY <1>1, ConstantsAssumption
     DEF EndCycle, NoEntries, IInv, Typed, Agree, Remembered, Fresh

LEMMA Adding ==
  ASSUME IInv, NEW n \in Net, AddEntry(n), up # {}
  PROVE  IInv' /\ (saved = NoList => Keys(list["bgpd"]) \subseteq Keys(list'["bgpd"]))
<1>1. /\ pc = "add" /\ maxSeq < MaxSeq /\ maxSeq' = maxSeq + 1
      /\ Write(maxSeq + 1, n) /\ UNCHANGED <<pc, cur, saved, up>>
  BY DEF AddEntry
<1>2. /\ list' \in [Daemon -> List]
      /\ \A d \in Daemon, t \in Seq :
           list'[d][t] = IF d \in up /\ t = maxSeq + 1 THEN n ELSE list[d][t]
  BY <1>1, Writes
<1>3. MaxSeq \in Nat /\ maxSeq \in 0..MaxSeq
  BY ConstantsAssumption DEF IInv, Typed
<1>4. Typed'
  BY <1>1, <1>2, <1>3 DEF IInv, Typed
<1>5. ASSUME saved = NoList
      PROVE  Agree' /\ Remembered' /\ Fresh' /\ Keys(list["bgpd"]) \subseteq Keys(list'["bgpd"])
  <2>1. Agree /\ Remembered /\ Fresh
    BY <1>5 DEF IInv
  <2>2. \A d \in Daemon : list[d][maxSeq + 1] = NoNet
    BY <1>1, <1>3, <2>1 DEF Fresh, Seq
  <2>3. \A m \in Net : cur[m] # maxSeq + 1 /\ cur[m] \in 0..MaxSeq
    BY <1>1, <1>3, <2>1 DEF Fresh, IInv, Typed
  <2>4. Agree'
    BY <1>1, <2>1, WritesAgree
  <2>5. Remembered'
    <3>1. \A m \in Net : cur[m] # 0 => cur[m] \in Seq
      BY <2>3 DEF Seq
    <3>. QED BY <1>1, <1>2, <2>1, <2>3, <3>1 DEF Remembered
  <2>6. Fresh'
    <3>1. \A s \in Seq : s <= maxSeq => s <= maxSeq + 1
      BY <1>3 DEF Seq
    <3>2. \A m \in Net : cur[m] <= maxSeq + 1
      BY <1>1, <1>3, <2>1, <2>3 DEF Fresh
    <3>3. \A d \in Daemon : \A s \in Seq : list'[d][s] # NoNet => s <= maxSeq + 1
      BY <1>1, <1>2, <1>3, <2>1, <3>1 DEF Fresh
    <3>. QED BY <1>1, <3>2, <3>3 DEF Fresh
  <2>7. \A s \in Seq : list["bgpd"][s] # NoNet => list'["bgpd"][s] = list["bgpd"][s]
    BY <1>2, <2>2 DEF Daemon
  <2>8. Keys(list["bgpd"]) \subseteq Keys(list'["bgpd"])
    BY <2>7, ConstantsAssumption DEF Keys
  <2>. QED BY <2>4, <2>5, <2>6, <2>8
<1>. QED BY <1>1, <1>4, <1>5 DEF IInv

LEMMA Repairing ==
  ASSUME IInv, NEW n \in Net, Repair(n), up # {}
  PROVE  IInv' /\ (saved = NoList => Keys(list["bgpd"]) \subseteq Keys(list'["bgpd"]))
<1>1. /\ pc = "repair" /\ Write(cur[n], n) /\ UNCHANGED <<pc, cur, maxSeq, saved, up>>
  BY DEF Repair
<1>2. /\ list' \in [Daemon -> List]
      /\ \A d \in Daemon, t \in Seq :
           list'[d][t] = IF d \in up /\ t = cur[n] THEN n ELSE list[d][t]
  BY <1>1, Writes
<1>3. Typed'
  BY <1>1, <1>2 DEF IInv, Typed
<1>4. ASSUME saved = NoList
      PROVE  Agree' /\ Remembered' /\ Fresh' /\ Keys(list["bgpd"]) \subseteq Keys(list'["bgpd"])
  <2>1. Agree /\ Remembered
    BY <1>4 DEF IInv
  <2>2. \A m \in Net : cur[m] # 0 => cur[m] \in Seq
    BY DEF IInv, Typed, Seq
  <2>3. Agree'
    BY <1>1, <2>1, WritesAgree
  <2>4. Remembered'
    BY <1>1, <1>2, <2>1, <2>2 DEF Remembered
  <2>5. Fresh'
    BY <1>1 DEF Fresh
  <2>6. \A s \in Seq : list["bgpd"][s] # NoNet => list'["bgpd"][s] = list["bgpd"][s]
    <3>1. \A s \in Seq : s = cur[n] => s # 0
      BY DEF Seq
    <3>. QED BY <1>1, <1>2, <2>1, <3>1 DEF Remembered, Daemon
  <2>7. Keys(list["bgpd"]) \subseteq Keys(list'["bgpd"])
    BY <2>6, ConstantsAssumption DEF Keys
  <2>. QED BY <2>3, <2>4, <2>5, <2>7
<1>. QED BY <1>1, <1>3, <1>4 DEF IInv

LEMMA Removing ==
  ASSUME IInv, NEW n \in Net, RemoveEntry(n), up # {}
  PROVE  IInv' /\ (saved = NoList => Keys(list["bgpd"]) \ {n} \subseteq Keys(list'["bgpd"]))
<1>1. /\ pc = "repair" /\ Write(cur[n], NoNet) /\ cur' = [cur EXCEPT ![n] = 0]
      /\ UNCHANGED <<pc, maxSeq, saved, up>>
  BY DEF RemoveEntry
<1>2. /\ list' \in [Daemon -> List]
      /\ \A d \in Daemon, t \in Seq :
           list'[d][t] = IF d \in up /\ t = cur[n] THEN NoNet ELSE list[d][t]
  BY <1>1, Writes
<1>3. Typed'
  BY <1>1, <1>2, ConstantsAssumption DEF IInv, Typed
<1>4. ASSUME saved = NoList
      PROVE  Agree' /\ Remembered' /\ Fresh'
             /\ Keys(list["bgpd"]) \ {n} \subseteq Keys(list'["bgpd"])
  <2>1. Agree /\ Remembered
    BY <1>4 DEF IInv
  <2>2. \A m \in Net : cur[m] # 0 => cur[m] \in Seq
    BY DEF IInv, Typed, Seq
  <2>3. Agree'
    BY <1>1, <2>1, WritesAgree
  <2>4. \A m \in Net : cur'[m] # 0 => cur'[m] = cur[m]
    BY <1>1 DEF IInv, Typed
  <2>5. Remembered'
    BY <1>1, <1>2, <2>1, <2>2, <2>4 DEF Remembered
  <2>6. Fresh'
    BY <1>1 DEF Fresh
  <2>7. \A s \in Seq : list["bgpd"][s] \notin {n, NoNet} => list'["bgpd"][s] = list["bgpd"][s]
    <3>1. \A s \in Seq : s = cur[n] => s # 0
      BY DEF Seq
    <3>. QED BY <1>1, <1>2, <2>1, <3>1 DEF Remembered, Daemon
  <2>8. Keys(list["bgpd"]) \ {n} \subseteq Keys(list'["bgpd"])
    BY <2>7, ConstantsAssumption DEF Keys
  <2>. QED BY <2>3, <2>5, <2>6, <2>8
<1>. QED BY <1>1, <1>3, <1>4 DEF IInv

-----------------------------------------------------------------------------
(* What KeepsWanted says of a step.                                           *)
Kept ==
  saved = NoList /\ up' = up => want \cap Keys(list["bgpd"]) \subseteq Keys(list'["bgpd"])

LEMMA Entries ==
  ASSUME IInv, NEW n \in Net, AddEntry(n) \/ Repair(n) \/ RemoveEntry(n)
  PROVE  IInv' /\ Kept
<1>1. CASE up = {}
  <2>1. /\ \E s : \E x \in Net \cup {NoNet} : Write(s, x)
        /\ EndCycle /\ UNCHANGED <<saved, up>>
    BY <1>1 DEF AddEntry, Repair, RemoveEntry
  <2>2. IInv' /\ list' = list
    BY <1>1, <2>1, CycleFails
  <2>. QED BY <2>2 DEF Kept
<1>2. CASE up # {}
  <2>1. CASE AddEntry(n)
    BY <1>2, <2>1, Adding DEF Kept
  <2>2. CASE Repair(n)
    BY <1>2, <2>2, Repairing DEF Kept
  <2>3. CASE RemoveEntry(n)
    <3>1. n \notin want
      BY <2>3 DEF RemoveEntry, stale
    <3>. QED BY <1>2, <2>3, <3>1, Removing DEF Kept
  <2>. QED BY <2>1, <2>2, <2>3
<1>. QED BY <1>1, <1>2

LEMMA Inductive == IInv /\ [Next]_vars => IInv' /\ Kept
<1> SUFFICES ASSUME IInv, [Next]_vars PROVE IInv' /\ Kept
  OBVIOUS
<1>1. CASE UNCHANGED vars
  <2>1. UNCHANGED <<list, saved, up, cur, maxSeq, pc>>
    BY <1>1 DEF vars
  <2>. QED BY <2>1, SameLists DEF Kept
<1>2. ASSUME NEW d \in Daemon, Stop(d) PROVE IInv' /\ Kept
  <2>1. up' # up
    BY <1>2 DEF Stop
  <2>. QED BY <1>2, <2>1, Stopped DEF Kept
<1>3. CASE Starts \/ ChangeDesired \/ step
  <2>1. IInv'
    BY <1>3, Others DEF Starts
  <2>2. saved = NoList => list' = list
    BY <1>3, LoadsNothing DEF Starts, Boot, ChangeDesired, step, frrVars
  <2>. QED BY <2>1, <2>2 DEF Kept
<1>4. CASE prime \/ BeginCycle \/ CheckBGPD \/ Return
  <2>1. list' = list
    BY <1>4 DEF prime, BeginCycle, CheckBGPD, Return, frrVars
  <2>. QED BY <1>4, <2>1, BetweenWrites DEF Kept
<1>5. CASE ListEntries
  <2>1. list' = list
    BY <1>5 DEF ListEntries, frrVars
  <2>. QED BY <1>5, <2>1, Listing DEF Kept
<1>6. CASE \E n \in Net : AddEntry(n) \/ Repair(n) \/ RemoveEntry(n)
  BY <1>6, Entries
<1>. QED BY <1>1, <1>2, <1>3, <1>4, <1>5, <1>6 DEF Next, Main, ReconcileFRRPrefixList

LEMMA Invariance == Spec => []IInv
BY InitIInv, Inductive, PTL DEF Spec

(* The sequence numbers the agent writes to are never ones that bgpd uses for *)
(* a wanted network, in any order in which daemons stop, boot and answer.     *)
THEOREM WantedKept == Spec => KeepsWanted
<1>1. IInv /\ [Next]_vars =>
        [saved = NoList /\ up' = up =>
           want \cap Keys(list["bgpd"]) \subseteq Keys(list'["bgpd"])]_vars
  BY Inductive DEF Kept
<1>. QED BY <1>1, Invariance, PTL DEF Spec, KeepsWanted
-----------------------------------------------------------------------------
(* The rest of TypeOK: what the invariant above does not already bound.       *)
RestTyped ==
  /\ pid \in Incarnation
  /\ loading \in SUBSET up
  /\ \A d \in Daemon \ up : list[d] = NoList
  /\ saved \in Saved
  /\ desired \in SUBSET Net /\ want \in SUBSET Net
  /\ trigger \in BOOLEAN /\ started \in BOOLEAN
  /\ todo \in SUBSET want
  /\ pc \in {"prime", "idle", "list"} => todo = {}
  /\ known \in Incarnation /\ prev \in Incarnation
  /\ sawFailure \in BOOLEAN /\ followUp \in BOOLEAN
  /\ disturbances \in 0..MaxDisturbances

LEMMA PollTypes ==
  ASSUME RestTyped, NEW answer, Poll(answer)
  PROVE  disturbances' \in 0..MaxDisturbances
BY ConstantsAssumption DEF ConstantsAssumption, RestTyped, Poll

LEMMA RestInductive == Typed /\ RestTyped /\ [Next]_vars => RestTyped'
<1> SUFFICES ASSUME Typed, RestTyped, [Next]_vars PROVE RestTyped'
  OBVIOUS
<1> USE ConstantsAssumption DEF ConstantsAssumption, Incarnation
<1>1. CASE UNCHANGED vars
  BY <1>1 DEF vars, RestTyped
<1>2. ASSUME NEW d \in Daemon, Stop(d) PROVE RestTyped'
  BY <1>2 DEF Stop, Typed, RestTyped, cycleVars, watchVars
<1>3. ASSUME NEW d \in Daemon, Boot(d) PROVE RestTyped'
  BY <1>3 DEF Boot, Typed, RestTyped, cycleVars, watchVars
<1>4. ASSUME NEW d \in Daemon, LoadSaved(d) PROVE RestTyped'
  BY <1>4 DEF LoadSaved, Typed, RestTyped, cycleVars, watchVars
<1>5. CASE ChangeDesired
  BY <1>5 DEF ChangeDesired, RestTyped, frrVars, cycleVars, watchVars
<1>6. CASE BeginCycle
  <2>1. todo' = todo /\ want' = desired
    BY <1>6 DEF BeginCycle
  <2> QED
    BY <1>6, <2>1 DEF BeginCycle, RestTyped, frrVars, watchVars
<1>7. CASE ListEntries
  BY <1>7 DEF ListEntries, EndCycle, RestTyped, frrVars, watchVars
<1>8. CASE CheckBGPD
  BY <1>8 DEF CheckBGPD, missingInBGPD, listed, RestTyped, frrVars, watchVars
<1>9. CASE Return
  BY <1>9 DEF Return, EndCycle, RestTyped, frrVars, watchVars
<1>10. ASSUME NEW n \in Net, AddEntry(n) \/ Repair(n) \/ RemoveEntry(n)
       PROVE  RestTyped'
  <2>1. \A d \in Daemon \ up : list'[d] = list[d]
    BY <1>10 DEF AddEntry, Repair, RemoveEntry, Write
  <2>2. \/ EndCycle
        \/ UNCHANGED <<pc, started, want>> /\ todo' \subseteq todo
    BY <1>10 DEF AddEntry, Repair, RemoveEntry
  <2>3. UNCHANGED <<pid, up, loading, saved, desired, trigger, watchVars, disturbances>>
    BY <1>10 DEF AddEntry, Repair, RemoveEntry
  <2>4. \A d \in Daemon \ up' : list'[d] = NoList
    BY <2>1, <2>3 DEF RestTyped
  <2> QED
    BY <2>2, <2>3, <2>4 DEF RestTyped, EndCycle, watchVars
<1>11. CASE prime
  <2>1. PICK answer \in Incarnation :
          Poll(answer) /\ known' = answer /\ sawFailure' = (answer = NoAnswer)
    BY <1>11 DEF prime
  <2>2. todo' = todo /\ want' = desired
    BY <1>11 DEF prime
  <2> QED
    BY <1>11, <2>1, <2>2, PollTypes DEF prime, RestTyped, frrVars
<1>12. CASE step
  <2>1. PICK answer \in Incarnation, fire \in BOOLEAN :
          /\ Poll(answer)
          /\ prev' = answer
          /\ LET settled == answer # NoAnswer /\ answer = prev
                 restart == settled /\ restarted(answer)
             IN  /\ known' = IF settled THEN answer ELSE known
                 /\ followUp' = (restart \/ (followUp /\ ~fire))
                 /\ trigger' = (trigger \/ restart \/ fire)
          /\ sawFailure' = (sawFailure \/ (answer = NoAnswer /\ known = NoAnswer))
    BY <1>12 DEF step
  <2>2. known' \in Incarnation
    BY <2>1 DEF RestTyped
  <2>3. followUp' \in BOOLEAN /\ trigger' \in BOOLEAN /\ sawFailure' \in BOOLEAN
    BY <2>1, Zenon
  <2>4. UNCHANGED <<frrVars, desired, cycleVars>>
    BY <1>12 DEF step
  <2>5. prev' \in Incarnation /\ disturbances' \in 0..MaxDisturbances
    BY <2>1, PollTypes
  <2> QED
    BY <2>2, <2>3, <2>4, <2>5 DEF RestTyped, frrVars, cycleVars
<1> QED
  BY <1>1, <1>2, <1>3, <1>4, <1>5, <1>6, <1>7, <1>8, <1>9, <1>10, <1>11, <1>12
    DEF Next, Starts, Main, ReconcileFRRPrefixList

(* The lists keep their sequence numbers, a daemon that is down has no list,  *)
(* and the reconcile only has wanted networks to write, whatever restarts     *)
(* (ReconcileFRRPrefixList, step).                                            *)
THEOREM TypeCorrect == Spec => []TypeOK
<1>1. Init => RestTyped
  <2> SUFFICES ASSUME Init PROVE RestTyped
    OBVIOUS
  <2>1. /\ pid \in Incarnation /\ known \in Incarnation /\ prev \in Incarnation
        /\ disturbances \in 0..MaxDisturbances
    BY ConstantsAssumption DEF ConstantsAssumption, Init, Incarnation, NoAnswer
  <2>2. \A d \in Daemon \ up : list[d] = NoList
    BY DEF Init
  <2> QED
    BY <2>1, <2>2 DEF Init, RestTyped
<1>2. IInv => Typed
  BY DEF IInv
<1>3. Typed /\ RestTyped => TypeOK
  BY DEF Typed, RestTyped, TypeOK
<1> QED
  BY <1>1, <1>2, <1>3, Invariance, RestInductive, PTL DEF Spec
=============================================================================
