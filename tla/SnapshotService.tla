--------------------------- MODULE SnapshotService ---------------------------
(* What the refresh of src/ovn.go promises the reconciles of one agent: a     *)
(* snapshot of the databases is read by one refresh at a time, its generation *)
(* is the number of that refresh, and it reflects everything committed before *)
(* the refresh began; only a refresh that got no answer from a server may     *)
(* miss some of it.  OVNRefresh implements this with a cache, two goroutines, *)
(* channels and timers.                                                       *)
EXTENDS Naturals

CONSTANT Change

VARIABLES
  committed,     \* changes in the databases
  seq,           \* refreshes begun
  reading,       \* the refresh under way: "no", "yes", or "doubtful"
  since,         \* what was committed when it began
  published, gen,  \* the snapshot and its generation
  snap, acted    \* what a reconcile works on; what the last one worked on

vars == <<committed, seq, reading, since, published, gen, snap, acted>>

Init ==
  /\ committed = {} /\ seq = 0
  /\ reading = "no" /\ since = {}
  /\ published = {} /\ gen = 0
  /\ snap = {} /\ acted = {}

Commit ==
  /\ \E k \in Change \ committed : committed' = committed \cup {k}
  /\ UNCHANGED <<seq, reading, since, published, gen, snap, acted>>

Begin ==
  /\ reading = "no"
  /\ reading' = "yes" /\ since' = committed
  /\ seq' = seq + 1
  /\ UNCHANGED <<committed, published, gen, snap, acted>>

Doubt ==
  /\ reading = "yes"
  /\ reading' = "doubtful"
  /\ UNCHANGED <<committed, seq, since, published, gen, snap, acted>>

Publish ==
  /\ reading # "no"
  /\ reading' = "no" /\ since' = {}
  /\ published' \subseteq committed
  /\ reading = "yes" => since \subseteq published'
  /\ gen' = seq
  /\ UNCHANGED <<committed, seq, snap, acted>>

Abandon ==
  /\ reading # "no"
  /\ reading' = "no" /\ since' = {}
  /\ UNCHANGED <<committed, seq, published, gen, snap, acted>>

Take ==
  /\ snap' = published
  /\ UNCHANGED <<committed, seq, reading, since, published, gen, acted>>

Act ==
  /\ acted' = snap
  /\ UNCHANGED <<committed, seq, reading, since, published, gen, snap>>

Next == Commit \/ Begin \/ Doubt \/ Publish \/ Abandon \/ Take \/ Act

Spec == Init /\ [][Next]_vars
=============================================================================
