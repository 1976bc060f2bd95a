----------------------------- MODULE FRRRestart -----------------------------
(* The prefix-list of announced networks through restarts of FRR              *)
(* (src/routing.go: ReconcileFRRPrefixList; src/frr_watch.go).                *)
(*                                                                            *)
(* Every FRR daemon holds a copy of the list; bgpd's is the one that gates    *)
(* the announcements.  A restarted daemon has lost its copy, and some time    *)
(* after it answers again "vtysh -b" applies the operator's saved lines.  A   *)
(* vtysh write reaches the daemons that are up.  The agent reconciles when    *)
(* the watch, which polls the process IDs, has seen a restart, and once more  *)
(* after a delay.                                                             *)
(*                                                                            *)
(* A list maps sequence numbers to networks; sequence numbers count in steps  *)
(* of 5 in the code, in steps of 1 here.                                      *)
EXTENDS Integers, FiniteSetsExt

CONSTANTS
  Net, NoNet,      \* networks and VIPs to announce, "no entry"
  MaxSeq,          \* bound: the highest sequence number
  Saved,           \* the saved configurations to consider
  MaxBoots,        \* bound: the last process ID
  MaxDisturbances  \* bound: failed polls of an FRR that is up, and changes of
                   \* the desired networks, together

Daemon == {"zebra", "bgpd"}
Seq == 1..MaxSeq
List == [Seq -> Net \cup {NoNet}]
NoList == [s \in Seq |-> NoNet]
NoEntries == [n \in Net |-> 0]

ASSUME ConstantsAssumption ==
  /\ NoNet \notin Net
  /\ Saved \subseteq List
  /\ MaxSeq \in Nat /\ MaxBoots \in Nat \ {0} /\ MaxDisturbances \in Nat

VARIABLES
  \* FRR
  pid,          \* pid[d]: the process ID of d, counting its starts
  up,           \* daemons that answer
  loading,      \* daemons whose saved configuration is still to be applied
  list,         \* list[d]: d's copy of the prefix-list
  saved,        \* the prefix-list lines of frr.conf
  \* reconcile
  desired,      \* the networks and VIPs OVN and the configuration ask for
  trigger,      \* reconcileCh
  started,      \* the startup reconcile is over, the watch runs
  pc,
  want,         \* the networks this cycle wants
  cur,          \* currentByKey: network -> sequence number, 0: not listed
  maxSeq,
  todo,         \* networks the step in progress has yet to write
  \* frrWatchState
  known, prev,  \* incarnations: daemon -> process ID, 0: did not answer
  sawFailure, followUp,
  disturbances

frrVars == <<pid, up, loading, list, saved>>
cycleVars == <<started, pc, want, cur, maxSeq, todo>>
watchVars == <<known, prev, sawFailure, followUp>>
vars == <<pid, up, loading, list, saved, desired, trigger, started, pc, want, cur,
          maxSeq, todo, known, prev, sawFailure, followUp, disturbances>>

Incarnation == [Daemon -> 0..MaxBoots]
NoAnswer == [d \in Daemon |-> 0]

TypeOK ==
  /\ pid \in Incarnation
  /\ up \in SUBSET Daemon
  /\ loading \in SUBSET up
  /\ list \in [Daemon -> List]
  /\ \A d \in Daemon \ up : list[d] = NoList
  /\ saved \in Saved
  /\ desired \in SUBSET Net /\ want \in SUBSET Net
  /\ trigger \in BOOLEAN /\ started \in BOOLEAN
  /\ pc \in {"prime", "idle", "list", "add", "repair"}
  /\ cur \in [Net -> 0..MaxSeq] /\ maxSeq \in 0..MaxSeq
  /\ todo \in SUBSET want
  /\ known \in Incarnation /\ prev \in Incarnation
  /\ sawFailure \in BOOLEAN /\ followUp \in BOOLEAN
  /\ disturbances \in 0..MaxDisturbances

(* The agent starts with daemons that are down, or up and configured. *)
Init ==
  /\ saved \in Saved
  /\ pid = [d \in Daemon |-> 1]
  /\ up \in SUBSET Daemon /\ loading = {}
  /\ list = [d \in Daemon |-> IF d \in up THEN saved ELSE NoList]
  /\ desired \in SUBSET Net /\ want = {}
  /\ trigger = FALSE /\ started = FALSE
  /\ pc = "prime"
  /\ cur = NoEntries /\ maxSeq = 0
  /\ todo = {}
  /\ known = NoAnswer /\ prev = NoAnswer
  /\ sawFailure = FALSE /\ followUp = FALSE
  /\ disturbances = 0

-----------------------------------------------------------------------------
(* FRR and OVN.                                                               *)

Stop(d) ==
  /\ d \in up /\ pid[d] < MaxBoots
  /\ up' = up \ {d}
  /\ loading' = loading \ {d}
  /\ list' = [list EXCEPT ![d] = NoList]
  /\ UNCHANGED <<pid, saved, desired, trigger, cycleVars, watchVars, disturbances>>

Boot(d) ==
  /\ d \notin up
  /\ pid[d] < MaxBoots
  /\ pid' = [pid EXCEPT ![d] = @ + 1]
  /\ up' = up \cup {d}
  /\ loading' = loading \cup {d}
  /\ UNCHANGED <<list, saved, desired, trigger, cycleVars, watchVars, disturbances>>

(* "vtysh -b": a saved line takes its sequence number whatever holds it. *)
LoadSaved(d) ==
  /\ d \in loading
  /\ loading' = loading \ {d}
  /\ list' = [list EXCEPT ![d] =
       [s \in Seq |-> IF saved[s] # NoNet THEN saved[s] ELSE list[d][s]]]
  /\ UNCHANGED <<pid, up, saved, desired, trigger, cycleVars, watchVars, disturbances>>

(* OVNRefresh has the signals of the start. *)
ChangeDesired ==
  /\ started
  /\ disturbances < MaxDisturbances
  /\ disturbances' = disturbances + 1
  /\ desired' \in SUBSET Net \ {desired}
  /\ trigger' = TRUE
  /\ UNCHANGED <<frrVars, cycleVars, watchVars>>

-----------------------------------------------------------------------------
(* ReconcileFRRPrefixList, one vtysh call at a time.                          *)

Keys(l) == {n \in Net : \E s \in Seq : l[s] = n}

(* A write reaches the daemons that are up, and fails if none is. *)
Write(s, n) == list' = [d \in Daemon |-> IF d \in up THEN [list[d] EXCEPT ![s] = n]
                                         ELSE list[d]]

EndCycle ==
  /\ pc' = "idle" /\ started' = TRUE
  /\ want' = {} /\ cur' = NoEntries /\ maxSeq' = 0 /\ todo' = {}

(* The union of the daemons' copies, zebra's answer first and the first       *)
(* answer for a sequence number taken; of two entries for a network the last  *)
(* one counts.                                                                *)
zebraOnly(s) == list["zebra"][s]             \* variant: only the first document
union(s) == IF list["zebra"][s] # NoNet THEN list["zebra"][s] ELSE list["bgpd"][s]
seqs(n) == {s \in Seq : union(s) = n}
lastOf(S) == LET late == {s \in S : list["zebra"][s] = NoNet}
             IN  Max(IF late # {} THEN late ELSE S)

BeginCycle ==
  /\ pc = "idle" /\ trigger
  /\ pc' = "list"
  /\ trigger' = FALSE
  /\ want' = desired
  /\ UNCHANGED <<frrVars, desired, started, cur, maxSeq, todo, watchVars, disturbances>>

ListEntries ==
  /\ pc = "list"
  /\ \/ /\ up = {}
        /\ EndCycle
     \/ /\ up # {}
        /\ pc' = "add"
        /\ cur' = [n \in Net |-> IF seqs(n) = {} THEN 0 ELSE lastOf(seqs(n))]
        /\ maxSeq' = Max({0} \cup {s \in Seq : union(s) # NoNet})
        /\ todo' = {n \in want : cur'[n] = 0}
        /\ UNCHANGED <<want, started>>
  /\ UNCHANGED <<frrVars, desired, trigger, watchVars, disturbances>>

AddEntry(n) ==
  /\ pc = "add" /\ n \in todo
  /\ \/ /\ up = {}
        /\ EndCycle
     \/ /\ up # {}
        /\ maxSeq < MaxSeq
        /\ maxSeq' = maxSeq + 1
        /\ todo' = todo \ {n}
        /\ UNCHANGED <<pc, started, want, cur>>
  /\ Write(maxSeq + 1, n)
  /\ UNCHANGED <<pid, up, loading, saved, desired, trigger, watchVars, disturbances>>

(* What bgpd lacks of the entries the union listed; nothing is known to be    *)
(* missing if bgpd does not answer.                                           *)
listedAny == {n \in Net : cur[n] # 0}        \* variant: stale entries too
listed == {n \in want : cur[n] # 0}
nothingToRepair == {}                        \* variant: the union is trusted
missingInBGPD == listed \ Keys(list["bgpd"])

CheckBGPD ==
  /\ pc = "add" /\ todo = {}
  /\ pc' = "repair"
  /\ todo' = IF "bgpd" \in up THEN missingInBGPD ELSE {}
  /\ UNCHANGED <<frrVars, desired, trigger, started, want, cur, maxSeq, watchVars,
                 disturbances>>

Repair(n) ==
  /\ pc = "repair" /\ n \in todo
  /\ \/ /\ up = {}
        /\ EndCycle
     \/ /\ up # {}
        /\ todo' = todo \ {n}
        /\ UNCHANGED <<pc, started, want, cur, maxSeq>>
  /\ Write(cur[n], n)
  /\ UNCHANGED <<pid, up, loading, saved, desired, trigger, watchVars, disturbances>>

stale == {n \in Net \ want : cur[n] # 0}

(* FRR takes the sequence number for the entry to remove. *)
RemoveEntry(n) ==
  /\ pc = "repair" /\ todo = {} /\ n \in stale
  /\ \/ /\ up = {}
        /\ EndCycle
     \/ /\ up # {}
        /\ cur' = [cur EXCEPT ![n] = 0]
        /\ UNCHANGED <<pc, started, want, maxSeq, todo>>
  /\ Write(cur[n], NoNet)
  /\ UNCHANGED <<pid, up, loading, saved, desired, trigger, watchVars, disturbances>>

Return ==
  /\ pc = "repair" /\ todo = {} /\ stale = {}
  /\ EndCycle
  /\ UNCHANGED <<frrVars, desired, trigger, watchVars, disturbances>>

ReconcileFRRPrefixList ==
  \/ BeginCycle \/ ListEntries
  \/ \E n \in Net : AddEntry(n) \/ Repair(n) \/ RemoveEntry(n)
  \/ CheckBGPD \/ Return

-----------------------------------------------------------------------------
(* The watch.                                                                 *)

(* "show modules": the daemons that answer, or a failed poll. *)
Poll(answer) ==
  \/ /\ answer = [d \in Daemon |-> IF d \in up THEN pid[d] ELSE 0]
     /\ UNCHANGED disturbances
  \/ /\ up # {} /\ disturbances < MaxDisturbances
     /\ answer = NoAnswer
     /\ disturbances' = disturbances + 1

(* Before the startup reconcile.  An FRR that answers is taken for one that    *)
(* has applied its saved configuration: there is no follow-up to the start.   *)
prime ==
  /\ pc = "prime"
  /\ loading = {}
  /\ pc' = "list"
  /\ want' = desired
  /\ \E answer \in Incarnation :
       /\ Poll(answer)
       /\ known' = answer
       /\ sawFailure' = (answer = NoAnswer)
  /\ UNCHANGED <<frrVars, desired, trigger, started, cur, maxSeq, todo, prev,
                 followUp>>

(* The follow-up is due frrRestartFollowUp after the restart it is for.  By   *)
(* then, it is assumed, FRR has applied its saved configuration to the        *)
(* daemons that restarted and the reconcile the restart asked for is over.    *)
due == followUp /\ ~trigger /\ pc = "idle" /\ \A d \in loading : known[d] # pid[d]

restarted(answer) == IF known = NoAnswer THEN sawFailure ELSE answer # known

step ==
  /\ started
  /\ \E answer \in Incarnation, fire \in BOOLEAN :
       /\ Poll(answer)
       /\ fire => due
       /\ prev' = answer
       /\ LET settled == answer # NoAnswer /\ answer = prev
              restart == settled /\ restarted(answer)
          IN  /\ known' = IF settled THEN answer ELSE known
              /\ followUp' = (restart \/ (followUp /\ ~fire))
              /\ fire => ~restart
              /\ trigger' = (trigger \/ restart \/ fire)
       /\ sawFailure' = (sawFailure \/ (answer = NoAnswer /\ known = NoAnswer))
  /\ UNCHANGED <<frrVars, desired, cycleVars>>

Starts == \E d \in Daemon : Boot(d) \/ LoadSaved(d)
Main == prime \/ ReconcileFRRPrefixList
FollowsUp == step /\ followUp /\ ~followUp'

Next ==
  \/ \E d \in Daemon : Stop(d)
  \/ Starts
  \/ ChangeDesired
  \/ Main
  \/ step

Spec == Init /\ [][Next]_vars

(* FRR's daemons are started again and configured, the main loop and the      *)
(* watch run on their goroutines, and a follow-up that stays due is taken.    *)
(* There is no periodic reconcile: the watch is there not to wait for it.     *)
FairSpec ==
  Spec /\ WF_vars(Starts) /\ WF_vars(Main) /\ WF_vars(step) /\ WF_vars(FollowsUp)

-----------------------------------------------------------------------------
(* PROPERTIES                                                                 *)

(* The agent's own writes never take a wanted network out of bgpd's copy,     *)
(* whatever order daemons restart and answer in (ReconcileFRRPrefixList lists *)
(* the union so that no write takes a sequence number one of them still uses).*)
(* With a saved line that overwrote an entry this does not hold.              *)
KeepsWanted ==
  [][saved = NoList /\ up' = up =>
       want \cap Keys(list["bgpd"]) \subseteq Keys(list'["bgpd"])]_vars

(* After the last restart bgpd has an entry for every desired network again,  *)
(* without any periodic reconcile: the watch sees every restart, and what its *)
(* two reconciles write undoes what the saved lines overwrote.                *)
Restored == <>[](up = Daemon /\ desired \subseteq Keys(list["bgpd"]))
=============================================================================
