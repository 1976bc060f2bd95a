---------------------------- MODULE DesiredState ----------------------------
(* From OVN rows to what a reconcile wants: the join of refreshState          *)
(* (src/ovn.go) and computeDesiredState (src/desired_state.go), as functions  *)
(* of the rows.                                                               *)
(*                                                                            *)
(* A world is the content of the five tables the agent reads:                 *)
(*   pb       rows [type, lrp, chassis, dp, port, tag, nat]; lrp is the port  *)
(*            a chassisredirect row redirects for and the peer of a patch     *)
(*            row, nat the NatAddresses of a router gateway's patch row       *)
(*   chassis  rows [refs, host]                                               *)
(*   lrp      rows [name, uuid, mac, ip, net]                                 *)
(*   lr       rows [name, ports, nats], ports a sequence of uuids             *)
(*   nat      rows [id, ip, snat]                                             *)
EXTENDS Naturals, FiniteSets, Sequences

CONSTANTS
  Host,        \* this chassis
  IP, V4,      \* addresses, and the IPv4 ones
  Net, V4Net,  \* networks
  InNet,       \* the addresses in each network
  None         \* an absent value

ASSUME DesiredStateAssumption ==
  /\ V4 \subseteq IP /\ V4Net \subseteq Net
  /\ InNet \in [Net -> SUBSET IP]
  /\ None \notin IP \cup Net

Tables == {"pb", "chassis", "lrp", "lr", "nat"}
NoRows == [t \in Tables |-> {}]

Rows(t, type) == {b \in t.pb : b.type = type}
AnyOf(S) == IF S = {} THEN None ELSE CHOOSE x \in S : TRUE

-----------------------------------------------------------------------------
(* refreshState: its argument is the five tables as read. *)

(* A binding that names a chassis without a row is nobody's.                  *)
hostnameByRef(t, ref) == AnyOf({c.host : c \in {d \in t.chassis : ref \in d.refs}})

localCRPorts(t) ==
  {b.lrp : b \in {c \in Rows(t, "chassisredirect") :
                    hostnameByRef(t, c.chassis) = Host /\ c.lrp # None}}

(* The localnet port that shares a datapath with the LRP's switch-side patch. *)
segmentsByLRP(t, lrp) ==
  AnyOf({[port |-> l.port, tag |-> l.tag] : l \in
           {n \in Rows(t, "localnet") :
              \E p \in Rows(t, "patch") : p.lrp = lrp /\ p.dp = n.dp}})

localLRPUUIDSet(t) == {p.uuid : p \in {q \in t.lrp : q.name \in localCRPorts(t)}}

(* A router counts once, with the first of its ports that is active here.     *)
collectLocalRouters(t) ==
  LET active == localLRPUUIDSet(t)
      first(r) == r.ports[CHOOSE k \in DOMAIN r.ports :
                            /\ r.ports[k] \in active
                            /\ \A n \in 1..(k - 1) : r.ports[n] \notin active]
      row(r) == CHOOSE p \in t.lrp : p.uuid = first(r)
  IN  {[nats |-> r.nats, mac |-> row(r).mac, ip |-> row(r).ip, net |-> row(r).net,
        segment |-> segmentsByLRP(t, row(r).name)] :
         r \in {s \in t.lr : \E k \in DOMAIN s.ports : s.ports[k] \in active}}

effectiveNetworkFilters(manual, discovered) == IF manual # {} THEN manual ELSE discovered
passes(ip, filters) == filters = {} \/ \E n \in filters : ip \in InNet[n]

segmentName(segment) == IF segment = None THEN None ELSE segment.port

(* The external addresses of the NAT rows a local router owns; without a MAC  *)
(* the router's rows are not taken.                                           *)
addNBNATs(t, routers, filters) ==
  UNION {{[ip |-> n.ip, snat |-> n.snat, mac |-> r.mac, segment |-> segmentName(r.segment)] :
            n \in {m \in t.nat : m.id \in r.nats /\ passes(m.ip, filters)}} :
         r \in {q \in routers : q.mac # None}}

(* The addresses the SB gateway port carries before a NAT row exists.         *)
addSBGatewayNATAddresses(t, filters) ==
  UNION {{[ip |-> ip, snat |-> TRUE, segment |-> segmentName(segmentsByLRP(t, p.lrp)),
           mac |-> AnyOf({l.mac : l \in {q \in t.lrp : q.name = p.lrp}})] :
            ip \in {i \in p.nat : passes(i, filters)}} :
         p \in {b \in Rows(t, "patch") : b.lrp \in localCRPorts(t)}}

(* The later of two sources of an address wins, unless it does not know.      *)
Attribute(ip, f, sb, nb) ==
  LET of(S) == {x[f] : x \in {y \in S : y.ip = ip}} \ {None}
  IN  AnyOf(IF of(sb) # {} THEN of(sb) ELSE of(nb))

OVNState(t, manual) ==
  LET routers == collectLocalRouters(t)
      nets == {r.net : r \in routers}
      filters == effectiveNetworkFilters(manual, nets)
      nb == addNBNATs(t, routers, filters)
      sb == addSBGatewayNATAddresses(t, filters)
  IN  [routers |-> routers,
       nets |-> nets,
       snat |-> {x.ip : x \in {y \in nb \cup sb : y.snat}} \cap V4,
       mac |-> [ip \in IP |-> Attribute(ip, "mac", sb, nb)],
       segment |-> [ip \in IP |-> Attribute(ip, "segment", sb, nb)]]

-----------------------------------------------------------------------------
(* computeDesiredState. *)

(* Router gateway addresses override NAT addresses.                           *)
buildHairpinTargets(s) ==
  [ip \in IP |->
     LET own == {r \in s.routers : r.ip = ip /\ r.mac # None}
     IN  IF own # {}
           THEN LET r == CHOOSE r \in own : TRUE
                IN  [mac |-> r.mac, segment |-> segmentName(r.segment)]
         ELSE IF s.mac[ip] # None THEN [mac |-> s.mac[ip], segment |-> s.segment[ip]]
         ELSE None]

buildDesiredSegments(s) ==
  {IF r.segment = None THEN [port |-> None, tag |-> None] ELSE r.segment : r \in s.routers}

computeEffectiveNetworks(s, manual) == effectiveNetworkFilters(manual, s.nets) \cap V4Net

vipRoutesAnnounceable(s, pfOnly) == pfOnly \/ s.routers # {}

(* vips are the configured port-forward VIPs.                                 *)
computeDesiredState(s, vips, announce) ==
  LET targets == buildHairpinTargets(s)
      hairpin == {ip \in V4 : targets[ip] # None}
      announced == IF announce THEN vips ELSE {}
  IN  [targets |-> targets,
       segments |-> buildDesiredSegments(s),
       ips |-> hairpin \cup announced,
       statics |-> hairpin,
       announced |-> announced]
=============================================================================
