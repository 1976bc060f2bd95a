----------------------------- MODULE MCHostPlane -----------------------------
(* A small instance of HostPlane: a chassis that serves one router on a VLAN, *)
(* then two others (one on an interface of the operator, one on an interface  *)
(* it must refuse), and then none.  The operator keeps the address of a VIP.  *)
EXTENDS HostPlane, TLC

CONSTANTS other, t1, t2, t3, n1, n2, n6, g1, g2, g6, i1, i6, u, v, w, L1, L2

Nets == (n1 :> {g1, i1}) @@ (n2 :> {g2}) @@ (n6 :> {g6, i6})

(* Router k: its port, switch, VLAN and NAT rows; on is its chassis.          *)
cr(k, on) == [type |-> "chassisredirect", lrp |-> k, chassis |-> on, dp |-> None,
              port |-> None, tag |-> None, nat |-> {}]
patch(k, nat) == [type |-> "patch", lrp |-> k, chassis |-> None, dp |-> k,
                  port |-> None, tag |-> None, nat |-> nat]
localnet(k, tag) == [type |-> "localnet", lrp |-> None, chassis |-> None, dp |-> k,
                     port |-> k, tag |-> tag, nat |-> {}]
lrp(k, ip, net) == [name |-> k, uuid |-> k, mac |-> k, ip |-> ip, net |-> net]
lr(k, nats) == [name |-> k, ports |-> <<k>>, nats |-> nats]

Chassis == {[refs |-> {"me"}, host |-> Host], [refs |-> {"peer"}, host |-> other]}

(* a, b and c are the chassis of the three routers.                           *)
Placed(a, b, c) ==
  [pb |-> {cr("r1", a), patch("r1", {i1}), localnet("r1", t1),
           cr("r2", b), patch("r2", {}), localnet("r2", t2),
           cr("r3", c), patch("r3", {}), localnet("r3", t3)},
   chassis |-> Chassis,
   lrp |-> {lrp("r1", g1, n1), lrp("r2", g2, n2), lrp("r3", g6, n6)},
   lr |-> {lr("r1", {"x"}), lr("r2", {}), lr("r3", {"y"})},
   nat |-> {[id |-> "x", ip |-> i1, snat |-> TRUE], [id |-> "y", ip |-> i6, snat |-> FALSE]}]

Moves == <<Placed("me", "peer", "peer"), Placed("peer", "me", "me"),
           Placed("peer", "peer", "peer")>>

AllUnset == [k \in Key |-> Unset]
Defaults == [remotes |-> "both", network_cidr |-> {}, list |-> L1, vips |-> {}, cleanup |-> TRUE]

Forward(ip, manage, more) ==
  [vip |-> ip, manage |-> manage, hairpin |-> more, router |-> more]

Gateway == [AllUnset EXCEPT !.vips = {Forward(v, TRUE, FALSE)}]
Renamed == [AllUnset EXCEPT !.list = L2,
              !.vips = {Forward(v, FALSE, TRUE), Forward(u, FALSE, FALSE), Forward(w, TRUE, FALSE)}]
Manual == [AllUnset EXCEPT !.network_cidr = {n1}, !.cleanup = FALSE]
OnlyVIPs == [AllUnset EXCEPT !.remotes = "none", !.vips = {Forward(v, TRUE, FALSE)}]
OneRemote == [AllUnset EXCEPT !.remotes = "one"]
Contents == {Gateway, Renamed, Manual, OnlyVIPs, OneRemote}

Operator == [vlan |-> (t1 :> "none") @@ (t2 :> "foreign") @@ (t3 :> "wrong"), addr |-> {u}]
=============================================================================
