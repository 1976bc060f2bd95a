----------------------------- MODULE MCRouteSync -----------------------------
(* Small instances of RouteSync: two addresses, the bridge and one VLAN       *)
(* interface, and the intents of a node that gains, moves and loses them.     *)
EXTENDS RouteSync, TLC

CONSTANTS i, j, br, vlan

Want(devI, devJ, static, skip) ==
  [dev |-> [ip \in IP |-> IF ip = i THEN devI ELSE devJ],
   static |-> static, skip |-> skip, routers |-> static # {}]

Standby == Want(NoDev, NoDev, {}, {})
Bare == [Standby EXCEPT !.routers = TRUE]    \* routers without an address
Vlan == Want(vlan, br, {i, j}, {})           \* i has moved to a segment
VIP == Want(br, br, {i}, {})                 \* j is a port-forward VIP
Unresolved == Want(br, NoDev, {i}, {i})      \* i's segment does not resolve

Every == {Standby, Bare, Vlan, VIP, Unresolved}
=============================================================================
