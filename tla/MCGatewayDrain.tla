--------------------------- MODULE MCGatewayDrain ---------------------------
(* Small instances of GatewayDrain: up to three chassis and two routers.      *)
EXTENDS GatewayDrain, TLC

CONSTANTS a, b, c, r1, r2   \* chassis and routers

(* Every chassis is a candidate for r1. *)
CandAll == [r \in Router |-> Chassis]

(* r1 has a standby, r2 lives on chassis a alone. *)
CandSole == [r \in Router |-> IF r = r1 THEN Chassis ELSE {a}]

(* The usual priorities: a leads, b follows, then c. *)
PrioStaggered ==
  [r \in Router |-> [x \in Chassis |-> CASE x = a -> 3 [] x = b -> 2 [] OTHER -> 1]]

(* Every row at the standby priority: OVN picks any of them. *)
PrioEqual == [r \in Router |-> [x \in Chassis |-> 1]]

(* Nothing is bound yet, or only the router that has nowhere else to go. *)
BoundNowhere == [r \in Router |-> NoChassis]
BoundSole == [r \in Router |-> IF r = r2 THEN a ELSE NoChassis]
=============================================================================
