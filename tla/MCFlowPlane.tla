----------------------------- MODULE MCFlowPlane -----------------------------
(* Small instances of FlowPlane: a flat and a VLAN segment, an address on     *)
(* each, the one on the VLAN moving between two routers.                      *)
EXTENDS FlowPlane, TLC

CONSTANTS f, v, i, j, r1, r2

TwoSegments == (i :> f) @@ (j :> v)
Want(S, a, b) == [segs |-> S, owner |-> (i :> a) @@ (j :> b)]
Moves == {Want({f, v}, r1, r2), Want({f, v}, r1, r1), Want({}, None, None)}
=============================================================================
