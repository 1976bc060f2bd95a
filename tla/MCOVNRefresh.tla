---------------------------- MODULE MCOVNRefresh ----------------------------
(* Small instances of OVNRefresh. *)
EXTENDS OVNRefresh
=============================================================================
