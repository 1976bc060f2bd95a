---------------------------- MODULE MCDriftWatch ----------------------------
(* Small instances of DriftWatch: two addresses, every intent over them.      *)
EXTENDS DriftWatch

Every == SUBSET IP
=============================================================================
