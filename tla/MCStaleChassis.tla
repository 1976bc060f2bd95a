--------------------------- MODULE MCStaleChassis ---------------------------
(* Small instances of StaleChassis.                                           *)
EXTENDS StaleChassis
=============================================================================
