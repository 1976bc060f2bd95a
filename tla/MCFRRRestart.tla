---------------------------- MODULE MCFRRRestart ----------------------------
(* Small instances of FRRRestart: two networks, with and without a saved line.*)
EXTENDS FRRRestart

CONSTANTS n1, n2

SavedLine == [NoList EXCEPT ![1] = n1]
SavedOrNot == {NoList, SavedLine}
=============================================================================
