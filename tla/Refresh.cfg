SPECIFICATION FairSpec
CONSTANTS
  Rebinding = {k1}
  RowChange = {m1}
  Faults = {"lost", "select", "list", "cancel"}
  MaxFaults = 2
INVARIANTS TypeOK
PROPERTIES SnapshotsAdvance ImplementsService ObservationReflected EventReconciled ShutdownEnds
CHECK_DEADLOCK FALSE
