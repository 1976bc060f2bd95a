SPECIFICATION FairSpec
CONSTANTS
  Chassis = {a, b, c}
  Router = {r}
  RowId = {u, v, w}
  NoChassis = NoChassis
  Gone = {c}
  Faults = {"txn", "cache", "list", "restart"}
  MaxFaults = 1
  MaxMoves = 1
INVARIANTS TypeOK
PROPERTIES WaitsOutGrace OwnerServed StaleRemoved
