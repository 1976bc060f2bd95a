SPECIFICATION PeriodicSpec
CONSTANTS
  Rebinding = {k1}
  RowChange = {m1}
  Faults = {}
  MaxFaults = 0
PROPERTIES ChangeReconciled
CHECK_DEADLOCK FALSE
