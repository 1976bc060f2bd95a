SPECIFICATION FairSpec
CONSTANTS
  a = a
  b = b
  c = c
  r1 = r1
  r2 = r2
  NoChassis = NoChassis
  Chassis = {a, b, c}
  Router = {r1, r2}
  External = {r2}
  Cand <- CandSole
  InitPrio <- PrioEqual
  InitBound <- BoundSole
  DrainModes = {TRUE}
  CleanupModes = {TRUE, FALSE}
  Settle = TRUE
  Faults = {}
  MaxFaults = 0
  MaxStops = 4
  MaxAway = 1
  MaxPrio = 5
INVARIANTS TypeOK AlwaysForwarded ActiveKeepsLead
PROPERTIES CleanupSparesTakeover ShutdownEnds
