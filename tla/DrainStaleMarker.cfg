SPECIFICATION Spec
CONSTANTS
  a = a
  b = b
  c = c
  r1 = r1
  r2 = r2
  NoChassis = NoChassis
  Chassis = {a, b}
  Router = {r1}
  External = {}
  Cand <- CandAll
  InitPrio <- PrioStaggered
  InitBound <- BoundNowhere
  DrainModes = {TRUE}
  CleanupModes = {TRUE}
  Settle = TRUE
  Faults = {"deadline"}
  MaxFaults = 0
  MaxStops = 3
  MaxAway = 1
  MaxPrio = 5
PROPERTIES TruthfulRelease
