SPECIFICATION FairSpec
CONSTANTS
  a = a
  b = b
  c = c
  r1 = r1
  r2 = r2
  NoChassis = NoChassis
  Chassis = {a, b}
  Router = {r1}
  External = {}
  Cand <- CandAll
  InitPrio <- PrioEqual
  InitBound <- BoundNowhere
  DrainModes = {TRUE, FALSE}
  CleanupModes = {TRUE}
  Settle = TRUE
  Faults = {"route", "txn", "sb", "nb", "ovn", "tie", "crash", "host", "refresh", "cache", "deadline"}
  MaxFaults = 1
  MaxStops = 1
  MaxAway = 2
  MaxPrio = 6
INVARIANTS RunningNotStranded
PROPERTIES MarkerAfterAnnounce Converges
