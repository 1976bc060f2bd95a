SPECIFICATION FairSpec
CONSTANTS
  f = f
  v = v
  i = i
  j = j
  r1 = r1
  r2 = r2
  Segment = {f, v}
  Vlan = {v}
  Unresolved = Unresolved
  Bridge = Bridge
  IP = {i, j}
  Router = {r1, r2}
  None = None
  SegOf <- TwoSegments
  Intents <- Moves
  Late = {f}
  Faults = {}
  MaxFaults = 0
  MaxChanges = 1

PROPERTIES BindingsFollow
