SPECIFICATION FairSpec
CONSTANTS
  f = f
  v = v
  i = i
  j = j
  r1 = r1
  r2 = r2
  Segment = {f, v}
  Vlan = {v}
  Unresolved = Unresolved
  Bridge = Bridge
  IP = {i, j}
  Router = {r1, r2}
  None = None
  SegOf <- TwoSegments
  Intents <- Moves
  Late = {v}
  Faults = {"foreign", "restart", "downgrade", "crash", "discover", "vlan", "dump", "add", "del", "clear"}
  MaxFaults = 2
  MaxChanges = 1
INVARIANTS TypeOK NothingUnseen
PROPERTIES NeverBlanked Converges
