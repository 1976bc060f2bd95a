SPECIFICATION FairSpec
CONSTANTS
  IP = {i, j}
  Intents <- Every
  Faults = {"foreign", "subscribe", "ended", "list", "add", "del"}
  MaxFaults = 3
  MaxChanges = 2
INVARIANTS TypeOK NothingUnseen
PROPERTIES Repaired
CHECK_DEADLOCK FALSE
