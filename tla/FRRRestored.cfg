SPECIFICATION FairSpec
CONSTANTS
  n1 = n1
  n2 = n2
  NoNet = NoNet
  Net = {n1, n2}
  MaxSeq = 4
  Saved <- SavedOrNot
  MaxBoots = 2
  MaxDisturbances = 1
INVARIANTS TypeOK
PROPERTIES KeepsWanted Restored
CHECK_DEADLOCK FALSE
