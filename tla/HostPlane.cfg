SPECIFICATION FairSpec
CONSTANTS
  other = other
  t1 = t1
  t2 = t2
  t3 = t3
  n1 = n1
  n2 = n2
  n6 = n6
  g1 = g1
  g2 = g2
  g6 = g6
  i1 = i1
  i6 = i6
  u = u
  v = v
  w = w
  L1 = L1
  L2 = L2
  Host = Host
  None = None
  Unset = Unset
  IP = {g1, g2, g6, i1, i6, u, v, w}
  V4 = {g1, g2, i1, u, v, w}
  Net = {n1, n2, n6}
  V4Net = {n1, n2}
  Tag = {t1, t2, t3}
  Name = {L1, L2}
  InNet <- Nets
  History <- Moves
  Default <- Defaults
  Env <- AllUnset
  Files <- Contents
  Foreign <- Operator
  Faults = {"discover", "iface", "alias", "prune", "vtysh", "addr", "nft", "nftlist", "rule", "rulelist", "route", "stale", "delete", "setup", "nexthop", "drift", "crash"}
  MaxFaults = 1
  MaxChanges = 1
INVARIANTS TypeOK NoLoop NothingForgotten LeavesClean
PROPERTIES RulesetStays OperatorsKept Converges
CHECK_DEADLOCK FALSE
