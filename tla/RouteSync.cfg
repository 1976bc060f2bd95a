SPECIFICATION FairSpec
CONSTANTS
  i = i
  j = j
  br = br
  vlan = vlan
  NoDev = NoDev
  IP = {i, j}
  Dev = {br, vlan}
  Intents <- Every
  Faults = {"list", "kernel", "rule", "vtysh", "refresh", "verify", "drift", "nexthop"}
  MaxFaults = 2
  MaxChanges = 1
INVARIANTS TypeOK
PROPERTIES ReadyForwards WithdrawBeforeTeardown CycleRepairs Converges
