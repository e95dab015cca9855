\* Two accepts on the plugin and two dials on the host, of any ids and in any order.
SPECIFICATION BrokerFairSpec
CONSTANTS
  Accepts = {a1, a2}
  Dials = {d1, d2}
  Ids = {i1, i2}
  SideOf <- MCSideOf
  Slots = 1
INVARIANTS
  DialReachesItsService
  WaitersAreHeld
PROPERTIES
  CallsReturn
CHECK_DEADLOCK FALSE
