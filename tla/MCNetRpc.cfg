\* Two calls of any method, two accepts and a dial of any ids they may name.
SPECIFICATION NetSpec
CONSTANTS
  Calls = {c1, c2}
  Plugins = {"echo"}
  Accepts = {a1, a2}
  Dials = {d1}
  Ids = {1, 2}
INVARIANTS
  StreamsAreMatched
PROPERTIES
  RefinesCallReturn
  DialsReturn
CHECK_DEADLOCK FALSE
