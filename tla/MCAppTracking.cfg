CONSTANTS
  Parts <- MCParts
  Ids = 4

SPECIFICATION FairSpec

INVARIANTS
  PoseMatchesSources
  ResultsInOrder

PROPERTIES
  TrackingFlows

\* Once the app is closed and the worker gone, nothing happens.
CHECK_DEADLOCK FALSE
