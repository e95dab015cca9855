CONSTANTS
  Capacity = 1
  MaxIterations = 2
  MaxUtterances = 4
  Contents <- MCContents

SPECIFICATION FairSpec

INVARIANTS
  OneOutcomeEach
  ResultsFollowRequests

PROPERTIES
  OutcomesArrive

\* The caller may fall silent, with the runner waiting.
CHECK_DEADLOCK FALSE
