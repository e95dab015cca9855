CONSTANTS
  Starts = 2
  Platforms = {"oldMac", "mac13", "mac15", "other"}
  FrameSize = 2
  Batches = {1, 5}
  Ratio = 3
  MaxSamples = 5

SPECIFICATION Spec

INVARIANTS
  OnlyTheKeptDelivers
  SamplesFollowOn

\* The owner may be done, and the system silent.
CHECK_DEADLOCK FALSE
