CONSTANTS
  MinSpeech = 3
  SilenceTimeout = 1
  Starts = 2
  Frames <- MCFrames
  Gaps = {1, 3}
  Interim = 1
  EtdConfigs = {TRUE}
  StreamingConfigs = {TRUE}

SPECIFICATION FairSpec

INVARIANTS
  AudioIsWhole
  NeverOverdue
  QuietAfterStop

PROPERTIES
  StopReturns
  SupersededEnds

\* The caller may stop for good, with no start left.
CHECK_DEADLOCK FALSE
