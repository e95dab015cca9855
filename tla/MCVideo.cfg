\* Every way of opening small files, and the calls on the session.
SPECIFICATION VideoFairSpec
CONSTANTS
  Files <- MCFiles
  Platform = "macos"
  Handles = {"Metal", "Vulkan", "Wgpu"}
  Preferred = {"none", "Software"}
  Dts = {1, 2}
  FallbackInterval = 2
  ShortestDelay = 1
  MaxTime = 6
  MaxEvents = 3
INVARIANTS
  TableMatchesBoxes
  FreshDecoderGetsKeyframe
  PictureOnTime
PROPERTIES
  LoopingShowsFrames
CHECK_DEADLOCK FALSE
