\* Initialisation fails, and the app does not start, when the VRM file has no
\* VRM extension.
SPECIFICATION AvatarSpec
CHECK_DEADLOCK FALSE
CONSTANTS
  VrmFiles <- MCVrmFiles
  ClipFiles <- MCClipFiles
  Parts = {"face", "pose"}
  Targets <- MCTargets
  MaxSteps = 3
INVARIANTS
  MeshesMatchFile
  WorldFollowsPath
  InterpolatesFromShown
PROPERTIES
  IdleFollowsSource
