CONSTANTS
  VcamDim = vcamSize
  MascotDim = mascotSize
  Dims = {vcamSize, mascotSize}
  NoDim = noDim
  NoImage = noImage
  Images <- AppImages
  Scale = 2
  MascotWidth = 3
  WinWidths <- MCWinWidths
  ScreenWidth = 12

SPECIFICATION FairSpec

INVARIANTS
  NoUnmappedRead
  ReadbackForCaller

PROPERTY
  VcamServed
