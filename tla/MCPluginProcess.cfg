\* Any configuration over two versions, any binary; two chunks per pipe, channels of one.
SPECIFICATION FairSpec
CONSTANTS
  Versions = {1, 2}
  Checksums = {"good", "bad"}
  Chunks = 2
  Queue = 1
INVARIANTS
  VersionsAgree
  OutputIsWhole
PROPERTIES
  ChildIsKilled
  OutputArrives
CHECK_DEADLOCK FALSE
