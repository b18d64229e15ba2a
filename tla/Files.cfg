SPECIFICATION Spec
CONSTANTS
  Key <- MCKey
  Out <- MCOut
  Contents <- MCContents
  Flags <- MCFlags
  Sizes = {1, 2}
  ListSize = 3
  DiskFails = TRUE
  MaxKeys = 3
  MaxOut = 2
  MaxFils = 4
INVARIANTS KeysInOrder NothingSkipped PrintedInOrder
PROPERTY DescriptorsKept
