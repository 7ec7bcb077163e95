CONSTANTS
  NoValue = NoValue
  Values = {1, 2, 3}
  Hashes = {0, 255, 256, 65535}
  HashCodes = {0, 255, 256, 65535}
  BackwardPaging = FALSE
  MaxFileRows = 2
SPECIFICATION Spec
INVARIANT BoundsCoverScan
INVARIANT BoundsExcludeOthers
INVARIANT FilterSound
