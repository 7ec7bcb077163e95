CONSTANTS
  NoValue = NoValue
  Values = {1, 2}
  Hashes = {0, 255, 256, 65535}
  HashCodes = {0, 255, 256, 65535}
  BackwardPaging = TRUE
  MaxFileRows = 2
SPECIFICATION Spec
INVARIANT BoundsCoverScan
