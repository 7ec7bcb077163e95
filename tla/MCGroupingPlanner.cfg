CONSTANTS
  AllowFollowerReads = FALSE
  MaxSidecarSlices = 2
  MaxOps = 4
  Tablets = {1, 2}
  Kinds <- MCKinds
SPECIFICATION Spec
INVARIANT RunsMatchReference
