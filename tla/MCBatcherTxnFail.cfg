CONSTANTS
  Ops = {o1, o2}
  NoOp = NoOp
  Tablets = {1, 2}
  Kinds <- MCKinds
  AllowFollowerReads = FALSE
  MaxSidecarSlices = 1
  HasTransaction = TRUE
  TxnOutcomes = {"ready", "failed"}
  ForceConsistentRead = FALSE
  CombineErrors = TRUE
  AbortWindow = "gathering"
SPECIFICATION Spec
INVARIANT SingleCallback
