CONSTANTS
  Ops = {o1, o2}
  NoOp = NoOp
  Tablets = {1, 2}
  Kinds <- MCKinds
  AllowFollowerReads = FALSE
  MaxSidecarSlices = 1
  HasTransaction = FALSE
  TxnOutcomes = {"ready"}
  ForceConsistentRead = FALSE
  CombineErrors = TRUE
  AbortWindow = "any"
SPECIFICATION Spec
INVARIANT NoCrash
