CONSTANTS
  Ops = {o1, o2}
  NoOp = NoOp
  Tablets = {1, 2}
  Kinds <- MCKinds
  AllowFollowerReads = FALSE
  MaxSidecarSlices = 1
  HasTransaction = TRUE
  TxnOutcomes = {"ready"}
  ForceConsistentRead = FALSE
  CombineErrors = TRUE
  AbortWindow = "lookups_pending"
SPECIFICATION Spec
INVARIANT NoCrash
INVARIANT SingleCallback
INVARIANT BatchSettles
PROPERTY FlushCallsBack
PROPERTY ImplementsSession
