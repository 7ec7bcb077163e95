CONSTANTS
  Ops = {o1, o2, o3}
  NoOp = NoOp
  Tablets = {1, 2}
  Kinds <- MCKinds
  AllowFollowerReads = FALSE
  MaxSidecarSlices = 1
  HasTransaction = FALSE
  TxnOutcomes = {"ready"}
  ForceConsistentRead = FALSE
  CombineErrors = TRUE
  AbortWindow = "gathering"
SPECIFICATION Spec
INVARIANT TypeOK
INVARIANT NoCrash
INVARIANT LookupCountMatches
INVARIANT SingleCallback
INVARIANT BatchSettles
INVARIANT ConsistentReadWhenSplit
INVARIANT DispatchOrder
INVARIANT TerminalStatus
SYMMETRY MCSymmetry
