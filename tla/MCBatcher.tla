------------------------------ MODULE MCBatcher ------------------------------
(***************************************************************************)
(* Model values and definitions that instantiate Batcher for TLC.          *)
(***************************************************************************)
EXTENDS Batcher

\* A write that returns no rows and a leader read that returns a sidecar;
\* MCKinds3 adds a consistent-prefix QL read returning a sidecar.
MCKinds == {[type |-> "QL_WRITE", cp |-> FALSE, sidecar |-> FALSE],
            [type |-> "QL_READ", cp |-> FALSE, sidecar |-> TRUE]}

MCSymmetry == Permutations(Ops)

=============================================================================
