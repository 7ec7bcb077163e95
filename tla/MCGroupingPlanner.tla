-------------------------- MODULE MCGroupingPlanner --------------------------
(***************************************************************************)
(* Checks FlushRuns (the sort and scan of FlushBuffersIfReady) against an  *)
(* independent reference definition, for every ready set of up to MaxOps   *)
(* operations over the given tablets and kinds.  Each initial state is one *)
(* input; the next-state relation leaves it unchanged.                     *)
(***************************************************************************)
EXTENDS GroupingPlanner

CONSTANTS
  MaxOps,      \* largest ready set
  Tablets,     \* resolved tablets, in pointer order
  Kinds        \* operation kinds the inputs draw from

VARIABLES ready, force
vars == <<ready, force>>

Descs(n) ==
  { {[op |-> i, tablet |-> a[i].tablet, kind |-> a[i].kind,
      sidecar |-> a[i].sidecar, seq |-> i] : i \in 1..n} :
      a \in [1..n -> [tablet : Tablets, kind : Kinds, sidecar : BOOLEAN]] }

Init ==
  /\ ready \in UNION {Descs(n) : n \in 0..MaxOps}
  /\ force \in BOOLEAN

Next == UNCHANGED vars

Spec == Init /\ [][Next]_vars

\* One kind per OpGroup, reached through both branches of GetOpGroup that
\* classify reads: a write, a CONSISTENT_PREFIX QL read, and a Redis read
\* (a leader read while follower reads are off).
MCKinds == {[type |-> "QL_WRITE", cp |-> FALSE], [type |-> "QL_READ", cp |-> TRUE],
            [type |-> "REDIS_READ", cp |-> FALSE]}

-----------------------------------------------------------------------------
(* Reference: the lexicographic order on (tablet, group, seq); runs are    *)
(* the maximal blocks of the sorted sequence with the same tablet, group   *)
(* and sidecar chunk, where an operation's chunk is the number of sidecar  *)
(* operations before it in its (tablet, group) block, divided by          *)
(* MaxSidecarSlices; consistency is required unless there is one run and   *)
(* nothing forces it.                                                      *)
(***************************************************************************)
Key(d) == <<d.tablet, GetOpGroup(d.kind), d.seq>>

LexLess(a, b) ==
  \/ a[1] < b[1]
  \/ a[1] = b[1] /\ a[2] < b[2]
  \/ a[1] = b[1] /\ a[2] = b[2] /\ a[3] < b[3]

RefSorted(S) ==
  [i \in 1..Cardinality(S) |->
     CHOOSE x \in S : Cardinality({y \in S : LexLess(Key(y), Key(x))}) = i - 1]

SameBlock(a, b) == a.tablet = b.tablet /\ GetOpGroup(a.kind) = GetOpGroup(b.kind)

Chunk(s, p) ==
  Cardinality({q \in 1..p - 1 : SameBlock(s[q], s[p]) /\ s[q].sidecar})
    \div MaxSidecarSlices

RefRuns(S, f) ==
  LET s == RefSorted(S)
      Starts == {p \in 1..Len(s) :
                   p = 1 \/ ~SameBlock(s[p], s[p - 1])
                         \/ Chunk(s, p) # Chunk(s, p - 1)}
      st == SetToSortSeq(Starts, <)
      RunEnd(k) == IF k = Len(st) THEN Len(s) ELSE st[k + 1] - 1
  IN [k \in 1..Len(st) |->
        [ops |-> SubSeq(s, st[k], RunEnd(k)),
         consistent |-> f \/ Len(st) > 1]]

\* The runs FlushBuffersIfReady sends are exactly the reference runs: the
\* ready operations in (tablet, group, sequence) order, cut at every tablet
\* or group change and after every MaxSidecarSlices-th sidecar operation,
\* with consistent reads required exactly when the batch does not fit in
\* one RPC or the batcher forces them.
RunsMatchReference == FlushRuns(ready, force) = RefRuns(ready, force)

=============================================================================
