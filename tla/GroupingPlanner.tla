--------------------------- MODULE GroupingPlanner ---------------------------
(***************************************************************************)
(* The pure part of Batcher::FlushBuffersIfReady (batcher.cc): the         *)
(* classification of an operation into an OpGroup, the sort of the ready  *)
(* operations by (tablet, group, sequence number), and the scan that cuts  *)
(* the sorted vector into the runs handed to FlushBuffer, each with its    *)
(* need_consistent_read flag.                                              *)
(*                                                                         *)
(* An operation is described by a record                                   *)
(*   [op |-> id, tablet |-> t, kind |-> [type, cp], sidecar |-> b,         *)
(*    seq |-> n]                                                           *)
(* where tablet is the resolved RemoteTablet (its pointer order is the     *)
(* integer order), kind the YBOperation type and its consistency level,    *)
(* sidecar the returns_sidecar() flag and seq the sequence_number_.        *)
(***************************************************************************)
EXTENDS Integers, SequencesExt, FiniteSets, TLC

CONSTANTS
  AllowFollowerReads,   \* FLAGS_redis_allow_reads_from_followers
  MaxSidecarSlices      \* rpc::CallResponse::kMaxSidecarSlices

ASSUME AllowFollowerReads \in BOOLEAN
ASSUME MaxSidecarSlices \in Nat \ {0}

\* YBOperation::Type, and the read-only ones.
OpTypes == {"QL_READ", "QL_WRITE", "REDIS_READ", "REDIS_WRITE",
            "PGSQL_READ", "PGSQL_WRITE"}
ReadTypes == {"QL_READ", "REDIS_READ", "PGSQL_READ"}

\* An operation kind: its type, and whether a QL read asks for
\* YBConsistencyLevel::CONSISTENT_PREFIX.
OpKinds == [type : OpTypes, cp : BOOLEAN]

\* YB_DEFINE_ENUM(OpGroup, ...): the enum order is the sort order.
kWrite == 0
kLeaderRead == 1
kConsistentPrefixRead == 2
OpGroups == {kWrite, kLeaderRead, kConsistentPrefixRead}

IsOkToReadFromFollower(k) == k.type = "REDIS_READ" /\ AllowFollowerReads

IsQLConsistentPrefixRead(k) == k.type = "QL_READ" /\ k.cp

GetOpGroup(k) ==
  CASE k.type \notin ReadTypes -> kWrite
    [] IsOkToReadFromFollower(k) \/ IsQLConsistentPrefixRead(k)
                                 -> kConsistentPrefixRead
    [] OTHER                     -> kLeaderRead

\* Mutant: the comparator forgets the OpGroup.
SortLessNoGroup(l, r) ==
  IF l.tablet = r.tablet THEN l.seq < r.seq ELSE l.tablet < r.tablet

\* Mutant: sequence numbers compared the wrong way round.
SortLessSeqReversed(l, r) ==
  IF l.tablet = r.tablet
    THEN IF GetOpGroup(l.kind) # GetOpGroup(r.kind)
           THEN GetOpGroup(l.kind) < GetOpGroup(r.kind)
           ELSE l.seq > r.seq
    ELSE l.tablet < r.tablet

\* The comparator given to std::sort.
SortLess(l, r) ==
  IF l.tablet = r.tablet
    THEN IF GetOpGroup(l.kind) # GetOpGroup(r.kind)
           THEN GetOpGroup(l.kind) < GetOpGroup(r.kind)
           ELSE l.seq < r.seq
    ELSE l.tablet < r.tablet

SortOps(S) == SetToSortSeq(S, SortLess)

(***************************************************************************)
(* The loop that scans the sorted vector.  start is the first index of the *)
(* current run, n the number of sidecar-returning operations in it, acc    *)
(* the runs flushed so far.  A run is cut before index i when the tablet   *)
(* or the group changes, or when the run already holds MaxSidecarSlices    *)
(* sidecar operations.  A run cut inside the loop computes                 *)
(* need_consistent_read as force || start != begin || it != end, the last  *)
(* run as force || start != begin.                                         *)
(***************************************************************************)
\* Mutant: the last run never needs consistent reads unless forced.
RECURSIVE ScanRunsLastUnforced(_, _, _, _, _, _)
ScanRunsLastUnforced(ops, force, i, start, n, acc) ==
  IF i > Len(ops)
    THEN Append(acc, [ops |-> SubSeq(ops, start, Len(ops)), consistent |-> force])
    ELSE LET cut == \/ ops[i].tablet # ops[start].tablet
                    \/ GetOpGroup(ops[start].kind) # GetOpGroup(ops[i].kind)
                    \/ n >= MaxSidecarSlices
             acc2 == IF cut
                       THEN Append(acc, [ops |-> SubSeq(ops, start, i - 1),
                                         consistent |-> TRUE])
                       ELSE acc
             start2 == IF cut THEN i ELSE start
             n2 == (IF cut THEN 0 ELSE n) + (IF ops[i].sidecar THEN 1 ELSE 0)
         IN ScanRunsLastUnforced(ops, force, i + 1, start2, n2, acc2)

RECURSIVE ScanRuns(_, _, _, _, _, _)
ScanRuns(ops, force, i, start, n, acc) ==
  IF i > Len(ops)
    THEN Append(acc, [ops |-> SubSeq(ops, start, Len(ops)),
                      consistent |-> force \/ start # 1])
    ELSE LET cut == \/ ops[i].tablet # ops[start].tablet
                    \/ GetOpGroup(ops[start].kind) # GetOpGroup(ops[i].kind)
                    \/ n >= MaxSidecarSlices
             acc2 == IF cut
                       THEN Append(acc, [ops |-> SubSeq(ops, start, i - 1),
                                         consistent |-> force \/ start # 1
                                                        \/ i <= Len(ops)])
                       ELSE acc
             start2 == IF cut THEN i ELSE start
             n2 == (IF cut THEN 0 ELSE n) + (IF ops[i].sidecar THEN 1 ELSE 0)
         IN ScanRuns(ops, force, i + 1, start2, n2, acc2)

\* The runs FlushBuffersIfReady hands to FlushBuffer for the ready set S.
FlushRuns(S, force) ==
  IF S = {} THEN <<>> ELSE ScanRuns(SortOps(S), force, 1, 1, 0, <<>>)

=============================================================================
