------------------------- MODULE MCDocPgsqlScanSpec -------------------------
(***************************************************************************)
(* Checks the keys DocPgsqlScanSpec::Bound returns against the rows a scan *)
(* must read, and PgsqlRangeBasedFileFilter::Filter against the rows of a  *)
(* file.  Every initial state is one input: a table schema and a scan      *)
(* built by one of the two constructors, or a filter and a file; nothing   *)
(* changes afterwards.                                                     *)
(*                                                                         *)
(* A hash-partitioned table has one hashed and one range key column, a     *)
(* range-partitioned table two range key columns.  The hash of a row is    *)
(* free: two rows with the same hashed values and different hashes stand   *)
(* for hash collisions and for rows the scan must leave out alike.  Every  *)
(* row is stored under keys that start with its encoded DocKey: the key    *)
(* itself, and subdocument keys with a column id and a hybrid time.        *)
(*                                                                         *)
(* For the filter the table has two range key columns.  A file's boundary  *)
(* for range component i is the smallest and the largest encoded value of  *)
(* that component among its rows, or absent when the file was written      *)
(* without a boundary for that tag.                                        *)
(***************************************************************************)
EXTENDS DocPgsqlScanSpec

CONSTANTS
  Values,         \* the int32 values of key columns
  Hashes,         \* the hashes rows may have
  HashCodes,      \* the hash_code and max_hash_code a request may carry
  BackwardPaging, \* whether backward scans may carry a start_doc_key
  MaxFileRows     \* the most rows a file holds

VARIABLES
  subject,        \* what this input checks: "scan" or "filter"
  hashTable,      \* the table is hash partitioned
  scan,           \* the constructor's arguments
  lower,          \* the filter's lower_bounds argument
  upper,          \* the filter's upper_bounds argument
  fromScan,       \* the filter is the one CreateFileFilter builds
  file,           \* the range components of the rows in the file
  tagged          \* the range components the file has boundaries for

vars == <<subject, hashTable, scan, lower, upper, fromScan, file, tagged>>

\* The encoded suffixes after a DocKey: none, a hybrid time, and a column
\* id with a hybrid time.
SubKeySuffixes == {<<>>, <<kHybridTime, 5>>, <<kColumnId, 1, kHybridTime, 5>>}

IntValues == {Int32(v) : v \in Values}

\* The rows the table may hold.
Rows(cotable) ==
  IF hashTable
    THEN {[cotable |-> cotable, hash |-> h, hashed |-> <<a>>, range |-> <<r>>] :
            h \in Hashes, a \in IntValues, r \in IntValues}
    ELSE {[cotable |-> cotable, hash |-> NoValue, hashed |-> <<>>, range |-> <<a, r>>] :
            a \in IntValues, r \in IntValues}

RowKeys(dk) == {EncodeDocKey(dk) \o x : x \in SubKeySuffixes}

HashInRange(s, dk) ==
  /\ s.hash_code # NoValue => ToDocKeyHash(s.hash_code) <= dk.hash
  /\ s.max_hash_code # NoValue => dk.hash <= ToDocKeyHash(s.max_hash_code)

Optional(S) == {NoValue} \cup S

\* Scans of the first constructor: one full DocKey.
DocKeyScans(cotable) ==
  [cotable : {cotable}, doc_key : Rows(cotable), hashed : {<<>>},
   hash_code : {NoValue}, max_hash_code : {NoValue}, start : {NoValue},
   forward : BOOLEAN]

\* Scans of the second constructor.  Only a hash-partitioned table has
\* hashed components and hash codes.  A start_doc_key comes from the paging
\* state of the same scan, so it is a row with the scan's hashed
\* components and in its hash range.
RangeScans(cotable) ==
  {s \in [cotable : {cotable}, doc_key : {NoValue},
          hashed : IF hashTable THEN {<<>>} \cup {<<a>> : a \in IntValues} ELSE {<<>>},
          hash_code : IF hashTable THEN Optional(HashCodes) ELSE {NoValue},
          max_hash_code : IF hashTable THEN Optional(HashCodes) ELSE {NoValue},
          start : Optional(Rows(cotable)),
          forward : BOOLEAN] :
     /\ BackwardPaging \/ s.forward \/ s.start = NoValue
     /\ s.start # NoValue =>
          /\ s.hashed # <<>> => s.start.hashed = s.hashed
          /\ HashInRange(s, s.start)}

NumRange == 2

RangeRows == [1..NumRange -> {Int32(v) : v \in Values}]

BoundValues == {Lowest, Highest, Tombstone} \cup {Int32(v) : v \in Values}

BoundSeqs == UNION {[1..n -> BoundValues] : n \in 0..NumRange}

filter ==
  IF fromScan THEN CreateFileFilter ELSE FileFilter(lower, upper)

ScanInit ==
  /\ hashTable \in BOOLEAN
  /\ \E cotable \in BOOLEAN : scan \in DocKeyScans(cotable) \cup RangeScans(cotable)
  /\ lower = <<>> /\ upper = <<>> /\ fromScan = FALSE /\ file = {} /\ tagged = {}

FilterInit ==
  /\ hashTable = FALSE
  /\ scan = [cotable |-> FALSE, doc_key |-> NoValue, hashed |-> <<>>, hash_code |-> NoValue,
            max_hash_code |-> NoValue, start |-> NoValue, forward |-> TRUE]
  /\ fromScan \in BOOLEAN
  /\ IF fromScan
       THEN lower = range_components(TRUE) /\ upper = range_components(FALSE)
       ELSE lower \in BoundSeqs /\ upper \in BoundSeqs
  /\ file \in {f \in SUBSET RangeRows : f # {} /\ Cardinality(f) <= MaxFileRows}
  /\ tagged \in SUBSET (1..NumRange)

Init ==
  \/ subject = "scan" /\ ScanInit
  \/ subject = "filter" /\ FilterInit

Next == UNCHANGED vars

Spec == Init /\ [][Next]_vars

-----------------------------------------------------------------------------
(* The rows the scan must read.                                            *)
(***************************************************************************)

\* Paging: a forward scan resumes at start_doc_key, a backward scan
\* resumes at it going down; the start row itself is read in both.
AfterStart(s, dk) ==
  s.start # NoValue =>
    IF s.forward THEN KeyLeq(EncodeDocKey(s.start), EncodeDocKey(dk))
                 ELSE KeyLeq(EncodeDocKey(dk), EncodeDocKey(s.start))

Matches(s, dk) ==
  IF s.doc_key # NoValue
    THEN dk = s.doc_key
    ELSE /\ s.hashed # <<>> => dk.hashed = s.hashed
         /\ HashInRange(s, dk)
         /\ AfterStart(s, dk)

-----------------------------------------------------------------------------
(* The rows of a file the filter must keep.                                *)
(***************************************************************************)

\* The smallest and the largest encoded value of each range component.
Boundary(pick(_, _)) ==
  [i \in 1..NumRange |->
     IF i \in tagged
       THEN LET keys == {AppendToKey(r[i]) : r \in file}
            IN CHOOSE k \in keys : \A o \in keys : pick(k, o)
       ELSE NoValue]

Smallest == Boundary(LAMBDA k, o : KeyLeq(k, o))
Largest  == Boundary(LAMBDA k, o : KeyLeq(o, k))

\* A bound that is missing or a tombstone does not restrict its component.
BoundHolds(bounds, i, ok(_)) ==
  i <= Len(bounds) /\ bounds[i].type # kTombstone => ok(AppendToKey(bounds[i]))

RowWithin(r) ==
  \A i \in 1..NumRange :
    /\ BoundHolds(lower, i, LAMBDA b : KeyLeq(b, AppendToKey(r[i])))
    /\ BoundHolds(upper, i, LAMBDA b : KeyLeq(AppendToKey(r[i]), b))

-----------------------------------------------------------------------------

InBounds(s, k) == KeyLeq(Bound(s, TRUE), k) /\ KeyLeq(k, Bound(s, FALSE))

\* Bound is "the inclusive lower/upper range doc key considering the
\* start_doc_key": every key of every row the scan must read, the DocKey
\* and all its subdocument keys, lies between the two bounds.
BoundsCoverScan ==
  subject = "scan" =>
    \A dk \in Rows(scan.cotable) : Matches(scan, dk) =>
      \A k \in RowKeys(dk) : InBounds(scan, k)

\* The bounds leave out what they can: a key between them belongs to a row
\* in the hash range, on the right side of start_doc_key, the scanned row
\* of a DocKey scan, and the row with the scanned hashed components when
\* the request names a single hash.
BoundsExcludeOthers ==
  subject = "scan" =>
    \A dk \in Rows(scan.cotable) :
      (\E k \in RowKeys(dk) : InBounds(scan, k)) =>
        /\ scan.doc_key # NoValue => dk = scan.doc_key
        /\ scan.doc_key = NoValue => HashInRange(scan, dk) /\ AfterStart(scan, dk)
        /\ scan.hashed # <<>> /\ scan.hash_code # NoValue
             /\ scan.hash_code = scan.max_hash_code => dk.hashed = scan.hashed

\* The filter is a prototype whose comment doubts its "NULL-equals-all
\* logic": a file that holds a row within the bounds, in any component
\* and with or without boundaries for it, is never filtered out.
FilterSound ==
  subject = "filter" /\ (\E r \in file : RowWithin(r)) => Filter(filter, Smallest, Largest)

=============================================================================
