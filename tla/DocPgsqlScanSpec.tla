-------------------------- MODULE DocPgsqlScanSpec --------------------------
(***************************************************************************)
(* The scan bounds of docdb::DocPgsqlScanSpec (doc_pgsql_scanspec.cc) and  *)
(* its SST file filter PgsqlRangeBasedFileFilter.                          *)
(*                                                                         *)
(* A key is a sequence of bytes, compared as Slice::compare compares them  *)
(* (byte by byte, then the shorter first).  A byte is a natural number.    *)
(* The DocKey encoding (DocKeyEncoder, KeyBytes, PrimitiveValue) is not    *)
(* part of this file; it is modelled by what it writes:                    *)
(*   - a ValueType is one byte, and kLowest < kGroupEnd < every value or   *)
(*     key-entry type < kHighest;                                          *)
(*   - a primitive value is its type byte and then one order-preserving    *)
(*     byte for its value;                                                 *)
(*   - a DocKey is [cotable id] [kUInt16Hash, hash as two big-endian      *)
(*     bytes, hashed components] kGroupEnd range components kGroupEnd,    *)
(*     the hash part only for a hash-partitioned table.                   *)
(***************************************************************************)
EXTENDS Integers, SequencesExt, FiniteSets

CONSTANTS
  NoValue     \* an unset boost::optional, an empty KeyBytes or a null pointer

\* ValueType bytes, in their order.
kLowest     == 0
kGroupEnd   == 33
kHybridTime == 35
kUInt16Hash == 71
kInt32      == 72
kColumnId   == 75
kTableId    == 86
kTombstone  == 88
kHighest    == 126

\* DocKeyHash is uint16_t: static_cast<DocKeyHash> of an int32 keeps the
\* low 16 bits.
DocKeyHashMax == 65535
ToDocKeyHash(x) == x % (DocKeyHashMax + 1)

-----------------------------------------------------------------------------
(* Keys and their order.                                                   *)
(***************************************************************************)

\* Slice::compare: the first differing byte decides, else the length.
Compare(a, b) ==
  LET n == IF Len(a) < Len(b) THEN Len(a) ELSE Len(b)
      diff == {i \in 1..n : a[i] # b[i]}
  IN IF diff # {}
       THEN LET i == Min(diff) IN IF a[i] < b[i] THEN -1 ELSE 1
       ELSE IF Len(a) = Len(b) THEN 0 ELSE IF Len(a) < Len(b) THEN -1 ELSE 1

KeyLeq(a, b) == Compare(a, b) <= 0

\* A PrimitiveValue: kLowest, kHighest, kTombstone, or an int32 value.
Lowest    == [type |-> kLowest, val |-> 0]
Highest   == [type |-> kHighest, val |-> 0]
Tombstone == [type |-> kTombstone, val |-> 0]
Int32(x)  == [type |-> kInt32, val |-> x]

\* PrimitiveValue::AppendToKey.
AppendToKey(v) ==
  IF v.type \in {kLowest, kHighest} THEN <<v.type>> ELSE <<v.type, v.val>>

EncodeValues(vs) == FlattenSeq([i \in DOMAIN vs |-> AppendToKey(vs[i])])

\* DocKeyEncoder::CotableId: nothing for a table without a cotable id.
CotableId(cotable) == IF cotable THEN <<kTableId, 1>> ELSE <<>>

\* DocKeyEncoder::HashAndRange.
HashAndRange(hash, hashed, range) ==
  <<kUInt16Hash, hash \div 256, hash % 256>> \o EncodeValues(hashed)
    \o <<kGroupEnd>> \o EncodeValues(range) \o <<kGroupEnd>>

\* DocKey::Encode of a key [cotable, hash, hashed, range]; hash is NoValue
\* for a range-partitioned table.
EncodeDocKey(dk) ==
  CotableId(dk.cotable)
    \o IF dk.hash = NoValue
         THEN EncodeValues(dk.range) \o <<kGroupEnd>>
         ELSE HashAndRange(dk.hash, dk.hashed, dk.range)

\* KeyBytes::AppendValueTypeBeforeGroupEnd.
AppendValueTypeBeforeGroupEnd(k, t) ==
  IF k = <<>> \/ Last(k) # kGroupEnd
    THEN k \o <<t, kGroupEnd>>
    ELSE Front(k) \o <<t, kGroupEnd>>

-----------------------------------------------------------------------------
(* DocPgsqlScanSpec.  A scan is a record of the constructor's arguments:   *)
(*   cotable        schema.cotable_id() is set                             *)
(*   doc_key        the DocKey of the first constructor, or NoValue        *)
(*   hashed         hashed_components_ (second constructor)                *)
(*   hash_code, max_hash_code   int32 values or NoValue                    *)
(*   start          start_doc_key, or NoValue when it is empty             *)
(*   forward        is_forward_scan                                        *)
(* The second constructor's where_expr is always null: a condition ends    *)
(* the process with LOG(FATAL) before any bound is used.                   *)
(***************************************************************************)

\* A mutant that gives +inf to the lower bound instead of the upper one.
range_components_swapped(lower_bound) ==
  IF lower_bound THEN <<Highest>> ELSE <<>>

\* range_components.
range_components(lower_bound) == IF lower_bound THEN <<>> ELSE <<Highest>>

\* bound_key.
bound_key(s, lower_bound) ==
  LET result == CotableId(s.cotable) IN
  IF s.hashed = <<>>
    THEN CASE lower_bound /\ s.hash_code # NoValue ->
                result \o HashAndRange(ToDocKeyHash(s.hash_code), <<Lowest>>, <<>>)
           [] ~lower_bound /\ s.max_hash_code # NoValue ->
                result \o HashAndRange(ToDocKeyHash(s.max_hash_code), <<Highest>>, <<>>)
           [] ~lower_bound ->
                AppendValueTypeBeforeGroupEnd(result, kHighest)
           [] OTHER -> result
    ELSE LET min_hash == IF s.hash_code # NoValue THEN ToDocKeyHash(s.hash_code) ELSE 0
             max_hash == IF s.max_hash_code # NoValue
                           THEN ToDocKeyHash(s.max_hash_code) ELSE DocKeyHashMax
         IN result \o HashAndRange(IF lower_bound THEN min_hash ELSE max_hash,
                                   s.hashed, range_components(lower_bound))

\* The members the constructors set: doc_key_, start_doc_key_,
\* lower_doc_key_ and upper_doc_key_.  The first constructor leaves the
\* start key and both bound keys at the cotable prefix.
doc_key_(s) == IF s.doc_key = NoValue THEN <<>> ELSE EncodeDocKey(s.doc_key)
start_doc_key_(s) ==
  IF s.doc_key # NoValue THEN CotableId(s.cotable)
  ELSE IF s.start = NoValue THEN <<>> ELSE EncodeDocKey(s.start)
lower_doc_key_(s) ==
  IF s.doc_key # NoValue THEN CotableId(s.cotable) ELSE bound_key(s, TRUE)
upper_doc_key_(s) ==
  IF s.doc_key # NoValue THEN CotableId(s.cotable) ELSE bound_key(s, FALSE)

\* A mutant of Bound whose forward scan ignores start_doc_key.
BoundForwardNoStart(s, lower_bound) ==
  CASE doc_key_(s) # <<>> ->
         IF lower_bound THEN doc_key_(s)
         ELSE AppendValueTypeBeforeGroupEnd(doc_key_(s), kHighest)
    [] s.forward -> IF lower_bound THEN lower_doc_key_(s) ELSE upper_doc_key_(s)
    [] OTHER ->
         IF lower_bound
           THEN lower_doc_key_(s)
           ELSE IF start_doc_key_(s) # <<>> THEN start_doc_key_(s) ELSE upper_doc_key_(s)

\* Bound: the inclusive lower or upper key of the scan.
Bound(s, lower_bound) ==
  CASE doc_key_(s) # <<>> ->
         IF lower_bound THEN doc_key_(s)
         ELSE AppendValueTypeBeforeGroupEnd(doc_key_(s), kHighest)
    [] s.forward ->
         IF lower_bound
           THEN IF start_doc_key_(s) # <<>> THEN start_doc_key_(s) ELSE lower_doc_key_(s)
           ELSE upper_doc_key_(s)
    [] OTHER ->
         IF lower_bound
           THEN lower_doc_key_(s)
           ELSE IF start_doc_key_(s) # <<>> THEN start_doc_key_(s) ELSE upper_doc_key_(s)

-----------------------------------------------------------------------------
(* PgsqlRangeBasedFileFilter.  A file's boundary for range component i is *)
(* the encoded smallest and largest value of that component in the file,   *)
(* or NoValue when the file carries no boundary with that tag.             *)
(***************************************************************************)

\* EncodePrimitiveValues: one key per component, at least min_size of
\* them; a tombstone and a missing component are empty.
EncodePrimitiveValues(source, min_size) ==
  [i \in 1..(IF Len(source) > min_size THEN Len(source) ELSE min_size) |->
     IF i <= Len(source) /\ source[i].type # kTombstone
       THEN AppendToKey(source[i]) ELSE <<>>]

\* A mutant of GreaterOrEquals that compares strictly.
GreaterOrEqualsStrict(lhs, rhs) ==
  \/ lhs = NoValue \/ rhs = NoValue
  \/ lhs = <<>> \/ rhs = <<>>
  \/ Compare(lhs, rhs) > 0

\* GreaterOrEquals: a null or empty side compares as greater or equal.
GreaterOrEquals(lhs, rhs) ==
  \/ lhs = NoValue \/ rhs = NoValue
  \/ lhs = <<>> \/ rhs = <<>>
  \/ Compare(lhs, rhs) >= 0

\* The constructor: lower_bounds_ and upper_bounds_.
FileFilter(lower, upper) ==
  [lower |-> EncodePrimitiveValues(lower, Len(upper)),
   upper |-> EncodePrimitiveValues(upper, Len(lower))]

\* Filter: FALSE excludes the file from the scan.
Filter(f, smallest, largest) ==
  \A i \in 1..Len(f.lower) :
    LET s == IF i \in DOMAIN smallest THEN smallest[i] ELSE NoValue
        l == IF i \in DOMAIN largest THEN largest[i] ELSE NoValue
    IN GreaterOrEquals(f.upper[i], s) /\ GreaterOrEquals(l, f.lower[i])

\* CreateFileFilter: built from range_components, which are never both
\* empty, so a filter is always created.
CreateFileFilter ==
  IF range_components(TRUE) = <<>> /\ range_components(FALSE) = <<>>
    THEN NoValue
    ELSE FileFilter(range_components(TRUE), range_components(FALSE))

=============================================================================
