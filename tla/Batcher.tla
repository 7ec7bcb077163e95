------------------------------- MODULE Batcher -------------------------------
(***************************************************************************)
(* The client Batcher of batcher.cc: Add, FlushAsync and Abort called by   *)
(* the session thread, TabletLookupFinished called back by the meta cache, *)
(* TransactionReady called back by the transaction, and the per-RPC        *)
(* response path (ProcessRpcStatus / ProcessWriteResponse,                 *)
(* RemoveInFlightOpsAfterFlushing, CheckForFinishedFlush) run by RPC       *)
(* completion threads.                                                     *)
(*                                                                         *)
(* Every thread is a list of steps still to run (todo).  A step is one    *)
(* critical section under Batcher::mutex_ or one stretch of code run       *)
(* outside it, so that the model interleaves threads exactly where the     *)
(* code releases the lock.                                                 *)
(***************************************************************************)
EXTENDS GroupingPlanner

CONSTANTS
  Ops,                  \* the user operations (YBOperation) a session adds
  Tablets,              \* the tablets a lookup may resolve to
  Kinds,                \* operation kinds: [type, cp, sidecar]
  NoOp,                 \* no operation (names the session thread)
  HasTransaction,       \* the Batcher was built with a YBTransaction
  TxnOutcomes,          \* how the transaction may resolve: "ready", "failed"
  ForceConsistentRead,  \* the constructor's force_consistent_read
  CombineErrors,        \* FLAGS_combine_batcher_errors
  AbortWindow           \* when the session calls Abort (see SessionMayAbort)

ASSUME HasTransaction \in BOOLEAN /\ ForceConsistentRead \in BOOLEAN
ASSUME CombineErrors \in BOOLEAN
ASSUME AbortWindow \in {"gathering", "lookups_pending", "any"}
ASSUME TxnOutcomes \subseteq {"ready", "failed"}

VARIABLES
  state,        \* state_
  ops,          \* ops_: the InFlightOps not yet removed
  opState,      \* InFlightOp::state ("None" before Add)
  opKind,       \* the YBOperation's kind
  tablet,       \* InFlightOp::tablet (0 before lookup)
  seq,          \* InFlightOp::sequence_number_
  nextSeq,      \* next_op_sequence_number_
  outstanding,  \* outstanding_lookups_
  queue,        \* ops_queue_
  cb,           \* flush_callback_: "none", "set", or "moved" out
  cbRuns,       \* how many times RunCallback ran
  delivered,    \* the status the flush callback received
  hadErrors,    \* had_errors_
  combined,     \* combined_error_
  errorSink,    \* the ErrorCollector: pairs <<op, status code>>
  todo,         \* per thread: the steps it still has to run
  runsLeft,     \* per thread: the runs FlushBuffersIfReady has yet to send
  rpcs,         \* the RPCs sent by FlushBuffer
  txn,          \* the transaction: "none", "pending", "ready", "failed"
  crash,        \* "none", or the CHECK / fault that ended the process
  userAborted   \* the session has called Abort

vars == <<state, ops, opState, opKind, tablet, seq, nextSeq, outstanding,
          queue, cb, cbRuns, delivered, hadErrors, combined, errorSink,
          todo, runsLeft, rpcs, txn, crash, userAborted>>

\* Threads: the session thread, one meta-cache callback per lookup, one
\* completion thread per RPC (named by its first op) and one transaction
\* callback per Prepare that deferred (named by the deferring thread).
User == <<"user", NoOp>>
LookupT(o) == <<"lookup", o>>
RpcT(o) == <<"rpc", o>>
TxnT(x) == <<"txn", x>>
Threads == {User} \cup {LookupT(o) : o \in Ops} \cup {RpcT(o) : o \in Ops}
             \cup {TxnT(x) : x \in Ops \cup {NoOp}}

Step(n) == [s |-> n, st |-> "OK"]
NoKind == [type |-> "NONE", cp |-> FALSE, sidecar |-> FALSE]
Codes == {"LookupFailed", "Aborted", "TxnError", "RpcFailed", "RowError",
          "Combined"}

Head1(t) == Head(todo[t])
Pop(t) == todo' = [todo EXCEPT ![t] = Tail(@)]
Live == crash = "none"

\* Batcher::Batcher: a new batch gathering operations.
Init ==
  /\ state = "Gathering"
  /\ ops = {}
  /\ opState = [o \in Ops |-> "None"]
  /\ opKind = [o \in Ops |-> NoKind]
  /\ tablet = [o \in Ops |-> 0]
  /\ seq = [o \in Ops |-> 0]
  /\ nextSeq = 0
  /\ outstanding = 0
  /\ queue = {}
  /\ cb = "none"
  /\ cbRuns = 0
  /\ delivered = "none"
  /\ hadErrors = FALSE
  /\ combined = "OK"
  /\ errorSink = {}
  /\ todo = [t \in Threads |-> <<>>]
  /\ runsLeft = [t \in Threads |-> <<>>]
  /\ rpcs = {}
  /\ txn = IF HasTransaction THEN "pending" ELSE "none"
  /\ crash = "none"
  /\ userAborted = FALSE

-----------------------------------------------------------------------------
(* Error accounting.                                                       *)
(***************************************************************************)

\* Mutant: combined_error_ is overwritten by every error.
CombineErrorLastWins(c, code) == IF ~CombineErrors THEN c ELSE code

\* CombineErrorUnlocked, on combined_error_: the first error wins, a later
\* error of another code collapses it to Combined.
CombineError(c, code) ==
  IF ~CombineErrors \/ (c # "OK" /\ (c = "Combined" \/ c = code)) THEN c
  ELSE IF c = "OK" THEN code ELSE "Combined"

\* CombineErrorUnlocked for every op of S, all with status code.
RecordErrors(S, code) ==
  /\ errorSink' = errorSink \cup (S \X {code})
  /\ combined' = IF S = {} THEN combined ELSE CombineError(combined, code)
  /\ hadErrors' = (hadErrors \/ S # {})

\* MarkInFlightOpFailedUnlocked: CHECK_EQ(1, ops_.erase(op)), then record.
MarkFailed(S, code) ==
  /\ ops' = ops \ S
  /\ crash' = IF S \subseteq ops THEN "none" ELSE "check_erase"
  /\ RecordErrors(S, code)

\* The status CheckForFinishedFlush hands to the callback.
FlushStatus ==
  IF combined # "OK" THEN combined ELSE IF hadErrors THEN "IOError" ELSE "OK"

\* RunCallback: the runnable captures std::move(flush_callback_) outside the
\* lock; invoking a moved-from std::function throws bad_function_call.
RunCallback(status) ==
  /\ cbRuns' = cbRuns + 1
  /\ IF cb = "set"
       THEN /\ cb' = "moved"
            /\ delivered' = status
            /\ UNCHANGED crash
       ELSE /\ crash' = "bad_function_call"
            /\ UNCHANGED <<cb, delivered>>

\* ~Batcher: CHECKs that ops_ is empty and the state is terminal.
CanDestruct == ops = {} /\ state \in {"Flushed", "Aborted"}

\* CountBufferedOperations: ops are buffered only while gathering.
CountBufferedOperations == IF state = "Gathering" THEN Cardinality(ops) ELSE 0

-----------------------------------------------------------------------------
(* Critical sections shared by several threads.                            *)
(***************************************************************************)

\* The ready operations as the planner sees them.
Desc(o) == [op |-> o, tablet |-> tablet[o], kind |-> opKind[o],
            sidecar |-> opKind[o].sidecar, seq |-> seq[o]]

\* FlushBuffersIfReady, the part under the lock, run by thread t which then
\* continues with rest: nothing unless flushing with no lookup outstanding;
\* with a transaction, Prepare defers (registering the TransactionReady
\* callback) until the transaction has resolved; otherwise ops_queue_ is
\* swapped out, sorted and cut into runs, which the thread then sends.
FlushBuffersIfReady(t, rest) ==
  IF state # "Flushing" \/ outstanding # 0
    THEN /\ todo' = [todo EXCEPT ![t] = rest]
         /\ UNCHANGED <<queue, runsLeft>>
    ELSE IF txn \in {"pending", "failed"}
    THEN /\ todo' = [todo EXCEPT ![t] = rest, ![TxnT(t[2])] = <<Step("TxnWait")>>]
         /\ UNCHANGED <<queue, runsLeft>>
    ELSE /\ queue' = {}
         /\ runsLeft' = [runsLeft EXCEPT ![t] =
                           FlushRuns({Desc(o) : o \in queue},
                                     ForceConsistentRead \/ txn # "none")]
         /\ todo' = [todo EXCEPT ![t] =
                       IF queue = {} THEN rest ELSE <<Step("Dispatch")>> \o rest]

\* Mutant: Abort fails every op in ops_, lookups in progress included.
AbortLockedAllOps(t, status, rest) ==
  /\ state' = "Aborted"
  /\ MarkFailed(ops, status)
  /\ todo' = [todo EXCEPT ![t] =
                IF cb = "set" THEN <<[s |-> "AbortCb", st |-> status]>> \o rest
                              ELSE rest]

\* Mutant: Abort forgets to run the flush callback.
AbortLockedNoCallback(t, status, rest) ==
  /\ state' = "Aborted"
  /\ MarkFailed({o \in ops : opState[o] = "Buffered"}, status)
  /\ todo' = [todo EXCEPT ![t] = rest]

\* Mutant: Abort hands the callback the batch's own status.
AbortLockedStatusLost(t, status, rest) ==
  /\ state' = "Aborted"
  /\ MarkFailed({o \in ops : opState[o] = "Buffered"}, status)
  /\ todo' = [todo EXCEPT ![t] =
                IF cb = "set" THEN <<[s |-> "AbortCb", st |-> FlushStatus]>> \o rest
                              ELSE rest]

\* Abort, the part under the lock: every op buffered to a tablet server is
\* failed with status, and the callback is to be run if one is registered.
AbortLocked(t, status, rest) ==
  /\ state' = "Aborted"
  /\ MarkFailed({o \in ops : opState[o] = "Buffered"}, status)
  /\ todo' = [todo EXCEPT ![t] =
                IF cb = "set" THEN <<[s |-> "AbortCb", st |-> status]>> \o rest
                              ELSE rest]

-----------------------------------------------------------------------------
(* The session thread.                                                     *)
(***************************************************************************)

\* Mutant: AddInFlightOp forgets ++outstanding_lookups_.
AddNoLookupCount(o, k) ==
  /\ Live /\ todo[User] = <<>>
  /\ state = "Gathering"
  /\ opState[o] = "None"
  /\ opState' = [opState EXCEPT ![o] = "LookingUp"]
  /\ opKind' = [opKind EXCEPT ![o] = k]
  /\ ops' = ops \cup {o}
  /\ seq' = [seq EXCEPT ![o] = nextSeq]
  /\ nextSeq' = nextSeq + 1
  /\ todo' = [todo EXCEPT ![LookupT(o)] = <<Step("Lookup")>>]
  /\ UNCHANGED <<state, tablet, outstanding, queue, cb, cbRuns, delivered,
                 hadErrors, combined, errorSink, runsLeft, rpcs, txn, crash,
                 userAborted>>

\* Add and AddInFlightOp: the op is admitted, numbered and its lookup
\* started; the meta cache calls TabletLookupFinished later.  (An op with a
\* known tablet finishes its lookup before Add returns, one of the orders
\* the asynchronous callback allows.)
Add(o, k) ==
  /\ Live /\ todo[User] = <<>>
  /\ state = "Gathering"
  /\ opState[o] = "None"
  /\ opState' = [opState EXCEPT ![o] = "LookingUp"]
  /\ opKind' = [opKind EXCEPT ![o] = k]
  /\ ops' = ops \cup {o}
  /\ seq' = [seq EXCEPT ![o] = nextSeq]
  /\ nextSeq' = nextSeq + 1
  /\ outstanding' = outstanding + 1
  /\ todo' = [todo EXCEPT ![LookupT(o)] = <<Step("Lookup")>>]
  /\ UNCHANGED <<state, tablet, queue, cb, cbRuns, delivered, hadErrors,
                 combined, errorSink, runsLeft, rpcs, txn, crash, userAborted>>

\* Mutant: FlushAsync does not run CheckForFinishedFlush.
FlushAsyncNoCheck ==
  /\ Live /\ todo[User] = <<>>
  /\ state = "Gathering"
  /\ state' = "Flushing"
  /\ cb' = "set"
  /\ todo' = [todo EXCEPT ![User] = <<Step("FlushBuf")>>]
  /\ UNCHANGED <<ops, opState, opKind, tablet, seq, nextSeq, outstanding,
                 queue, cbRuns, delivered, hadErrors, combined, errorSink,
                 runsLeft, rpcs, txn, crash, userAborted>>

\* FlushAsync: under the lock, flushing with the callback stored; then
\* CheckForFinishedFlush and FlushBuffersIfReady.
FlushAsync ==
  /\ Live /\ todo[User] = <<>>
  /\ state = "Gathering"
  /\ state' = "Flushing"
  /\ cb' = "set"
  /\ todo' = [todo EXCEPT ![User] = <<Step("Check"), Step("FlushBuf")>>]
  /\ UNCHANGED <<ops, opState, opKind, tablet, seq, nextSeq, outstanding,
                 queue, cbRuns, delivered, hadErrors, combined, errorSink,
                 runsLeft, rpcs, txn, crash, userAborted>>

\* The session's use of Abort, which the Batcher does not restrict: only
\* while gathering; also while a flush still waits for a lookup (so before
\* any RPC can have been built); or at any time before the batch finishes.
SessionMayAbort ==
  CASE AbortWindow = "gathering"       -> state = "Gathering"
    [] AbortWindow = "lookups_pending" -> \/ state = "Gathering"
                                          \/ state = "Flushing" /\ outstanding > 0
    [] AbortWindow = "any"             -> state \in {"Gathering", "Flushing"}

\* Abort called by the session.
UserAbort ==
  /\ Live /\ todo[User] = <<>>
  /\ SessionMayAbort /\ ~userAborted
  /\ userAborted' = TRUE
  /\ AbortLocked(User, "Aborted", <<>>)
  /\ UNCHANGED <<opState, opKind, tablet, seq, nextSeq, outstanding, queue,
                 cb, cbRuns, delivered, runsLeft, rpcs, txn>>

-----------------------------------------------------------------------------
(* Steps of any thread.                                                    *)
(***************************************************************************)

\* Mutant: the aborted test is lost.
IsAbortedUnlockedNever == FALSE

\* IsAbortedUnlocked.
IsAbortedUnlocked == state = "Aborted"

\* TabletLookupFinished, under the lock.  Then, outside it, a failed lookup
\* runs CheckForFinishedFlush and every surviving one FlushBuffersIfReady.
LookupFinished(o) ==
  LET t == LookupT(o) IN
  /\ Live /\ todo[t] # <<>> /\ Head1(t).s = "Lookup"
  /\ outstanding' = outstanding - 1
  /\ \E ok \in BOOLEAN, tab \in Tablets :
       /\ tablet' = IF ok THEN [tablet EXCEPT ![o] = tab] ELSE tablet
       /\ CASE IsAbortedUnlocked ->
                 /\ MarkFailed({o}, "Aborted")
                 /\ todo' = [todo EXCEPT ![t] = <<>>]
                 /\ UNCHANGED <<opState, queue>>
            [] ok ->
                 /\ opState' = [opState EXCEPT ![o] = "Buffered"]
                 /\ queue' = queue \cup {o}
                 /\ todo' = [todo EXCEPT ![t] = <<Step("FlushBuf")>>]
                 /\ UNCHANGED <<ops, crash, hadErrors, combined, errorSink>>
            [] OTHER ->
                 /\ MarkFailed({o}, "LookupFailed")
                 /\ todo' = [todo EXCEPT ![t] = <<Step("Check"), Step("FlushBuf")>>]
                 /\ UNCHANGED <<opState, queue>>
  /\ UNCHANGED <<state, opKind, seq, nextSeq, cb, cbRuns, delivered,
                 runsLeft, rpcs, txn, userAborted>>

\* Mutant: CheckForFinishedFlush tests only that ops_ is empty.
CheckForFinishedFlushNoStateCheck(t) ==
  /\ Live /\ todo[t] # <<>> /\ Head1(t).s = "Check"
  /\ IF ops # {}
       THEN Pop(t) /\ UNCHANGED state
       ELSE /\ state' = "Flushed"
            /\ todo' = [todo EXCEPT ![t] = <<Step("Finish")>> \o Tail(@)]
  /\ UNCHANGED <<ops, opState, opKind, tablet, seq, nextSeq, outstanding,
                 queue, cb, cbRuns, delivered, hadErrors, combined, errorSink,
                 runsLeft, rpcs, txn, crash, userAborted>>

\* CheckForFinishedFlush, under the lock: flushing and nothing left in
\* ops_ makes the batch Flushed, and the thread goes on to run the callback.
CheckForFinishedFlush(t) ==
  /\ Live /\ todo[t] # <<>> /\ Head1(t).s = "Check"
  /\ IF state # "Flushing" \/ ops # {}
       THEN Pop(t) /\ UNCHANGED state
       ELSE /\ state' = "Flushed"
            /\ todo' = [todo EXCEPT ![t] = <<Step("Finish")>> \o Tail(@)]
  /\ UNCHANGED <<ops, opState, opKind, tablet, seq, nextSeq, outstanding,
                 queue, cb, cbRuns, delivered, hadErrors, combined, errorSink,
                 runsLeft, rpcs, txn, crash, userAborted>>

\* CheckForFinishedFlush, outside the lock: the status from combined_error_
\* and had_errors_, then RunCallback.
FinishFlush(t) ==
  /\ Live /\ todo[t] # <<>> /\ Head1(t).s = "Finish"
  /\ RunCallback(FlushStatus)
  /\ Pop(t)
  /\ UNCHANGED <<state, ops, opState, opKind, tablet, seq, nextSeq,
                 outstanding, queue, hadErrors, combined, errorSink,
                 runsLeft, rpcs, txn, userAborted>>

\* Abort, outside the lock: RunCallback with the abort status.
AbortCallback(t) ==
  /\ Live /\ todo[t] # <<>> /\ Head1(t).s = "AbortCb"
  /\ RunCallback(Head1(t).st)
  /\ Pop(t)
  /\ UNCHANGED <<state, ops, opState, opKind, tablet, seq, nextSeq,
                 outstanding, queue, hadErrors, combined, errorSink,
                 runsLeft, rpcs, txn, userAborted>>

\* A call of FlushBuffersIfReady.
FlushBuffers(t) ==
  /\ Live /\ todo[t] # <<>> /\ Head1(t).s = "FlushBuf"
  /\ FlushBuffersIfReady(t, Tail(todo[t]))
  /\ UNCHANGED <<state, ops, opState, opKind, tablet, seq, nextSeq,
                 outstanding, cb, cbRuns, delivered, hadErrors, combined,
                 errorSink, rpcs, txn, crash, userAborted>>

\* FlushBuffer for the next run: a WriteRpc or ReadRpc owning the run's ops
\* is built and sent; its completion thread will process the response,
\* remove the ops and check for the end of the flush.
FlushBuffer(t) ==
  /\ Live /\ todo[t] # <<>> /\ Head1(t).s = "Dispatch"
  /\ LET r == Head(runsLeft[t])
         id == r.ops[1].op
     IN /\ rpcs' = rpcs \cup
                   {[id |-> id,
                     ops |-> [i \in DOMAIN r.ops |-> r.ops[i].op],
                     group |-> GetOpGroup(r.ops[1].kind),
                     consistent |-> r.consistent,
                     no |-> Cardinality(rpcs) + 1]}
        /\ todo' = [todo EXCEPT
                      ![RpcT(id)] = <<Step("Process"), Step("Remove"), Step("Check")>>,
                      ![t] = IF Len(runsLeft[t]) = 1 THEN Tail(@) ELSE @]
  /\ runsLeft' = [runsLeft EXCEPT ![t] = Tail(@)]
  /\ UNCHANGED <<state, ops, opState, opKind, tablet, seq, nextSeq,
                 outstanding, queue, cb, cbRuns, delivered, hadErrors,
                 combined, errorSink, txn, crash, userAborted>>

RpcOf(id) == CHOOSE r \in rpcs : r.id = id
RpcOps(r) == {r.ops[i] : i \in DOMAIN r.ops}

\* ProcessReadResponse / ProcessWriteResponse: CHECK_EQ(state_, kFlushing);
\* an RPC-level failure is recorded against every op; a successful write
\* may carry per-row errors, each recorded against its op (an out-of-range
\* row index is skipped).
ProcessResponse(o) ==
  LET t == RpcT(o)
      r == RpcOf(o)
  IN
  /\ Live /\ todo[t] # <<>> /\ Head1(t).s = "Process"
  /\ IF state # "Flushing"
       THEN /\ crash' = "check_state"
            /\ UNCHANGED <<hadErrors, combined, errorSink>>
       ELSE /\ UNCHANGED crash
            /\ \/ RecordErrors(RpcOps(r), "RpcFailed")
               \/ \E rows \in SUBSET RpcOps(r) :
                    /\ r.group = kWrite \/ rows = {}
                    /\ RecordErrors(rows, "RowError")
  /\ Pop(t)
  /\ UNCHANGED <<state, ops, opState, opKind, tablet, seq, nextSeq,
                 outstanding, queue, cb, cbRuns, delivered, runsLeft, rpcs,
                 txn, userAborted>>

\* RemoveInFlightOpsAfterFlushing: CHECK_EQ(1, ops_.erase(op)) for each op
\* of the RPC.  (Transaction::Flushed and the read point update touch no
\* Batcher state.)
RemoveInFlightOps(o) ==
  LET t == RpcT(o) IN
  /\ Live /\ todo[t] # <<>> /\ Head1(t).s = "Remove"
  /\ ops' = ops \ RpcOps(RpcOf(o))
  /\ crash' = IF RpcOps(RpcOf(o)) \subseteq ops THEN "none" ELSE "check_erase"
  /\ Pop(t)
  /\ UNCHANGED <<state, opState, opKind, tablet, seq, nextSeq, outstanding,
                 queue, cb, cbRuns, delivered, hadErrors, combined, errorSink,
                 runsLeft, rpcs, txn, userAborted>>

\* Mutant: TransactionReady with OK does not re-enter the flush.
TransactionReadyNoReentry(x) ==
  LET t == TxnT(x) IN
  /\ Live /\ todo[t] # <<>> /\ Head1(t).s = "TxnWait"
  /\ txn \in {"ready", "failed"}
  /\ IF txn = "ready"
       THEN /\ todo' = [todo EXCEPT ![t] = <<>>]
            /\ UNCHANGED <<state, ops, crash, hadErrors, combined, errorSink,
                           queue, runsLeft>>
       ELSE /\ AbortLocked(t, "TxnError", <<>>)
            /\ UNCHANGED <<queue, runsLeft>>
  /\ UNCHANGED <<opState, opKind, tablet, seq, nextSeq, outstanding, cb,
                 cbRuns, delivered, rpcs, txn, userAborted>>

\* TransactionReady, once the transaction has resolved: OK re-enters
\* FlushBuffersIfReady, an error aborts the batch.
TransactionReady(x) ==
  LET t == TxnT(x) IN
  /\ Live /\ todo[t] # <<>> /\ Head1(t).s = "TxnWait"
  /\ txn \in {"ready", "failed"}
  /\ IF txn = "ready"
       THEN /\ FlushBuffersIfReady(t, <<>>)
            /\ UNCHANGED <<state, ops, crash, hadErrors, combined, errorSink>>
       ELSE /\ AbortLocked(t, "TxnError", <<>>)
            /\ UNCHANGED <<queue, runsLeft>>
  /\ UNCHANGED <<opState, opKind, tablet, seq, nextSeq, outstanding, cb,
                 cbRuns, delivered, rpcs, txn, userAborted>>

\* The transaction becomes ready for Prepare, or fails.
TxnResolve ==
  /\ Live /\ txn = "pending"
  /\ txn' \in TxnOutcomes
  /\ UNCHANGED <<state, ops, opState, opKind, tablet, seq, nextSeq,
                 outstanding, queue, cb, cbRuns, delivered, hadErrors,
                 combined, errorSink, todo, runsLeft, rpcs, crash, userAborted>>

-----------------------------------------------------------------------------
Quiescent == \A t \in Threads : todo[t] = <<>>

\* No thread has work left (or the process is dead): nothing happens until
\* the session calls in again.  A flush that is stuck here is a hang, which
\* FlushCallsBack and BatchSettles report.
Done ==
  /\ Quiescent \/ ~Live
  /\ UNCHANGED vars

\* One step of thread t.
ThreadStep(t) ==
  \/ \E o \in Ops : t = LookupT(o) /\ LookupFinished(o)
  \/ CheckForFinishedFlush(t)
  \/ FinishFlush(t)
  \/ AbortCallback(t)
  \/ FlushBuffers(t)
  \/ FlushBuffer(t)
  \/ \E o \in Ops : t = RpcT(o) /\ (ProcessResponse(o) \/ RemoveInFlightOps(o))
  \/ \E x \in Ops \cup {NoOp} : t = TxnT(x) /\ TransactionReady(x)

Next ==
  \/ \E o \in Ops, k \in Kinds : Add(o, k)
  \/ FlushAsync
  \/ UserAbort
  \/ \E t \in Threads : ThreadStep(t)
  \/ TxnResolve
  \/ Done

\* Threads run to the end of their code; the meta cache and every RPC
\* answer by their deadline; the transaction resolves.  The session itself
\* is not obliged to call anything.
Fairness ==
  /\ \A t \in Threads : WF_vars(ThreadStep(t))
  /\ WF_vars(TxnResolve)

Spec == Init /\ [][Next]_vars /\ Fairness

-----------------------------------------------------------------------------
(* Properties.                                                             *)
(***************************************************************************)

TypeOK ==
  /\ state \in {"Gathering", "Flushing", "Flushed", "Aborted"}
  /\ ops \subseteq Ops /\ queue \subseteq Ops
  /\ opState \in [Ops -> {"None", "LookingUp", "Buffered"}]
  /\ opKind \in [Ops -> Kinds \cup {NoKind}]
  /\ tablet \in [Ops -> Tablets \cup {0}]
  /\ seq \in [Ops -> Nat] /\ nextSeq \in Nat /\ outstanding \in Nat
  /\ cb \in {"none", "set", "moved"} /\ cbRuns \in Nat
  /\ hadErrors \in BOOLEAN /\ combined \in Codes \cup {"OK"}
  /\ errorSink \subseteq Ops \X Codes
  /\ txn \in {"none", "pending", "ready", "failed"}

\* No thread of the batcher ever trips a CHECK (erasing an op that is not in
\* ops_, processing a response when the batcher is not flushing) or invokes
\* a moved-from flush callback.
NoCrash == crash = "none"

\* outstanding_lookups_ counts exactly the admitted ops whose lookup has
\* not finished: Add increments it, every TabletLookupFinished (aborted,
\* failed or successful) decrements it, and nothing else touches it.  The
\* rendezvous in FlushBuffersIfReady is only as good as this count.
LookupCountMatches ==
  outstanding = Cardinality({o \in ops : opState[o] = "LookingUp"})

\* RunCallback runs at most once per batch: the flush callback is handed
\* off once, whichever of CheckForFinishedFlush and Abort gets there.
SingleCallback == cbRuns <= 1

\* Once every thread has finished, a batch that was flushed or aborted can
\* be destroyed (ops_ is empty and the state terminal, as ~Batcher CHECKs)
\* and its callback, if one was registered, has been run.
BatchSettles ==
  (Quiescent /\ state # "Gathering") => CanDestruct /\ cb # "set"

\* Consistent reads may be skipped only when the whole batch went out as a
\* single RPC and neither a transaction nor the session forces them.
ConsistentReadWhenSplit ==
  (Cardinality(rpcs) > 1 \/ txn # "none" \/ ForceConsistentRead)
    => \A r \in rpcs : r.consistent

\* Two operations for the same tablet and OpGroup are sent in admission
\* order: in the same RPC in sequence order, or the earlier one in an RPC
\* sent earlier.
DispatchOrder ==
  \A r1, r2 \in rpcs : \A i \in DOMAIN r1.ops, j \in DOMAIN r2.ops :
    LET a == r1.ops[i]
        b == r2.ops[j]
    IN (/\ tablet[a] = tablet[b]
        /\ GetOpGroup(opKind[a]) = GetOpGroup(opKind[b])
        /\ seq[a] < seq[b])
         => (r1.no < r2.no \/ (r1 = r2 /\ i < j))

\* The status the flush callback receives agrees with the ErrorCollector:
\* OK exactly when no op failed; otherwise IOError, or in combine mode the
\* one error code all failures share, or Combined when they differ.
ExpectedStatus ==
  LET codes == {e[2] : e \in errorSink} IN
  IF codes = {} THEN "OK"
  ELSE IF ~CombineErrors THEN "IOError"
  ELSE IF Cardinality(codes) = 1 THEN CHOOSE c \in codes : TRUE
  ELSE "Combined"

TerminalStatus ==
  (state = "Flushed" /\ delivered # "none") => delivered = ExpectedStatus

\* Once FlushAsync has been called, the flush callback eventually runs.
FlushCallsBack == (state = "Flushing") ~> (cbRuns > 0)

-----------------------------------------------------------------------------
(* The session's view.  The batch is gathering until FlushAsync or Abort;  *)
(* it has called back once RunCallback has run; a batch aborted while      *)
(* gathering has no callback and is over; any other batch is flushing,     *)
(* Flushed or Aborted ones included until their callback runs.             *)
(***************************************************************************)

SessionPhase ==
  CASE cbRuns > 0                         -> "called"
    [] state = "Gathering"                -> "gathering"
    [] state = "Aborted" /\ cb = "none"   -> "aborted"
    [] OTHER                              -> "flushing"

Session == INSTANCE BatcherAbstract
             WITH phase <- SessionPhase,
                  admitted <- {o \in Ops : opState[o] # "None"},
                  aborted <- userAborted,
                  status <- delivered,
                  Statuses <- Codes \cup {"OK", "IOError"}

\* The Batcher implements what the session is promised: operations are
\* admitted only while gathering, a flush calls back exactly once and is
\* never left hanging, and a flush the session aborted reports Aborted,
\* whichever of the lookups, the RPCs and Abort's own callback get there
\* first.
ImplementsSession == Session!Spec

=============================================================================
