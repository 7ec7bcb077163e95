# TLA+ models of the YugaByte client Batcher, the yugabyte-db supervisor, server start-up and scan bounds

This directory holds TLA+ models of the client-side Batcher (`src/unnamed/part_000`, which is
`batcher.cc`) and of the `yugabyte-db start` supervisor (`src/bin/yugabyte-db`) with the
server start-up steps it observes (`server_base.cc`), of the server's own start-up and
shutdown with its metrics-logging thread (`server_base.cc`), of the scan bounds and file
filter of `doc_pgsql_scanspec.cc`, and the TLC configurations that check them. It also inventories the other
sources of the repository and plans how they will be modelled. `PROJECT.json` is the
machine-readable index:

- the components and whether each is modelled;
- every TLC run and what it checks;
- a mutant for every checked property;
- the map from each definition to the source lines it models;
- the findings;
- the hazards of the code, with the properties that cover them.

## 1. Inventory

### Components of the repository

| Source | What it is | Status |
|---|---|---|
| `src/unnamed/part_000` (batcher.cc) | The Batcher: it admits operations, looks up their tablets, groups them into RPCs, processes responses and calls back once | modelled (`Batcher`, `GroupingPlanner`) |
| `src/bin/yugabyte-db` | Python supervisor: starts yb-master and yb-tserver, writes pidfiles, restarts dead children, kills its process group on exit | the `start` command is modelled (`Supervisor`) |
| `src/src/yb/server/server_base.cc` | Server start-up: messenger, RPC bind, the dump-info file, shutdown | partly: Init, Start, Shutdown, the metrics thread and the test connectivity helpers (`ServerBase`); the bind and dump as the supervisor sees them (`Supervisor`) |
| `src/src/yb/docdb/doc_pgsql_scanspec.cc` | Pure computation of scan bounds and the range-based file filter | modelled (`DocPgsqlScanSpec`, `MCDocPgsqlScanSpec`) |
| `src/src/yb/tablet/tablet-harness.h` | Unit-test fixture | not modelled (see §7) |

### The Batcher: state, operations, interactions

State, all guarded by `mutex_` except where noted:

- `state_`: Gathering, Flushing, Flushed or Aborted.
- `ops_`: the admitted in-flight ops that have not been removed.
- `ops_queue_`: ops whose lookup succeeded, waiting to be sent.
- `outstanding_lookups_`.
- `next_op_sequence_number_`.
- `flush_callback_`.
- `combined_error_` and `had_errors_` (an atomic).
- Per op: the op's state (LookingUpTablet or BufferedToTabletServer), its tablet and its
  sequence number.

Five kinds of thread call into a Batcher:

1. **Session thread.** It calls `Add` (with `AddInFlightOp`), `FlushAsync` (which then runs
   `CheckForFinishedFlush` and `FlushBuffersIfReady`) and `Abort`.
2. **Meta-cache callback, one per lookup.** It runs `TabletLookupFinished`. Under the lock it
   decrements `outstanding_lookups_`. If the batch is aborted, the op is failed with
   Aborted. Otherwise the op is queued, or failed if the lookup failed. Outside the lock it
   then runs `CheckForFinishedFlush` (failed lookups only) and `FlushBuffersIfReady`.
3. **Transaction callback.** `Prepare` may defer. It later calls `TransactionReady`, which
   re-enters `FlushBuffersIfReady` on OK or calls `Abort` on an error.
4. **RPC completion, one per RPC.** It runs `ProcessRpcStatus` and
   `ProcessWriteResponse` / `ProcessReadResponse` (recording errors), then
   `RemoveInFlightOpsAfterFlushing` (erasing its ops from `ops_`), then
   `CheckForFinishedFlush`.
5. **Callback executor.** It runs the user's flush callback. `RunCallback` moves
   `flush_callback_` into the runnable outside the lock.

`FlushBuffersIfReady` has two parts:

- **Under the lock:** the Flushing state and `outstanding_lookups_ == 0` rendezvous, then
  `Prepare`, then the swap of `ops_queue_`.
- **Outside the lock:** the sort by (tablet pointer, OpGroup, sequence number), and the scan
  that cuts runs at a tablet change, an OpGroup change, or `kMaxSidecarSlices` sidecar ops.
  Each run becomes one `FlushBuffer` call with its `need_consistent_read`.

### What is hard

These behaviours are listed as hazards in `PROJECT.json`:

- **Interleaving at every lock boundary.** A lookup can finish before or after
  `FlushAsync` and before or after `Abort`. RPCs complete in any order. Several threads
  can reach `CheckForFinishedFlush` at once.
- **The unlocked move of `flush_callback_`** (line 226) against `Abort`'s locked read of it
  (line 152).
- **`Prepare` deferral**, and its callback arriving after the batch has finished.
- **`Abort` during Flushing**, which fails ops that are already inside an RPC.
- **Partial failure**, in two forms:
  - RPC-level errors against every op of the RPC;
  - per-row errors against a subset of a write RPC's ops.

  Both feed the combine-mode aggregation.
- **Boundary arithmetic in the planner:** the sidecar cut (`>=` before counting the
  current op), and the two different `need_consistent_read` expressions.

### Properties, per component

| Component | Properties |
|---|---|
| GroupingPlanner | `RunsMatchReference`: the sort and scan produce exactly the runs of an independent reference, cuts and consistency flags included |
| Supervisor | `SingleInstance`, `StayUp`, `ServersRestarted`, `DataDirSafe` |
| Batcher | `LookupCountMatches`, `SingleCallback`, `BatchSettles`, `NoCrash`, `ConsistentReadWhenSplit`, `DispatchOrder`, `TerminalStatus`, `FlushCallsBack` |

## 2. Plan

Module order:

1. `GroupingPlanner` (pure operators) and `MCGroupingPlanner` (checked against the
   reference). **Done.**
2. `Batcher`, the threaded state machine, which EXTENDS `GroupingPlanner`, and `MCBatcher`
   with its cfgs. **Done.**
3. `BatcherAbstract`, what the session sees of a batch, and the refinement that shows
   `Batcher` implements it (§3). **Done.** It is checked on the `txn_abort` run. Because
   of the `txn_fail` finding, it can hold only where `SingleCallback` holds.
4. `Supervisor` models `bin/yugabyte-db`. **Done** (§3); the questions below are answered
   by the `sup_*` runs:
   - two concurrent `start` invocations sharing the data directory and the pidfiles;
   - children that crash and are restarted by the polling loop;
   - `is_initalized` reading the info files that `RpcServerBase::StartRpcServer` dumps
     after binding;
   - `kill_yugabyte` deleting pidfiles and signalling the process group.

   Its questions:
   - Can a second start wipe the data directory of an instance that is still initialising?
   - Do pidfiles always name a live child of the owning supervisor?
   - Is every dead child eventually restarted?
5. `DocPgsqlScanSpec`: the bound computation and the file filter, checked against a
   reference over every small scan and file. **Done.**
6. `ServerBase`: the server's own start-up and shutdown against its metrics thread.
   **Done.**

## 3. Modules and how they map to the code

### `GroupingPlanner.tla`

- `GetOpGroup`, `IsOkToReadFromFollower` and `IsQLConsistentPrefixRead` translate lines
  407–431.
- `SortLess` is the `std::sort` comparator (477–489). `SortOps` applies it with
  `SetToSortSeq`.
- `ScanRuns` is the scan loop (491–520). It is RECURSIVE over the sorted sequence, with the
  loop's `start`, `num_sidecars` and iterator as parameters. An inner run gets
  `need_consistent_read = force || start != begin || it != end`; the last run gets
  `force || start != begin`, as the code writes them.
- An op is described by a record `[op, tablet, kind, sidecar, seq]`. Tablet pointers are
  integers in pointer order.

### `MCGroupingPlanner.tla`

Each initial state is one input: a ready set of up to `MaxOps` ops and the force flag.
`RefRuns` is a reference definition written from what the runs must be, not from the
loop:

- sort by rank on the lexicographic key;
- cut at every tablet or group change, and wherever the sidecar chunk number (the count of
  earlier sidecar ops in the block, divided by the cap) changes;
- require consistency iff forced or there is more than one run.

### `Supervisor.tla` and `MCSupervisor.tla`

Every `yugabyte-db start` invocation is a supervisor in `Sups`. All invocations share one
data directory: `dataDir`, `infoFiles`, one `pidfile` per server name and one ERROR log
per name (`errLog`). They also share the RPC port of each name (`port`). A server process
is a record `[sup, name, k]`: the supervisor that started it, the name, and the start count.
Pids are therefore never reused.

- **Script steps.** `pc` is where a supervisor's script is. Each step is one file-system
  operation. Where the script reads a file and acts on what it read later, the read and
  the act are separate steps, and the value read is kept in a per-supervisor variable
  (`readPid`, `half`) in between:

  | Action | Code (`src/bin/yugabyte-db`) |
  |---|---|
  | `Start` | `start`: handlers, atexit, `is_initalized` (56–61) |
  | `Clean` | `rmtree` of a half-initialised directory, `makedirs`, `self.processes` (61–76, 166) |
  | `CheckRunningRead` | `p.get_pid()` in the already-running loop: the pidfile is read (171–172, 411–419) |
  | `CheckRunning` | the rest of `get_pid` (ps, deletion of a stale pidfile), then "already running" or the next name (172–179, 421–429) |
  | `Spawn` | `p.start()` for each name, in `initalize` or in the initialised branch (181–191, 216–219) |
  | `WritePid` | the second half of `ProcessManager.start`: the pid is written into the file opened `"w+"`. If someone removed the pidfile since, the write goes to the removed file (400–401) |
  | `IsRunningRead` | `is_running` in either loop: `check_fatals`, then the pidfile read of `get_pid` (461–462) |
  | `InitCheck` | the wait loop of `initalize`, once `is_running` has its answer (221–228) |
  | `Poll` | the `while True` loop, once `is_running` has its answer (193–198) |
  | `Restart` | "died unexpectedly. Restarting...": `p.start()` (197–199) |
  | `KillYugabyte` | `kill_yugabyte`, first step: the pidfiles of `self.processes` are deleted (127–139) |
  | `KillPg` | `kill_yugabyte`, second step: `killpg(SIGTERM)`. The script ends, and its servers become `"stopping"` (141–144) |
  | `Signal` | SIGINT, SIGTERM or SIGABRT to a supervisor in `Signalled`. The handler runs `kill_yugabyte`, and the interrupted step never resumes |
- **Helpers.**
  - `StartProc` is the first half of `ProcessManager.start`: the ERROR log is removed, the
    server is spawned, and the pidfile is opened `"w+"`, which leaves it empty
    (`EmptyFile`) until `WritePid` runs. `pending` and `unlinked` track that open file.
  - `ReadPid` is `get_pid`'s read. A missing file gives None. An empty file fails `int()`
    and is deleted. `PidShown` and `PsDrop` are its second half. `PsShowsName` is the test
    on `ps`: the server itself is alive, or its pid now belongs to another process whose
    command contains the name. `PsDrop` deletes the pidfile by path, whatever it holds by
    then. `DeletePidfile` is `delete_pidfile`.
  - `Running` is `is_running`'s answer: `get_pid()` and `poll() is None`. `GetPid` and
    `IsRunning` are the same tests taken in one observation. They are used only for what
    the user sees (`DatabaseUp`).
  - `FatalExit` is `check_fatals` finding a bind error and calling `log_error_and_exit`.
    The atexit hook then runs `kill_yugabyte`.
- **Servers.** `Bind` is `RpcServerBase::Init` (server_base.cc 210–241). It binds the
  name's port, or logs the failure and exits. `DumpInfo` is `StartRpcServer` (349–360):
  the info file is written only if the command line has `--server_dump_info_path`
  (`DumpsInfo`). The tserver always has it; the master has it only when its supervisor
  found the directory uninitialised.
- **Environment.** `ServerExit` is a server that got SIGTERM from `killpg` exiting. `Crash` kills a live server, at most `MaxCrashes` times. `ReusePid`
  hands a dead server's pid to another process with the server's name, at most
  `MaxReuses` times (once in `sup_single`, never in the other runs).
  `DatabaseUp` says when a supervisor in `LateSups` may start: the user has seen another
  supervisor print its success message, so that supervisor is polling with both servers
  running.
- **Abstractions.**
  - The four info files are two: the tserver writes its redis and cql files along with its
    own.
  - A pidfile holds a process, nothing, or nothing yet (`EmptyFile`, between `open("w+")`
    and the write). Other unparsable contents are not modelled.
  - `kill_yugabyte` deletes both pidfiles in one step, and `killpg` reaches only the
    servers the same invocation started. Each invocation runs in its own process group,
    as it does when started from an interactive shell.
  - The log symlink and the `.out`/`.err` files are left out.

### `Batcher.tla`

- **Variables.** Each one is named after the field it models (see the comments in the
  VARIABLES block). `cb` is `flush_callback_`: none, set, or moved-from. `crash` records the
  CHECK or fault that would end the process. A CHECK failure is a state, not a deadlock,
  so that TLC reports it as a violation of `NoCrash`.
- **Threads.** Each thread has a `todo` list of steps. A step is one critical section or
  one stretch of code outside the lock, in the order the code runs them. An RPC's thread
  is named by its first op. A deferred Prepare registers one transaction-callback thread.
- **Actions:**

  | Action | Code |
  |---|---|
  | `Add` | `Add` + `AddInFlightOp` |
  | `FlushAsync` | `FlushAsync` |
  | `UserAbort` | `Abort` from the session |
  | `LookupFinished` | `TabletLookupFinished` |
  | `CheckForFinishedFlush` / `FinishFlush` | `CheckForFinishedFlush`, under and outside the lock |
  | `FlushBuffers` | the locked part of `FlushBuffersIfReady` |
  | `FlushBuffer` | `FlushBuffer`, one run at a time, outside the lock |
  | `ProcessResponse` | `ProcessRpcStatus` and the per-row loop |
  | `RemoveInFlightOps` | `RemoveInFlightOpsAfterFlushing` |
  | `TransactionReady` | `TransactionReady` |
  | `TxnResolve` | the transaction becoming ready or failing |
  | `AbortLocked` / `AbortCallback` | the two halves of `Abort` |
  | `Done` | stuttering once every thread is idle or the process is dead |

- **Data abstraction.**
  - A Status is its code.
  - A lookup result is a tablet in `Tablets` or a failure.
  - An RPC response is either an RPC-level failure of every op, or a set of failed rows.
    Read RPCs have no row errors.

### `BatcherAbstract.tla` and the refinement

`BatcherAbstract` is the promise a session relies on. A batch admits operations while
`"gathering"`. `Flush` starts a flush. `Abort` ends a gathering batch at once (`"aborted"`,
no callback); a flushing batch still calls back. `CallBack(st)` runs once, and with
`"Aborted"` when the session aborted. Weak fairness on `CallBack` says a flush is never left
hanging.

`Batcher.tla` instantiates it as `Session`:

- `phase` is `SessionPhase`: `"called"` once `RunCallback` ran; `"gathering"` while
  `state_` is `kGatheringOps`; `"aborted"` for a batch aborted with no callback
  registered; `"flushing"` otherwise, which includes Flushed and Aborted batches whose
  callback has not run yet.
- `admitted` is the set of ops `Add` has taken, `aborted` is `userAborted`, and `status`
  is the status the callback received.

`ImplementsSession == Session!Spec` is a PROPERTY of the `txn_abort` run. TLC thus checks
every step of `Batcher` against a step of `BatcherAbstract` or a stutter, and checks the
abstract fairness under `Batcher`'s.

### `DocPgsqlScanSpec.tla` and `MCDocPgsqlScanSpec.tla`

`DocPgsqlScanSpec` holds operators only. Keys are sequences of byte ranks and compare as
slices do: at the first differing byte, then by length. The ranks of the value types that
occur (kLowest, kGroupEnd, kHybridTime, kUInt16Hash, kInt32, kColumnId, kTableId,
kTombstone, kHighest) keep their order in `value_type.h`. An int32 is one byte after
its type; the order of values is what matters.

| Definition | Code (doc_pgsql_scanspec.cc) |
|---|---|
| `FileFilter`, `EncodePrimitiveValues` | the filter's constructor and its encoding helper (29–45) |
| `Filter`, `GreaterOrEquals` | `PgsqlRangeBasedFileFilter::Filter` and its comparison (47–72) |
| `doc_key_`, `lower_doc_key_`, `upper_doc_key_`, `start_doc_key_` | the two constructors (81–108) |
| `ToDocKeyHash`, `bound_key` | `bound_key` with the uint16 truncation of the hash codes (118–149) |
| `range_components` | `range_components` (151–159) |
| `Bound` | `Bound`, the DocKey branch, the paging branch and the hash branch (161–191) |
| `CreateFileFilter` | `CreateFileFilter` (193–202) |

`MCDocPgsqlScanSpec` makes every input an initial state and never changes it. A scan
input is a table, hash- or range-partitioned, with or without a cotable id, and a scan
from either constructor. A start key comes from the scan's own paging state, so it has the
scan's hashed values and lies in its hash range. A filter input is a pair of bound vectors
(or the pair `CreateFileFilter` builds) and a file of up to two rows, with boundaries per
component or without. The reference says which rows a scan must read (`Matches`) and which
file rows lie within bounds (`RowWithin`).

### `ServerBase.tla` and `MCServerBase.tla`

Two threads: the owner, which runs the constructors, `Init`, `Start` and then the two
destructors, and the metrics-logging thread, which `StartMetricsLogging` spawns. `pc` is the
owner's place; `logger` is the thread's.

- **Init** (`FsOpen`, `FsCreate`, `ClockInit`, `BuildMessenger`, `RpcInit`, `RpcBind`,
  `InitDone`, `StartMetricsLogging`): every fallible call is a step with a failure
  disjunct, `Fail`, which goes straight to destruction, as an error returned to the owner
  does.
- **Start** (`GenerateInstanceID`, `WebStart`, `RegisterService`, `StartRpcServer`):
  `StartRpcServer` starts the RPC server, then dumps the info file through
  `DumpServerInfo`, which fails on an unsupported format. The file holds `StatusPB`, the
  instance and the bound RPC and HTTP addresses as seen at the dump.
- **Shutdown** (`ShutdownLatch`, `ShutdownJoin`, `ShutdownServers`, `WebStop`, `Release`):
  `~RpcAndWebServerBase` and `~RpcServerBase` both call `Shutdown`, so the latch is counted
  down and the thread joined twice; `round` tells the two calls apart.
- **Metrics thread** (`LoggerWait`, `LoggerCollect`, `LoggerAppend`, `LoggerClose`): wait
  on the latch for the interval, collect, append, and on failure wait and go on.
- **Test connectivity** (`TEST_SetupConnectivity`, `TEST_Isolate`): calls a mini-cluster
  test makes on the messenger of a serving server. `broken` is the set of addresses the
  messenger refuses, an address being the last byte `TEST_RpcAddress` resolves to.
  `SetupLoop` is the loop over the 20 servers, as a RECURSIVE operator. An index outside
  1..20 trips the `CHECK`s and ends the process (`pc = "crashed"`).
- **Registration** (`GetRegistration`, `UseBoundAddresses`): a call the derived server
  makes while serving. It registers the configured RPC addresses, or the bound ones when
  there are several, one is the wildcard `kWildCardHostAddress` or the port is 0. Then,
  unless `rpc_only`, it registers the bound HTTP addresses. `AddHostPortPBs` (not in
  this repository) is modelled from the comment at line 446: it resolves a wildcard to
  the host's name, which may fail. `BoundEndpoint` is the system's bind: port 0 becomes
  `EphemeralPort`.

`MCServerBase` gives the address configurations as definitions, since a `.cfg` cannot
write records or nested tuples.

## 4. Runs

| Run | Config | Result | Shows |
|---|---|---|---|
| `planner` | `MCGroupingPlanner.cfg` | pass | The sort and scan match the reference for every ready set of ≤ 4 ops over 2 tablets and 3 kinds, cap 2, force on and off. |
| `core` | `MCBatcher.cfg` | pass | 3 ops, no transaction, Abort while gathering: all safety properties hold. |
| `txn_abort` | `MCBatcherTxnAbort.cfg` | pass | 2 ops, a transaction that defers then becomes ready, and a session that aborts while gathering or while a flush waits for a lookup (spec S5). Late lookups fail as Aborted, nothing crashes, there is one callback, and the flush callback eventually runs. The Batcher implements `BatcherAbstract` (`ImplementsSession`). |
| `sup_single` | `MCSupervisorSingle.cfg` | pass | One supervisor, every initial directory state, 2 crashes, one reused pid, a signal. `get_pid`, the pidfile write and `kill_yugabyte` each take separate steps. Dead servers are restarted (`ServersRestarted`), even when a reused pid makes `get_pid` find a process. |
| `sup_late` | `MCSupervisorLate.cfg` | violation of `SingleInstance` | See findings. |
| `sup_slow_init` | `MCSupervisorSlowInit.cfg` | violation of `DataDirSafe` | See findings. |
| `sup_late_signal` | `MCSupervisorLateSignal.cfg` | violation of `StayUp` | See findings. |
| `txn_fail` | `MCBatcherTxnFail.cfg` | violation of `SingleCallback` | See findings. |
| `abort_inflight` | `MCBatcherAbortInFlight.cfg` | violation of `NoCrash` | See findings. |
| `scan_bounds` | `MCDocPgsqlScanSpec.cfg` | pass | For every small scan the bounds enclose every key of every row the scan must read (`BoundsCoverScan`) and leave out rows out of the hash range, before the start key, or of another DocKey (`BoundsExcludeOthers`). For every bound pair and small file, `Filter` keeps every file holding a row within the bounds (`FilterSound`). |
| `scan_backward_paging` | `MCDocPgsqlScanSpecBackward.cfg` | violation of `BoundsCoverScan` | See findings. |
| `server_lifecycle` | `MCServerBase.cfg` | pass | Every outcome of every fallible call of Init and Start, then destruction, against the metrics thread: nothing outlives the server, the thread stops only on Shutdown, an info file means the RPC server serves, test connectivity follows the server pairs after any sequence of setups and isolations, a successful registration lists only reachable addresses on bound ports (`RegistrationReachable`), and destruction finishes. |

### Bounds

- **Two tablets, cap of 1 sidecar, kinds covering two OpGroups (one with sidecars).**
  These are enough for every cut reason of the scan to occur: tablet change, group change,
  sidecar cap.
- **Three ops in the core run.** Three are needed for a run split by the sidecar cap to
  sit beside a run for another tablet, and for two lookups to race a failed third.
- **`AbortWindow` says when the session calls Abort.** The Batcher itself does not restrict
  Abort. The `core` and `txn_fail` runs let the session abort only while gathering, before any RPC can exist, the window
  the spec calls safe. The `abort_inflight` run lets it abort at any time.
- **Two ops in the liveness, abort and transaction runs.** These keep the runs without symmetry
  under a minute.
- **The planner run** uses a cap of 2 and up to 4 ops, so that a cut happens in the middle
  of a run. It uses three kinds, one per OpGroup: a write, a consistent-prefix QL read and
  a leader read. Follower reads are off in that run, so the follower-read branch of
  `GetOpGroup` is exercised by no run.

- **Supervisor runs.**
  - **Two supervisors.** Two are enough for one to act on the other's files.
  - **`MaxStarts` of 2 or 3.** Each bounds the starts of one supervisor per name. It
    allows the initial start and every restart that `MaxCrashes` crashes can cause.
  - **`InitPolls` = 2.** It stands for `range(60)`. Two passes already let `initalize`
    give up while a server is still binding.
  - **`DirStates`.** It selects the initial directory: absent, half-initialised or
    initialised. The `sup_late` and `sup_late_signal` runs start from an initialised
    directory.

- **Scan runs.** Values {1, 2, 3} in `scan_bounds` (and {1, 2} in the backward-paging run)
  give a row before, at and after every start key, including one strictly inside the
  scan's range. Hash codes 0, 255, 256 and 65535 sit on both byte boundaries of
  the uint16 hash and at its ends. Files of up to two rows make the smallest and largest
  boundary differ.
- **Server run.** Formats `json` and one unsupported format give both outcomes of the
  dump. Test indexes 0 and 20 are the two edges of the `CHECK`s; 1, 2 and 3 are the two
  members of one pair and a member of the next, which is enough for a setup to have to
  restore what an earlier setup or `TEST_Isolate` broke.
  The four RPC address configurations are one IP with a port, a wildcard, port 0, and
  two addresses; each makes one clause of the fallback test decide. The web server binds
  the wildcard, as by default, so the HTTP side always needs name resolution.
- **Pid reuse.** One reuse in `sup_single` is enough for a crashed server's pid to pass
  `get_pid` while the loop polls.

### Symmetry

The op identities are interchangeable. The core run declares `Permutations(Ops)` as
symmetry. Sequence numbers, not op names, carry the order. The liveness runs use no
symmetry. The supervisor runs use none either: `LateSups` and `Signalled` name particular
supervisors.

## 5. Fairness

`Fairness` is weak fairness on every thread's next step and on `TxnResolve`. It is
justified by the following:

- Every thread step is code that runs to completion once scheduled. The lock is a
  spinlock held only for short sections.
- The meta cache and every RPC complete by their deadline, with an error at worst.
- The transaction resolves.

The session has no fairness: it need not call `Add`, `FlushAsync` or `Abort`.

In `Supervisor`, `Fairness` is weak fairness on each script step and on each server's
`Bind`, `DumpInfo` and `ServerExit`. The script never blocks: its loops sleep and go on.
A spawned server gets through `Init` and `StartRpcServer` or exits. A server that got
SIGTERM exits. Users, signals and crashes get no fairness: `Start`, `Signal` and `Crash`
need never happen.

In `ServerBase`, `Fairness` is weak fairness on the owner and on the metrics thread: both
run code that completes once scheduled, and the latch wait has a 60 s timeout. `Stop` (a
signal to the server), the test calls and GetRegistration get none: nothing forces a server to stop or a
test to call.

## 6. Findings

1. **txn_fail: the flush callback can run twice.**
   - `FlushBuffersIfReady` calls `Prepare` even when no op is left to send (lines 453–468),
     so `Prepare` can defer after every op has failed its lookup.
   - `CheckForFinishedFlush` then makes the batch Flushed and runs the callback.
   - When the transaction later fails, `TransactionReady` calls `Abort`. `Abort` sets
     `kAborted` on the Flushed batch and finds `flush_callback_` non-empty (line 152),
     because `RunCallback`'s move happens outside the lock.
   - Result: a second callback, or a call through a moved-from `std::function`.
2. **abort_inflight: Abort during Flushing crashes the process.**
   - `Abort` fails ops in `kBufferedToTabletServer`, and dispatched ops keep that state.
   - The RPC's completion then trips `CHECK_EQ(state_, kFlushing)` (line 623) or the erase
     CHECK (line 605).
   - The spec says in-flight ops complete normally.

3. **sup_slow_init: a second start deletes the data of a running database.**
   - `start_processes` ignores what `initalize` returns (line 187). Servers that have not
     dumped every info file within the wait are polled anyway, and the loop prints
     "YugaByte DB started successfully!" (line 200).
   - A later `yugabyte-db start` finds `is_initalized` false. It removes the data
     directory (line 66) before its already-running check (line 171), under the live
     servers.
   - The log message says the removal is for data "from failed initialization".
4. **sup_late_signal: interrupting a second start takes the database down.**
   - `self.processes` is filled (line 166) before the already-running check. The comment
     at line 177 clears it "so kill_yugabyte() doesn't kill existing processes".
   - A signal in between runs `kill_yugabyte`. It deletes the running database's pidfiles
     (line 139).
   - The first supervisor then finds no pid and restarts a live server. The restarted
     server fails to bind, and `check_fatals` ends the supervisor and its process group.

5. **sup_late: a signalled supervisor leaves a window for a second database.**
   - `kill_yugabyte` deletes the pidfiles (line 139) before it sends SIGTERM to the process
     group (line 144). Its servers exit only some time after that.
   - A second `yugabyte-db start` whose already-running check (line 171) reads the pidfiles
     in that window finds none. It starts yb-master and yb-tserver beside the first's live
     servers, on the same data directory.
   - The already-running check, and its comment at line 177, exist to stop a second
     database from starting.

6. **scan_backward_paging: a backward page loses the columns of its start row.**
   - The comment on `Bound` (line 161) promises the inclusive bounds considering
     `start_doc_key`.
   - A forward scan gets the start key as its lower bound, and a DocKey sorts before its
     subdocument keys, so the start row is read whole.
   - A backward scan gets the bare start key as its upper bound (line 188). Every column
     key of the start row sorts above it and falls outside. The DocKey branch (lines
     170–172) appends kHighest for exactly this reason.

## 7. Not modelled, and why

- **Deadlines and `SetTimeout`.** A timeout surfaces as a failed lookup or a failed RPC,
  and both are modelled.
- **`SetHashCode` in `Add`.** A payload rewrite that no property observes.
- **`buffer_bytes_used_`.** Never updated in this file.
- **The session's `FlushFinished` hook.**
- **Read point and hybrid-time propagation.** They touch no Batcher state.
- **YBTransaction internals and the meta cache.** They are not in this repository. The
  transaction is modelled from the spec's contract.
- **The Batcher's lifetime (BatcherPtr).** The known race with destruction is covered only
  by `BatchSettles`.
- **The synchronous-Prepare self-deadlock.** Listed as a hazard with no property, because
  it depends on transaction code outside the repository.
- **The supervisor's other commands** (`status`, `version`, `connect`) only read files or
  exec a client. Argument and config-file parsing and the log symlink are also left out.
- **SIGKILL of the script.** No handler or atexit hook runs, so only the servers'
  `--stop_on_parent_termination` could end them. That watch is server code outside this
  repository, and `--undefok` lets a binary without it ignore the flag. The hazard is
  listed with no property.
- **Two supervisors restarting a crashed server.** `ServersRestarted` is checked with one
  supervisor. With two, `sup_late` already fails `SingleInstance`, and no run slot is left
  for a second pass run.
- **Pid reuse at a later start.** A reused pid makes the already-running check of a later
  start (line 172) report a database that is not running. No run checks it: every run
  slot is taken, and `sup_single` covers only what the polling loop does with a reused pid.
- **The rest of `server_base.cc`.** The web pages and their footer,
  hostnames and users, address formatting, and the mem tracker's naming counter change no
  state another part observes.
- **`tablet-harness.h`.** A straight-line test fixture. Its state changes happen inside
  FsManager, RaftGroupMetadata and Tablet, which are not in the repository, and most of
  its lines are comments.
- **The key encodings.** Values are one byte after their type; the real varint and
  big-endian encodings keep the same order, which is all the bounds depend on.
