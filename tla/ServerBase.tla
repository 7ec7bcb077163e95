----------------------------- MODULE ServerBase -----------------------------
(***************************************************************************)
(* The life of one yb::server::RpcAndWebServerBase (server_base.cc): the   *)
(* thread that owns it constructs it, calls Init and, when Init succeeds,  *)
(* Start; it serves until it is told to stop and then destroys it.  The    *)
(* destructors of RpcAndWebServerBase and of RpcServerBase each call       *)
(* Shutdown.  Concurrently with the owner runs the metrics-logging thread  *)
(* that StartMetricsLogging creates, stopped through a CountDownLatch.     *)
(*                                                                         *)
(* Every call into another library that returns a Status (FsManager, the   *)
(* clock, the messenger, RpcServer, Webserver, the file the server info is *)
(* dumped to, the metric registry and the rolling log) may fail; which one *)
(* does is a nondeterministic choice.                                      *)
(***************************************************************************)
EXTENDS Naturals, Sequences, TLC

CONSTANTS
  LogMetrics,     \* options_.metrics_log_interval_ms > 0
  DumpInfoPath,   \* options_.dump_info_path is not empty
  DumpFormats,    \* options_.dump_info_format up to case: "json", "pb" or another
  NoInfo,         \* no server info file has been written
  CheckBroadcastAddress, \* FLAGS_TEST_check_broadcast_address
  Indices,        \* the indexes a test passes to TEST_SetupConnectivity
  RpcConfigs,     \* the options' rpc_bind_addresses: sequences of <<host, port>>
  WebConfig,      \* the web server's bind address <<host, port>>
  EphemeralPort,  \* the port the system assigns to a bind to port 0
  NoRegistration  \* GetRegistration has not been called

VARIABLES
  pc,             \* the owner thread's next step
  round,          \* which destructor's Shutdown call is running (1 or 2)
  initialized,    \* initialized_
  firstRun,       \* is_first_run_
  rpc,            \* rpc_server_: created, inited, bound, started, shutdown
  messenger,      \* messenger_: none, built, shutdown
  web,            \* web_server_: created, started, stopped
  instance,       \* instance_pb_ is set
  logger,         \* the metrics-logging thread: none, wait, collect, append, exit, closed
  loggerThread,   \* metrics_logging_thread_ is set
  joined,         \* the owner has joined the metrics-logging thread
  latch,          \* the count of stop_metrics_logging_latch_
  info,           \* the server info file, or NoInfo
  format,         \* options_.dump_info_format
  broken,         \* the addresses the messenger has broken connectivity with
  outbound,       \* the messenger's outbound IP base, 0 when not set
  setupFor,       \* the index of the last TEST_SetupConnectivity, 0 after TEST_Isolate
  rpcAddrs,       \* options_.rpc_opts.rpc_bind_addresses, as RpcServer parsed them
  registration    \* the last ServerRegistrationPB GetRegistration filled

testVars == <<broken, outbound, setupFor>>
regVars == <<rpcAddrs, registration>>

vars == <<pc, round, initialized, firstRun, rpc, messenger, web, instance,
          logger, loggerThread, joined, latch, info, format, testVars, regVars>>

\* The constructor of RpcServerBase, and the derived server's call of
\* SetConnectionContextFactory, which creates rpc_server_.
RpcServerBaseCtor ==
  /\ round = 1
  /\ initialized = FALSE
  /\ firstRun = FALSE
  /\ rpc = "created"
  /\ messenger = "none"
  /\ instance = FALSE
  /\ logger = "none"
  /\ loggerThread = FALSE
  /\ joined = FALSE
  /\ latch = 1
  /\ info = NoInfo
  /\ format \in DumpFormats
  /\ broken = {} /\ outbound = 0 /\ setupFor = 0
  /\ rpcAddrs \in RpcConfigs
  /\ registration = NoRegistration

\* The constructor of RpcAndWebServerBase: the web server and the
\* FsManager, which the owner opens next with Init.
RpcAndWebServerBaseCtor ==
  /\ web = "created"
  /\ pc = "fs_open"

Init == RpcServerBaseCtor /\ RpcAndWebServerBaseCtor

\* The owner gives up on an error Status and destroys the server: the
\* destructor of RpcAndWebServerBase starts with Shutdown.
Fail == pc' = "sd_latch"

-----------------------------------------------------------------------------
(* RpcAndWebServerBase::Init, then RpcServerBase::Init.                    *)
(***************************************************************************)

\* fs_manager_->Open(); on NotFound a first run creates the layout.
FsOpen ==
  /\ pc = "fs_open"
  /\ \/ pc' = "clock" /\ UNCHANGED firstRun
     \/ pc' = "fs_create" /\ firstRun' = TRUE
     \/ Fail /\ UNCHANGED firstRun
  /\ UNCHANGED <<round, initialized, rpc, messenger, web, instance, loggerThread,
                 joined, latch, info, logger, format, testVars, regVars>>

\* CreateInitialFileSystemLayout(), then Open() again.
FsCreate ==
  /\ pc = "fs_create"
  /\ pc' = "clock" \/ Fail
  /\ UNCHANGED <<round, initialized, firstRun, rpc, messenger, web, instance,
                 loggerThread, joined, latch, info, logger, format, testVars, regVars>>

\* CHECK(!initialized_), then clock_->Init().
ClockInit ==
  /\ pc = "clock"
  /\ ~initialized
  /\ pc' = "messenger" \/ Fail
  /\ UNCHANGED <<round, initialized, firstRun, rpc, messenger, web, instance,
                 loggerThread, joined, latch, info, logger, format, testVars, regVars>>

\* SetupMessengerBuilder, which always succeeds, and builder.Build().
BuildMessenger ==
  /\ pc = "messenger"
  /\ \/ pc' = "rpc_init" /\ messenger' = "built"
     \/ Fail /\ UNCHANGED messenger
  /\ UNCHANGED <<round, initialized, firstRun, rpc, web, instance,
                 loggerThread, joined, latch, info, logger, format, testVars, regVars>>

\* rpc_server_->Init(messenger).
RpcInit ==
  /\ pc = "rpc_init"
  /\ \/ pc' = "rpc_bind" /\ rpc' = "inited"
     \/ Fail /\ UNCHANGED rpc
  /\ UNCHANGED <<round, initialized, firstRun, messenger, web, instance,
                 loggerThread, joined, latch, info, logger, format, testVars, regVars>>

\* rpc_server_->Bind().
RpcBind ==
  /\ pc = "rpc_bind"
  /\ \/ pc' = "metrics" /\ rpc' = "bound"
     \/ Fail /\ UNCHANGED rpc
  /\ UNCHANGED <<round, initialized, firstRun, messenger, web, instance,
                 loggerThread, joined, latch, info, logger, format, testVars, regVars>>

\* Init ends by setting initialized_.
InitDone == pc' = "instance_id" /\ initialized' = TRUE

\* StartMetricsLogging creates the thread only when an interval is set.
StartMetricsLogging ==
  /\ pc = "metrics"
  /\ \/ /\ InitDone
        /\ loggerThread' = LogMetrics
        /\ logger' = IF LogMetrics THEN "wait" ELSE "none"
     \/ LogMetrics /\ Fail /\ UNCHANGED <<initialized, loggerThread, logger>>
  /\ UNCHANGED <<round, firstRun, rpc, messenger, web, instance, joined, latch, info, format, testVars, regVars>>

-----------------------------------------------------------------------------
(* RpcAndWebServerBase::Start, then RpcServerBase::Start.                  *)
(***************************************************************************)

\* GenerateInstanceID: instance_pb_ with the FS uuid and a sequence number.
GenerateInstanceID == instance' = TRUE

\* GenerateInstanceID, the path handlers and the footer, which reads
\* instance_pb_, then web_server_->Start().
WebStart ==
  /\ pc = "instance_id"
  /\ GenerateInstanceID
  /\ \/ pc' = "register" /\ web' = "started"
     \/ Fail /\ UNCHANGED web
  /\ UNCHANGED <<round, initialized, firstRun, rpc, messenger, loggerThread,
                 joined, latch, info, logger, format, testVars, regVars>>

\* RegisterService of the generic service.
RegisterService ==
  /\ pc = "register"
  /\ pc' = "start_rpc" \/ Fail
  /\ UNCHANGED <<round, initialized, firstRun, rpc, messenger, web, instance,
                 loggerThread, joined, latch, info, logger, format, testVars, regVars>>

\* RpcServerBase::GetStatusPB: the node instance and the bound RPC
\* addresses.
RpcStatusPB(r) ==
  [instance |-> instance, rpcBound |-> r \in {"bound", "started"},
   rpcStarted |-> r = "started"]

\* RpcAndWebServerBase::GetStatusPB adds the bound HTTP addresses.
StatusPB(r, w) == RpcStatusPB(r) @@ [httpBound |-> w = "started"]

\* DumpServerInfo writes GetStatusPB as JSON or as a protobuf; another
\* format is InvalidArgument, and writing the file may fail.
DumpServerInfo(r) ==
  \/ format \in {"json", "pb"} /\ info' = StatusPB(r, web) /\ pc' = "serve"
  \/ Fail /\ UNCHANGED info

\* A mutant that dumps the server info before rpc_server_->Start().
StartRpcServerDumpFirst ==
  /\ pc = "start_rpc"
  /\ initialized
  /\ \/ /\ rpc' = "started"
        /\ IF DumpInfoPath THEN DumpServerInfo(rpc) ELSE pc' = "serve" /\ UNCHANGED info
     \/ Fail /\ UNCHANGED <<rpc, info>>
  /\ UNCHANGED <<round, initialized, firstRun, messenger, web, instance,
                 loggerThread, joined, latch, logger, format, testVars, regVars>>

\* StartRpcServer: CHECK(initialized_), rpc_server_->Start(), then
\* DumpServerInfo when a dump path is set.
StartRpcServer ==
  /\ pc = "start_rpc"
  /\ initialized
  /\ \/ /\ rpc' = "started"
        /\ IF DumpInfoPath THEN DumpServerInfo(rpc') ELSE pc' = "serve" /\ UNCHANGED info
     \/ Fail /\ UNCHANGED <<rpc, info>>
  /\ UNCHANGED <<round, initialized, firstRun, messenger, web, instance,
                 loggerThread, joined, latch, logger, format, testVars, regVars>>

\* The owner is told to stop and destroys the server.
Stop ==
  /\ pc = "serve"
  /\ Fail
  /\ UNCHANGED <<round, initialized, firstRun, rpc, messenger, web, instance,
                 loggerThread, joined, latch, info, logger, format, testVars, regVars>>

-----------------------------------------------------------------------------
(* Destruction.  ~RpcAndWebServerBase calls RpcAndWebServerBase::Shutdown: *)
(* RpcServerBase::Shutdown and web_server_->Stop().  ~RpcServerBase then   *)
(* calls RpcServerBase::Shutdown a second time and releases rpc_server_    *)
(* and messenger_.                                                         *)
(***************************************************************************)

\* CountDownLatch::CountDown: the count stops at zero.
CountDown(n) == IF n > 0 THEN n - 1 ELSE 0

\* A mutant Shutdown that does not join the thread.
ShutdownNoJoin ==
  /\ pc = "sd_latch"
  /\ pc' = "sd_servers"
  /\ latch' = IF loggerThread THEN CountDown(latch) ELSE latch
  /\ UNCHANGED <<round, initialized, firstRun, rpc, messenger, web, instance,
                 loggerThread, joined, info, logger, format, testVars, regVars>>

\* A mutant Shutdown that joins the thread before counting the latch down.
ShutdownJoinFirst ==
  /\ pc = "sd_latch"
  /\ pc' = IF loggerThread THEN "sd_join" ELSE "sd_servers"
  /\ UNCHANGED <<round, initialized, firstRun, rpc, messenger, web, instance,
                 loggerThread, joined, latch, info, logger, format, testVars, regVars>>

\* With a metrics-logging thread: stop_metrics_logging_latch_.CountDown().
ShutdownLatch ==
  /\ pc = "sd_latch"
  /\ IF loggerThread
       THEN latch' = CountDown(latch) /\ pc' = "sd_join"
       ELSE pc' = "sd_servers" /\ UNCHANGED latch
  /\ UNCHANGED <<round, initialized, firstRun, rpc, messenger, web, instance,
                 loggerThread, joined, info, logger, format, testVars, regVars>>

\* metrics_logging_thread_->Join() returns once the thread has ended.
ShutdownJoin ==
  /\ pc = "sd_join"
  /\ logger = "closed"
  /\ pc' = "sd_servers"
  /\ joined' = TRUE
  /\ UNCHANGED <<round, initialized, firstRun, rpc, messenger, web, instance,
                 loggerThread, latch, info, logger, format, testVars, regVars>>

\* rpc_server_->Shutdown() and, once it is built, messenger_->Shutdown().
ShutdownServers ==
  /\ pc = "sd_servers"
  /\ rpc' = "shutdown"
  /\ messenger' = IF messenger = "none" THEN "none" ELSE "shutdown"
  /\ pc' = IF round = 1 THEN "web_stop" ELSE "release"
  /\ UNCHANGED <<round, initialized, firstRun, web, instance, loggerThread,
                 joined, latch, info, logger, format, testVars, regVars>>

\* web_server_->Stop() ends ~RpcAndWebServerBase; ~RpcServerBase calls
\* Shutdown again.
WebStop ==
  /\ pc = "web_stop"
  /\ web' = "stopped"
  /\ round' = 2
  /\ pc' = "sd_latch"
  /\ UNCHANGED <<initialized, firstRun, rpc, messenger, instance, loggerThread,
                 joined, latch, info, logger, format, testVars, regVars>>

\* rpc_server_.reset(), messenger_.reset(), and the members are freed:
\* metric_registry_ and the thread handle with them.
Release ==
  /\ pc = "release"
  /\ pc' = "done"
  /\ UNCHANGED <<round, initialized, firstRun, rpc, messenger, web, instance,
                 loggerThread, joined, latch, info, logger, format, testVars, regVars>>

-----------------------------------------------------------------------------
(* RpcServerBase::MetricsLoggingThread.                                    *)
(***************************************************************************)

\* stop_metrics_logging_latch_.WaitUntil(next_log): TRUE once the count is
\* zero, FALSE when next_log passes first.
LoggerWait ==
  /\ logger = "wait"
  /\ logger' = IF latch = 0 THEN "exit" ELSE "collect"
  /\ UNCHANGED <<pc, round, initialized, firstRun, rpc, messenger, web, instance,
                 loggerThread, joined, latch, info, format, testVars, regVars>>

\* A mutant logger that gives up when collecting metrics fails.
LoggerCollectGivesUp ==
  /\ logger = "collect"
  /\ logger' \in {"append", "exit"}
  /\ UNCHANGED <<pc, round, initialized, firstRun, rpc, messenger, web, instance,
                 loggerThread, joined, latch, info, format, testVars, regVars>>

\* metric_registry_->WriteAsJson: on failure wait 60 s more and continue.
LoggerCollect ==
  /\ logger = "collect"
  /\ logger' \in {"append", "wait"}
  /\ UNCHANGED <<pc, round, initialized, firstRun, rpc, messenger, web, instance,
                 loggerThread, joined, latch, info, format, testVars, regVars>>

\* log.Append: on success or failure the loop goes on.
LoggerAppend ==
  /\ logger = "append"
  /\ logger' = "wait"
  /\ UNCHANGED <<pc, round, initialized, firstRun, rpc, messenger, web, instance,
                 loggerThread, joined, latch, info, format, testVars, regVars>>

\* log.Close() after the loop.
LoggerClose ==
  /\ logger = "exit"
  /\ logger' = "closed"
  /\ UNCHANGED <<pc, round, initialized, firstRun, rpc, messenger, web, instance,
                 loggerThread, joined, latch, info, format, testVars, regVars>>

-----------------------------------------------------------------------------
(* The connectivity helpers a mini-cluster test calls on the messenger of  *)
(* a serving server.                                                       *)
(***************************************************************************)

kMaxServers == 20

\* TEST_RpcAddress: the private address of server index is 127.0.0.(2 index),
\* its public one the name 127.0.0.(2 index + 1).ip.yugabyte.  An address
\* is the last byte HostToAddress resolves it to.
TEST_RpcAddress(index, priv) == index * 2 + (IF priv THEN 0 ELSE 1)

\* A mutant grouping that is off by one.
SameGroupShifted(i, index) == i \div 2 = index \div 2

\* Servers are grouped by two.
SameGroup(i, index) == (i - 1) \div 2 = (index - 1) \div 2

\* The loop of TEST_SetupConnectivity from server i on: break the address
\* the messenger must not use for server i, restore the one it must.
RECURSIVE SetupLoop(_, _, _)
SetupLoop(b, i, index) ==
  IF i > kMaxServers THEN b
  ELSE SetupLoop((b \cup {TEST_RpcAddress(i, ~SameGroup(i, index))})
                   \ {TEST_RpcAddress(i, SameGroup(i, index))}, i + 1, index)

\* TEST_SetupConnectivity does nothing unless the flag is set;
\* CHECK_GE and CHECK_LE end the process on an index out of 1..20.
TEST_SetupConnectivity(index) ==
  /\ pc = "serve" /\ messenger = "built"
  /\ CheckBroadcastAddress
  /\ IF index < 1 \/ index > kMaxServers
       THEN pc' = "crashed" /\ UNCHANGED testVars
       ELSE /\ outbound' = TEST_RpcAddress(index, TRUE)
            /\ broken' = SetupLoop(broken, 1, index)
            /\ setupFor' = index
            /\ UNCHANGED pc
  /\ UNCHANGED <<round, initialized, firstRun, rpc, messenger, web, instance,
                 loggerThread, joined, latch, info, logger, format, regVars>>

\* TEST_Isolate breaks both addresses of every server.
TEST_Isolate ==
  /\ pc = "serve" /\ messenger = "built"
  /\ broken' = broken \cup {TEST_RpcAddress(i, p) : i \in 1..kMaxServers, p \in BOOLEAN}
  /\ setupFor' = 0
  /\ UNCHANGED <<pc, round, initialized, firstRun, rpc, messenger, web, instance,
                 loggerThread, joined, latch, info, logger, format, outbound,
                 regVars>>

-----------------------------------------------------------------------------
(* RpcAndWebServerBase::GetRegistration, which the derived servers call    *)
(* while serving to tell the master where they are.  An address is a pair *)
(* <<host, port>>; the host is "0.0.0.0", an IP, or a resolved name.       *)
(***************************************************************************)

kWildCardHostAddress == "0.0.0.0"

\* A call that returned an error Status.
Failed == [ok |-> FALSE, addrs |-> {}]

\* The endpoint a bind to a <<host, port>> gets: the same host, and the
\* port the system assigns when the port is 0.
BoundEndpoint(a) == <<a[1], IF a[2] = 0 THEN EphemeralPort ELSE a[2]>>

\* AddHostPortPBs: the endpoints into HostPortPBs, a wildcard resolved to
\* the host's name, which may fail.
AddHostPortPBs(eps) ==
  {[ok |-> TRUE,
    addrs |-> {IF e[1] = kWildCardHostAddress THEN <<"fqdn", e[2]>> ELSE e : e \in eps}]}
    \cup (IF \E e \in eps : e[1] = kWildCardHostAddress THEN {Failed} ELSE {})

\* A mutant that registers a configured port 0 as it is.
UseBoundAddressesNoPortCheck(addrs) ==
  Len(addrs) > 1 \/ addrs[1][1] = kWildCardHostAddress

\* Several RPC addresses, a wildcard host or port 0 fall back to the bound
\* addresses.
UseBoundAddresses(addrs) ==
  Len(addrs) > 1 \/ addrs[1][1] = kWildCardHostAddress \/ addrs[1][2] = 0

\* The private RPC addresses, then unless rpc_only the bound HTTP
\* addresses; the first failure is the returned Status.
GetRegistration(rpcOnly) ==
  LET private == IF UseBoundAddresses(rpcAddrs)
                   THEN AddHostPortPBs({BoundEndpoint(rpcAddrs[i]) : i \in DOMAIN rpcAddrs})
                   ELSE {[ok |-> TRUE, addrs |-> {rpcAddrs[i] : i \in DOMAIN rpcAddrs}]}
      http == IF rpcOnly THEN {[ok |-> TRUE, addrs |-> {}]}
              ELSE AddHostPortPBs({BoundEndpoint(WebConfig)}) \cup {Failed}
  IN
  /\ pc = "serve" /\ web = "started"
  /\ \E p \in private, h \in http :
       registration' = IF p.ok /\ h.ok
                         THEN [ok |-> TRUE, private |-> p.addrs, http |-> h.addrs]
                         ELSE [ok |-> FALSE]
  /\ UNCHANGED <<pc, round, initialized, firstRun, rpc, messenger, web, instance,
                 loggerThread, joined, latch, info, logger, format, testVars, rpcAddrs>>

-----------------------------------------------------------------------------

Owner ==
  \/ FsOpen \/ FsCreate \/ ClockInit \/ BuildMessenger \/ RpcInit \/ RpcBind
  \/ StartMetricsLogging \/ WebStart \/ RegisterService \/ StartRpcServer
  \/ ShutdownLatch \/ ShutdownJoin \/ ShutdownServers \/ WebStop \/ Release

Logger == LoggerWait \/ LoggerCollect \/ LoggerAppend \/ LoggerClose

\* The process exits once the server is destroyed and the logger is gone.
Exited ==
  /\ \/ pc = "done" /\ logger \in {"none", "closed"}
     \/ pc = "crashed"
  /\ UNCHANGED vars

Test ==
  \/ TEST_Isolate
  \/ \E index \in Indices : TEST_SetupConnectivity(index)
  \/ \E rpcOnly \in BOOLEAN : GetRegistration(rpcOnly)

Next == Owner \/ Stop \/ Logger \/ Test \/ Exited

\* Both threads are scheduled: each step of either that stays enabled is
\* eventually taken.
Fairness == WF_vars(Owner) /\ WF_vars(Logger)

Spec == Init /\ [][Next]_vars /\ Fairness

-----------------------------------------------------------------------------

\* MetricsLoggingThread reads metric_registry_, which the destructors
\* free: by the time the server is released, and on every path through
\* Init and Start that failed, the thread has ended and been joined, and
\* the RPC server, messenger and web server are shut down.
NothingOutlivesServer ==
  pc = "done" =>
    /\ logger \in {"none", "closed"}
    /\ loggerThread => joined
    /\ rpc = "shutdown" /\ messenger \in {"none", "shutdown"} /\ web # "started"

\* The metrics-logging thread keeps going through failures to collect or
\* write metrics; it ends only after Shutdown counted the latch down.
LoggerRunsUntilShutdown ==
  logger \in {"exit", "closed"} => latch = 0 /\ pc \notin {"serve", "start_rpc"}

\* The supervisor takes the server info file for a server that is up
\* (yugabyte-db's is_initalized): the file is written only once the RPC
\* server is started, with the node instance and the RPC and HTTP
\* addresses it is bound to.
InfoMeansServing ==
  info # NoInfo =>
    /\ info.instance /\ info.rpcBound /\ info.rpcStarted /\ info.httpBound

\* "We group servers by 2": after TEST_SetupConnectivity(index), whatever
\* calls came before it, the messenger reaches every server by exactly one
\* address, the private one for the two servers of its own pair and the
\* public one for every other server.
ConnectivityMatchesGroups ==
  setupFor # 0 =>
    \A i \in 1..kMaxServers :
      LET pair == (i + 1) \div 2 = (setupFor + 1) \div 2
      IN TEST_RpcAddress(i, pair) \notin broken /\ TEST_RpcAddress(i, ~pair) \in broken

\* A server registers where others can reach it: a registration that
\* succeeded lists no wildcard host and no port 0, and its private RPC
\* addresses carry ports the RPC server is bound to, also when it was
\* configured with several addresses, a wildcard or port 0.
RegistrationReachable ==
  registration # NoRegistration /\ registration.ok =>
    /\ \A a \in registration.private \cup registration.http :
         a[1] # kWildCardHostAddress /\ a[2] # 0
    /\ \A a \in registration.private :
         \E i \in DOMAIN rpcAddrs : a[2] = BoundEndpoint(rpcAddrs[i])[2]

\* Destruction finishes: once the owner starts Shutdown, the latch wakes
\* the metrics-logging thread, Join returns, and the server is released.
ShutdownCompletes == pc = "sd_latch" ~> pc = "done"

=============================================================================
