CONSTANTS
  LogMetrics = TRUE
  DumpInfoPath = TRUE
  NoInfo = NoInfo
  DumpFormats = {"json", "other"}
  CheckBroadcastAddress = TRUE
  Indices = {0, 1, 2, 3, 20}
  RpcConfigs <- MCRpcConfigs
  WebConfig <- MCWebConfig
  EphemeralPort = 40000
  NoRegistration = NoRegistration
SPECIFICATION Spec
INVARIANT NothingOutlivesServer
INVARIANT LoggerRunsUntilShutdown
INVARIANT InfoMeansServing
INVARIANT ConnectivityMatchesGroups
INVARIANT RegistrationReachable
PROPERTY ShutdownCompletes
