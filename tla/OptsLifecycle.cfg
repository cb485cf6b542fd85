\* Both construction paths and rebuilds: pool options of every held Opts,
\* and the capability flags against the history of add/remove calls.
CONSTANTS
    NoValue = NoValue
    Decimal <- MCDecimal
    U32Max <- MCU32Max
    PercentDecoded <- MCPercentDecoded
    Ipv4Literals <- MCIpv4Literals
    Ipv6Literals <- MCIpv6Literals
    LoopbackIps <- MCLoopbackIps
    NotWindows = TRUE
    Dns <- MCDns
    UrlInputs <- MCLifecycleUrls
    Hostnames = {"localhost"}
    Ports = {3307}
    Strings = {"s"}
    InitCmds <- MCInitCmds
    KeepAlives = {1000}
    Durations = {60000}
    CacheSizes = {0}
    PoolOptsValues <- MCPoolOptsValues
    SslOptsValues <- MCSslOptsValues
    CompressionLevels = {1}
    Handlers = {"handler"}
    CapFlags = {"CLIENT_SSL", "CLIENT_CONNECT_WITH_DB", "CLIENT_FOUND_ROWS"}
    MaxSetterCalls = 2
    MaxBuilds = 2

SPECIFICATION Spec

INVARIANT TypeOK
INVARIANT HeldPoolOptsSane
INVARIANT CapabilitiesFollowHistory

\* A client stops after MaxBuilds rebuilds.
CHECK_DEADLOCK FALSE
