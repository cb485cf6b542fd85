\* A rebuild through from_opts with no setter call keeps every accessor
\* value, for Urls with a Domain or IPv4 host and for builder-made Opts,
\* including one whose host is the IPv6 literal "::1".
CONSTANTS
    NoValue = NoValue
    Decimal <- MCDecimal
    U32Max <- MCU32Max
    PercentDecoded <- MCPercentDecoded
    Ipv4Literals <- MCIpv4Literals
    Ipv6Literals <- MCIpv6Literals
    LoopbackIps <- MCLoopbackIps
    NotWindows = TRUE
    Dns <- MCDns
    UrlInputs <- MCRoundTripUrls
    Hostnames = {"::1"}
    Ports = {3307}
    Strings = {"s"}
    InitCmds <- MCInitCmds
    KeepAlives = {1000}
    Durations = {60000}
    CacheSizes = {0}
    PoolOptsValues <- MCPoolOptsValues
    SslOptsValues <- MCSslOptsValues
    CompressionLevels = {1}
    Handlers = {"handler"}
    CapFlags = {"CLIENT_SSL", "CLIENT_CONNECT_WITH_DB", "CLIENT_FOUND_ROWS"}
    MaxSetterCalls = 2
    MaxBuilds = 2

SPECIFICATION Spec

PROPERTY RebuildPreservesAccessors

\* A client stops after MaxBuilds rebuilds.
CHECK_DEADLOCK FALSE
