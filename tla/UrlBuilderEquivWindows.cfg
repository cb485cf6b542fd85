\* Expected violation: on Windows, prefer_socket(None) gives true while
\* MysqlOpts::default(), the start of the URL path, gives false.
CONSTANTS
    NoValue = NoValue
    Decimal <- MCDecimal
    U32Max <- MCU32Max
    PercentDecoded <- MCPercentDecoded
    Ipv4Literals <- MCIpv4Literals
    Ipv6Literals <- MCIpv6Literals
    LoopbackIps <- MCLoopbackIps
    NotWindows = FALSE
    Dns <- MCDns
    UrlInputs <- MCEquivInputs

SPECIFICATION Spec

INVARIANT BuilderMatchesUrl

\* from_url returns: the final state of every call has no successor.
CHECK_DEADLOCK FALSE
