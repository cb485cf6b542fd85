\* The builder configured like a Url gives the same Opts as from_url on it
\* (Linux and macOS: prefer_socket defaults to true).
CONSTANTS
    NoValue = NoValue
    Decimal <- MCDecimal
    U32Max <- MCU32Max
    PercentDecoded <- MCPercentDecoded
    Ipv4Literals <- MCIpv4Literals
    Ipv6Literals <- MCIpv6Literals
    LoopbackIps <- MCLoopbackIps
    NotWindows = TRUE
    Dns <- MCDns
    UrlInputs <- MCEquivInputs

SPECIFICATION Spec

INVARIANT BuilderMatchesUrl

\* from_url returns: the final state of every call has no successor.
CHECK_DEADLOCK FALSE
