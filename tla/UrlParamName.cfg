\* Expected violation: InvalidValueNamesKey.
CONSTANTS
    NoValue = NoValue
    Decimal <- MCDecimal
    U32Max <- MCU32Max
    PercentDecoded <- MCPercentDecoded
    Ipv4Literals <- MCIpv4Literals
    Ipv6Literals <- MCIpv6Literals
    LoopbackIps <- MCLoopbackIps
    NotWindows = TRUE
    Dns <- MCDns
    UrlInputs <- MCUrlInputs

SPECIFICATION Spec

INVARIANT InvalidValueNamesKey

\* from_url returns: the final state of every call has no successor.
CHECK_DEADLOCK FALSE
