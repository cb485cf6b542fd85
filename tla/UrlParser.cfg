\* from_url on every input: type, the query semantics of UrlQuerySpec (as a
\* refinement, including that the call returns), and the injected port.
CONSTANTS
    NoValue = NoValue
    Decimal <- MCDecimal
    U32Max <- MCU32Max
    PercentDecoded <- MCPercentDecoded
    Ipv4Literals <- MCIpv4Literals
    Ipv6Literals <- MCIpv6Literals
    LoopbackIps <- MCLoopbackIps
    NotWindows = TRUE
    Dns <- MCDns
    UrlInputs <- MCUrlInputs

SPECIFICATION Spec

INVARIANT TypeOK
INVARIANT PublishedAddressResolves

PROPERTY QuerySemantics

\* from_url returns: the final state of every call has no successor.
CHECK_DEADLOCK FALSE
