\* Expected violation: for mysql://127.0.0.1/db the Url path reports
\* addr_is_loopback false (url types the host as Domain, line 113) while the
\* builder's HostPort("127.0.0.1", 3306) reports true (lines 100-103).
CONSTANTS
    NoValue = NoValue
    Decimal <- MCDecimal
    U32Max <- MCU32Max
    PercentDecoded <- MCPercentDecoded
    Ipv4Literals <- MCIpv4Literals
    Ipv6Literals <- MCIpv6Literals
    LoopbackIps <- MCLoopbackIps
    NotWindows = TRUE
    Dns <- MCDns
    UrlInputs <- MCEquivIpHostInputs

SPECIFICATION Spec

INVARIANT BuilderMatchesUrl

\* from_url returns: the final state of every call has no successor.
CHECK_DEADLOCK FALSE
