------------------------------ MODULE OptsData ------------------------------
(***************************************************************************)
(* The value objects of src/opts.rs: defaults, PoolConstraints, PoolOpts,  *)
(* SslOpts, MysqlOpts, the address union HostPortOrUrl, the capability     *)
(* derivation of Opts, and the parsing of URL query values.  Everything    *)
(* here is a pure operator; the modules UrlParser and OptsBuilder use them *)
(* as the steps of their actions.                                          *)
(*                                                                         *)
(* Abstractions.  Option<T> is a value or NoValue.  A Duration is a number *)
(* of milliseconds.  A string is a TLA+ string drawn from a small set; a   *)
(* conversion on strings (decimal parsing, percent decoding, IP literal    *)
(* parsing) is given by the constants below as what it does on that set.  *)
(* CapabilityFlags, a bitset, is the set of names of its set bits.         *)
(***************************************************************************)
EXTENDS Naturals, Sequences, FiniteSets

CONSTANTS
    NoValue,        \* Rust's None
    Decimal,        \* the strings usize/u64/u32::from_str accept, with their value
    U32Max,         \* u32::MAX, shrunk by the MC module to keep values TLC integers
    PercentDecoded, \* percent_decode(..).decode_utf8_lossy() on the URL strings used
    Ipv4Literals,   \* the strings Ipv4Addr::from_str accepts
    Ipv6Literals,   \* the strings Ipv6Addr::from_str accepts
    LoopbackIps,    \* the IP literals whose is_loopback() is true
    NotWindows,     \* cfg!(not(target_os = "windows"))
    Dns             \* the resolver: host name -> the IP literals it resolves to

ASSUME /\ \A s \in DOMAIN Decimal : Decimal[s] \in Nat
       /\ U32Max \in Nat
       /\ LoopbackIps \subseteq Ipv4Literals \cup Ipv6Literals
       /\ NotWindows \in BOOLEAN
       /\ \A h \in DOMAIN Dns : Dns[h] \subseteq Ipv4Literals \cup Ipv6Literals
       /\ \A d \in {"0", "1", "2", "3", "4", "5", "6", "7", "8", "9"} :
             d \in DOMAIN Decimal /\ Decimal[d] <= 9

\* Option<T> over the values S.
Opt(S) == S \cup {NoValue}

\* A Duration in milliseconds.
Secs(n) == n * 1000

DEFAULT_POOL_CONSTRAINTS == [min |-> 10, max |-> 100]
DEFAULT_STMT_CACHE_SIZE == 32
DEFAULT_PORT == 3306
DEFAULT_INACTIVE_CONNECTION_TTL == Secs(0)
DEFAULT_TTL_CHECK_INTERVAL == Secs(30)

-----------------------------------------------------------------------------
(* PoolConstraints and PoolOpts                                            *)

\* Mutant: the min <= max check dropped.
PoolConstraintsNewUnchecked(min, max) == [min |-> min, max |-> max]

PoolConstraintsNew(min, max) ==
    IF min <= max THEN [min |-> min, max |-> max] ELSE NoValue

DefaultPoolOpts ==
    [constraints             |-> DEFAULT_POOL_CONSTRAINTS,
     inactive_connection_ttl |-> DEFAULT_INACTIVE_CONNECTION_TTL,
     ttl_check_interval      |-> DEFAULT_TTL_CHECK_INTERVAL]

WithConstraints(po, c) == [po EXCEPT !.constraints = c]

WithInactiveConnectionTtl(po, ttl) == [po EXCEPT !.inactive_connection_ttl = ttl]

\* Mutant: the one-second floor dropped.
WithTtlCheckIntervalNoFloor(po, interval) ==
    [po EXCEPT !.ttl_check_interval = interval]

WithTtlCheckInterval(po, interval) ==
    [po EXCEPT !.ttl_check_interval =
        IF interval < Secs(1) THEN DEFAULT_TTL_CHECK_INTERVAL ELSE interval]

ActiveBound(po) ==
    IF po.inactive_connection_ttl > Secs(0)
    THEN po.constraints.max ELSE po.constraints.min

-----------------------------------------------------------------------------
(* SslOpts: only its presence reaches the capability flags; its fields    *)
(* are read by the TLS layer.                                              *)

DefaultSslOpts ==
    [pkcs12_path |-> NoValue, password |-> NoValue, root_cert_path |-> NoValue,
     skip_domain_validation |-> FALSE, accept_invalid_certs |-> FALSE]

WithPkcs12Path(s, p) == [s EXCEPT !.pkcs12_path = p]
WithPassword(s, p) == [s EXCEPT !.password = p]
WithRootCertPath(s, p) == [s EXCEPT !.root_cert_path = p]
WithDangerSkipDomainValidation(s, v) == [s EXCEPT !.skip_domain_validation = v]
WithDangerAcceptInvalidCerts(s, v) == [s EXCEPT !.accept_invalid_certs = v]

-----------------------------------------------------------------------------
(* Capability flags (crate::consts::CapabilityFlags)                       *)

DefaultCaps ==
    {"CLIENT_PROTOCOL_41", "CLIENT_SECURE_CONNECTION", "CLIENT_LONG_PASSWORD",
     "CLIENT_TRANSACTIONS", "CLIENT_LOCAL_FILES", "CLIENT_MULTI_STATEMENTS",
     "CLIENT_MULTI_RESULTS", "CLIENT_PS_MULTI_RESULTS", "CLIENT_DEPRECATE_EOF",
     "CLIENT_PLUGIN_AUTH"}

\* The three bits get_capabilities re-asserts from the fields on every read.
ConditionalCaps == {"CLIENT_CONNECT_WITH_DB", "CLIENT_SSL", "CLIENT_COMPRESS"}

DefaultMysqlOpts ==
    [user |-> NoValue, pass |-> NoValue, db_name |-> NoValue, init |-> <<>>,
     tcp_keepalive |-> NoValue, tcp_nodelay |-> TRUE,
     local_infile_handler |-> NoValue, pool_opts |-> DefaultPoolOpts,
     conn_ttl |-> NoValue, stmt_cache_size |-> DEFAULT_STMT_CACHE_SIZE,
     ssl_opts |-> NoValue, prefer_socket |-> NotWindows, socket |-> NoValue,
     compression |-> NoValue, capabilities |-> DefaultCaps]

PoolOptsType ==
    [constraints: [min: Nat, max: Nat], inactive_connection_ttl: Nat,
     ttl_check_interval: Nat]

SslOptsType ==
    [pkcs12_path: Opt(STRING), password: Opt(STRING), root_cert_path: Opt(STRING),
     skip_domain_validation: BOOLEAN, accept_invalid_certs: BOOLEAN]

\* A local infile handler is an opaque reference.
MysqlOptsType ==
    [user: Opt(STRING), pass: Opt(STRING), db_name: Opt(STRING),
     init: Seq(STRING), tcp_keepalive: Opt(0..U32Max), tcp_nodelay: BOOLEAN,
     local_infile_handler: Opt(STRING), pool_opts: PoolOptsType,
     conn_ttl: Opt(Nat), stmt_cache_size: Nat, ssl_opts: Opt(SslOptsType),
     prefer_socket: BOOLEAN, socket: Opt(STRING), compression: Opt(0..9),
     capabilities: SUBSET STRING]

\* Opts::get_capabilities of an Opts whose MysqlOpts is o.
GetCapabilities(o) ==
    o.capabilities
      \cup (IF o.db_name # NoValue THEN {"CLIENT_CONNECT_WITH_DB"} ELSE {})
      \cup (IF o.ssl_opts # NoValue THEN {"CLIENT_SSL"} ELSE {})
      \cup (IF o.compression # NoValue THEN {"CLIENT_COMPRESS"} ELSE {})

-----------------------------------------------------------------------------
(* HostPortOrUrl.  A Url is a record whose host is NoValue or a typed host *)
(* [type |-> "Ipv4" | "Ipv6" | "Domain", addr |-> string], as url::Host.  *)

HostPort(host, port) == [kind |-> "HostPort", host |-> host, port |-> port]
UrlAddress(url) == [kind |-> "Url", url |-> url]

DefaultAddress == HostPort("127.0.0.1", DEFAULT_PORT)

\* url::Url::host_str: an IPv6 host is serialised in brackets.
HostStr(url) ==
    IF url.host = NoValue THEN NoValue
    ELSE IF url.host.type = "Ipv6" THEN "[" \o url.host.addr \o "]"
    ELSE url.host.addr

GetIpOrHostname(a) ==
    IF a.kind = "HostPort" THEN a.host
    ELSE IF HostStr(a.url) = NoValue THEN "127.0.0.1" ELSE HostStr(a.url)

GetTcpPort(a) ==
    IF a.kind = "HostPort" THEN a.port
    ELSE IF a.url.port = NoValue THEN DEFAULT_PORT ELSE a.url.port

IsLoopback(a) ==
    IF a.kind = "HostPort"
    THEN IF a.host \in Ipv4Literals \cup Ipv6Literals
         THEN a.host \in LoopbackIps
         ELSE a.host = "localhost"
    ELSE CASE a.url.host = NoValue            -> FALSE
           [] a.url.host.type = "Domain"     -> a.url.host.addr = "localhost"
           [] OTHER                          -> a.url.host.addr \in LoopbackIps

\* <(&str, u16) as ToSocketAddrs>: an IP literal is taken as is, any other
\* string is looked up; NoValue is the io::Error of a failed lookup.
ResolveHostPort(host, port) ==
    CASE host \in Ipv4Literals \cup Ipv6Literals -> {[ip |-> host, port |-> port]}
      [] host \in DOMAIN Dns                     -> {[ip |-> x, port |-> port] : x \in Dns[host]}
      [] OTHER                                  -> NoValue

\* Mutant: the Url's own port ignored in favour of the fallback.
ToSocketAddrsFallbackPort(a) ==
    IF a.kind = "HostPort" THEN ResolveHostPort(a.host, a.port)
    ELSE CASE a.url.host = NoValue        -> NoValue
           [] a.url.host.type = "Domain" -> ResolveHostPort(a.url.host.addr, DEFAULT_PORT)
           [] OTHER -> {[ip |-> a.url.host.addr, port |-> DEFAULT_PORT]}

\* HostPortOrUrl::to_socket_addrs.  A Url goes through url::Url::socket_addrs
\* with the fallback port DEFAULT_PORT (mysql has no known default port):
\* a typed IP host is used directly, a domain is resolved.
ToSocketAddrs(a) ==
    IF a.kind = "HostPort" THEN ResolveHostPort(a.host, a.port)
    ELSE LET port == IF a.url.port = NoValue THEN DEFAULT_PORT ELSE a.url.port
         IN CASE a.url.host = NoValue        -> NoValue
              [] a.url.host.type = "Domain" -> ResolveHostPort(a.url.host.addr, port)
              [] OTHER -> {[ip |-> a.url.host.addr, port |-> port]}

-----------------------------------------------------------------------------
(* Query parameter values (the parsing inside mysqlopts_from_url)          *)

\* <usize|u64|u32>::from_str: the model's numbers all fit usize and u64.
ParseUnsigned(s, width) ==
    IF s \in DOMAIN Decimal /\ (width = "u32" => Decimal[s] <= U32Max)
    THEN Decimal[s] ELSE NoValue

ParseBool(s) ==
    CASE s = "true" -> TRUE [] s = "false" -> FALSE [] OTHER -> NoValue

SingleDigits == {"0", "1", "2", "3", "4", "5", "6", "7", "8", "9"}

\* Mutant: any decimal accepted as a level, not only a single digit.
ParseCompressionAnyDecimal(s) ==
    CASE s = "fast"             -> 1
      [] s \in {"on", "true"}   -> 6
      [] s = "best"             -> 9
      [] s \in DOMAIN Decimal   -> Decimal[s]
      [] OTHER                  -> NoValue

\* Compression::fast() = 1, Compression::default() = 6, Compression::best() = 9.
ParseCompression(s) ==
    CASE s = "fast"             -> 1
      [] s \in {"on", "true"}   -> 6
      [] s = "best"             -> 9
      [] s \in SingleDigits     -> Decimal[s]
      [] OTHER                  -> NoValue

RecognizedKeys ==
    {"pool_min", "pool_max", "inactive_connection_ttl", "ttl_check_interval",
     "conn_ttl", "tcp_keepalive", "tcp_nodelay", "stmt_cache_size",
     "prefer_socket", "socket", "compression"}

\* The value a recognized key's raw string parses to, or NoValue.
ParseParam(key, s) ==
    CASE key \in {"pool_min", "pool_max", "stmt_cache_size"} -> ParseUnsigned(s, "usize")
      [] key \in {"inactive_connection_ttl", "ttl_check_interval", "conn_ttl"}
                                        -> ParseUnsigned(s, "u64")
      [] key = "tcp_keepalive"          -> ParseUnsigned(s, "u32")
      [] key \in {"tcp_nodelay", "prefer_socket"} -> ParseBool(s)
      [] key = "socket"                 -> s
      [] key = "compression"            -> ParseCompression(s)

\* The param named by UrlError::InvalidParamValue for a key.
InvalidValueParam(key) == IF key = "tcp_keepalive" THEN "tcp_keepalive_ms" ELSE key

\* Mutant: conn_ttl stored as the raw number, not Duration::from_secs of it.
ApplyParamRawConnTtl(o, key, x) ==
    CASE key = "inactive_connection_ttl" ->
            [o EXCEPT !.pool_opts = WithInactiveConnectionTtl(@, Secs(x))]
      [] key = "ttl_check_interval" ->
            [o EXCEPT !.pool_opts = WithTtlCheckInterval(@, Secs(x))]
      [] key = "conn_ttl"        -> [o EXCEPT !.conn_ttl = x]
      [] key = "tcp_keepalive"   -> [o EXCEPT !.tcp_keepalive = x]
      [] key = "tcp_nodelay"     -> [o EXCEPT !.tcp_nodelay = x]
      [] key = "stmt_cache_size" -> [o EXCEPT !.stmt_cache_size = x]
      [] key = "prefer_socket"   -> [o EXCEPT !.prefer_socket = x]
      [] key = "socket"          -> [o EXCEPT !.socket = x]
      [] key = "compression"     -> [o EXCEPT !.compression = x]

\* The assignment a parsed parameter makes to MysqlOpts o (pool_min and
\* pool_max are kept aside until the end of the loop).
ApplyParam(o, key, x) ==
    CASE key = "inactive_connection_ttl" ->
            [o EXCEPT !.pool_opts = WithInactiveConnectionTtl(@, Secs(x))]
      [] key = "ttl_check_interval" ->
            [o EXCEPT !.pool_opts = WithTtlCheckInterval(@, Secs(x))]
      [] key = "conn_ttl"        -> [o EXCEPT !.conn_ttl = Secs(x)]
      [] key = "tcp_keepalive"   -> [o EXCEPT !.tcp_keepalive = x]
      [] key = "tcp_nodelay"     -> [o EXCEPT !.tcp_nodelay = x]
      [] key = "stmt_cache_size" -> [o EXCEPT !.stmt_cache_size = x]
      [] key = "prefer_socket"   -> [o EXCEPT !.prefer_socket = x]
      [] key = "socket"          -> [o EXCEPT !.socket = x]
      [] key = "compression"     -> [o EXCEPT !.compression = x]

=============================================================================
