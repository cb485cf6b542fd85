--------------------------- MODULE UrlBuilderEquiv ---------------------------
(***************************************************************************)
(* The two construction paths of Opts side by side (test_builder_eq_url):  *)
(* a caller who writes a Url and a caller who configures OptsBuilder with  *)
(* the same host, port, user, password, database and query settings must   *)
(* get Opts with the same accessor values.  The builder calls are those of *)
(* the test, extended to every query key: a setting the Url does not give  *)
(* is passed as None to the setters that take an Option, and left alone   *)
(* for tcp_nodelay, which does not.                                        *)
(***************************************************************************)
EXTENDS UrlParser, BuilderOps
LOCAL INSTANCE SequencesExt

\* The parsed value of the last pair of q with this key, or None.
QueryValue(q, key) ==
    LET i == SelectLastInSeq(q, LAMBDA p : p.key = key)
    IN IF i = 0 THEN NoValue ELSE ParseParam(key, q[i].value)

OrDefault(v, dflt) == IF v = NoValue THEN dflt ELSE v

OptSecs(v) == IF v = NoValue THEN NoValue ELSE Secs(v)

PoolKeys == {"pool_min", "pool_max", "inactive_connection_ttl", "ttl_check_interval"}

\* PoolOpts::default().with_constraints(PoolConstraints::new(min, max)?)
\*   .with_inactive_connection_ttl(..).with_ttl_check_interval(..), or None
\* when the Url has no pool key.
MirrorPoolOpts(q) ==
    IF \A k \in PoolKeys : QueryValue(q, k) = NoValue THEN NoValue
    ELSE LET c == PoolConstraintsNew(
                    OrDefault(QueryValue(q, "pool_min"), DEFAULT_POOL_CONSTRAINTS.min),
                    OrDefault(QueryValue(q, "pool_max"), DEFAULT_POOL_CONSTRAINTS.max))
             ttl == OrDefault(OptSecs(QueryValue(q, "inactive_connection_ttl")),
                              DEFAULT_INACTIVE_CONNECTION_TTL)
             int == OrDefault(OptSecs(QueryValue(q, "ttl_check_interval")),
                              DEFAULT_TTL_CHECK_INTERVAL)
         IN WithTtlCheckInterval(
              WithInactiveConnectionTtl(WithConstraints(DefaultPoolOpts, c), ttl), int)

\* OptsBuilder::default().ip_or_hostname(host).user(..).pass(..).db_name(..)
\* [.tcp_port(port)] followed by one setter per query key.
MirrorBuilder(u) ==
    LET q  == u.query
        b1 == db_name(pass(user(ip_or_hostname(DefaultBuilder, u.host.addr),
                                UserFromUrl(u)), PassFromUrl(u)), DbNameFromUrl(u))
        b2 == IF u.port = NoValue THEN b1 ELSE tcp_port(b1, u.port)
        b3 == conn_ttl(pool_opts(b2, MirrorPoolOpts(q)), OptSecs(QueryValue(q, "conn_ttl")))
        b4 == tcp_keepalive(b3, QueryValue(q, "tcp_keepalive"))
        b5 == IF QueryValue(q, "tcp_nodelay") = NoValue THEN b4
              ELSE tcp_nodelay(b4, QueryValue(q, "tcp_nodelay"))
        b6 == prefer_socket(stmt_cache_size(b5, QueryValue(q, "stmt_cache_size")),
                            QueryValue(q, "prefer_socket"))
    IN compression(socket(b6, QueryValue(q, "socket")), QueryValue(q, "compression"))

-----------------------------------------------------------------------------

\* Spec section 8 and test_builder_eq_url: whenever from_url accepts a Url,
\* the Opts built from the mirroring builder has the same accessor values
\* (host, port, loopback, every MysqlOpts field and the capability set).
\* It breaks when a query key is applied to a different field or unit than
\* its builder setter uses, or when a builder default for None differs from
\* the MysqlOpts::default() the URL path starts from.
BuilderMatchesUrl ==
    result # NoValue /\ result.ok =>
        Accessors(OptsFromBuilder(MirrorBuilder(input))) = Accessors(result.opts)

=============================================================================
