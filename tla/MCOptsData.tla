----------------------------- MODULE MCOptsData -----------------------------
(***************************************************************************)
(* The constants of OptsData for model checking: the strings Urls and      *)
(* query values are made of, and what decimal parsing, percent decoding    *)
(* and IP literal parsing do on them.                                      *)
(***************************************************************************)
EXTENDS OptsData, TLC

\* u32::MAX is taken as 1000, so that "1001" is a decimal just above it.
MCU32Max == 1000

\* usize::from_str accepts a leading '+': "+5" parses to 5.
MCDecimal ==
    "0" :> 0 @@ "1" :> 1 @@ "2" :> 2 @@ "3" :> 3 @@ "4" :> 4 @@ "5" :> 5
    @@ "6" :> 6 @@ "7" :> 7 @@ "8" :> 8 @@ "9" :> 9 @@ "10" :> 10
    @@ "20" :> 20 @@ "60" :> 60 @@ "1001" :> 1001 @@ "+5" :> 5

MCPercentDecoded ==
    "" :> "" @@ "usr" :> "usr" @@ "pass%20word" :> "pass word"
    @@ "db" :> "db" @@ "my%20db" :> "my db"

MCIpv4Literals == {"127.0.0.1", "192.168.1.1"}
MCIpv6Literals == {"::1", "fe80::1"}
MCLoopbackIps == {"127.0.0.1", "::1"}

\* The resolver: localhost has both loopback addresses.
MCDns == "localhost" :> {"127.0.0.1", "::1"} @@ "db.example" :> {"192.168.1.1"}

P(k, v) == [key |-> k, value |-> v]

QueryPairs ==
    {P("pool_min", "20"), P("pool_min", "+5"), P("pool_max", "5"), P("pool_max", "x"),
     P("inactive_connection_ttl", "60"), P("ttl_check_interval", "0"),
     P("ttl_check_interval", "60"), P("conn_ttl", "60"),
     P("tcp_keepalive", "1001"), P("tcp_keepalive", "10"), P("tcp_nodelay", "false"),
     P("stmt_cache_size", "0"), P("prefer_socket", "false"), P("socket", "/tmp/s"),
     P("compression", "fast"), P("compression", "on"), P("compression", "7"),
     P("compression", "10"), P("compression", ""), P("bar", "baz")}

Localhost == [type |-> "Domain", addr |-> "localhost"]

\* mysql and postgres are not special schemes of the url crate, so their host
\* goes through opaque-host parsing: a bracketed host is Ipv6, anything else
\* is Domain, IP literals included.  url::Host::Ipv4 never arises here.
Hosts ==
    {Localhost, [type |-> "Domain", addr |-> "db.example"],
     [type |-> "Domain", addr |-> "127.0.0.1"], [type |-> "Domain", addr |-> "192.168.1.1"],
     [type |-> "Ipv6", addr |-> "::1"]}

\* A Domain host whose text is an IP literal.
IsIpLiteralDomain(h) ==
    h.type = "Domain" /\ h.addr \in MCIpv4Literals \cup MCIpv6Literals

MkUrl(scheme, cbab, host, port, user, pass, seg, query) ==
    [scheme |-> scheme, cannot_be_a_base |-> cbab, host |-> host, port |-> port,
     username |-> user, password |-> pass, segment |-> seg, query |-> query]

=============================================================================
