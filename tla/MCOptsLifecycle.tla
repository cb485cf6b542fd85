--------------------------- MODULE MCOptsLifecycle ---------------------------
(***************************************************************************)
(* Model-checking instance of OptsLifecycle: a few Urls, one of each       *)
(* outcome that matters to a rebuild, and builder arguments that reach     *)
(* every setter with one value besides the default.                        *)
(***************************************************************************)
EXTENDS OptsLifecycle, MCOptsData

\* mysql://localhost/db, mysql://[::1]/?compression=fast,
\* mysql://127.0.0.1:3309?ttl_check_interval=0, mysql://localhost?pool_min=20&pool_max=5
MCLifecycleUrls ==
    {MkUrl("mysql", FALSE, Localhost, NoValue, "", NoValue, "db", <<>>),
     MkUrl("mysql", FALSE, [type |-> "Ipv6", addr |-> "::1"], NoValue, "", NoValue, "",
           <<P("compression", "fast")>>),
     MkUrl("mysql", FALSE, [type |-> "Domain", addr |-> "127.0.0.1"], 3309, "", NoValue,
           NoValue, <<P("ttl_check_interval", "0")>>),
     MkUrl("mysql", FALSE, Localhost, NoValue, "", NoValue, NoValue,
           <<P("pool_min", "20"), P("pool_max", "5")>>)}

\* The Urls whose host is a name, not an IP literal, with and without a port:
\* mysql://localhost/db, mysql://db.example:3309?ttl_check_interval=0,
\* mysql://localhost?pool_min=20&pool_max=5.
MCRoundTripUrls ==
    {MkUrl("mysql", FALSE, Localhost, NoValue, "", NoValue, "db", <<>>),
     MkUrl("mysql", FALSE, [type |-> "Domain", addr |-> "db.example"], 3309, "", NoValue,
           NoValue, <<P("ttl_check_interval", "0")>>),
     MkUrl("mysql", FALSE, Localhost, NoValue, "", NoValue, NoValue,
           <<P("pool_min", "20"), P("pool_max", "5")>>)}

\* PoolOpts values a caller can build: PoolOpts::default() with constraints
\* from PoolConstraints::new, then the two TTL setters.
MCPoolOptsValues ==
    {WithTtlCheckInterval(WithInactiveConnectionTtl(WithConstraints(DefaultPoolOpts, c), ttl), i) :
        c \in {PoolConstraintsNew(mn, mx) : mn \in {0, 20}, mx \in {5}} \ {NoValue},
        ttl \in {Secs(60)}, i \in {500}}

\* SslOpts::default() through every with_* setter.
MCSslOptsValues ==
    {WithDangerAcceptInvalidCerts(WithDangerSkipDomainValidation(WithRootCertPath(
        WithPassword(WithPkcs12Path(DefaultSslOpts, "client.p12"), "secret"),
        "ca.pem"), TRUE), FALSE)}

\* init(vec!["SET NAMES utf8"]) and init(vec![])
MCInitCmds == {<<"SET NAMES utf8">>, <<>>}

=============================================================================
