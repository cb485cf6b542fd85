# TLA+ models of the connection options of mysql_async (`src/src/opts.rs`)

`src/src/opts.rs` turns a connection URL, or a chain of `OptsBuilder` calls,
into one immutable `Opts` value. The connection layer reads that value to
connect, to negotiate capabilities and to size the pool. This directory holds
TLA+ models of that subsystem and the TLC runs that check them.

## 1. The system and its parts

Line numbers refer to `src/src/opts.rs`.

| Part | Code | State and operations |
|---|---|---|
| Pool constraints | `PoolConstraints::new` (735) | `(min, max)`; `new` returns `None` when `min > max` |
| Pool options | `PoolOpts` (206-313) | constraints, inactive TTL, TTL-check interval. `with_ttl_check_interval` replaces an interval below 1 s by 30 s. `active_bound` picks `max` or `min`. |
| SSL options | `SslOpts` (129-195) | paths and two flags, set by five `with_*` setters. Only whether it is present matters in this file, through `CLIENT_SSL`. The lifecycle's SSL argument is built through all five setters. |
| Address | `HostPortOrUrl` (57-118) | `HostPort(host, port)` or `Url(url)`. Operations: `get_ip_or_hostname`, `get_tcp_port`, `is_loopback`, and `to_socket_addrs`, which does DNS. |
| Draft | `MysqlOpts` (325-391, default 678-709) | every scalar field, the pool, SSL and compression options, and the stored capability bits |
| Published options | `Opts` / `InnerOpts` (316-675) | `Arc` of `{mysql_opts, address}`. It is never mutated. Its accessors include `get_capabilities` (662), which re-asserts `CONNECT_WITH_DB`, `SSL` and `COMPRESS` from the fields on every read. |
| URL parser | `Opts::from_url` (408), `from_url_basic` (981), `mysqlopts_from_url` (1005-1148) | See the steps below. |
| Builder | `OptsBuilder` (785-942) | Starts from `default()` or `from_opts(opts)`, takes 18 setters, and is consumed by `From<OptsBuilder> for Opts`. |

The URL parser runs these steps in order:

1. Inject the default port with `set_port`.
2. Check the scheme.
3. Check the host.
4. Read the identity fields.
5. Run a loop over the query pairs. Each pair either assigns a field or returns at once with an error.
6. Check the pool bounds after the loop.

The two construction paths meet in the `Opts` value. A client that wants
different options rebuilds `Opts` through `OptsBuilder::from_opts(old)`. That
call flattens the old address into `ip_or_hostname` and `tcp_port`. All of
this is sequential, single-threaded code: nothing here runs concurrently, is
persisted, or sends messages. The hard behaviours are orderings and sequences
of calls:

- the order of the checks in `from_url`;
- a query's first bad pair against its last good values;
- the pool check that runs once, after the loop;
- capability bits derived on read against bits stored by `add_capability` and `remove_capability`;
- the address conversion done by a rebuild.

## 2. Modules

| Module | Models | Kind |
|---|---|---|
| `OptsData` | Constants, `PoolConstraints::new`, the `PoolOpts` methods, defaults, `get_capabilities`, the `HostPortOrUrl` queries, and the parsing of query values | Pure operators |
| `UrlParser` | `Opts::from_url` with `from_url_basic` and `mysqlopts_from_url` | State machine. `pc` is the code position. There is one action per kind of step: `SetDefaultPort`, `FromUrlBasic`, `ApplyPoolBound`, `ApplyOption`, `RejectParamValue`, `RejectUnknownParameter` and `FinishPool`. |
| `UrlQuerySpec` | What `from_url` promises: spec sections 4.1 and 7, stated over the whole query in one step | Abstract spec. `UrlParser` is checked to implement it. |
| `BuilderOps` | The builder methods: `default`, `from_opts`, the 18 setters and `From<OptsBuilder> for Opts`. It also holds `Accessors`: the values of the public accessors of an `Opts`, and the socket addresses its address resolves to. | Pure operators |
| `OptsBuilder` | A client that starts builders, calls setters and builds | State machine |
| `OptsLifecycle` | Composes `UrlParser` and `OptsBuilder`. A client gets its `Opts` from a URL or from a builder, then rebuilds it. | Composition |
| `UrlBuilderEquiv` | `test_builder_eq_url` generalised: the URL path next to a builder configured with the same settings | `UrlParser` with an invariant comparing the two paths |
| `MCOptsData`, `MCUrlParser`, `MCOptsLifecycle`, `MCUrlBuilderEquiv` | Finite constants for TLC | Model modules |

Abstractions:

- `Option<T>` is a value or the model value `NoValue`.
- A `Duration` is a number of milliseconds.
- Strings are drawn from small sets.
- The conversions are tables that say what they do on those sets:
  - `u*::from_str` is `Decimal`;
  - percent decoding is `PercentDecoded`;
  - IP-literal parsing is `Ipv4Literals`, `Ipv6Literals` and `LoopbackIps`;
  - the resolver is `Dns`.
- `url::Url` is the record that `Url::parse` leaves behind. `mysql` is not a special scheme of the url crate, so the crate parses its host as opaque: a bracketed host is `Host::Ipv6`, and any other host is `Host::Domain`, IP literals included. The model inputs therefore never contain `Host::Ipv4`, and the `Ipv4` branch of `is_loopback` (111) is dead code for any `Opts` built by `from_url`. The record holds: scheme, `cannot_be_a_base`, typed host, port, username, password, first path segment, and the query pairs as a sequence.
- `host_str` brackets an IPv6 host, as the url crate does.
- `set_port` fails exactly when the Url has no host.
- `to_socket_addrs` follows `url::Url::socket_addrs` for a Url: a typed IPv6 host is used as it is. A Domain goes through `(&str, u16)::to_socket_addrs`, which takes an IP literal as it is and resolves a name. The port is the Url's own. The fallback 3306 is never used, because `from_url` always sets the port (414). For a `HostPort` it follows `(&str, u16)::to_socket_addrs`: an IP literal is used as it is, any other string goes to the resolver `Dns`, and a failed lookup is an `io::Error`.
- `CapabilityFlags` is the set of names of its bits.
- `u32::MAX` is shrunk to 1000 in the model modules. There, the string `"1001"` stands for a number just above `u32::MAX`.

The ghost variables `curCapOps` and `bldCapOps` of `OptsBuilder` record the
last `add_capability` or `remove_capability` of each flag. The capability
property needs them.

## 3. Runs

| Run | cfg | Expect | What it shows |
|---|---|---|---|
| `url_parse` | `UrlParser.cfg` on `MCUrlParser` | pass | See below |
| `url_scheme_precedence` | `UrlSchemePrecedence.cfg` | violation | `postgres:foo`, and any hostless Url of another scheme, gets `Invalid`, not `UnsupportedScheme`. `set_port` (413) fails before the scheme check (982). |
| `url_empty_db_name` | `UrlEmptyDbName.cfg` | violation | `mysql://localhost/` gives `db_name = Some("")`, and with it `CLIENT_CONNECT_WITH_DB`. Spec 4.1.5 says it gives no database name. |
| `url_invalid_param_name` | `UrlParamName.cfg` | violation | A bad `tcp_keepalive` value is reported as `param: "tcp_keepalive_ms"` (1075). |
| `builder_url_equiv` | `UrlBuilderEquiv.cfg` on `MCUrlBuilderEquiv` | pass | See below |
| `builder_url_equiv_windows` | `UrlBuilderEquivWindows.cfg` | violation | With `NotWindows = FALSE`, `mysql://localhost` gives `prefer_socket` false. The mirroring builder's `prefer_socket(None)` gives true (901 against 704). |
| `builder_url_equiv_ip_host` | `UrlBuilderEquivIpHost.cfg` | violation | `mysql://127.0.0.1/db` gives `addr_is_loopback()` false: url types the host as `Domain("127.0.0.1")`, and line 113 compares a Domain with `"localhost"`. The builder's `HostPort("127.0.0.1", 3306)` gives true (100-103). Spec §8 claims both equality and loopback for 127.0.0.1. A rebuild of that `Opts` flips the answer the same way. |
| `opts_lifecycle` | `OptsLifecycle.cfg` on `MCOptsLifecycle` | pass | See below |
| `rebuild_round_trip` | `RebuildRoundTrip.cfg` | violation | Rebuilding an `Opts` from `mysql://[::1]/` with no setter call turns `addr_is_loopback()` from true to false, and `to_socket_addrs` into a failed lookup. `from_opts` stores `host_str()` = `"[::1]"`, which `Ipv6Addr::from_str` rejects (810, 100-107). The lifecycle's `127.0.0.1:3309` URL breaks the property too: its loopback answer goes from false to true (113 against 100-103). |
| `rebuild_round_trip_kept` | `RebuildRoundTripKept.cfg` | pass | The same property holds everywhere else. A rebuild with no setter call keeps every accessor value (host, port, loopback, socket addresses, options, capabilities) of an `Opts` parsed from a URL whose host is a name (`localhost`, `db.example`), explicit port or not. It also holds for a builder-made `Opts`, whose `HostPort` host here is the IPv6 literal `"::1"`, and for rebuilds of rebuilds. |

The `url_parse` run checks three things:

- `from_url` implements `UrlQuerySpec` (`QuerySemantics`, a refinement). It is checked on every Url shape, and on `mysql://localhost/db` with every query of up to three pairs drawn from 20. The refinement covers:
  - the first bad pair decides the error;
  - the last value of each key wins;
  - the interval is floored;
  - the pool bounds are checked once, after the loop.
- The published address resolves, through `to_socket_addrs`, to the Url's host at the Url's port, or at 3306 when the Url has none (`PublishedAddressResolves`). The host may be a Domain written as an IP literal, which resolves to itself.
- The published options are well typed (`TypeOK`). This includes compression in 0..9 and keepalive within u32.

The `builder_url_equiv` run checks `BuilderMatchesUrl`, the claim of spec
section 8 and of `test_builder_eq_url`. Take any URL that `from_url` accepts.
Configure `OptsBuilder::default()` with the same host, port, user, password
and database, then call one setter per query key:

- a key the URL does not give is passed as `None` to the setters that take an `Option`;
- `tcp_nodelay`, which takes no `Option`, is simply not called for an absent key;
- the pool keys become one `PoolOpts` built through its API.

The resulting `Opts` has the same accessor values as the parsed one. It is
checked on every accepted URL shape whose host is a name, and on
`mysql://localhost/db` with every query of up to three pairs. IPv6 hosts are
left out, because `rebuild_round_trip` already shows that no builder call
reproduces their bracketed `host_str`. IP literals are left out too, because of the loopback mismatch shown by `builder_url_equiv_ip_host`. The property breaks when a query key
sets a different field or unit than its setter, or when a setter's `None`
default differs from the `MysqlOpts::default()` that the URL path starts from.
On Windows it does differ, which the violation run shows.

The `opts_lifecycle` run checks the options the client holds. This covers the URL path, builders, rebuilds, and setter calls between rebuilds. Two properties:

- `HeldPoolOptsSane`: pool min ≤ max and the TTL-check interval is at least 1 s, whichever path produced the options.
- `CapabilitiesFollowHistory`: `get_capabilities` offers exactly the flags that the fields and the add/remove history call for.

Every property of a passing run has a mutant in `PROJECT.json`. A mutant is a
plausible bug in the mapped code that TLC must catch. The mutants are:

- any decimal accepted as a compression level;
- `to_socket_addrs` using 3306 instead of the Url's own port;
- `conn_ttl` from a URL stored without `Duration::from_secs`;
- no interval floor;
- `stmt_cache_size(None)` not reset;
- no `min <= max` check;
- `from_opts` freezing the derived bits;
- `from_opts` keeping the host but dropping the port of the old address.

### Bounds

`MCUrlParser` covers these cases:

- **Url shapes:** schemes `mysql` and `postgres`; `cannot_be_a_base`; no host; Domain hosts, both names and IP literals (`127.0.0.1`, `192.168.1.1`), and an IPv6 host; an explicit or absent port; an empty or set user and password; the first path segment absent, `""` or set. This covers every early return of `from_url` and `from_url_basic`.
- **Query pairs** (20): each recognized key with a good and a bad value, an unknown key, the `"10"` and `""` compression values, the sub-second interval `0`, a value above u32, `+5`, and pool bounds on both sides of each other.
- **Queries:** up to 3 pairs. Three pairs are enough for "an earlier good, a later bad" and "a repeated key", and for a pool violation that a later pair repairs.

`OptsLifecycle.cfg` uses:

- 4 URLs: a db name, IPv6 with a trailing slash and compression, a sub-second interval, and inverted pool bounds;
- one value per setter argument, plus `None`;
- three capability flags: two conditional and one plain;
- 2 setter calls per builder and 2 builds.

`RebuildRoundTripKept.cfg` uses the same bounds, with two changes: the URLs with an IP host (`[::1]`, `127.0.0.1`) are left out, and the builder's host is `"::1"`. `MCRoundTripUrls` keeps only hosts that are names, so `127.0.0.1:3309` becomes `db.example:3309`. That URL is what makes a lost port visible.

These bounds reach the following cases:

- remove then rebuild;
- set a field, then unset it in a later builder;
- add a flag, then remove it;
- a rebuild of a rebuilt `Opts`.

### Fairness and deadlock

`UrlParser.Spec` has weak fairness on `Next`. `from_url` is a straight-line
call that always returns, and the refinement's `WF` needs it. `OptsBuilder`
and `OptsLifecycle` assume no fairness, because a client need not ever build
anything. The runs set `CHECK_DEADLOCK FALSE` for two reasons:

- a finished `from_url` call stops;
- a client stops after `MaxBuilds`.

## 4. Not modelled

- The DNS service behind `to_socket_addrs` is the constant table `Dns`: `MCDns` maps `localhost` to both loopback addresses and `db.example` to one address. Any other name fails to resolve. Resolution is deterministic in the model; a resolver whose answers change over time is outside this code.
- The local infile handler is an opaque model value. Its default, setter and accessor are modelled. What it does when the server asks for a file is code of the connection layer, not of `opts.rs`.
- `From<T: AsRef<str>> for Opts` (1158) is `from_url(..).unwrap()`. It panics on the errors modelled by `UrlParser`.

## 5. Plan for later work

1. The pool's use of `active_bound` across rebuilds that change `inactive_connection_ttl`.
2. Larger lifecycle bounds (three builds), if the run time allows.
