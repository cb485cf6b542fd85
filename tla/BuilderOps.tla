----------------------------- MODULE BuilderOps -----------------------------
(***************************************************************************)
(* The methods of OptsBuilder (src/opts.rs) as operators on the builder    *)
(* value: OptsBuilder::default(), OptsBuilder::from_opts, one operator per *)
(* setter, named after it, and From<OptsBuilder> for Opts.  An Opts is the *)
(* record [mysql_opts, address]; Accessors is what its public accessors    *)
(* return.  The client that calls these is the module OptsBuilder.        *)
(***************************************************************************)
EXTENDS OptsData

BuilderType ==
    [opts: MysqlOptsType, ip_or_hostname: STRING, tcp_port: Nat]

DefaultBuilder ==
    [opts |-> DefaultMysqlOpts,
     ip_or_hostname |-> GetIpOrHostname(DefaultAddress),
     tcp_port |-> GetTcpPort(DefaultAddress)]

\* Mutant: from_opts freezes the derived capability bits into the stored set.
from_opts_frozen_caps(o) ==
    [tcp_port |-> GetTcpPort(o.address),
     ip_or_hostname |-> GetIpOrHostname(o.address),
     opts |-> [o.mysql_opts EXCEPT !.capabilities = GetCapabilities(o.mysql_opts)]]

\* Mutant: from_opts keeps the host but not the port of the old address.
from_opts_default_port(o) ==
    [tcp_port |-> DEFAULT_PORT,
     ip_or_hostname |-> GetIpOrHostname(o.address),
     opts |-> o.mysql_opts]

from_opts(o) ==
    [tcp_port |-> GetTcpPort(o.address),
     ip_or_hostname |-> GetIpOrHostname(o.address),
     opts |-> o.mysql_opts]

ip_or_hostname(b, h) == [b EXCEPT !.ip_or_hostname = h]
tcp_port(b, p) == [b EXCEPT !.tcp_port = p]
user(b, u) == [b EXCEPT !.opts.user = u]
pass(b, p) == [b EXCEPT !.opts.pass = p]
db_name(b, d) == [b EXCEPT !.opts.db_name = d]
init(b, cmds) == [b EXCEPT !.opts.init = cmds]
tcp_keepalive(b, k) == [b EXCEPT !.opts.tcp_keepalive = k]
tcp_nodelay(b, v) == [b EXCEPT !.opts.tcp_nodelay = v]
local_infile_handler(b, h) == [b EXCEPT !.opts.local_infile_handler = h]
pool_opts(b, po) ==
    [b EXCEPT !.opts.pool_opts = IF po = NoValue THEN DefaultPoolOpts ELSE po]
conn_ttl(b, d) == [b EXCEPT !.opts.conn_ttl = d]
\* Mutant: None stored instead of DEFAULT_STMT_CACHE_SIZE.
stmt_cache_size_no_default(b, n) == [b EXCEPT !.opts.stmt_cache_size = n]
stmt_cache_size(b, n) ==
    [b EXCEPT !.opts.stmt_cache_size = IF n = NoValue THEN DEFAULT_STMT_CACHE_SIZE ELSE n]
ssl_opts(b, s) == [b EXCEPT !.opts.ssl_opts = s]
prefer_socket(b, v) == [b EXCEPT !.opts.prefer_socket = IF v = NoValue THEN TRUE ELSE v]
socket(b, s) == [b EXCEPT !.opts.socket = s]
compression(b, c) == [b EXCEPT !.opts.compression = c]
add_capability(b, f) == [b EXCEPT !.opts.capabilities = @ \cup {f}]
remove_capability(b, f) == [b EXCEPT !.opts.capabilities = @ \ {f}]

\* From<OptsBuilder> for Opts
OptsFromBuilder(b) ==
    [mysql_opts |-> b.opts, address |-> HostPort(b.ip_or_hostname, b.tcp_port)]

\* The observable values of an Opts: its public accessors.
Accessors(o) ==
    [ip_or_hostname |-> GetIpOrHostname(o.address),
     tcp_port |-> GetTcpPort(o.address),
     addr_is_loopback |-> IsLoopback(o.address),
     socket_addrs |-> ToSocketAddrs(o.address),
     mysql_opts |-> o.mysql_opts,
     capabilities |-> GetCapabilities(o.mysql_opts)]

=============================================================================
