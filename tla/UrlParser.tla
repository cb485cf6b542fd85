----------------------------- MODULE UrlParser -----------------------------
(***************************************************************************)
(* Opts::from_url (src/opts.rs), one step per stage of the function:       *)
(* the default port injected into the Url, from_url_basic's scheme and     *)
(* host checks and identity fields, one iteration of mysqlopts_from_url's  *)
(* query loop per step, and the pool-constraint check after the loop that  *)
(* publishes the Opts.  The input is an already parsed url::Url: Url::parse *)
(* and query_pairs() are the url crate's and are not modelled.             *)
(***************************************************************************)
EXTENDS OptsData

CONSTANT UrlInputs   \* the parsed Urls from_url is called with

VARIABLES
    input,     \* the Url as passed in, kept for the refinement mapping
    url,       \* the local `url`, to which set_port may add the port
    pc,        \* the stage of from_url reached
    opts,      \* the MysqlOpts being filled in
    pairs,     \* the query pairs the loop has not consumed yet
    pool_min,  \* the loop's pool_min
    pool_max,  \* the loop's pool_max
    result     \* the returned Result<Opts, UrlError>, NoValue until returned

vars == <<input, url, pc, opts, pairs, pool_min, pool_max, result>>

Ok(o) == [ok |-> TRUE, opts |-> o]
Err(e) == [ok |-> FALSE, err |-> e]

Init ==
    /\ input \in UrlInputs
    /\ url = input
    /\ pc = "set_port"
    /\ opts = DefaultMysqlOpts
    /\ pairs = <<>>
    /\ pool_min = DEFAULT_POOL_CONSTRAINTS.min
    /\ pool_max = DEFAULT_POOL_CONSTRAINTS.max
    /\ result = NoValue

\* url.set_port fails on a Url without a host (cannot-be-a-base included).
SetPortFails(u) == u.host = NoValue

\* from_url lines 413-416: a Url without a port gets DEFAULT_PORT, and a Url
\* whose port cannot be set is rejected as Invalid.
SetDefaultPort ==
    /\ pc = "set_port"
    /\ \/ /\ url.port # NoValue
          /\ pc' = "basic"
          /\ UNCHANGED <<url, result>>
       \/ /\ url.port = NoValue
          /\ ~SetPortFails(url)
          /\ url' = [url EXCEPT !.port = DEFAULT_PORT]
          /\ pc' = "basic"
          /\ UNCHANGED result
       \/ /\ url.port = NoValue
          /\ SetPortFails(url)
          /\ result' = Err([kind |-> "Invalid"])
          /\ pc' = "done"
          /\ UNCHANGED url
    /\ UNCHANGED <<input, opts, pairs, pool_min, pool_max>>

\* get_opts_user_from_url, get_opts_pass_from_url, get_opts_db_name_from_url
UserFromUrl(u) == IF u.username = "" THEN NoValue ELSE PercentDecoded[u.username]
PassFromUrl(u) == IF u.password = NoValue THEN NoValue ELSE PercentDecoded[u.password]
DbNameFromUrl(u) == IF u.segment = NoValue THEN NoValue ELSE PercentDecoded[u.segment]

\* from_url_basic, and the initialisation of pool_min/pool_max that follows
\* it in mysqlopts_from_url.  Its Invalid branch cannot be taken after
\* SetDefaultPort, which already rejected every Url without a host.
FromUrlBasic ==
    /\ pc = "basic"
    /\ \/ /\ url.scheme # "mysql" \/ url.cannot_be_a_base \/ url.host = NoValue
          /\ result' = Err(IF url.scheme # "mysql"
                           THEN [kind |-> "UnsupportedScheme", scheme |-> url.scheme]
                           ELSE [kind |-> "Invalid"])
          /\ pc' = "done"
          /\ UNCHANGED <<opts, pairs>>
       \/ /\ url.scheme = "mysql"
          /\ ~url.cannot_be_a_base /\ url.host # NoValue
          /\ opts' = [DefaultMysqlOpts EXCEPT !.user = UserFromUrl(url),
                                              !.pass = PassFromUrl(url),
                                              !.db_name = DbNameFromUrl(url)]
          /\ pairs' = url.query
          /\ pc' = "query"
          /\ UNCHANGED result
    /\ pool_min' = DEFAULT_POOL_CONSTRAINTS.min
    /\ pool_max' = DEFAULT_POOL_CONSTRAINTS.max
    /\ UNCHANGED <<input, url>>

-----------------------------------------------------------------------------
(* One iteration of the query loop of mysqlopts_from_url.                  *)

\* pool_min / pool_max: the value is kept aside until the loop ends.
ApplyPoolBound ==
    /\ pc = "query" /\ pairs # <<>>
    /\ LET p == Head(pairs) IN
        /\ p.key \in {"pool_min", "pool_max"}
        /\ ParseParam(p.key, p.value) # NoValue
        /\ IF p.key = "pool_min"
           THEN pool_min' = ParseParam(p.key, p.value) /\ UNCHANGED pool_max
           ELSE pool_max' = ParseParam(p.key, p.value) /\ UNCHANGED pool_min
    /\ pairs' = Tail(pairs)
    /\ UNCHANGED <<input, url, pc, opts, result>>

\* Every other recognized key whose value parses is assigned at once.
ApplyOption ==
    /\ pc = "query" /\ pairs # <<>>
    /\ LET p == Head(pairs) IN
        /\ p.key \in RecognizedKeys \ {"pool_min", "pool_max"}
        /\ ParseParam(p.key, p.value) # NoValue
        /\ opts' = ApplyParam(opts, p.key, ParseParam(p.key, p.value))
    /\ pairs' = Tail(pairs)
    /\ UNCHANGED <<input, url, pc, pool_min, pool_max, result>>

\* A recognized key whose value does not parse returns InvalidParamValue.
RejectParamValue ==
    /\ pc = "query" /\ pairs # <<>>
    /\ LET p == Head(pairs) IN
        /\ p.key \in RecognizedKeys
        /\ ParseParam(p.key, p.value) = NoValue
        /\ result' = Err([kind |-> "InvalidParamValue",
                          param |-> InvalidValueParam(p.key), value |-> p.value])
    /\ pc' = "done"
    /\ UNCHANGED <<input, url, opts, pairs, pool_min, pool_max>>

\* Any other key returns UnknownParameter.
RejectUnknownParameter ==
    /\ pc = "query" /\ pairs # <<>>
    /\ Head(pairs).key \notin RecognizedKeys
    /\ result' = Err([kind |-> "UnknownParameter", param |-> Head(pairs).key])
    /\ pc' = "done"
    /\ UNCHANGED <<input, url, opts, pairs, pool_min, pool_max>>

\* After the loop: PoolConstraints::new(pool_min, pool_max), then from_url
\* wraps the MysqlOpts and the Url address into the published Opts.
FinishPool ==
    /\ pc = "query" /\ pairs = <<>>
    /\ LET c == PoolConstraintsNew(pool_min, pool_max) IN
        \/ /\ c # NoValue
           /\ result' = Ok([mysql_opts |-> [opts EXCEPT !.pool_opts = WithConstraints(@, c)],
                            address |-> UrlAddress(url)])
        \/ /\ c = NoValue
           /\ result' = Err([kind |-> "InvalidPoolConstraints",
                             min |-> pool_min, max |-> pool_max])
    /\ pc' = "done"
    /\ UNCHANGED <<input, url, opts, pairs, pool_min, pool_max>>

Next ==
    \/ SetDefaultPort
    \/ FromUrlBasic
    \/ ApplyPoolBound
    \/ ApplyOption
    \/ RejectParamValue
    \/ RejectUnknownParameter
    \/ FinishPool

\* from_url is a sequential function: once called it runs to its return.
Spec == Init /\ [][Next]_vars /\ WF_vars(Next)

-----------------------------------------------------------------------------
(* Properties                                                              *)

UrlErrorKinds == {"UnsupportedScheme", "Invalid", "UnknownParameter",
                  "InvalidParamValue", "InvalidPoolConstraints"}

TypeOK ==
    /\ input \in UrlInputs
    /\ pc \in {"set_port", "basic", "query", "done"}
    /\ opts \in MysqlOptsType
    /\ pairs \in Seq([key: STRING, value: STRING])
    /\ pool_min \in Nat /\ pool_max \in Nat
    /\ result = NoValue <=> pc # "done"
    /\ result # NoValue =>
         IF result.ok
         THEN /\ result.opts.mysql_opts \in MysqlOptsType
              /\ result.opts.address.kind = "Url"
         ELSE result.err.kind \in UrlErrorKinds

\* The published settings the query controls, as UrlQuerySpec views them.
SettingsOf(o) ==
    [min |-> o.pool_opts.constraints.min, max |-> o.pool_opts.constraints.max,
     inactive_connection_ttl |-> o.pool_opts.inactive_connection_ttl,
     ttl_check_interval |-> o.pool_opts.ttl_check_interval,
     conn_ttl |-> o.conn_ttl, tcp_keepalive |-> o.tcp_keepalive,
     tcp_nodelay |-> o.tcp_nodelay, stmt_cache_size |-> o.stmt_cache_size,
     prefer_socket |-> o.prefer_socket, socket |-> o.socket,
     compression |-> o.compression]

\* The returned Result as UrlQuerySpec views it; the param name of an
\* InvalidParamValue is checked by InvalidValueNamesKey instead.
View(r) ==
    IF r = NoValue THEN NoValue
    ELSE IF r.ok THEN [ok |-> TRUE, settings |-> SettingsOf(r.opts.mysql_opts)]
    ELSE CASE r.err.kind = "InvalidParamValue" ->
                [ok |-> FALSE, kind |-> r.err.kind, value |-> r.err.value]
           [] r.err.kind = "UnknownParameter" ->
                [ok |-> FALSE, kind |-> r.err.kind, param |-> r.err.param]
           [] r.err.kind = "InvalidPoolConstraints" ->
                [ok |-> FALSE, kind |-> r.err.kind, min |-> r.err.min, max |-> r.err.max]
           [] OTHER -> [ok |-> FALSE, kind |-> r.err.kind]

QS == INSTANCE UrlQuerySpec WITH url <- input, outcome <- View(result)

\* from_url returns, and what it returns is what UrlQuerySpec allows: the
\* first bad pair of the query decides the error, each option keeps the
\* last value given, the TTL-check interval is floored at 1s, and pool_min
\* <= pool_max is judged on the final values only (the loop of
\* mysqlopts_from_url and the PoolConstraints::new check after it).
QuerySemantics == QS!Spec

\* Spec 4.1 rule 3 and 4.2: the address from_url publishes resolves, through
\* HostPortOrUrl::to_socket_addrs, to the Url's host at the Url's port, or at
\* 3306 when the Url has none (the port set_port injects at line 414).  The
\* host is the IP it names, a Domain written as an IP literal (how the url
\* crate types 127.0.0.1 under mysql://) included, or what the resolver
\* gives for a name.
PublishedAddressResolves ==
    result # NoValue /\ result.ok =>
        LET port == IF input.port = NoValue THEN DEFAULT_PORT ELSE input.port
            ips  == IF input.host.addr \in DOMAIN Dns THEN Dns[input.host.addr]
                    ELSE {input.host.addr}
        IN ToSocketAddrs(result.opts.address) = {[ip |-> i, port |-> port] : i \in ips}

\* Spec 4.1 rule 1 and section 7: a Url whose scheme is not mysql fails
\* with UnsupportedScheme (from_url checks the port before the scheme).
NonMysqlSchemeUnsupported ==
    result # NoValue /\ input.scheme # "mysql" =>
        ~result.ok /\ result.err.kind = "UnsupportedScheme"

\* Spec 4.1 rule 5: an absent or empty path yields no database name
\* (get_opts_db_name_from_url takes the first path segment as it is).
EmptyPathNoDbName ==
    result # NoValue /\ result.ok /\ input.segment \in {NoValue, ""} =>
        result.opts.mysql_opts.db_name = NoValue

\* Spec 4.1 rule 6: InvalidParamValue names the parameter that was given
\* (mysqlopts_from_url builds the param of each error by hand).
InvalidValueNamesKey ==
    result # NoValue /\ ~result.ok /\ result.err.kind = "InvalidParamValue" =>
        \E i \in 1..Len(input.query) : input.query[i].key = result.err.param

=============================================================================
