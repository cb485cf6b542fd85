---------------------------- MODULE UrlQuerySpec ----------------------------
(***************************************************************************)
(* What Opts::from_url promises (spec.md sections 4.1 and 7), stated       *)
(* declaratively over the whole query at once, in a single step:          *)
(*   - a Url that is not mysql:// with a host is rejected with a URL error; *)
(*   - otherwise the FIRST query pair with an unknown key or a value that   *)
(*     does not parse decides the error;                                   *)
(*   - otherwise every option takes the value of the LAST pair with its    *)
(*     key, the TTL-check interval is floored at one second, and pool_min  *)
(*     and pool_max are compared once, after all parameters.              *)
(* The parser's per-field parsing (ParseParam) is shared with the code     *)
(* model; what this module fixes is how the pairs are combined.  The       *)
(* outcome is a view: the error kind with the data the spec says it        *)
(* carries, or the settings the query controls.                            *)
(***************************************************************************)
EXTENDS OptsData
LOCAL INSTANCE SequencesExt

CONSTANT UrlInputs

VARIABLES url, outcome

\* Section 7 names both URL-level errors; which of the two a Url that is
\* wrong on both counts gets is checked by a run of its own.
UrlRejections == {[ok |-> FALSE, kind |-> "UnsupportedScheme"],
                  [ok |-> FALSE, kind |-> "Invalid"]}

Acceptable(u) == u.scheme = "mysql" /\ ~u.cannot_be_a_base /\ u.host # NoValue

ValidPair(p) == p.key \in RecognizedKeys /\ ParseParam(p.key, p.value) # NoValue

PairError(p) ==
    IF p.key \in RecognizedKeys
    THEN [ok |-> FALSE, kind |-> "InvalidParamValue", value |-> p.value]
    ELSE [ok |-> FALSE, kind |-> "UnknownParameter", param |-> p.key]

\* The parsed value of the last pair with this key, or dflt.
LastValue(q, key, dflt) ==
    LET i == SelectLastInSeq(q, LAMBDA p : p.key = key)
    IN IF i = 0 THEN dflt ELSE ParseParam(key, q[i].value)

OptSecs(v) == IF v = NoValue THEN NoValue ELSE Secs(v)

Settings(q, min, max) ==
    LET interval == Secs(LastValue(q, "ttl_check_interval", 30)) IN
    [min                     |-> min,
     max                     |-> max,
     inactive_connection_ttl |-> Secs(LastValue(q, "inactive_connection_ttl", 0)),
     ttl_check_interval      |-> IF interval < Secs(1) THEN Secs(30) ELSE interval,
     conn_ttl                |-> OptSecs(LastValue(q, "conn_ttl", NoValue)),
     tcp_keepalive           |-> LastValue(q, "tcp_keepalive", NoValue),
     tcp_nodelay             |-> LastValue(q, "tcp_nodelay", TRUE),
     stmt_cache_size         |-> LastValue(q, "stmt_cache_size", 32),
     prefer_socket           |-> LastValue(q, "prefer_socket", NotWindows),
     socket                  |-> LastValue(q, "socket", NoValue),
     compression             |-> LastValue(q, "compression", NoValue)]

\* The outcomes the spec allows for a call with Url u.
Outcomes(u) ==
    IF ~Acceptable(u) THEN UrlRejections
    ELSE LET q   == u.query
             bad == SelectInSeq(q, LAMBDA p : ~ValidPair(p))
             min == LastValue(q, "pool_min", 10)
             max == LastValue(q, "pool_max", 100)
         IN CASE bad # 0   -> {PairError(q[bad])}
              [] min > max -> {[ok |-> FALSE, kind |-> "InvalidPoolConstraints",
                                min |-> min, max |-> max]}
              [] OTHER     -> {[ok |-> TRUE, settings |-> Settings(q, min, max)]}

Init == url \in UrlInputs /\ outcome = NoValue

Parse ==
    /\ outcome = NoValue
    /\ outcome' \in Outcomes(url)
    /\ UNCHANGED url

Spec == Init /\ [][Parse]_<<url, outcome>> /\ WF_<<url, outcome>>(Parse)

=============================================================================
