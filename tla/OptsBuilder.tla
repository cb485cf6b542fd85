---------------------------- MODULE OptsBuilder ----------------------------
(***************************************************************************)
(* OptsBuilder (src/opts.rs) and the client that holds the shared Opts:    *)
(* a builder is started from OptsBuilder::default() or from the current    *)
(* Opts (OptsBuilder::from_opts), takes setter calls, and is consumed by   *)
(* From<OptsBuilder> for Opts, whose result replaces the current Opts      *)
(* (spec.md section 5: an Opts is never mutated, it is rebuilt).  Each     *)
(* setter is an operator on the builder value named after its method.      *)
(***************************************************************************)
EXTENDS BuilderOps

CONSTANTS
    Hostnames, Ports, Strings, InitCmds, KeepAlives, Durations, CacheSizes,
    PoolOptsValues, SslOptsValues, CompressionLevels, Handlers, CapFlags,
    MaxSetterCalls,   \* setter calls on one builder
    MaxBuilds         \* builders consumed in one behaviour

VARIABLES
    current,     \* the Opts the client shares, NoValue before the first one
    builder,     \* the OptsBuilder in use, NoValue when there is none
    seed,        \* the Opts the builder was made from by from_opts, or NoValue
    calls,       \* setter calls made on the builder
    builds,      \* builders consumed so far
    curCapOps,   \* ghost: the last explicit add/remove of each flag behind current
    bldCapOps    \* ghost: the same for the builder

builderVars == <<current, builder, seed, calls, builds, curCapOps, bldCapOps>>

NoCapOps == [f \in CapFlags |-> "none"]

-----------------------------------------------------------------------------
(* The client's steps                                                      *)

Init ==
    /\ current = NoValue
    /\ builder = NoValue
    /\ seed = NoValue
    /\ calls = 0
    /\ builds = 0
    /\ curCapOps = NoCapOps
    /\ bldCapOps = NoCapOps

StartDefault ==
    /\ builder = NoValue /\ builds < MaxBuilds
    /\ builder' = DefaultBuilder
    /\ seed' = NoValue
    /\ calls' = 0
    /\ bldCapOps' = NoCapOps
    /\ UNCHANGED <<current, builds, curCapOps>>

StartFromOpts ==
    /\ builder = NoValue /\ builds < MaxBuilds /\ current # NoValue
    /\ builder' = from_opts(current)
    /\ seed' = current
    /\ calls' = 0
    /\ bldCapOps' = curCapOps
    /\ UNCHANGED <<current, builds, curCapOps>>

\* One setter call with any argument of its type.
CallSetter ==
    /\ builder # NoValue /\ calls < MaxSetterCalls
    /\ \/ /\ \/ \E h \in Hostnames : builder' = ip_or_hostname(builder, h)
             \/ \E p \in Ports : builder' = tcp_port(builder, p)
             \/ \E u \in Opt(Strings) : builder' = user(builder, u)
             \/ \E p \in Opt(Strings) : builder' = pass(builder, p)
             \/ \E d \in Opt(Strings) : builder' = db_name(builder, d)
             \/ \E c \in InitCmds : builder' = init(builder, c)
             \/ \E k \in Opt(KeepAlives) : builder' = tcp_keepalive(builder, k)
             \/ \E v \in BOOLEAN : builder' = tcp_nodelay(builder, v)
             \/ \E h \in Opt(Handlers) : builder' = local_infile_handler(builder, h)
             \/ \E po \in Opt(PoolOptsValues) : builder' = pool_opts(builder, po)
             \/ \E d \in Opt(Durations) : builder' = conn_ttl(builder, d)
             \/ \E n \in Opt(CacheSizes) : builder' = stmt_cache_size(builder, n)
             \/ \E s \in Opt(SslOptsValues) : builder' = ssl_opts(builder, s)
             \/ \E v \in Opt(BOOLEAN) : builder' = prefer_socket(builder, v)
             \/ \E s \in Opt(Strings) : builder' = socket(builder, s)
             \/ \E c \in Opt(CompressionLevels) : builder' = compression(builder, c)
          /\ UNCHANGED bldCapOps
       \/ \E f \in CapFlags :
             /\ builder' = add_capability(builder, f)
             /\ bldCapOps' = [bldCapOps EXCEPT ![f] = "add"]
       \/ \E f \in CapFlags :
             /\ builder' = remove_capability(builder, f)
             /\ bldCapOps' = [bldCapOps EXCEPT ![f] = "remove"]
    /\ calls' = calls + 1
    /\ UNCHANGED <<current, seed, builds, curCapOps>>

\* Opts::from(builder) replaces the shared Opts.
Build ==
    /\ builder # NoValue
    /\ current' = OptsFromBuilder(builder)
    /\ curCapOps' = bldCapOps
    /\ builder' = NoValue
    /\ builds' = builds + 1
    /\ UNCHANGED <<seed, calls, bldCapOps>>

Next == StartDefault \/ StartFromOpts \/ CallSetter \/ Build

Spec == Init /\ [][Next]_builderVars

-----------------------------------------------------------------------------
(* Properties                                                              *)

BuilderTypeOK ==
    /\ builder \in Opt(BuilderType)
    /\ calls \in 0..MaxSetterCalls /\ builds \in 0..MaxBuilds
    /\ curCapOps \in [CapFlags -> {"none", "add", "remove"}]
    /\ bldCapOps \in [CapFlags -> {"none", "add", "remove"}]
    /\ current # NoValue => current.mysql_opts \in MysqlOptsType

\* The field whose presence get_capabilities turns into flag f.
Triggered(o, f) ==
    \/ f = "CLIENT_CONNECT_WITH_DB" /\ o.db_name # NoValue
    \/ f = "CLIENT_SSL" /\ o.ssl_opts # NoValue
    \/ f = "CLIENT_COMPRESS" /\ o.compression # NoValue

\* Spec 4.4: through any chain of builders and rebuilds, a flag is offered
\* exactly when its field is set, or the last add_capability/remove_capability
\* of it was an add, or it was never touched and is a default flag.  So
\* remove_capability cannot suppress a field-triggered bit, and a triggered
\* bit disappears as soon as its field is unset again (get_capabilities
\* recomputes the trio on every read; from_opts copies only the stored bits).
CapabilitiesFollowHistory ==
    current # NoValue =>
      \A f \in DefaultCaps \cup ConditionalCaps \cup CapFlags :
        LET op == IF f \in CapFlags THEN curCapOps[f] ELSE "none" IN
        f \in GetCapabilities(current.mysql_opts) <=>
            \/ Triggered(current.mysql_opts, f)
            \/ op = "add"
            \/ op = "none" /\ f \in DefaultCaps

\* Spec 5 and 9: "updating" an Opts means rebuilding it from a builder
\* seeded with the old one; a rebuild with no setter call in between gives
\* an Opts with the same accessor values (from_opts flattens the address
\* into ip_or_hostname and tcp_port).
RebuildPreservesAccessors ==
    [][Build /\ seed # NoValue /\ calls = 0 =>
         Accessors(current') = Accessors(seed)]_builderVars

=============================================================================
