---------------------------- MODULE OptsLifecycle ---------------------------
(***************************************************************************)
(* The two construction paths of Opts composed: a client gets its first    *)
(* Opts either from Opts::from_url (UrlParser) or from a builder           *)
(* (OptsBuilder), and may then rebuild it any number of times through     *)
(* OptsBuilder::from_opts.  The URL path and the builder path meet in the  *)
(* shared Opts value `current`.                                            *)
(***************************************************************************)
EXTENDS OptsData

CONSTANTS
    UrlInputs,
    Hostnames, Ports, Strings, InitCmds, KeepAlives, Durations, CacheSizes,
    PoolOptsValues, SslOptsValues, CompressionLevels, Handlers, CapFlags,
    MaxSetterCalls, MaxBuilds

VARIABLES
    input, url, pc, opts, pairs, pool_min, pool_max, result,
    current, builder, seed, calls, builds, curCapOps, bldCapOps

urlVars == <<input, url, pc, opts, pairs, pool_min, pool_max, result>>
builderVars == <<current, builder, seed, calls, builds, curCapOps, bldCapOps>>
vars == <<urlVars, builderVars>>

Url == INSTANCE UrlParser
B == INSTANCE OptsBuilder

Init == Url!Init /\ B!Init

\* The client keeps the Opts that from_url returned, if it has none yet.
AdoptUrlOpts ==
    /\ result # NoValue /\ result.ok
    /\ current = NoValue /\ builder = NoValue
    /\ current' = result.opts
    /\ UNCHANGED <<urlVars, builder, seed, calls, builds, curCapOps, bldCapOps>>

\* Construction is single-threaded (spec.md section 5): the client's call to
\* from_url returns before it touches a builder.
Next ==
    \/ Url!Next /\ UNCHANGED builderVars
    \/ pc = "done" /\ B!Next /\ UNCHANGED urlVars
    \/ AdoptUrlOpts

Spec == Init /\ [][Next]_vars

-----------------------------------------------------------------------------
(* Properties                                                              *)

TypeOK == Url!TypeOK /\ B!BuilderTypeOK

\* Whichever path produced it and however often it was rebuilt, the Opts a
\* client holds has pool min <= max and a TTL-check interval of at least one
\* second: the URL path checks the bounds after its loop and floors the
\* interval in with_ttl_check_interval; the builder path only accepts a
\* PoolOpts, whose constraints come from PoolConstraints::new.
HeldPoolOptsSane ==
    current # NoValue =>
        LET po == current.mysql_opts.pool_opts IN
        /\ po.constraints.min <= po.constraints.max
        /\ po.ttl_check_interval >= Secs(1)

CapabilitiesFollowHistory == B!CapabilitiesFollowHistory

RebuildPreservesAccessors == B!RebuildPreservesAccessors

=============================================================================
