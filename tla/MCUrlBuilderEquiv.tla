-------------------------- MODULE MCUrlBuilderEquiv --------------------------
(***************************************************************************)
(* Model-checking instance of UrlBuilderEquiv: Urls of every accepted      *)
(* shape with a host name, and mysql://localhost/db with every query of up *)
(* to three pairs.  IPv6 hosts are left out: their host_str is bracketed,  *)
(* which run rebuild_round_trip shows no builder call reproduces.  IP      *)
(* literals typed Domain are the inputs of their own run: the Url path and *)
(* the builder disagree on addr_is_loopback for them.                      *)
(***************************************************************************)
EXTENDS UrlBuilderEquiv, MCOptsData
LOCAL INSTANCE SequencesExt

MCEquivInputs ==
    {MkUrl("mysql", FALSE, Localhost, NoValue, "", NoValue, "db", q) :
        q \in BoundedSeq(QueryPairs, 3)}
    \cup
    {MkUrl("mysql", FALSE, h, port, u, pw, seg, <<>>) :
        h \in {x \in Hosts : x.type = "Domain" /\ ~IsIpLiteralDomain(x)},
        port \in {NoValue, 3309}, u \in {"", "usr"}, pw \in {NoValue, "pass%20word"},
        seg \in {NoValue, "", "my%20db"}}

\* mysql://127.0.0.1/db and mysql://192.168.1.1/db: IP literals under mysql://.
MCEquivIpHostInputs ==
    {MkUrl("mysql", FALSE, h, NoValue, "", NoValue, "db", <<>>) :
        h \in {x \in Hosts : IsIpLiteralDomain(x)}}

=============================================================================
