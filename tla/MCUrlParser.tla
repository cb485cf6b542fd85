---------------------------- MODULE MCUrlParser -----------------------------
(***************************************************************************)
(* Model-checking instance of UrlParser: two families of inputs, Urls of   *)
(* every shape with a short query, and mysql://localhost/db with every     *)
(* query of up to three pairs over values chosen to hit each branch.       *)
(***************************************************************************)
EXTENDS UrlParser, MCOptsData
LOCAL INSTANCE SequencesExt

\* mysql://localhost/db?<up to three pairs>
QueryInputs ==
    {MkUrl("mysql", FALSE, Localhost, NoValue, "", NoValue, "db", q) :
        q \in BoundedSeq(QueryPairs, 3)}

\* scheme://[user[:pass]@]host[:port][/segment][?compression=fast], and the
\* hostless forms scheme:/db and scheme:opaque.
ShapeInputs ==
    {MkUrl(s, FALSE, h, port, u, pw, seg, q) :
        s \in {"mysql", "postgres"}, h \in Hosts, port \in {NoValue, 3309},
        u \in {"", "usr"}, pw \in {NoValue, "pass%20word"},
        seg \in {NoValue, "", "my%20db"}, q \in {<<>>, <<P("compression", "fast")>>}}
    \cup
    {MkUrl(s, cbab, NoValue, NoValue, "", NoValue, IF cbab THEN NoValue ELSE "db", <<>>) :
        s \in {"mysql", "postgres"}, cbab \in BOOLEAN}

MCUrlInputs == QueryInputs \cup ShapeInputs

=============================================================================
