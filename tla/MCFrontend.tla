----------------------------- MODULE MCFrontend -----------------------------
(***************************************************************************)
(* Two sessions.  Alone, one of them compiles texts that are all sequences *)
(* of a few tokens, or strips all sequences of a few atoms; together, they *)
(* share the Java server or a model.                                       *)
(***************************************************************************)
EXTENDS Frontend

T(k) == [NoClause EXCEPT !.k = k]
To(c, m, i) == [NoClause EXCEPT !.k = "to", !.clause = c, !.model = m, !.image = i]
Query(t) == [NoClause EXCEPT !.k = "query", !.from = t]
Create(t, from) == [NoClause EXCEPT !.k = "create", !.into = t, !.from = from]

MCSessions == {"s1", "s2"}
MCTables == {"a", "b", "d.a"}
MCBareName == [t \in MCTables |-> IF t = "d.a" THEN "a" ELSE t]
MCStored == [m1 |-> "i1", m2 |-> "absent"]
Idle == [mode |-> "analyze", dialect |-> "unknown", raw |-> <<>>, text |-> <<>>]
Alone(ins) == {[s \in MCSessions |-> IF s = "s1" THEN i ELSE Idle] : i \in ins}
Input(mode, dialect, text) == [mode |-> mode, dialect |-> dialect, raw |-> <<>>, text |-> text]

SeqsUpTo(S, n) == UNION {[1..k -> S] : k \in 0..n}

\* Comments.
Raws ==
    {[Input("experimental", "unknown", <<>>) EXCEPT !.raw = r] :
        r \in SeqsUpTo({"x", "q", "d", "b", "--", "/*", "*/", "n"}, 3)
              \cup SeqsUpTo({"q", "b", "--", "n"}, 5)
              \cup {r \in [1..6 -> {"q", "--", "/*", "*/", "n"}] : r[1] = "q" /\ r[2] = "q"}}

\* Texts for the parsers.
Texts == SeqsUpTo({T("query"), T("comment"), T("select"), To("train", "m1", "i1"),
                   T("show"), T("bad"), T("set")}, 4)
Parsed ==
    {Input("analyze", "mysql", t) : t \in Texts}
    \cup {Input(mode, d, t) : mode \in {"yaml", "experimental"}, d \in {"hive", "alisa"},
           t \in {t \in Texts : Len(t) = 3 /\ WellFormed(t)}}
    \cup {Input("couler", "mysql", <<T("other")>>)}

\* Programs for the graph, over two tables, one of them under two names.
Graphs ==
    {Input("analyze", "mysql", t) :
        t \in SeqsUpTo({Query("a"), Query("b"), Create("a", "none"), Create("a", "a"),
                        Create("a", "b"), Create("b", "a")}, 3)
             \cup SeqsUpTo({Query("d.a"), Create("d.a", "none"), Create("b", "d.a"),
                             Create("a", "a"), Query("a")}, 3)
             \cup [1..4 -> {Query("a"), Create("a", "none"), Create("a", "a"), Create("b", "a")}]
             \cup [1..5 -> {Query("a"), Create("a", "a")}]}

\* Programs that train a model and use it.
Uses == {To(c, m, "default") : c \in {"predict", "evaluate"}, m \in {"m1", "m2"}}
Extended(ts) == FlattenSeq([i \in DOMAIN ts |-> <<T("select"), ts[i]>>])
Trained(m, is) == {To("train", m, i) : i \in is}
Modelled ==
    {Input("experimental", "mysql", Extended(ts)) :
        ts \in SeqsUpTo(Trained("m1", {"i1", "i2"}) \cup {To("predict", "m1", "default"),
                        To("explain", "m2", "default")}, 3)}
    \cup {Input("yaml", "mysql", Extended(<<To("train", "m1", "i2"), To("run", "none", "i1"),
                                            To("optimize", "none", "default")>>))}

\* Two sessions.
Retrain == Input("experimental", "mysql", Extended(<<To("train", "m1", "i2")>>))
RetrainTwice == Input("experimental", "mysql",
                  Extended(<<To("train", "m1", "i1"), To("train", "m1", "i2")>>))
UseTwice == Input("experimental", "mysql",
                  Extended(<<To("predict", "m1", "default"), To("evaluate", "m1", "default")>>))
Hive == Input("yaml", "hive", <<T("query"), T("select"), To("run", "none", "i1"), T("query")>>)
Alisa == Input("yaml", "alisa", <<T("set"), T("query"), T("show"), T("set")>>)
Both == {[s \in MCSessions |-> IF s = "s1" THEN p[1] ELSE p[2]] :
            p \in {<<Retrain, UseTwice>>, <<RetrainTwice, UseTwice>>, <<Hive, Alisa>>, <<Hive, Hive>>}}

MCWorkloads == Alone(Raws \cup Parsed \cup Graphs \cup Modelled) \cup Both
=============================================================================
