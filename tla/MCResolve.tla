----------------------------- MODULE MCResolve ------------------------------
(* Programs and tables that Resolve is checked on. *)
EXTENDS Resolve

\* Cells.
Cell(k, s, n, ids, real) == [k |-> k, s |-> s, n |-> n, ids |-> ids, real |-> real]
I == Cell("int", "7", 1, {7}, FALSE)
F == Cell("float", "0.5", 1, {}, TRUE)
W(s) == Cell("word", s, 1, {}, FALSE)
V(i, j) == Cell("csv", "csv", 2, {i, j}, FALSE)
V3 == Cell("csv", "csv3", 3, {1}, TRUE)
KV(i) == Cell("kv", "kv", 1, {i}, FALSE)
Null == Cell("null", "", 0, {}, FALSE)
Huge == Cell("huge", "", 0, {}, FALSE)

\* Tables of the fields a, b, c and y.
Types(a, b, c) == ("a" :> a) @@ ("b" :> b) @@ ("c" :> c) @@ ("y" :> "int")
Row(a, b, c) == ("a" :> a) @@ ("b" :> b) @@ ("c" :> c) @@ ("y" :> I)
Table(type, rows) == [type |-> type, rows |-> rows]
Both(t) == ("iris" :> t) @@ ("other" :> t)

Plain == Table(Types("text", "int", "text"), <<Row(V(1, 3), I, W("u")), Row(V(2, 5), I, W("v"))>>)
Grown == Table(Types("text", "int", "text"),
               <<Row(V(1, 9), I, W("u")), Row(V(4, 2), I, W("u")), Row(V(4, 6), I, W("w"))>>)
Retyped == Table(Types("text", "int", "float"), <<Row(V(1, 3), I, F)>>)
Mixed == Table(Types("int", "int", "text"), <<Row(I, I, W("u")), Row(I, I, I)>>)
Overflows == Table(Types("int", "int", "text"), <<Row(I, I, W("u")), Row(I, Huge, W("v"))>>)
Numbers == Table(Types("int", "float", "int"), <<Row(I, F, I)>>)
Texts == Table(Types("text", "text", "text"),
               <<Row(I, KV(3), I), Row(F, KV(6), F), Row(W("u"), KV(2), W("v"))>>)
Ragged == Table(Types("text", "int", "text"), <<Row(V(1, 3), I, W("u")), Row(V3, I, W("v"))>>)
Holes == Table(Types("text", "int", "text"), <<Row(V(1, 3), Null, W("u"))>>)
NumberHoles == Table(Types("int", "int", "int"), <<Row(I, Null, I)>>)
Dated == Table(Types("other", "int", "text"), <<Row(I, Null, W("u"))>>)
Empty == Table(Types("text", "int", "text"), <<>>)

\* Statements.
Stmt(kind, model) ==
    [kind |-> kind, model |-> model, from |-> "iris", select |-> <<"a", "b", "c", "y">>, label |-> "",
     columns |-> <<>>, attrs |-> <<>>, estimator |-> "custom", pretrained |-> "none", limit |-> NoLimit,
     inner |-> NoLimit, into |-> <<"t", "p">>, variables |-> <<>>, value |-> "", typed |-> TRUE]
Train(columns) ==
    [Stmt("train", "m") EXCEPT !.label = "y",
       !.columns = IF columns = <<>> THEN <<>> ELSE "feature_columns" :> columns]
Deep(wide, deep) == [Train(<<>>) EXCEPT !.columns = ("wide" :> wide) @@ ("deep" :> deep)]
Predict == [Stmt("predict", "m") EXCEPT !.from = "other"]
Use(kind) == Stmt(kind, "m")

Program(tables, stmts) == [tables |-> tables, stmts |-> stmts, fromModel |-> TRUE, pai |-> FALSE]
On(t, stmts) == Program(<<Both(t)>>, stmts)

N1 == Num(4)
Sparse(name) == Call("sparse", <<Name(name)>>)
Emb(e) == Call("embedding", <<e, N1>>)
Ind(e) == Call("indicator", <<e>>)
Cross(keys) == Call("cross", <<List(keys), N1>>)
Cat(name) == Call("category_id", <<Name(name), N1>>)
Dense(name, n) == Call("dense", <<Name(name), Num(n)>>)

\* The columns are derived, and again where the model is used.
Derivations ==
    {Program(<<Both(Plain), Both(Grown)>>, <<Train(cs), Predict>>) :
       cs \in {<<>>, <<Emb(Name("a")), Name("b")>>, <<Emb(Name("a.*"))>>, <<Cat("[ab]"), Name("c")>>}}
    \cup {Program(<<Both(Plain), Both(Retyped)>>, <<Train(<<Ind(Name("a"))>>), Use("explain")>>),
          Program(<<Both(Plain), Both(Empty)>>, <<Train(<<Name("b")>>), Use("evaluate")>>)}

\* Every pair of these columns, and every one on every table.
Weighted == Call("sparse", <<Name("a"), Num(3), Name("-"), Name("int"), Name(":"), Name("float")>>)
Columns2 ==
    {Name("b"), Name("[ab]"), Name("none"), Sparse("a"), Dense("a", 2), Dense("y", 1), Cat("a"), Cat("a.*"),
     Emb(Name("a")), Emb(Name("[ab]")), Emb(Sparse("a")), Emb(Call("sparse", <<Name("a"), Num(9)>>)),
     Emb(Cat("[ab]")), Ind(Name("a")), Ind(Cat("b")), Cross(<<Name("a"), Name("b")>>),
     Cross(<<Name("b"), Name("b"), Dense("c", 1)>>), Cross(<<Num(1), Ind(Name("a"))>>),
     Call("bucket", <<Name("b"), List(<<Num(1), Num(5)>>)>>),
     Call("bucket", <<Name("b"), List(<<Num(5), Num(1)>>)>>),
     Call("weighted_category", <<Weighted>>)}
Delimited(delim, kv) ==
    Call("sparse", <<Name("c"), Num(3), Name(delim), Name("int"), Name(kv), Name("float")>>)
AllTables == {Mixed, Overflows, Plain, Grown, Retyped, Numbers, Texts, Ragged, Holes, NumberHoles, Dated, Empty}
Clauses ==
    {Program(<<Both(Plain), Both(Grown)>>, <<Train(<<c, d>>), Predict>>) : c \in Columns2, d \in Columns2}
    \cup {On(t, <<Train(<<c>>), Predict>>) : c \in Columns2, t \in AllTables}
    \cup {On(Plain, <<Train(<<c>>)>>) :
            c \in {Call("dense", <<Name("a"), Name("none"), Name(","), Name("word")>>),
                   Delimited("(", ":"), Delimited("|", ":"), Delimited("-", "["),
                   Cross(<<Name("a.*"), Name("b")>>), Call("bucket", <<Name("b")>>), Call("what", <<N1>>)}}

\* The tables that derivation stumbles over.
Tables ==
    {On(t, <<Train(<<>>)>>) : t \in {Ragged, Holes, NumberHoles, Dated, Empty, Numbers, Texts}}
    \cup {On(Texts, <<Train(<<Sparse("b")>>), Predict>>),
          On(Texts, <<Train(<<Call("sparse", <<Name("b"), Num(9)>>)>>)>>),
          On(Ragged, <<Train(<<Dense("a", 3)>>)>>), On(Ragged, <<[Train(<<>>) EXCEPT !.limit = 1], Predict>>),
          On(Grown, <<[Train(<<>>) EXCEPT !.limit = 3], Predict>>),
          On(Grown, <<[Train(<<>>) EXCEPT !.limit = 0]>>), On(Grown, <<[Train(<<>>) EXCEPT !.inner = 2], Predict>>),
          On(Plain, <<[Train(<<>>) EXCEPT !.inner = 9, !.limit = 1], [Predict EXCEPT !.inner = 1]>>)}

\* Several targets; the other table has another type for a field that no
\* target uses.
Different == ("iris" :> Plain) @@ ("other" :> Retyped)
TargetPrograms ==
    {Program(<<Different>>, <<Deep(<<Name("b")>>, <<Emb(Name("a"))>>), Predict>>),
     On(Plain, <<Deep(<<Dense("a", 2), Name("b")>>, <<Dense("a", 1), Emb(Name("a"))>>), Predict>>),
     On(Plain, <<Deep(<<Name("[ab]")>>, <<Emb(Name("a"))>>), Use("explain")>>)}

\* What else a statement says.
Attr(p, q, e) == <<p, q>> :> e
Flag == Atom("bool", "true", 0)
Attributes ==
    {On(Numbers, <<[Train(<<>>) EXCEPT !.attrs = p[2], !.estimator = p[1]]>>) :
       p \in {<<"DNN", Attr("optimizer", "lr", Num(1)) @@ Attr("train", "verbose", Num(2))>>,
              <<"DNN", Attr("train", "verbose", Num(3))>>, <<"DNN", Attr("model", "width", Num(3))>>,
              <<"custom", Attr("model", "loss", Name("mse")) @@ Attr("loss", "w", Num(1))>>,
              <<"custom", Attr("loss", "w", Num(1)) @@ Attr("model", "width", Flag)>>,
              <<"custom", Attr("model", "loss", Num(1))>>,
              <<"custom", Attr("model", "loss", Call("dense", <<>>))>>,
              <<"xgboost", <<"eta">> :> Num(1)>>, <<"xgboost", <<"num_class">> :> Num(1)>>,
              <<"xgboost", Attr("train", "disk_cache", Flag)>>}}
    \cup {[On(Numbers, <<[Train(<<>>) EXCEPT !.attrs = p[2], !.estimator = p[1]]>>) EXCEPT !.pai = b] :
            b \in BOOLEAN,
            p \in {<<"Linear", Attr("model", "optimizer", Name("SGD")) @@ Attr("optimizer", "name", Name("x"))>>,
                   <<"Linear", Attr("optimizer", "lr", List(<<Num(1), Num(2)>>)) @@ Attr("train", "num_ps", Num(1))>>,
                   <<"sqlflow_models", Attr("model", "loss", Name("mse")) @@ Attr("model", "depth", Num(3))>>}}
    \cup {On(Numbers, <<[Stmt("optimize", "m") EXCEPT !.attrs = as, !.variables = v, !.value = "x"]>>) :
            as \in {Attr("solver", "name", Name("glpk")), Attr("worker", "num", Num(0))},
            v \in {<<"a">>, <<"a", "b">>, <<"a", "x">>}}
    \cup {On(Numbers, <<Stmt("other", "m"), [Train(<<>>) EXCEPT !.label = l], p>>) :
            l \in {"", "z"},
            p \in {Predict, [Predict EXCEPT !.select = <<"a", "b", "c">>, !.into = <<"d", "t", "p">>],
                   [Predict EXCEPT !.select = <<"a", "b">>], [Predict EXCEPT !.into = <<"t">>],
                   [Predict EXCEPT !.attrs = ExtraOutputs :> Name("prob")],
                   [Predict EXCEPT !.attrs = ExtraOutputs :> Num(1)],
                   [Predict EXCEPT !.attrs = ExtraOutputs :> Call("dense", <<>>)],
                   [Predict EXCEPT !.attrs = ExtraOutputs :> Name("a")],
                   [Train(<<>>) EXCEPT !.pretrained = "m", !.model = "n"],
                   [Train(<<>>) EXCEPT !.pretrained = "n"]}}
    \cup {[On(Numbers, <<Train(<<>>), Predict>>) EXCEPT !.fromModel = FALSE]}

Everything == Derivations \cup Clauses \cup Tables \cup TargetPrograms \cup Attributes

\* Three columns of two fields each.
Crosses ==
    {On(Plain, <<Train(<<Cross(<<Name("b"), Name("c")>>), Cross(<<Name("c"), Name("b")>>),
                         Cross(<<Name("a"), Name("b")>>)>>)>>)}

\* Names that are patterns.
MCMatches == ("a.*" :> {"a"}) @@ ("[ab]" :> {"a", "b"})
=============================================================================
