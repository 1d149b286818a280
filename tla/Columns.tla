------------------------------ MODULE Columns -------------------------------
(***************************************************************************)
(* The values, feature columns and attributes of an extended statement     *)
(* (go/ir/ir_generator.go, go/ir/feature_column.go, go/attribute,          *)
(* go/codegen/tensorflow).                                                 *)
(*                                                                         *)
(* An expression has a kind k: a name, an int, a float, a bool, a negative *)
(* number, a list or a call; s is its text, i its number and of what is    *)
(* within it.  Names are in lower case; the pieces of a text between dots  *)
(* are a sequence.                                                         *)
(***************************************************************************)
EXTENDS Integers, FiniteSets, TLC, SequencesExt

Atom(k, s, i) == [k |-> k, s |-> s, i |-> i, of |-> <<>>]
Name(s) == Atom("name", s, 0)
Num(i) == Atom("int", "", i)
List(of) == [k |-> "list", s |-> "", i |-> 0, of |-> of]
Call(s, of) == [k |-> "call", s |-> s, i |-> 0, of |-> of]
IsAtom(e) == e.k \notin {"list", "call", "neg"}

-----------------------------------------------------------------------------
(* Feature columns.  wraps lists what a column is made of, from the        *)
(* outside: <<"embedding", "category_id">>.  descs describes the fields at *)
(* its bottom; a key of CROSS that is only a name gets a new description   *)
(* every time it is asked for (fresh).                                     *)

NilShape == <<-1>>   \* nil, other than the empty shape
DefaultDesc(name) ==
    [name |-> name, sparse |-> FALSE, shape |-> NilShape, dtype |-> "int", delim |-> "",
     kv |-> "", format |-> "", vocab |-> {}, maxid |-> 0, fresh |-> FALSE]
FloatDesc(name) == [DefaultDesc(name) EXCEPT !.shape = <<1>>, !.dtype = "float"]
KeyDesc(name) ==
    [DefaultDesc(name) EXCEPT !.shape = <<1>>, !.dtype = "string", !.fresh = TRUE]

\* name is only set where a column waits for its category; crashes, where
\* GetFieldDesc panics.
Column(wraps, descs, bucket, name) ==
    [wraps |-> wraps, descs |-> descs, bucket |-> bucket, name |-> name, crashes |-> FALSE]
Bad == Column(<<"bad">>, <<>>, 0, "")
Panics == Column(<<"panic">>, <<>>, 0, "")
IsBad(c) == c.wraps[1] \in {"bad", "panic"}

\* The values of an expression: an atom is itself, a call is a column.
Value(k, s, i, of, col) == [k |-> k, s |-> s, i |-> i, of |-> of, col |-> col]
BadValue == Value("bad", "", 0, <<>>, <<>>)

Categories == {"category_id", "seq_category_id", "category_hash"}

RECURSIVE ParseExpression(_), ParseFeatureColumn(_)

\* A list, a column, or what inferStringValue makes of an atom.  In a list,
\* an atom that is no int is a string.
ParseExpression(e) ==
    LET item(x) == CASE x.k = "neg" -> Value("int", "", -x.i, <<>>, <<>>)
                     [] x.k \in {"float", "bool"} -> Value("name", x.s, 0, <<>>, <<>>)
                     [] OTHER -> ParseExpression(x)
        items == [j \in DOMAIN e.of |-> item(e.of[j])]
        column == ParseFeatureColumn(e)
    IN CASE IsAtom(e) -> Value(e.k, e.s, e.i, <<>>, <<>>)
         [] e.k = "list" -> IF \E j \in DOMAIN items : items[j].k = "bad" THEN BadValue
                            ELSE Value("list", "", 0, items, <<>>)
         [] e.k = "call" -> IF IsBad(column) THEN BadValue
                            ELSE Value("column", "", 0, <<>>, <<column>>)
         [] OTHER -> BadValue

IsString(e) == e.k = "name"

\* The numbers of a shape or of boundaries; NilShape where it is neither.
ParseShape(e) ==
    LET v == ParseExpression(e)
    IN CASE v.k = "int" -> <<v.i>>
         [] v.k = "list" /\ (\A j \in DOMAIN v.of : v.of[j].k = "int") ->
              [j \in DOMAIN v.of |-> v.of[j].i]
         [] OTHER -> NilShape

\* DENSE or SPARSE(name, shape, delimiter, dtype, delimiter of key and value,
\* dtype of the weight), of which all but the name may be missing.
ParseFieldDesc(e) ==
    LET n == Len(e.of)
        given(j) == n >= j
        none == given(2) /\ e.of[2] = Name("none")
        ok == /\ e.k = "call" /\ e.s \in {"dense", "sparse"} /\ n \in 1..6
              /\ \A j \in DOMAIN e.of : j # 2 => IsString(e.of[j])
              /\ given(2) => none \/ ParseShape(e.of[2]) # NilShape
              /\ given(4) => e.of[4].s \in {"float", "int", "string"}
              /\ given(5) => e.of[4].s = "int"
              /\ given(6) => e.of[6].s = "float"
    IN IF ~ok THEN <<>>
       ELSE <<[DefaultDesc(e.of[1].s) EXCEPT
                 !.sparse = e.s = "sparse",
                 !.shape = IF given(2) /\ ~none THEN ParseShape(e.of[2]) ELSE <<>>,
                 !.delim = IF given(3) THEN e.of[3].s ELSE "",
                 !.dtype = IF given(4) THEN e.of[4].s ELSE "float",
                 !.kv = IF given(5) THEN e.of[5].s ELSE ""]>>

ParseNumericColumn(e) ==
    LET d == ParseFieldDesc(e) IN IF d = <<>> THEN Bad ELSE Column(<<"numeric">>, d, 0, "")

ParseBucketColumn(e) ==
    LET source == IF IsString(e.of[1]) THEN Column(<<"numeric">>, <<FloatDesc(e.of[1].s)>>, 0, "")
                  ELSE ParseFeatureColumn(e.of[1])
        b == ParseShape(e.of[2])
    IN IF /\ Len(e.of) = 2 /\ source.wraps = <<"numeric">>
          /\ b # NilShape /\ \A j \in 2..Len(b) : b[j - 1] < b[j]
       THEN Column(<<"bucket">>, source.descs, Len(b) + 1, "") ELSE Bad

\* The keys are names, or columns, of which GetFieldDesc takes DENSE and
\* SPARSE only; it leaves out what is neither.
ParseCrossColumn(e) ==
    LET keys == ParseExpression(e.of[1])
        used == SelectSeq(keys.of, LAMBDA v : v.k \in {"name", "column"})
        desc(v) == IF v.k = "name" THEN KeyDesc(v.s) ELSE v.col[1].descs[1]
        odd == {j \in DOMAIN used : used[j].k = "column" /\ used[j].col[1].wraps # <<"numeric">>}
    IN IF Len(e.of) # 2 \/ keys.k # "list" \/ e.of[2].k # "int" THEN Bad
       ELSE IF odd # {} THEN [Column(<<"cross">>, <<>>, e.of[2].i, "") EXCEPT !.crashes = TRUE]
       ELSE Column(<<"cross">>, [j \in DOMAIN used |-> desc(used[j])], e.of[2].i, "")

\* CATEGORY_ID, SEQ_CATEGORY_ID and CATEGORY_HASH.
ParseCategoryColumn(e) ==
    LET d == CASE IsString(e.of[1]) -> <<DefaultDesc(e.of[1].s)>>
               [] e.of[1].k = "call" -> ParseFieldDesc(e.of[1])
               [] OTHER -> <<>>
    IN IF Len(e.of) \in {2, 3} /\ d # <<>> /\ e.of[2].k = "int"
       THEN Column(<<e.s>>, d, e.of[2].i, "") ELSE Bad


\* The category of an EMBEDDING, INDICATOR or WEIGHTED_CATEGORY: a name that
\* waits for it, a DENSE or SPARSE with its size, or any other column.
BuildCategoryIDForEmbeddingOrIndicator(e) ==
    LET source == ParseFeatureColumn(e.of[1])
        d == source.descs[1]
        wraps == IF d.kv # "" THEN <<"weighted", "category_id">> ELSE <<"category_id">>
    IN CASE IsString(e.of[1]) -> Column(<<>>, <<>>, 0, e.of[1].s)
         [] e.of[1].k = "call" /\ IsBad(source) -> Bad
         [] e.of[1].k = "call" /\ source.wraps = <<"numeric">> ->
              IF d.shape = <<>> THEN Bad ELSE Column(wraps, <<d>>, d.shape[1], "")
         [] e.of[1].k = "call" -> source
         [] OTHER -> Bad

\* A column around its category.
Wrap(kind, cat) ==
    IF cat.wraps # <<>> /\ IsBad(cat) THEN cat ELSE [cat EXCEPT !.wraps = <<kind>> \o @]

ParseEmbeddingColumn(e) ==
    IF /\ Len(e.of) \in 2..4 /\ e.of[2].k = "int"
       /\ \A j \in 3..Len(e.of) : IsString(e.of[j])
    THEN Wrap("embedding", BuildCategoryIDForEmbeddingOrIndicator(e)) ELSE Bad

ParseIndicatorColumn(e) ==
    IF Len(e.of) \in 1..2 THEN Wrap("indicator", BuildCategoryIDForEmbeddingOrIndicator(e)) ELSE Bad

ParseWeightedCategoryColumn(e) ==
    IF Len(e.of) = 1 /\ ~IsString(e.of[1])
    THEN Wrap("weighted", BuildCategoryIDForEmbeddingOrIndicator(e)) ELSE Bad

ParseFeatureColumn(e) ==
    CASE e.k # "call" \/ e.of = <<>> -> Bad
      [] e.k = "call" /\ e.of # <<>> /\ e.s \in {"dense", "sparse"} -> ParseNumericColumn(e)
      [] e.k = "call" /\ e.of # <<>> /\ e.s = "bucket" ->
           IF Len(e.of) # 2 THEN Bad ELSE ParseBucketColumn(e)
      [] e.k = "call" /\ e.of # <<>> /\ e.s = "cross" ->
           IF Len(e.of) # 2 THEN Bad ELSE ParseCrossColumn(e)
      [] e.k = "call" /\ e.of # <<>> /\ e.s \in Categories ->
           IF Len(e.of) = 1 THEN Bad ELSE ParseCategoryColumn(e)
      [] e.k = "call" /\ e.of # <<>> /\ e.s = "embedding" -> ParseEmbeddingColumn(e)
      [] e.k = "call" /\ e.of # <<>> /\ e.s = "indicator" -> ParseIndicatorColumn(e)
      [] e.k = "call" /\ e.of # <<>> /\ e.s = "weighted_category" -> ParseWeightedCategoryColumn(e)
      [] OTHER -> Bad

\* An element of a COLUMN clause.
ParseColumn(e) ==
    IF IsAtom(e) THEN Column(<<"numeric">>, <<FloatDesc(e.s)>>, 0, "") ELSE ParseFeatureColumn(e)

\* ApplyTo fails for a CROSS, and for an EMBEDDING that has a category: its
\* test of what it got back is the wrong way round.
Applies(wraps) ==
    /\ "cross" \notin Range(wraps)
    /\ \A j \in DOMAIN wraps : wraps[j] = "embedding" => j = Len(wraps)

-----------------------------------------------------------------------------
(* Attributes: functions from keys, in their parts, to values.  A number   *)
(* of kind float counts tenths.                                            *)

NoDefault == Value("nil", "", 0, <<>>, <<>>)
Infinity == 1000000
Entry(typ, lo, hi, default) == [typ |-> typ, lo |-> lo, hi |-> hi, default |-> default]
IntEntry(lo, hi, i) == Entry("int", lo, hi, Value("int", "", i, <<>>, <<>>))
Unknown == Entry("unknown", 0, 0, NoDefault)

\* The attributes of every TensorFlow model, one of each kind.
CommonAttributes ==
    (<<"train", "batch_size">> :> IntEntry(1, Infinity, 1))
    @@ (<<"train", "verbose">> :> IntEntry(0, 2, 0))
    @@ (<<"train", "max_steps">> :> IntEntry(0, Infinity, 0))
    @@ (<<"validation", "select">> :> Entry("string", 0, 0, Value("name", "", 0, <<>>, <<>>)))

\* Those of XGBoost: train.batch_size may be -1 here.
XGBoostAttributes ==
    (<<"eta">> :> Entry("float", 0, 10, Value("float", "", 3, <<>>, <<>>)))
    @@ (<<"num_class">> :> Entry("int", 2, Infinity, NoDefault))
    @@ (<<"train", "disk_cache">> :> Entry("bool", 0, 0, Value("bool", "", 0, <<>>, <<>>)))
    @@ (<<"train", "batch_size">> :> IntEntry(-1, Infinity, -1))
    @@ (<<"train", "num_workers">> :> IntEntry(1, 128, 1))

\* Those of TO MAXIMIZE and TO MINIMIZE.
OptimizeAttributes ==
    (<<"data", "batch_size">> :> IntEntry(-Infinity, Infinity, -1))
    @@ (<<"worker", "num">> :> IntEntry(1, Infinity, 1))
    @@ (<<"solver", "*">> :> Unknown)

\* Those of the jobs of PAI.
DistributedTrainingAttributes ==
    (<<"train", "num_ps">> :> IntEntry(-Infinity, Infinity, 0))
    @@ (<<"train", "num_workers">> :> IntEntry(-Infinity, Infinity, 1))

\* Some parameters of the estimators that come with TensorFlow, and of a
\* model of sqlflow_models, whose documentation was extracted.
PremadeModelParams(estimator) ==
    CASE estimator = "DNN" -> {"optimizer", "hidden_units"}
      [] estimator = "Linear" -> {"optimizer"}
      [] estimator = "DNNLinearCombined" -> {"dnn_optimizer", "linear_optimizer"}
      [] estimator = "sqlflow_models" -> {"width"}
      [] OTHER -> {}

NewDictionaryFromModelDefinition(estimator) ==
    [k \in {<<"model", p>> : p \in PremadeModelParams(estimator)} |-> Unknown]

\* A value of the right type, within its bounds; an int is a float too.
Checks(entry, v) ==
    \/ v.k = "nil" \/ entry.typ = "unknown"
    \/ entry.typ = "int" /\ v.k = "int" /\ entry.lo <= v.i /\ v.i <= entry.hi
    \/ entry.typ = "float" /\ v.k = "int" /\ entry.lo <= 10 * v.i /\ 10 * v.i <= entry.hi
    \/ entry.typ = "float" /\ v.k = "float" /\ entry.lo <= v.i /\ v.i <= entry.hi
    \/ entry.typ = "bool" /\ v.k = "bool"
    \/ entry.typ = "string" /\ v.k \in {"name", "code"}

Validate(dictionary, attrs) ==
    \A k \in DOMAIN attrs :
        LET wild == <<k[1], "*">>
        IN \/ k \in DOMAIN dictionary /\ Checks(dictionary[k], attrs[k])
           \/ /\ k \notin DOMAIN dictionary /\ Len(k) = 2 /\ wild \in DOMAIN dictionary
              /\ Checks(dictionary[wild], attrs[k])


ExportDefaults(dictionary, attrs) ==
    attrs @@ [k \in {k \in DOMAIN dictionary : dictionary[k].default # NoDefault} |->
                dictionary[k].default]

Optimizers == {<<"model", "optimizer">>, <<"model", "dnn_optimizer">>, <<"model", "linear_optimizer">>}
IsArgument(k) == Len(k) = 2 /\ <<"model", k[1]>> \in Optimizers
Without(attrs, ks) == [k \in DOMAIN attrs \ ks |-> attrs[k]]

RECURSIVE Text(_)

\* What %v prints of a value.  It puts no quotes around a string, so that the
\* text of 2 is that of "2".
Text(v) ==
    IF v.k = "list" THEN Value("text", "", 0, [j \in DOMAIN v.of |-> Text(v.of[j])], <<>>)
    ELSE Value("text", IF v.k = "int" THEN ToString(v.i) ELSE v.s, 0, <<>>, <<>>)

\* The code of a call with the arguments ks.
Code(class, attrs, ks) ==
    Value("code", class, 0,
          SetToSeq({Value("arg", k[2], 0, <<Text(attrs[k])>>, <<>>) : k \in ks}), <<>>)

\* The name that setDefaultOptimizer compares has no model. before it, so
\* that a linear optimizer gets the default of the other one.
DefaultOptimizer(estimator) == IF estimator = "Linear" THEN "Ftrl" ELSE "Adagrad"

\* The names that the optimizers of TensorFlow 1 have, which PAI runs.
TF1Optimizer(class) ==
    CASE class = "Adagrad" -> "AdagradOptimizer"
      [] class = "Adam" -> "AdamOptimizer"
      [] class = "Ftrl" -> "FtrlOptimizer"
      [] class = "RMSProp" -> "RMSPropOptimizer"
      [] class = "SGD" -> "GradientDescentOptimizer"
      [] OTHER -> class

\* optimizer.x = 1 becomes an argument of model.optimizer.
ConstructOptimizers(estimator, pai, attrs) ==
    LET args(p) == {k \in DOMAIN attrs : IsArgument(k) /\ <<"model", k[1]>> = p}
        used == {p \in Optimizers : p \in DOMAIN attrs \/ args(p) # {}}
        named(p) == IF p \in DOMAIN attrs THEN Text(attrs[p]).s ELSE DefaultOptimizer(estimator)
        class(p) == IF pai THEN TF1Optimizer(named(p)) ELSE named(p)
    IN [p \in used |-> Code(class(p), attrs, args(p))]
       @@ Without(attrs, {k \in DOMAIN attrs : IsArgument(k)})

\* loss.x = 1 becomes an argument of model.loss, if there is one.
LossKeys(attrs) == {k \in DOMAIN attrs : k[1] = "loss"}
LossPanics(attrs) ==
    \/ \E k \in LossKeys(attrs) : Len(k) = 1
    \/ <<"model", "loss">> \in DOMAIN attrs /\ attrs[<<"model", "loss">>].k # "name"
ConstructLosses(attrs) ==
    LET p == <<"model", "loss">>
        given == p \in DOMAIN attrs /\ attrs[p].s # ""
        rest == Without(attrs, LossKeys(attrs))
    IN IF given THEN (p :> Code(attrs[p].s, attrs, LossKeys(attrs))) @@ rest ELSE rest

\* The attributes that a model may have; the later entries of a name win.
AttrValidator(estimator, pai) ==
    LET any == <<"model", "*">> :> Unknown
        model == NewDictionaryFromModelDefinition(estimator)
        globals == (<<"model", "optimizer">> :> Unknown) @@ (<<"model", "loss">> :> Unknown) @@ any
    IN IF estimator = "xgboost" THEN XGBoostAttributes
       ELSE IF estimator = "optimize" THEN OptimizeAttributes
       ELSE (IF pai THEN DistributedTrainingAttributes ELSE <<>>)
            @@ (IF estimator = "sqlflow_models" THEN globals ELSE <<>>)
            @@ CommonAttributes
            @@ (IF model = <<>> THEN any ELSE model)

InitializeAttributes(estimator, pai, attrs) ==
    IF estimator = "xgboost" THEN ExportDefaults(XGBoostAttributes, attrs)
    ELSE IF estimator = "optimize" THEN ExportDefaults(OptimizeAttributes, attrs)
    ELSE ConstructLosses(ConstructOptimizers(estimator, pai, ExportDefaults(CommonAttributes, attrs)))
=============================================================================
