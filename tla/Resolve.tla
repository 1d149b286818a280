------------------------------ MODULE Resolve -------------------------------
(***************************************************************************)
(* How a statement is made ready to run (go/ir/ir_generator.go,            *)
(* go/ir/derivation.go, go/verifier, go/executor/pre_exec.go): its columns *)
(* and attributes are parsed (Columns), the columns that it does not give  *)
(* are derived from samples of its table, and what comes out is verified   *)
(* against the table.  A statement that uses a model loads the statement   *)
(* that trained it and derives the columns of that one again.              *)
(*                                                                         *)
(* A FieldDesc is shared by pointers: heap maps their identities to what   *)
(* they hold, and fdmap is the one that each field's samples fill.  The    *)
(* order in which Go visits a map is a free choice, and so are the rows    *)
(* that a LIMIT leaves.  Others may alter the table between two queries.   *)
(***************************************************************************)
EXTENDS Columns

CONSTANTS
    Workloads,   \* programs, each with the versions of its table
    Models,      \* names of models
    Matches,     \* [name of a column -> the fields that it matches as a pattern]
    MaxSamples,  \* the rows that FetchSamples asks for
    Faults       \* what may fail: "db", "rows"

Kinds == {"train", "predict", "explain", "evaluate", "optimize", "other"}
ASSUME ResolveAssumption ==
    /\ MaxSamples \in Nat \ {0}
    /\ \A w \in Workloads : \A i \in DOMAIN w.stmts :
         /\ w.stmts[i].kind \in Kinds /\ w.stmts[i].model \in Models
         /\ w.stmts[i].limit \in Nat \cup {-1} /\ w.stmts[i].inner \in Nat \cup {-1}

VARIABLES
    input,    \* the workload
    table,    \* the version of the table
    st,       \* the statement being resolved, see Fresh
    models,   \* [model -> the statement that trained it and its columns]
    result    \* the table of predictions: by which statement, of which training, its columns

vars == <<input, table, st, models, result>>

Cur == input.stmts[st.n]
Absent == [stmt |-> 0, version |-> 0, sample |-> <<>>, columns |-> <<>>]

\* of: the statement whose columns are derived; load: why a model is loaded;
\* attrs: the attributes; cols: [identity of a column -> column], the fields
\* of which are identities in heap; fcmap, next: the columns of each field
\* of a target, before and after the patterns are expanded; version: the
\* table as it was sampled; sample: its rows that came; row: how many of them
\* were read; sizes: of the fields before them; todo, keys: the targets and
\* the names still to do; fields: what a query told, of the version told.
Fresh(n) ==
    [pc |-> "start", n |-> n, of |-> n, load |-> "use", attrs |-> <<>>, heap |-> <<>>,
     cols |-> <<>>, fdmap |-> <<>>, fcmap |-> <<>>, next |-> <<>>, version |-> 0,
     sample |-> <<>>, row |-> 0, sizes |-> <<>>, todo |-> {}, target |-> "none", keys |-> {}, features |-> <<>>,
     fields |-> <<>>, told |-> 0, why |-> "none"]

Init ==
    /\ input \in Workloads
    /\ table = 1
    /\ st = Fresh(1)
    /\ models = [m \in Models |-> Absent]
    /\ result = Absent

At(pc) == st.pc = pc
Becomes(r) == st' = r /\ UNCHANGED <<input, table, models, result>>
Go(pc) == Becomes([st EXCEPT !.pc = pc])
Error(why) == Becomes([st EXCEPT !.pc = "error", !.why = why])
Crash(why) == Becomes([st EXCEPT !.pc = "crashed", !.why = why])
DbFails == "db" \in Faults /\ Error("db")

-----------------------------------------------------------------------------
(* Queries. *)

\* The table has the fields, and each is asked for once.
Selects(version, stmt) ==
    /\ Range(stmt.select) \subseteq DOMAIN input.tables[version][stmt.from].type
    /\ Cardinality(Range(stmt.select)) = Len(stmt.select)

NoLimit == -1

\* How many rows the query has once FetchSamples has lowered every LIMIT in
\* its text to n.  It adds one only where there is none, so that a LIMIT
\* of a subquery alone leaves the query without.
SampleLimit(stmt, n, all) ==
    CASE stmt.limit # NoLimit -> Min({stmt.limit, n, all})
      [] stmt.limit = NoLimit /\ stmt.inner = NoLimit -> Min({n, all})
      [] OTHER -> all

\* The rows that may come, in any order: there is no ORDER BY.  The subquery
\* is that of an IN: where its LIMIT is lowered, any rows may be missing.
FetchSamples(version, stmt, n) ==
    LET rows == DOMAIN input.tables[version][stmt.from].rows
        left == IF stmt.inner > n THEN SUBSET rows ELSE {rows}
    IN UNION {Injection(1..SampleLimit(stmt, n, Cardinality(S)), S) : S \in left}

\* verifier.Verify needs a row, and tells the types of the fields.
Answers(version, stmt) == Selects(version, stmt) /\ FetchSamples(version, stmt, 1) # {<<>>}
NoAnswer(version, stmt) == ~Selects(version, stmt) \/ <<>> \in FetchSamples(version, stmt, 1)
Verify(version, stmt) ==
    [f \in Range(stmt.select) |-> input.tables[version][stmt.from].type[f]]

\* Others alter the table.
AlterTable ==
    /\ table < Len(input.tables)
    /\ table' = table + 1
    /\ UNCHANGED <<input, st, models, result>>

-----------------------------------------------------------------------------
(* The statements. *)

Parsed(attrs) == [k \in DOMAIN attrs |-> ParseExpression(attrs[k])]
GoodAttributes(attrs) == \A k \in DOMAIN attrs : ParseExpression(attrs[k]).k # "bad"

\* The columns of a clause by their identities: the target, the place in the
\* clause, and the field a pattern was applied to.
ClauseColumns(stmt) ==
    LET ids == {<<t, i, "">> : t \in DOMAIN stmt.columns, i \in 1..4}
        given == {id \in ids : id[2] <= Len(stmt.columns[id[1]])}
    IN [id \in given |-> ParseColumn(stmt.columns[id[1]][id[2]])]

\* GenerateTrainStmt, of the statement itself or of the one that trained
\* the model.  fds: the identities of the descriptions.
ReadColumns(of, r) ==
    LET cs == ClauseColumns(input.stmts[of])
        ids == UNION {{<<id[1], id[2], j>> : j \in DOMAIN cs[id].descs} : id \in DOMAIN cs}
    IN [r EXCEPT !.of = of, !.pc = "describe",
          !.cols = [id \in DOMAIN cs |->
                      [wraps |-> cs[id].wraps, bucket |-> cs[id].bucket, name |-> cs[id].name,
                       crashes |-> cs[id].crashes,
                       fds |-> [j \in DOMAIN cs[id].descs |-> <<id[1], id[2], j>>]]],
          !.heap = [d \in ids |-> cs[<<d[1], d[2], "">>].descs[d[3]]]]

GenerateTrainStmt ==
    /\ At("start") /\ Cur.kind = "train"
    /\ \E cs \in {ClauseColumns(Cur)} :
         \/ ~GoodAttributes(Cur.attrs) /\ Error("attribute")
         \/ /\ GoodAttributes(Cur.attrs)
            /\ \E id \in DOMAIN cs : cs[id].wraps = <<"bad">>
            /\ Error("column")
         \/ /\ GoodAttributes(Cur.attrs)
            /\ \E id \in DOMAIN cs : "panic" \in Range(cs[id].wraps)
            /\ Crash("panic")
         \/ /\ GoodAttributes(Cur.attrs) /\ \A id \in DOMAIN cs : ~IsBad(cs[id])
            /\ \E as \in {Parsed(Cur.attrs)} : Becomes(ReadColumns(st.n, [st EXCEPT !.attrs = as]))

\* GeneratePredictStmt, GenerateExplainStmt and GenerateEvaluateStmt.  Where
\* the submitter does not ask for the model, nothing is loaded.
Uses == {"predict", "explain", "evaluate"}
GenerateUseStmt ==
    /\ At("start") /\ Cur.kind \in Uses
    /\ \/ ~GoodAttributes(Cur.attrs) /\ Error("attribute")
       \/ /\ GoodAttributes(Cur.attrs)
          /\ \E as \in {Parsed(Cur.attrs)} :
               Becomes([st EXCEPT !.attrs = as, !.pc = IF input.fromModel THEN "load" ELSE "into"])

\* GenerateOptimizeStmt: the variables are names, with the name of the value
\* where there are several of them and no variable has it.
GenerateOptimizeStmt ==
    /\ At("start") /\ Cur.kind = "optimize"
    /\ LET names == Cur.variables
           ok == /\ GoodAttributes(Cur.attrs) /\ Cur.typed
                 /\ names # <<>> /\ "" \notin Range(names)
                 /\ Len(names) > 1 => Cur.value # "" /\ Cur.value \notin Range(names)
       IN \/ ~ok /\ Error("optimize")
          \/ ok /\ \E as \in {Parsed(Cur.attrs)} :
                     Becomes([st EXCEPT !.attrs = as, !.pc = "attributes"])

\* SHOW TRAIN, TO RUN and standard SQL have nothing to resolve.
GenerateOtherStmt == At("start") /\ Cur.kind = "other" /\ Go("execute")

\* model.Load, of the model of a statement or of the one it starts from.
ModelName == IF st.load = "use" THEN Cur.model ELSE Cur.pretrained
LoadModelMeta ==
    /\ At("load")
    /\ \/ models[ModelName] = Absent /\ Error("model")
       \/ models[ModelName] # Absent /\ Go("trainfields")
       \/ DbFails

Trained == models[ModelName].stmt

\* VerifyColumnNameAndType, in two queries.
VerifyTrainFields ==
    /\ At("trainfields")
    /\ LET trained == input.stmts[Trained]
       IN \/ NoAnswer(table, trained) /\ Error("query")
          \/ /\ Answers(table, trained)
             /\ \E fs \in {Verify(table, trained)} :
                  Becomes([st EXCEPT !.pc = "predfields", !.fields = fs])
          \/ DbFails

\* Every field of the one but the label is in the other, with its type.
SameFields(train, pred, label) ==
    \A f \in DOMAIN train \ {label} : f \in DOMAIN pred /\ pred[f] = train[f]

\* Mutant: the columns come from the statement that uses the model.
DerivedFromItself(trained) == st.n

\* The statement whose columns are derived again.
DerivedFrom(trained) == trained

VerifyPredFields ==
    /\ At("predfields")
    /\ LET ok == /\ Answers(table, Cur)
                 /\ SameFields(st.fields, Verify(table, Cur), input.stmts[Trained].label)
       IN \/ (~ok \/ NoAnswer(table, Cur)) /\ Error("fields")
          \/ ok /\ st.load = "pretrained" /\ Go("attributes")
          \/ ok /\ st.load = "use" /\ Becomes(ReadColumns(DerivedFrom(Trained), st))
          \/ DbFails

-----------------------------------------------------------------------------
(* Feature derivation. *)

Of == input.stmts[st.of]
Targets == IF DOMAIN Of.columns = {} THEN {"feature_columns"} ELSE DOMAIN Of.columns

\* The columns of a target in the order of the clause.
InClause(t) == [i \in 1..Cardinality({id \in DOMAIN st.cols : id[1] = t /\ id[3] = ""}) |-> <<t, i, "">>]

NamesOf(c) == {st.heap[c.fds[j]].name : j \in DOMAIN c.fds}

\* makeColumnMap: the columns of each field, and those that wait for one.
KeyOf(c) == IF c.fds = <<>> /\ c.wraps[1] \in {"embedding", "indicator"}
            THEN {IF Len(c.wraps) = 1 THEN c.name ELSE ""} ELSE NamesOf(c)
MakeColumnMap(t) ==
    LET ids == Range(InClause(t))
    IN [f \in UNION {KeyOf(st.cols[id]) : id \in ids} |->
          SelectSeq(InClause(t), LAMBDA id : f \in KeyOf(st.cols[id]))]

\* makeFieldDescMap: the last description of a name is the one that is kept;
\* order is the order in which the targets are visited.
LastOf(order, f) ==
    LET ds == {d \in DOMAIN st.heap : st.heap[d].name = f}
        place(t) == CHOOSE i \in DOMAIN order : order[i] = t
        after(d, e) == \/ place(d[1]) > place(e[1])
                       \/ d[1] = e[1] /\ (d[2] > e[2] \/ (d[2] = e[2] /\ d[3] >= e[3]))
    IN CHOOSE d \in ds : \A e \in ds : after(d, e)
Orders == {o \in [1..Cardinality(Targets) -> Targets] : Range(o) = Targets}

MakeMaps ==
    /\ At("describe")
    /\ \/ (\E id \in DOMAIN st.cols : st.cols[id].crashes) /\ Crash("cross")
       \/ /\ \A id \in DOMAIN st.cols : ~st.cols[id].crashes
          /\ \E o \in Orders : \E cm \in {[t \in Targets |-> MakeColumnMap(t)]} :
               Becomes([st EXCEPT !.pc = "fetch", !.fcmap = cm, !.next = [t \in Targets |-> <<>>],
                          !.fdmap = [f \in {st.heap[d].name : d \in DOMAIN st.heap} |-> LastOf(o, f)]])

Size(shape) ==
    IF shape \in {NilShape, <<>>} THEN 1 ELSE FoldLeft(LAMBDA a, b : a * b, 1, shape)

\* A field that the clause does not describe gets a default description when
\* its first sample comes.
Query ==
    /\ At("fetch")
    /\ LET new == Range(Of.select) \ DOMAIN st.fdmap
       IN \/ ~Selects(table, Of) /\ Error("query")
          \/ /\ Selects(table, Of)
             /\ \E sample \in FetchSamples(table, Of, MaxSamples) :
                Becomes([st EXCEPT !.pc = "fill", !.version = table, !.sample = sample, !.row = 0,
                  !.sizes = [f \in DOMAIN st.fdmap |-> Size(st.heap[st.fdmap[f]].shape)],
                  !.fdmap = @ @@ [f \in new |-> <<f, 0, 0>>],
                  !.heap = @ @@ [d \in {<<f, 0, 0>> : f \in new} |-> DefaultDesc(d[1])]])
          \/ DbFails

NoDesc == DefaultDesc("none")
PanicDesc == DefaultDesc("panic")

\* regexp.MustCompile accepts a delimiter; of what it does not accept,
\* escapeDelimiter escapes some.
Escaped == {"|", ".", "+", "?", "*", "$", " "}
Compiles(delim) == delim \in Escaped \/ delim \notin {"(", ")", "[", "\\"}

\* A cell of text: its kind k, its text s, how many values it has between
\* commas, which of them are ints (the indices of key-value data), and
\* whether there is a real number among them.
InferStringDataFormat(d, cell) ==
    CASE cell.k \in {"csv", "kv"} -> cell.k
      [] cell.k \notin {"csv", "kv"} /\ d.delim # "" /\ d.kv # "" ->
           IF Compiles(d.delim) /\ Compiles(d.kv) THEN "kv" ELSE "panic"
      [] OTHER -> ""

\* NoDesc where the cell has the wrong number of values.
FillCSVFieldDesc(d, cell) ==
    LET size == Size(d.shape)
    IN IF ~d.sparse /\ size > 1 /\ size # cell.n THEN NoDesc
       ELSE [d EXCEPT
               !.shape = IF ~d.sparse /\ (size # cell.n \/ @ = NilShape) THEN <<cell.n>> ELSE @,
               !.dtype = IF cell.real THEN "float" ELSE IF d.sparse THEN "int" ELSE @,
               !.delim = ",",
               !.maxid = Max(cell.ids \cup {@})]

\* Only the shape of the libsvm format is inferred, and only if none was given.
FillKVFieldDesc(d, cell, row, size) ==
    LET shape == IF row = 0 THEN <<1>> ELSE d.shape
    IN CASE ~d.sparse \/ (d.kv = "" /\ size = 1 /\ cell.k # "kv") -> NoDesc
         [] d.sparse /\ d.kv = "" /\ size = 1 /\ cell.k = "kv" ->
              [d EXCEPT !.dtype = "float", !.shape = [shape EXCEPT ![1] = Max({i + 1 : i \in cell.ids} \cup {@})]]
         [] d.sparse /\ d.kv = "" /\ size # 1 -> [d EXCEPT !.dtype = "float"]
         [] OTHER -> d

\* A word makes the field a string, and a real number after it a number again.
FillFieldDescByDataType(d, cell) ==
    CASE cell.k = "int" -> [d EXCEPT !.shape = IF @ = NilShape THEN <<1>> ELSE @]
      [] cell.k = "float" -> [d EXCEPT !.shape = IF @ = NilShape THEN <<1>> ELSE @, !.dtype = "float"]
      [] OTHER -> [d EXCEPT !.shape = <<1>>, !.dtype = "string", !.vocab = @ \cup {cell.s}]

\* What a sample tells about a field.
FillField(d0, type, cell, row, size) ==
    LET d == IF row = 0 THEN [d0 EXCEPT !.format = InferStringDataFormat(d0, cell)] ELSE d0
    IN CASE type = "other" -> NoDesc
         [] type = "text" /\ d.format = "panic" -> PanicDesc
         [] type \in {"int", "float"} -> [d0 EXCEPT !.dtype = type, !.shape = <<1>>]
         [] type = "text" /\ d.format = "csv" -> FillCSVFieldDesc(d, cell)
         [] type = "text" /\ d.format = "kv" -> FillKVFieldDesc(d, cell, row, size)
         [] OTHER -> FillFieldDescByDataType(d, cell)

Sampled == input.tables[st.version][Of.from]
MoreRows == st.row < Len(st.sample)

\* A NULL, or a number that the Go type of its field does not hold.
CannotScan(row) == \E f \in Range(Of.select) : row[f].k \in {"null", "huge"}

\* fillFieldDesc, field by field.  The error of a row that could not be
\* scanned is lost, and the first text of that row is read from nothing.
FillRow ==
    /\ At("fill") /\ MoreRows
    /\ LET row == Sampled.rows[st.sample[st.row + 1]]
           size(f) == IF f \in DOMAIN st.sizes THEN st.sizes[f] ELSE 1
           fields == Range(Of.select)
           type(f) == Sampled.type[f]
           filled(f) == IF type(f) = "text" /\ CannotScan(row) THEN PanicDesc
                        ELSE FillField(st.heap[st.fdmap[f]], type(f), row[f], st.row, size(f))
       IN \/ \E new \in {[f \in fields |-> filled(f)]} :
               LET stops == {i \in DOMAIN Of.select : new[Of.select[i]] \in {NoDesc, PanicDesc}}
                   first == new[Of.select[Min(stops)]]
               IN \/ stops # {} /\ first = PanicDesc /\ Crash("row")
                  \/ stops # {} /\ first = NoDesc /\ Error("sample")
                  \/ /\ stops = {}
                     /\ Becomes([st EXCEPT !.row = @ + 1,
                          !.heap = [d \in {st.fdmap[f] : f \in fields} |->
                                      new[CHOOSE f \in fields : st.fdmap[f] = d]] @@ @])
          \/ "rows" \in Faults /\ Error("rows")

\* There were no rows, or the targets are next.
FillEnd ==
    /\ At("fill") /\ ~MoreRows
    /\ \/ st.row = 0 /\ Error("empty")
       \/ st.row > 0 /\ Becomes([st EXCEPT !.pc = "targets", !.todo = Targets])

\* The names of a target's columns are replaced by the fields they match.
PickTarget ==
    /\ At("targets")
    /\ \E t \in st.todo :
         Becomes([st EXCEPT !.pc = "expand", !.target = t, !.todo = @ \ {t},
                            !.keys = DOMAIN st.fcmap[t]])

Matched(f) == (IF f \in DOMAIN Matches THEN Matches[f] ELSE {}) \cap Range(Of.select)

\* A column applied to the field sf.
ApplyTo(c, sf) ==
    [c EXCEPT !.name = sf, !.fds = IF @ = <<>> THEN <<>> ELSE <<st.fdmap[sf]>>]

\* A name that is not selected is a pattern, which only one column may have;
\* it takes the place of what its fields had so far.
ExpandKey ==
    /\ At("expand")
    /\ \E f \in st.keys :
         LET t == st.target
             ids == st.fcmap[t][f]
             selected == f \in Range(Of.select)
             ok == Len(ids) = 1 /\ Matched(f) # {} /\ Applies(st.cols[ids[1]].wraps)
             id(sf) == <<t, ids[1][2], sf>>
         IN \/ /\ selected
               /\ Becomes([st EXCEPT !.keys = @ \ {f}, !.next[t] = (f :> ids) @@ @])
            \/ ~selected /\ ~ok /\ Error("pattern")
            \/ /\ ~selected /\ ok
               /\ Becomes([st EXCEPT !.keys = @ \ {f},
                    !.next[t] = [sf \in Matched(f) |-> <<id(sf)>>] @@ @,
                    !.cols = [c \in {id(sf) : sf \in Matched(f)} |->
                                ApplyTo(st.cols[ids[1]], c[3])] @@ @,
                    !.fdmap = [x \in DOMAIN @ \ {f} |-> @[x]]])

Waits(c) == c.wraps \in {<<"embedding">>, <<"indicator">>}

\* An EMBEDDING looks at the shape first, whether it has a number.
Unsized(c, d) == Waits(c) /\ c.wraps = <<"embedding">> /\ d.shape \in {<<>>, NilShape}

\* Mutant: the largest id has no place.
CategorySizeShort(c, d) ==
    CASE d.sparse -> IF c.wraps = <<"embedding">> THEN d.shape[1] ELSE 0
      [] ~d.sparse -> d.maxid

\* The categories of a column that waits for them; 0 where there are none.
CategorySize(c, d) ==
    CASE d.sparse -> IF c.wraps = <<"embedding">> THEN d.shape[1] ELSE 0
      [] ~d.sparse -> IF d.maxid = 0 THEN 0 ELSE d.maxid + 1

\* A column for a field that the clause does not name.
NewFeatureColumn(f) ==
    LET d == st.heap[st.fdmap[f]]
        text == d.dtype = "string"
    IN [wraps |-> IF text THEN <<"embedding", "category_id">> ELSE <<"numeric">>,
        bucket |-> IF text THEN Cardinality(d.vocab) ELSE 0,
        name |-> "", crashes |-> FALSE, fds |-> <<st.fdmap[f]>>]

\* updateFeatureColumn and newFeatureColumn of a target's fields.
DeriveTarget ==
    /\ At("expand") /\ st.keys = {}
    /\ LET t == st.target
           had == st.next[t]
           fields == Range(Of.select) \ {Of.label}
           ids == UNION {Range(had[f]) : f \in fields \cap DOMAIN had}
           waiting == {id \in ids : Waits(st.cols[id])}
           desc(id) == st.heap[st.fdmap[st.cols[id].name]]
           size(id) == CategorySize(st.cols[id], desc(id))
           unsized == {id \in waiting : Unsized(st.cols[id], desc(id))}
           new == IF Cardinality(Targets) = 1 THEN fields \ DOMAIN had ELSE {}
       IN \/ unsized # {} /\ Crash("shape")
          \/ (\E id \in waiting \ unsized : size(id) = 0) /\ Error("category")
          \/ /\ unsized = {} /\ \A id \in waiting : size(id) # 0
             /\ Becomes([st EXCEPT !.pc = IF st.todo = {} THEN "setback" ELSE "targets",
                  !.next[t] = [f \in new |-> <<<<t, 0, f>>>>] @@ @,
                  !.cols = [id \in waiting |->
                              [st.cols[id] EXCEPT !.wraps = @ \o <<"category_id">>, !.bucket = size(id),
                                                  !.fds = <<st.fdmap[st.cols[id].name]>>]]
                           @@ [id \in {<<t, 0, f>> : f \in new} |-> NewFeatureColumn(id[3])] @@ @])

-----------------------------------------------------------------------------
(* The columns in their order. *)

\* The columns of the selected fields, field by field.
OfFields(t) ==
    FlattenSeq([i \in DOMAIN Of.select |->
        IF Of.select[i] # Of.label /\ Of.select[i] \in DOMAIN st.next[t]
        THEN st.next[t][Of.select[i]] ELSE <<>>])

Once(ids) ==
    LET first == {i \in DOMAIN ids : \A j \in 1..i - 1 : ids[j] # ids[i]}
    IN [n \in 1..Cardinality(first) |->
          ids[CHOOSE i \in first : Cardinality({j \in first : j <= i}) = n]]

\* sort.Slice sorts up to twelve by insertion.  The order it is given looks
\* at the places where the columns were at first: key is not sorted with s.
Sink(s, key, i) ==
    LET to == CHOOSE k \in 1..i : /\ \A j \in k + 1..i : key[j] < key[j - 1]
                                  /\ k = 1 \/ key[k] >= key[k - 1]
    IN [j \in DOMAIN s |-> IF j = to THEN s[i] ELSE IF j \in to + 1..i THEN s[j - 1] ELSE s[j]]
SortSlice(s, key) ==
    FoldLeft(LAMBDA a, i : Sink(a, key, i), s, [i \in 1..Len(s) - 1 |-> i + 1])

\* Columns of one field, then those of several.
Ordered(t) ==
    LET all == Once(OfFields(t))
        several(id) == Len(st.cols[id].fds) # 1
        multi == SelectSeq(all, several)
    IN IF multi = <<>> THEN all
       ELSE SelectSeq(all, LAMBDA id : ~several(id))
            \o SortSlice(multi, [i \in DOMAIN multi |-> multi[i][2]])

SetDerivedFeatureColumnToIR ==
    /\ At("setback")
    /\ \E fs \in {[t \in Targets |-> Ordered(t)]} :
         Becomes([st EXCEPT !.pc = "label", !.features = fs])

\* The shape of a label that is one number is empty.
DeriveLabel ==
    /\ At("label")
    /\ LET known == Of.label \in DOMAIN st.fdmap
       IN \/ Of.label = "" /\ Go("verify")
          \/ Of.label # "" /\ ~known /\ Error("label")
          \/ /\ Of.label # "" /\ known
             /\ Becomes([st EXCEPT !.pc = "verify",
                  !.heap[st.fdmap[Of.label]].shape = IF @ = <<1>> THEN <<>> ELSE @])

-----------------------------------------------------------------------------
(* Verification. *)

FeatureNames ==
    UNION {UNION {NamesOf(st.cols[st.features[t][i]]) : i \in DOMAIN st.features[t]} :
             t \in DOMAIN st.features}

\* verifyTrainStmt: only a statement that trains must have its label.
VerifyTrainStmt ==
    /\ At("verify")
    /\ LET own == Cur.kind = "train"
           names == FeatureNames \cup (IF own /\ Of.label # "" THEN {Of.label} ELSE {})
           ok == Answers(table, Of) /\ names \subseteq Range(Of.select)
           load == own /\ input.fromModel /\ Cur.pretrained # "none"
       IN \/ (~ok \/ NoAnswer(table, Of)) /\ Error("verify")
          \/ ok /\ ~own /\ Go("into")
          \/ ok /\ own /\ Becomes([st EXCEPT !.pc = IF load THEN "load" ELSE "attributes",
                                              !.load = IF load THEN "pretrained" ELSE @])
          \/ DbFails

\* parseResultTable, of a prediction: [db.]table.column.
ParseResultTable ==
    /\ At("into")
    /\ LET ok == Cur.kind = "predict" => Len(Cur.into) \in {2, 3}
       IN \/ ~ok /\ Error("into")
          \/ ok /\ Go(IF input.fromModel THEN "usefields" ELSE "execute")

\* verifyIRWithTrainStmt, in two queries.
VerifyUseFields ==
    /\ At("usefields")
    /\ \/ NoAnswer(table, Cur) /\ Error("query")
       \/ /\ Answers(table, Cur)
          /\ \E fs \in {Verify(table, Cur)} :
               Becomes([st EXCEPT !.pc = "features", !.fields = fs, !.told = table])
       \/ DbFails

VerifyIRWithTrainStmt ==
    /\ At("features")
    /\ LET ok == /\ Answers(table, Of)
                 /\ \A f \in FeatureNames : /\ f \in Range(Of.select) \cap DOMAIN st.fields
                                            /\ Verify(table, Of)[f] = st.fields[f]
       IN \/ (~ok \/ NoAnswer(table, Of)) /\ Error("features")
          \/ ok /\ Go("execute")
          \/ DbFails

\* The attributes of a statement to train or to optimize; a loss that is no
\* name, or an argument without its name, ends the server.
Estimator == IF Cur.kind = "optimize" THEN "optimize" ELSE Cur.estimator
InitializeAndCheckAttributes ==
    /\ At("attributes")
    /\ LET tensorflow == Estimator \notin {"xgboost", "optimize"}
       IN \/ tensorflow /\ LossPanics(st.attrs) /\ Crash("loss")
          \/ /\ ~(tensorflow /\ LossPanics(st.attrs))
             /\ \E as \in {InitializeAttributes(Estimator, input.pai, st.attrs)} :
                  \/ ~Validate(AttrValidator(Estimator, input.pai), as) /\ Error("attribute")
                  \/ /\ Validate(AttrValidator(Estimator, input.pai), as)
                     /\ Becomes([st EXCEPT !.pc = "execute", !.attrs = as])

-----------------------------------------------------------------------------
(* Execution, as far as it shows what was resolved. *)

\* A column as it is given to Python.  A category with a vocabulary lists
\* the words, in the order in which Go visits them, instead of its size.
Used == UNION {Range(st.features[t]) : t \in DOMAIN st.features}
Vocabulary(id) ==
    IF "category_id" \in Range(st.cols[id].wraps) THEN st.heap[st.cols[id].fds[1]].vocab ELSE {}
Rendered(id, list) ==
    LET c == st.cols[id]
        desc(d) == IF st.heap[d].fresh THEN KeyDesc(st.heap[d].name) ELSE st.heap[d]
    IN [wraps |-> c.wraps, bucket |-> IF list = <<>> THEN c.bucket ELSE 0, list |-> list,
        descs |-> [j \in DOMAIN c.fds |-> desc(c.fds[j])]]
RenderedFeatures ==
    LET lists == {l \in [Used -> UNION {SetToSeqs(Vocabulary(id)) : id \in Used}] :
                    \A id \in Used : l[id] \in SetToSeqs(Vocabulary(id))}
        rendered(id, l) == Rendered(id, l[id])
    IN {[t \in DOMAIN st.features |->
           [i \in DOMAIN st.features[t] |-> rendered(st.features[t][i], l)]] : l \in lists}

NextStatement == IF st.n = Len(input.stmts) THEN [st EXCEPT !.pc = "done"] ELSE Fresh(st.n + 1)

\* A model is stored with its statement.
ExecuteTrain ==
    /\ At("execute") /\ Cur.kind = "train"
    /\ st' = NextStatement
    /\ \E columns \in RenderedFeatures :
         models' = [models EXCEPT ![Cur.model] =
                      [stmt |-> st.n, version |-> st.version, sample |-> st.sample, columns |-> columns]]
    /\ UNCHANGED <<input, table, result>>

ExecuteOther ==
    /\ At("execute") /\ Cur.kind \notin {"train", "predict"}
    /\ Becomes(NextStatement)

\* createPredictionResultTable drops the table of an earlier prediction and
\* then asks for the fields of the new one.
DropResultTable ==
    /\ At("execute") /\ Cur.kind = "predict"
    /\ \/ DbFails
       \/ /\ st' = [st EXCEPT !.pc = "create"]
          /\ result' = Absent
          /\ UNCHANGED <<input, table, models>>

\* The label of the statement that trained the model, if that was loaded.
LabelOfModel == IF input.fromModel THEN Of.label ELSE ""

KeptFields(f) == f \notin {LabelOfModel, Last(Cur.into)}

\* predict.extra_outputs names more columns.
ExtraOutputs == <<"predict", "extra_outputs">>
ExtraFields == IF ExtraOutputs \in DOMAIN st.attrs THEN <<st.attrs[ExtraOutputs].s>> ELSE <<>>

CreateResultTable ==
    /\ At("create")
    /\ LET names == SelectSeq(Cur.select, KeptFields) \o <<Last(Cur.into)>> \o ExtraFields
           ok == /\ Answers(table, Cur) /\ Cardinality(Range(names)) = Len(names)
                 /\ ExtraOutputs \in DOMAIN st.attrs => st.attrs[ExtraOutputs].k = "name"
       IN \/ (~ok \/ NoAnswer(table, Cur)) /\ Error("create")
          \/ /\ ok
             /\ st' = NextStatement
             /\ result' = [Absent EXCEPT !.stmt = st.n, !.version = st.of, !.columns = names]
             /\ UNCHANGED <<input, table, models>>
          \/ DbFails

-----------------------------------------------------------------------------
Next ==
    \/ GenerateTrainStmt \/ GenerateUseStmt \/ GenerateOptimizeStmt \/ GenerateOtherStmt
    \/ LoadModelMeta \/ VerifyTrainFields \/ VerifyPredFields
    \/ MakeMaps \/ Query \/ FillRow \/ FillEnd \/ PickTarget \/ ExpandKey \/ DeriveTarget
    \/ SetDerivedFeatureColumnToIR \/ DeriveLabel
    \/ VerifyTrainStmt \/ ParseResultTable \/ VerifyUseFields \/ VerifyIRWithTrainStmt
    \/ InitializeAndCheckAttributes
    \/ ExecuteTrain \/ ExecuteOther \/ DropResultTable \/ CreateResultTable
    \/ AlterTable

Spec == Init /\ [][Next]_vars

-----------------------------------------------------------------------------
(* Properties. *)

Pcs == {"start", "load", "trainfields", "predfields", "describe", "fetch", "fill", "targets",
        "expand", "setback", "label", "verify", "into", "usefields", "features", "attributes",
        "execute", "create", "done", "error", "crashed"}

\* The steps of a statement are those of ir_generator.go, and what is derived
\* has a description.
TypeOK ==
    /\ table \in DOMAIN input.tables /\ st.n \in DOMAIN input.stmts
    /\ st.pc \in Pcs /\ st.load \in {"use", "pretrained"} /\ st.of \in 1..st.n
    /\ st.version \in 0..table /\ st.row \in 0..Len(st.sample)
    /\ IsInjective(st.sample)
    /\ \A f \in DOMAIN st.fdmap : st.fdmap[f] \in DOMAIN st.heap
    /\ \A t \in DOMAIN st.features : Range(st.features[t]) \subseteq DOMAIN st.cols
    /\ \A m \in Models : models[m].stmt \in 0..st.n

Derived == st.pc \in {"label", "verify", "into", "usefields", "features", "attributes", "execute"}
Features == {x \in (DOMAIN st.features) \X (1..8) : x[2] \in DOMAIN st.features[x[1]]}
Feature(x) == st.features[x[1]][x[2]]

\* What a model learns from is what was selected: with one target every
\* selected field but the label is in a column, in no target is a column
\* there twice, and the label is in none that derivation made
\* (setDerivedFeatureColumnToIR).
FeaturesComplete ==
    Derived =>
        /\ \A x, y \in Features : x[1] = y[1] /\ Feature(x) = Feature(y) => x = y
        /\ DOMAIN st.features # {} /\ Cardinality(Targets) = 1 =>
             Range(Of.select) \ {Of.label} \subseteq FeatureNames
        /\ \A x \in Features : Feature(x)[2] = 0 => Feature(x)[3] # Of.label

SeenCells(f) == {Sampled.rows[st.sample[i]][f] : i \in 1..st.row}
Described == {f \in DOMAIN st.fdmap \cap Range(Of.select) : st.fdmap[f] \in DOMAIN st.heap}

\* The categories of a column that was given none have a place for every id
\* of every sample of numbers, and for every word of a sample of words
\* (derivation.go, MaxID + 1 and the vocabulary).  Nothing is said of a
\* number among words: "7" next to "u" is in no vocabulary, although the
\* comment at feature_column.go:44 has all possible values there.
BucketCovers ==
    Derived =>
        \A x \in Features :
            LET c == st.cols[Feature(x)]
                d == st.heap[c.fds[1]]
                given == /\ Feature(x)[2] # 0
                         /\ st.cols[<<Feature(x)[1], Feature(x)[2], "">>].name = ""
            IN Len(c.fds) = 1 /\ "category_id" \in Range(c.wraps) /\ ~given /\ ~d.sparse =>
                 \A cell \in SeenCells(d.name) :
                    IF d.format = "csv" THEN \A i \in cell.ids : i < c.bucket
                    ELSE cell.k = "word" => cell.s \in d.vocab /\ Cardinality(d.vocab) <= c.bucket

\* No more rows are read than were asked for, if the query has no LIMIT or
\* one of its own (verifier.go:30 says so of every query).  Where only a
\* subquery has a LIMIT, every row of the table comes.
SamplesBounded ==
    st.version # 0 /\ (Of.limit # NoLimit \/ Of.inner = NoLimit) =>
        Len(st.sample) <= MaxSamples

\* The shape that a model is built with is that of every sample: no later
\* row of a DENSE field has more or fewer values (fillCSVFieldDesc).
ShapesFit ==
    Derived =>
        \A f \in Described :
            LET d == st.heap[st.fdmap[f]]
            IN d.format = "csv" /\ ~d.sparse => \A cell \in SeenCells(f) : cell.n = Size(d.shape)

\* The columns that derivation hands to a model are complete and fit every
\* sample.
ColumnsFit == TypeOK /\ FeaturesComplete /\ BucketCovers /\ SamplesBounded /\ ShapesFit

\* A model is only applied to rows that have its fields, of the same types:
\* those of its columns, however the tables were altered up to the first of
\* the two queries of verifyIRWithTrainStmt, and all it was trained from but
\* the label, if nobody alters one at all (verifier.go:129).  An alteration
\* after that first query is seen by no one.
PredictSeesTraining ==
    LET same(f) == f \in Range(Cur.select) /\ Verify(table, Cur)[f] = Verify(table, Of)[f]
    IN st.pc = "execute" /\ Cur.kind \in Uses /\ input.fromModel =>
         /\ st.told = table => \A f \in FeatureNames : same(f)
         /\ table = 1 => \A f \in Range(Of.select) \ {Of.label} : same(f)

\* A clause that says one thing of every field: no two patterns or names of
\* a target share a field, and no field is described in two targets.
Unambiguous(stmt) ==
    LET cs == ClauseColumns(stmt)
        keys(id) == IF cs[id].descs = <<>> THEN {cs[id].name}
                    ELSE {cs[id].descs[j].name : j \in DOMAIN cs[id].descs}
        fields(f) == IF f \in Range(stmt.select) THEN {f}
                     ELSE IF f \in DOMAIN Matches THEN Matches[f] ELSE {}
    IN \A p, q \in DOMAIN cs : \A f \in keys(p), g \in keys(q) :
         f # g \/ p[1] # q[1] =>
            IF p[1] = q[1] THEN fields(f) \cap fields(g) = {}
            ELSE f = g => cs[p].descs = <<>> \/ cs[q].descs = <<>>

\* The samples of every field are of one kind, all with real numbers or all
\* without, so that it does not matter which comes first and which last.
Uniform(rows) ==
    \A i, j \in DOMAIN rows : \A f \in DOMAIN rows[i] :
        rows[i][f].k = rows[j][f].k /\ rows[i][f].real = rows[j][f].real

\* The columns with the lists of words as sets.
Unlisted(columns) ==
    [t \in DOMAIN columns |->
       [i \in DOMAIN columns[t] |-> [columns[t][i] EXCEPT !.list = Range(@)]]]

\* A model that is used gets the columns it was trained with, up to the order
\* of a list of words: what is derived again is the same, whatever order
\* Go's maps are visited in, if the same rows were sampled, and in whatever
\* order they came if they are alike (deriveFeatureColumn,
\* GenerateTrainStmtByModel).  A vocabulary_list is in the order of a map
\* (codegen_feature_column.go:84), so that a word may have another place in
\* it than when the model was trained; and with more rows than the LIMIT
\* other rows may be sampled.
SameColumnsAgain ==
    LET m == models[Cur.model]
        alike == \/ st.sample = m.sample
                 \/ Range(st.sample) = Range(m.sample) /\ Uniform(Sampled.rows)
    IN /\ st.pc \in {"into", "usefields", "features", "execute"} /\ Cur.kind \in Uses
       /\ input.fromModel /\ st.version = m.version /\ alike /\ Unambiguous(input.stmts[m.stmt])
       => \A columns \in RenderedFeatures : Unlisted(columns) = Unlisted(m.columns)

\* The table of predictions has each field of the query once, the label of
\* the training only as the column that was asked for (pre_exec.go:43-60).
ResultColumns ==
    result # Absent =>
        LET by == input.stmts[result.stmt]
            label == IF input.fromModel THEN input.stmts[result.version].label ELSE ""
        IN /\ Cardinality(Range(result.columns)) = Len(result.columns)
           /\ (Range(by.select) \ {label}) \cup {Last(by.into)} \subseteq Range(result.columns)
           /\ label \in Range(result.columns) => label = Last(by.into)

\* The use of a model agrees with its training: the fields it reads, the
\* columns it is given, and the table its predictions go to.
UseSeesTraining == PredictSeesTraining /\ SameColumnsAgain /\ ResultColumns

\* What ends the server, for want of a recover: a CROSS of columns that are
\* not DENSE or SPARSE, an EMBEDDING of a name that is described without a
\* shape, a delimiter that is no regular expression, a row with NULL or a
\* number out of range next to text, a loss that is no name.
RECURSIVE HasOddKey(_)
HasOddKey(e) ==
    \/ e.k = "call" /\ e.s = "cross" /\ \E j \in DOMAIN e.of[1].of :
         e.of[1].of[j].k = "call" /\ e.of[1].of[j].s \notin {"dense", "sparse"}
    \/ \E j \in DOMAIN e.of : HasOddKey(e.of[j])
Clause(stmt) == UNION {Range(stmt.columns[t]) : t \in DOMAIN stmt.columns}
EmbedsUnsized(stmt) ==
    \E e, d \in Clause(stmt) :
        /\ e.k = "call" /\ e.s = "embedding" /\ IsString(e.of[1])
        /\ d.k = "call" /\ d.s \in {"dense", "sparse"} /\ (Len(d.of) = 1 \/ d.of[2] = Name("none"))
RECURSIVE BadDelimiter(_)
BadDelimiter(e) ==
    \/ /\ e.k = "call" /\ e.s \in {"dense", "sparse"} /\ Len(e.of) >= 5
       /\ ~Compiles(e.of[3].s) \/ ~Compiles(e.of[5].s)
    \/ \E j \in DOMAIN e.of : BadDelimiter(e.of[j])
HasText(stmt) == \E f \in Range(stmt.select) : Sampled.type[f] = "text"



\* What the comment at derivation.go:707 says of the columns of several
\* fields: they are in the order of the COLUMN clause.
CrossInClauseOrder ==
    Derived =>
        \A x, y \in Features :
            /\ x[1] = y[1] /\ x[2] < y[2]
            /\ Len(st.cols[Feature(x)].fds) > 1 /\ Len(st.cols[Feature(y)].fds) > 1
            => Feature(x)[2] < Feature(y)[2]
=============================================================================
