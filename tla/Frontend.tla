------------------------------ MODULE Frontend ------------------------------
(***************************************************************************)
(* What happens to a program before it runs: its comments are removed      *)
(* (SqlText), the parser of the database's dialect and SQLFlow's own       *)
(* parser take turns over its text (go/parser), hints are moved in front   *)
(* of the standard statements, each statement is resolved, and one step of *)
(* a workflow is generated for each (go/workflow, go/codegen/experimental).*)
(* Analyze builds the graph of dependencies (go/ir/deps).  The parsers of  *)
(* the dialects other than MySQL are behind a Java server which the first  *)
(* parse starts (go/parser/external).                                      *)
(*                                                                         *)
(* Several sessions of one process compile at the same time.  Argo runs    *)
(* the steps of a compiled workflow, and a step that trains replaces the   *)
(* model of its name.                                                      *)
(*                                                                         *)
(* A text is a sequence of tokens.  A standard statement is one token; an  *)
(* extended one is a select token without a semicolon and a to token.      *)
(***************************************************************************)
EXTENDS SqlText, SequencesExt

CONSTANTS
    Sessions,
    Workloads,   \* functions from Sessions to what each one compiles
    Tables,      \* the texts that name tables: d.a, a, all of a FROM clause
    BareName,    \* [text -> the name without its database]
    Models,      \* names of models
    Images,      \* names of Docker images
    Stored,      \* [model -> the image that trained the one in the database]
    Faults       \* what may go wrong outside

Users == {"predict", "explain", "evaluate"}
Clauses == Users \cup {"train", "optimize", "run"}
Standard == {"query", "create", "other", "set"}
TokenKinds == Standard \cup {"comment", "select", "to", "show", "bad"}
Tokens ==
    {t \in [k : TokenKinds, from : Tables \cup {"none"}, into : Tables \cup {"none"},
            clause : Clauses \cup {"none"}, model : Models \cup {"none"},
            image : Images \cup {"default"}] :
        t.clause \in Users \cup {"train"} => t.model \in Models}
Modes == {"yaml", "couler", "experimental", "analyze"}
Dialects == {"mysql", "hive", "alisa", "unknown"}
FaultKinds == {"java", "rpc", "resolve", "config", "python", "write", "step", "dot"}

ASSUME FrontendAssumption ==
    /\ \A w \in Workloads : \A s \in Sessions :
         /\ w[s].mode \in Modes /\ w[s].dialect \in Dialects
         /\ w[s].raw \in Seq(Atoms) /\ w[s].text \in Seq(Tokens)
    /\ BareName \in [Tables -> Tables]
    /\ Stored \in [Models -> Images \cup {"default", "absent"}]
    /\ Faults \subseteq FaultKinds
    /\ "none" \notin Sessions

VARIABLES
    input,    \* [session -> mode, dialect, raw text and tokens]
    ses,      \* [session -> where it is], see Fresh
    lock,     \* the holder of the mutex mu
    booting,  \* Java processes that were started and do not listen yet
    up,       \* a Java server listens on the port
    late,     \* calls that have given up waiting for the server
    conns,    \* connections to the server that were opened
    trained   \* [model -> the image that trained it, and the step]

java == <<lock, booting, up, late, conns>>
vars == <<input, ses, java, trained>>

NoClause == [k |-> "none", from |-> "none", into |-> "none", clause |-> "none",
             model |-> "none", image |-> "default"]

\* The step that trained a model which was there before.
Nobody == <<"none", 0>>

-----------------------------------------------------------------------------
(* The elements of a sequence at some of its positions. *)

\* The members of S from 1 to n, in order.
InOrder(S, n) ==
    LET upto[i \in 0..n] ==
          IF i = 0 THEN <<>>
          ELSE IF i \in S THEN Append(upto[i - 1], i) ELSE upto[i - 1]
    IN upto[n]

Select(seq, S) ==
    LET at == InOrder(S, Len(seq)) IN [k \in DOMAIN at |-> seq[at[k]]]

\* The sequence q is S, in order.
Lists(q, S) == Range(q) = S /\ \A i, j \in DOMAIN q : i < j => q[i] < q[j]

-----------------------------------------------------------------------------
(* The parsers. *)

\* The first token from i on that is not a comment.
LeadingComment(text, i) ==
    Min({j \in i..Len(text) + 1 : j = Len(text) + 1 \/ text[j].k # "comment"})

\* parseInputsOutputs knows SELECT and CREATE TABLE; the Java parsers report
\* no tables, and neither does a SELECT that an extended clause follows.  An
\* input is the whole text of FROM as it is written again, an output the
\* name of the table without its database: what is written as d.a is read
\* under another name.
Named(text) == IF text = "none" THEN <<>> ELSE <<text>>

ParseInputsOutputs(dialect, t) ==
    IF dialect = "mysql" /\ t.k \in {"query", "create", "select"}
    THEN [in |-> Named(t.from),
          out |-> IF t.k = "create" /\ t.into # "none" THEN Named(BareName[t.into]) ELSE <<>>]
    ELSE [in |-> <<>>, out |-> <<>>]

Statement(dialect, text, i) ==
    [at |-> i, ext |-> NoClause, unfinished |-> FALSE, hints |-> <<>>,
     in |-> ParseInputsOutputs(dialect, text[i]).in,
     out |-> ParseInputsOutputs(dialect, text[i]).out]

Unfinished(i) ==
    [at |-> i, ext |-> NoClause, unfinished |-> TRUE, hints |-> <<>>,
     in |-> <<>>, out |-> <<>>]

\* The statements a parser of the dialect accepts from p on, and the token
\* where it stopped, 0 if it has accepted everything.  A SELECT without its
\* semicolon is where it stops, unless nothing follows.
ThirdPartyParse(dialect, text, p) ==
    LET n == Len(text)
        stop == Min({i \in p..n + 1 : i = n + 1 \/ text[i].k \notin Standard \cup {"comment"}})
        at == InOrder({i \in p..stop - 1 : text[i].k \in Standard}, n)
        sqls == [k \in DOMAIN at |-> Statement(dialect, text, at[k])]
        next == LeadingComment(text, stop + 1)
    IN IF stop > n THEN [sqls |-> sqls, pos |-> 0]
       ELSE IF text[stop].k # "select" THEN [sqls |-> sqls, pos |-> stop]
       ELSE IF next > n THEN [sqls |-> Append(sqls, Statement(dialect, text, stop)), pos |-> 0]
       ELSE [sqls |-> Append(sqls, Unfinished(stop)), pos |-> next]

\* The reference: how a text is meant to be grouped.  The token at j comes
\* after the one at i, with nothing but comments between them.
Follows(text, i, j) ==
    i < j /\ text[j].k # "comment" /\ \A k \in i + 1..j - 1 : text[k].k = "comment"

\* What is wrong with the token at i.
Misplaced(text, i) ==
    \/ text[i].k = "bad"
    \/ text[i].k = "to" /\ ~\E j \in DOMAIN text : Follows(text, j, i) /\ text[j].k = "select"
    \/ text[i].k = "select" /\ \E j \in DOMAIN text : Follows(text, i, j) /\ text[j].k # "to"

WellFormed(text) == \A i \in DOMAIN text : ~Misplaced(text, i)

\* The tokens that begin a statement.
Starts(text) == {i \in DOMAIN text : text[i].k \notin {"comment", "to"}}

\* The clause that belongs to a statement.
OwnClause(text, st) ==
    CASE text[st.at].k = "show" -> st.ext = text[st.at]
      [] text[st.at].k = "select" ->
           \/ \E j \in DOMAIN text : Follows(text, st.at, j) /\ st.ext = text[j]
           \/ ~(\E j \in DOMAIN text : Follows(text, st.at, j)) /\ st.ext = NoClause
      [] OTHER -> st.ext = NoClause

-----------------------------------------------------------------------------
(* Hints. *)

IsHint(dialect, text, st) ==
    st.ext = NoClause /\ dialect = "alisa" /\ text[st.at].k = "set"

\* splitHints collects the hints of the whole program; each statement of
\* standard SQL gets all of them.
RewriteStatementsWithHints(dialect, text, all) ==
    LET at == {i \in DOMAIN all : IsHint(dialect, text, all[i])}
        hints == Select(all, at)
        sqls == Select(all, DOMAIN all \ at)
    IN [i \in DOMAIN sqls |->
          IF sqls[i].ext = NoClause
          THEN [sqls[i] EXCEPT !.hints = [k \in DOMAIN hints |-> hints[k].at]]
          ELSE sqls[i]]

-----------------------------------------------------------------------------
(* The graph of dependencies: the nodes of a table are the table and an    *)
(* index that tells its successive versions apart.                         *)

ContainsTable(list, t) == \E i \in DOMAIN list : list[i][1] = t
GetFirstInList(list, t) == list[Min({i \in DOMAIN list : list[i][1] = t})]
NextNode(nodes, t) == <<t, Last(nodes[t])[2] + 1>>

\* One table read: its last node, or a first one.
ConnectInput(b, t) ==
    IF b.nodes[t] = <<>>
    THEN [b EXCEPT !.in = Append(@, <<t, 0>>), !.nodes[t] = <<<<t, 0>>>>]
    ELSE [b EXCEPT !.in = Append(@, Last(b.nodes[t]))]

ConnectStatementInputs(b0, tables) ==
    LET upto[i \in 0..Len(tables)] ==
          IF i = 0 THEN b0
          ELSE CHOOSE r \in {ConnectInput(b, tables[i]) : b \in {upto[i - 1]}} : TRUE
    IN upto[Len(tables)]

\* Mutant: a table that was written before needs no edge.
WriteAfterWriteDropped(b, k, t) == b

\* The earlier statement writes t: its first node of t is an input.
WriteAfterWrite(b, k, t) ==
    [b EXCEPT !.in = Append(@, GetFirstInList(b.graph[k].out, t))]

\* The earlier statement reads t: a new node follows it, which is an input
\* unless some node of t already is.
WriteAfterRead(b, k, t) ==
    LET node == NextNode(b.nodes, t)
    IN [b EXCEPT !.graph[k].out = Append(@, node),
                 !.in = IF ContainsTable(@, t) THEN @ ELSE Append(@, node),
                 !.nodes[t] = Append(@, node)]

\* The k-th statement before, as far as it has to do with t.
ResolveWith(b, k, t) ==
    CASE ContainsTable(b.graph[k].out, t) -> WriteAfterWrite(b, k, t)
      [] ~ContainsTable(b.graph[k].out, t) /\ ContainsTable(b.graph[k].in, t) -> WriteAfterRead(b, k, t)
      [] OTHER -> b

\* resolveHazard: from the statement before back to the first one.
ResolveHazard(b0, t) ==
    LET n == Len(b0.graph)
        back[j \in 0..n] ==
          IF j = 0 THEN b0
          ELSE CHOOSE r \in {ResolveWith(b, n - j + 1, t) : b \in {back[j - 1]}} : TRUE
    IN back[n]

\* A new version of a table written.
NewVersion(b, t) ==
    LET node == IF b.nodes[t] = <<>> THEN <<t, 0>> ELSE NextNode(b.nodes, t)
    IN [b EXCEPT !.out = Append(@, node), !.nodes[t] = Append(@, node)]

ConnectOutput(b, t) == NewVersion(IF b.nodes[t] = <<>> THEN b ELSE ResolveHazard(b, t), t)

ConnectStatementOutputs(b0, tables) ==
    LET upto[i \in 0..Len(tables)] ==
          IF i = 0 THEN b0
          ELSE CHOOSE r \in {ConnectOutput(b, tables[i]) : b \in {upto[i - 1]}} : TRUE
    IN upto[Len(tables)]

-----------------------------------------------------------------------------
(* Images of the steps. *)

\* GenFiller: the image of a step of a workflow.
LegacyImage(st) ==
    IF st.ext.clause \in {"train", "run"} THEN st.ext.image ELSE "default"

\* The statements before the i-th one that train its model.
Trainers(all, i) ==
    {j \in 1..i - 1 : all[j].ext.clause = "train" /\ all[j].ext.model = all[i].ext.model}

\* Mutant: the first training of the model counts.
FirstModelGenerationTrainStmt(all, i) == Min(Trainers(all, i))

\* The training of the model that the i-th statement will see.
FindModelGenerationTrainStmt(all, i) == Max(Trainers(all, i))

(***************************************************************************)
(* A session before it starts.  text: its tokens, without comments where   *)
(* they are removed; clean: the raw text without comments; pos: where the  *)
(* next parser begins; open: the last statement waits for its clause; all: *)
(* the statements; tries: how often it will still look for the server;     *)
(* steps: the steps generated; ran: those that ran; graph, nodes: what     *)
(* Analyze has built; why: the cause of the error.                         *)
(***************************************************************************)
Fresh ==
    [pc |-> "start", text |-> <<>>, clean |-> <<>>, pos |-> 1, open |-> FALSE,
     all |-> <<>>, tries |-> 0, steps |-> <<>>, ran |-> <<>>, graph |-> <<>>,
     nodes |-> [t \in Tables |-> <<>>], why |-> "none"]

Init ==
    /\ input \in Workloads
    /\ ses = [s \in Sessions |-> Fresh]
    /\ lock = "none" /\ booting = 0 /\ up = FALSE /\ late = 0 /\ conns = 0
    /\ trained = [m \in Models |-> [image |-> Stored[m], by |-> Nobody]]

-----------------------------------------------------------------------------
(* Steps of a session. *)

At(s, pc) == ses[s].pc = pc
Becomes(s, r) == ses' = [ses EXCEPT ![s] = r]
Go(s, pc) == Becomes(s, [ses[s] EXCEPT !.pc = pc])
Error(s, why) == Becomes(s, [ses[s] EXCEPT !.pc = "error", !.why = why])

\* RemoveCommentInSQLStatement removes the comments of several lines, and
\* then those of one line from what is left.
RemoveComments(s) ==
    /\ At(s, "start")
    /\ input[s].mode = "experimental"
    /\ \E once \in {RemoveMultipleLineComment(input[s].raw)} :
         \/ once = Failed /\ Error(s, "comment")
         \/ once # Failed /\ Becomes(s, [ses[s] EXCEPT !.pc = "comments", !.clean = once])
    /\ UNCHANGED <<input, java, trained>>

RemoveLineComments(s) ==
    /\ At(s, "comments")
    /\ \E twice \in {RemoveSingleLineComment(ses[s].clean)} :
         \/ twice = Failed /\ Error(s, "comment")
         \/ twice # Failed /\ Becomes(s, [ses[s] EXCEPT !.pc = "driver", !.clean = twice])
    /\ UNCHANGED <<input, java, trained>>

\* The driver's name is in the URL of the database.  Only the experimental
\* compiler has removed the comments.
ParseURL(s) ==
    /\ At(s, IF input[s].mode = "experimental" THEN "driver" ELSE "start")
    /\ \/ input[s].dialect = "unknown" /\ Error(s, "url")
       \/ /\ input[s].dialect # "unknown"
          /\ Becomes(s, [ses[s] EXCEPT !.pc = "parse", !.text =
               IF input[s].mode = "experimental"
               THEN Select(input[s].text, {i \in DOMAIN input[s].text : input[s].text[i].k # "comment"})
               ELSE input[s].text])
    /\ UNCHANGED <<input, java, trained>>

\* A session after a parser of its dialect has answered.
Accepted(s) ==
    LET p == ThirdPartyParse(input[s].dialect, ses[s].text, ses[s].pos)
    IN [ses[s] EXCEPT !.all = @ \o p.sqls,
                      !.pos = IF p.pos = 0 THEN @ ELSE p.pos,
                      !.open = p.sqls # <<>> /\ Last(p.sqls).unfinished,
                      !.pc = IF p.pos = 0 THEN "parsed" ELSE "extended"]

ParseWithTiDB(s) ==
    /\ At(s, "parse") /\ input[s].dialect = "mysql"
    /\ Becomes(s, Accepted(s))
    /\ UNCHANGED <<input, java, trained>>

\* Mutant: a clause is accepted wherever the other parser stopped.
ExtendedFits(open, t) == t.k \in {"to", "show"}

\* TO needs a SELECT that waits for it, and SHOW TRAIN stands alone.
Fits(open, t) == (t.k = "to" /\ open) \/ (t.k = "show" /\ ~open)

\* SQLFlow's parser takes one clause, and the loop begins again behind it.
ParseFirstSQLFlowStmt(s) ==
    /\ At(s, "extended")
    /\ LET r == ses[s]
           t == r.text[r.pos]
           all == IF r.open THEN [r.all EXCEPT ![Len(r.all)].ext = t]
                  ELSE Append(r.all, [Unfinished(r.pos) EXCEPT !.ext = t, !.unfinished = FALSE])
       IN \/ ~Fits(r.open, t) /\ Error(s, "syntax")
          \/ /\ Fits(r.open, t)
             /\ Becomes(s, [r EXCEPT !.all = all, !.pos = @ + 1,
                              !.pc = IF r.pos = Len(r.text) THEN "parsed" ELSE "parse"])
    /\ UNCHANGED <<input, java, trained>>

-----------------------------------------------------------------------------
(* The Java server. *)

\* Mutant: the mutex is not there.
LockFree(s) ==
    /\ At(s, "parse") /\ input[s].dialect \in {"hive", "alisa"}
    /\ Go(s, "check")
    /\ UNCHANGED <<input, java, trained>>

\* connectToServer begins.  The connection it makes is kept in a variable
\* of its own, so that none is ever found.
Lock(s) ==
    /\ At(s, "parse") /\ input[s].dialect \in {"hive", "alisa"}
    /\ lock = "none" /\ lock' = s
    /\ Go(s, "check")
    /\ UNCHANGED <<input, booting, up, late, conns, trained>>

\* startServerIfNotUp: a process is started when nobody listens.
StartServer(s) ==
    /\ At(s, "check")
    /\ \/ up /\ Go(s, "dial") /\ UNCHANGED java
       \/ /\ ~up
          /\ Becomes(s, [ses[s] EXCEPT !.pc = "wait", !.tries = 3])
          /\ booting' = booting + 1 /\ UNCHANGED <<lock, up, late, conns>>
       \/ /\ ~up /\ "java" \in Faults
          /\ Error(s, "java")
          /\ lock' = "none" /\ UNCHANGED <<booting, up, late, conns>>
    /\ UNCHANGED <<input, trained>>

\* Mutant: the number of tries has no end.
WaitForServerForever(s) ==
    /\ At(s, "wait")
    /\ \/ up /\ Go(s, "dial") /\ UNCHANGED java
       \/ ~up /\ UNCHANGED <<ses, java>>
    /\ UNCHANGED <<input, trained>>

\* One second has passed.  The process is left alone when it is too slow.
WaitForServer(s) ==
    /\ At(s, "wait")
    /\ \/ up /\ Go(s, "dial") /\ UNCHANGED java
       \/ /\ ~up /\ ses[s].tries > 1
          /\ Becomes(s, [ses[s] EXCEPT !.tries = @ - 1]) /\ UNCHANGED java
       \/ /\ ~up /\ ses[s].tries = 1
          /\ Error(s, "java")
          /\ late' = late + 1 /\ lock' = "none" /\ UNCHANGED <<booting, up, conns>>
    /\ UNCHANGED <<input, trained>>

\* grpc.Dial does not wait for the server; nobody closes the connection.
Dial(s) ==
    /\ At(s, "dial")
    /\ Go(s, "rpc")
    /\ conns' = conns + 1 /\ lock' = "none"
    /\ UNCHANGED <<input, booting, up, late, trained>>

ParseWithJava(s) ==
    /\ At(s, "rpc")
    /\ \/ up /\ Becomes(s, Accepted(s))
       \/ (~up \/ "rpc" \in Faults) /\ Error(s, "java")
    /\ UNCHANGED <<input, java, trained>>

\* A process is ready: it listens, or ends because the port is taken.
ServerReady ==
    /\ booting > 0
    /\ booting' = booting - 1 /\ up' = TRUE
    /\ UNCHANGED <<input, ses, lock, late, conns, trained>>

\* A process dies, the one that listens or one that does not yet.
ServerDies ==
    /\ "java" \in Faults
    /\ \/ up /\ up' = FALSE /\ UNCHANGED booting
       \/ booting > 0 /\ booting' = booting - 1 /\ UNCHANGED up
    /\ UNCHANGED <<input, ses, lock, late, conns, trained>>

-----------------------------------------------------------------------------
(* The graph. *)

\* Analyze: no statement is an error, and a single one has no edges.
AnalyzeStart(s) ==
    /\ At(s, "parsed") /\ input[s].mode = "analyze"
    /\ \/ ses[s].all = <<>> /\ Error(s, "empty")
       \/ /\ Len(ses[s].all) = 1
          /\ Becomes(s, [ses[s] EXCEPT !.pc = "analyzed", !.graph = <<[in |-> <<>>, out |-> <<>>]>>])
       \/ Len(ses[s].all) > 1 /\ Go(s, "analyze")
    /\ UNCHANGED <<input, java, trained>>

\* The next statement is connected with the ones before it.
AnalyzeStatement(s) ==
    /\ At(s, "analyze")
    /\ Len(ses[s].graph) < Len(ses[s].all)
    /\ \E st \in {ses[s].all[Len(ses[s].graph) + 1]} :
       \E i \in {ConnectStatementInputs(
                   [graph |-> ses[s].graph, in |-> <<>>, out |-> <<>>, nodes |-> ses[s].nodes], st.in)} :
       \E b \in {ConnectStatementOutputs(i, st.out)} :
         Becomes(s, [ses[s] EXCEPT !.graph = Append(b.graph, [in |-> b.in, out |-> b.out]),
                                   !.nodes = b.nodes])
    /\ UNCHANGED <<input, java, trained>>

\* drawGraphviz, where a file is asked for.
DrawGraphviz(s) ==
    /\ At(s, "analyze")
    /\ Len(ses[s].graph) = Len(ses[s].all)
    /\ Go(s, "analyzed") \/ ("dot" \in Faults /\ Error(s, "dot"))
    /\ UNCHANGED <<input, java, trained>>

-----------------------------------------------------------------------------
(* The workflow. *)

Rewrite(s) ==
    /\ At(s, "parsed") /\ input[s].mode # "analyze"
    /\ Becomes(s, [ses[s] EXCEPT !.pc = "resolve",
         !.all = RewriteStatementsWithHints(input[s].dialect, ses[s].text, @)])
    /\ UNCHANGED <<input, java, trained>>

\* ResolveSQLProgram, or parseToIR with its check of the attributes.
ResolveSQLProgram(s) ==
    /\ At(s, "resolve")
    /\ \/ Go(s, IF input[s].mode = "experimental" THEN "steps" ELSE "filler")
       \/ "resolve" \in Faults /\ Error(s, "resolve")
    /\ UNCHANGED <<input, java, trained>>

\* GenFiller: a step for each statement, and what the environment says.
GenFiller(s) ==
    /\ At(s, "filler")
    /\ \/ Becomes(s, [ses[s] EXCEPT
            !.pc = IF input[s].mode = "couler" THEN "done" ELSE "python",
            !.steps = [i \in DOMAIN ses[s].all |->
                         [stmt |-> ses[s].all[i], by |-> Nobody,
                          image |-> LegacyImage(ses[s].all[i])]]])
       \/ "config" \in Faults /\ Error(s, "config")
    /\ UNCHANGED <<input, java, trained>>

\* GenerateStepCodeAndImage for the next statement.  The image of a model
\* that the program does not train is looked up in its metadata.
GenerateStep(s) ==
    /\ At(s, "steps")
    /\ LET r == ses[s]
           i == Len(r.steps) + 1
           st == r.all[i]
           step(image, by) ==
             Becomes(s, [r EXCEPT !.steps = Append(@, [stmt |-> st, by |-> by, image |-> image])])
       IN /\ i <= Len(r.all)
          /\ \/ st.ext.clause \notin Users /\ step(LegacyImage(st), Nobody)
             \/ /\ st.ext.clause \in Users /\ Trainers(r.all, i) # {}
                /\ \E j \in {FindModelGenerationTrainStmt(r.all, i)} :
                     step(r.all[j].ext.image, <<s, j>>)
             \/ /\ st.ext.clause \in Users /\ Trainers(r.all, i) = {}
                /\ \/ /\ trained[st.ext.model].image # "absent"
                      /\ step(trained[st.ext.model].image, trained[st.ext.model].by)
                   \/ trained[st.ext.model].image = "absent" /\ Error(s, "model")
    /\ UNCHANGED <<input, java, trained>>

\* CodeGenCouler looks at the environment as GenFiller does.
CodeGenCouler(s) ==
    /\ At(s, "steps")
    /\ Len(ses[s].steps) = Len(ses[s].all)
    /\ Go(s, "python") \/ ("config" \in Faults /\ Error(s, "config"))
    /\ UNCHANGED <<input, java, trained>>

\* The Couler program is written to a file and run.  The experimental
\* compiler runs it even if it could only write a part of it.
GenYAML(s) ==
    /\ At(s, "python")
    /\ \/ Go(s, "done")
       \/ /\ input[s].mode = "experimental" /\ "write" \in Faults
          /\ \E n \in 0..Len(ses[s].steps) :
               Becomes(s, [ses[s] EXCEPT !.pc = "done", !.why = "write",
                                         !.steps = SubSeq(@, 1, n)])
       \/ "python" \in Faults /\ Error(s, "python")
    /\ UNCHANGED <<input, java, trained>>

\* Argo runs the next step; a training replaces the model.
RunStep(s) ==
    /\ At(s, "done")
    /\ Len(ses[s].ran) < Len(ses[s].steps)
    /\ LET step == ses[s].steps[Len(ses[s].ran) + 1]
           ext == step.stmt.ext
           now == IF ext.clause \in Users THEN trained[ext.model] ELSE [image |-> "none", by |-> Nobody]
       IN /\ Becomes(s, [ses[s] EXCEPT !.ran = Append(@, now)])
          /\ trained' = IF ext.clause = "train"
                        THEN [trained EXCEPT ![ext.model] =
                                [image |-> step.image, by |-> <<s, Len(ses[s].ran) + 1>>]]
                        ELSE trained
    /\ UNCHANGED <<input, java>>

StepFails(s) ==
    /\ At(s, "done") /\ "step" \in Faults
    /\ Len(ses[s].ran) < Len(ses[s].steps)
    /\ Go(s, "stopped")
    /\ UNCHANGED <<input, java, trained>>

Parse(s) ==
    \/ RemoveComments(s) \/ RemoveLineComments(s) \/ ParseURL(s) \/ ParseWithTiDB(s) \/ ParseFirstSQLFlowStmt(s)
    \/ Lock(s) \/ StartServer(s) \/ WaitForServer(s) \/ Dial(s) \/ ParseWithJava(s)

Compile(s) ==
    \/ AnalyzeStart(s) \/ AnalyzeStatement(s) \/ DrawGraphviz(s)
    \/ Rewrite(s) \/ ResolveSQLProgram(s) \/ GenFiller(s)
    \/ GenerateStep(s) \/ CodeGenCouler(s) \/ GenYAML(s)

Next ==
    \/ \E s \in Sessions : Parse(s) \/ Compile(s) \/ RunStep(s) \/ StepFails(s)
    \/ ServerReady \/ ServerDies

\* A goroutine that can go on does.  A parser server that listens may take
\* for ever to answer: Parse is called without a deadline.  A connection that
\* is lost is an error.  Nothing is assumed of Argo.
Runs(s) == (Parse(s) \/ Compile(s)) /\ (At(s, "rpc") => ~up)

Fairness == \A s \in Sessions : WF_vars(Runs(s))

Spec == Init /\ [][Next]_vars /\ Fairness

-----------------------------------------------------------------------------
(* Properties. *)

Final == {"error", "done", "stopped", "analyzed"}
Reading == {"start", "comments", "driver"}
Connecting == {"check", "wait", "dial"}        \* under the mutex
Parsing == Connecting \cup {"parse", "rpc"}    \* a parser of the dialect is next
Executing == {"done", "stopped"}
Compiling == Executing \cup {"resolve", "filler", "steps", "python"}

Stmts ==
    [at : Nat, ext : Tokens \cup {NoClause}, unfinished : BOOLEAN, hints : Seq(Nat),
     in : Seq(Tables), out : Seq(Tables)]
Trainings == (Sessions \cup {"none"}) \X Nat
Steps == [stmt : Stmts, by : Trainings, image : Images \cup {"default"}]

\* The types of the sessions, the Java server and the models.
TypeOK ==
    /\ DOMAIN ses = Sessions
    /\ \A s \in Sessions :
         /\ DOMAIN ses[s] = DOMAIN Fresh
         /\ ses[s].pc \in Final \cup Parsing \cup Compiling
              \cup Reading \cup {"extended", "parsed", "analyze"}
         /\ ses[s].text \in Seq(Tokens) /\ ses[s].pos \in 1..Len(ses[s].text) + 1
         /\ ses[s].open \in BOOLEAN /\ ses[s].tries \in 0..3
         /\ ses[s].all \in Seq(Stmts)
         /\ ses[s].steps \in Seq(Steps)
         /\ ses[s].ran \in Seq([image : Images \cup {"default", "absent", "none"}, by : Trainings])
         /\ Len(ses[s].ran) <= Len(ses[s].steps)
    /\ lock \in Sessions \cup {"none"}
    /\ booting \in Nat /\ up \in BOOLEAN /\ late \in Nat /\ conns \in Nat
    /\ trained \in [Models -> [image : Images \cup {"default", "absent"}, by : Trainings]]


\* Parse (sqlflow_parser.go:59) with the parsers taking turns: only a
\* program that is not well formed is a syntax error, and what comes out of
\* one that is accepted are its statements, each once, in order and with
\* its own clause.
Positions(all) == [i \in DOMAIN all |-> all[i].at]

ParsedExactly ==
    \A s \in Sessions :
        LET text == ses[s].text
            all == ses[s].all
        IN /\ ses[s].why = "syntax" => ses[s].pc = "error" /\ ~WellFormed(text)
           /\ ses[s].pc \in {"parsed", "analyzed"} =>
                /\ WellFormed(text)
                /\ Lists(Positions(all), Starts(text))
                /\ \A i \in DOMAIN all : OwnClause(text, all[i])

\* The same of the tokens before m, but for the statement that begins at b.
ParsedTo(text, all, m, b) ==
    /\ Lists(Positions(all), {i \in Starts(text) : i < m})
    /\ \A i \in 1..m - 1 : i # b => ~Misplaced(text, i)
    /\ \A i \in DOMAIN all : all[i].at # b => OwnClause(text, all[i])

\* A clause may begin at p: the statement that is open is the last one.
Opened(text, all, p) ==
    /\ p \in DOMAIN text /\ all # <<>>
    /\ text[Last(all).at].k = "select" /\ Follows(text, Last(all).at, p)
    /\ ParsedTo(text, all, p, Last(all).at)

\* None is open, and no parser of a dialect knows the token at p.
Stopped(text, all, p) ==
    /\ p \in DOMAIN text /\ text[p].k \in {"to", "show", "bad"}
    /\ \A i \in DOMAIN text : Follows(text, i, p) => text[i].k # "select"
    /\ ParsedTo(text, all, p, 0)

\* The parsers hand over to each other behind a clause, and at a token that
\* the parser of the dialect does not know.
Turns ==
    \A s \in Sessions :
        LET text == ses[s].text
            all == ses[s].all
            p == ses[s].pos
        IN /\ ses[s].pc \in Reading => all = <<>> /\ p = 1
           /\ ses[s].pc \in Parsing =>
                ParsedTo(text, all, p, 0) /\ (p = 1 \/ text[p - 1].k \in {"to", "show"})
           /\ ses[s].pc = "extended" =>
                IF ses[s].open THEN Opened(text, all, p) ELSE Stopped(text, all, p)
           /\ ses[s].pc \in {"parsed", "analyze", "analyzed"} =>
                ParsedTo(text, all, Len(text) + 1, 0)

\* CompileToYAML (workflow.go:33): a compiled workflow has one step for each
\* statement of the program that is no hint, in the order of the program,
\* and a step of standard SQL begins with all the hints of the program.  A
\* disk that fails under the experimental compiler may cut steps off.
Hints(dialect, text) == {i \in Starts(text) : dialect = "alisa" /\ text[i].k = "set"}

StepsAreProgram ==
    \A s \in Sessions :
        LET starts == Starts(ses[s].text)
            hints == Hints(input[s].dialect, ses[s].text)
            steps == ses[s].steps
        IN ses[s].pc \in Executing /\ ses[s].why # "write" =>
             /\ Lists([i \in DOMAIN steps |-> steps[i].stmt.at], starts \ hints)
             /\ \A i \in DOMAIN steps :
                  steps[i].stmt.ext = NoClause => Lists(steps[i].stmt.hints, hints)

\* Once the hints are moved the statements stay, and the steps follow them.
Stepwise ==
    \A s \in Sessions :
        LET r == ses[s]
            hints == Hints(input[s].dialect, r.text)
        IN /\ \A i \in DOMAIN r.all : r.all[i].ext \in Range(r.text) \cup {NoClause}
           /\ r.pc \in Compiling =>
                /\ Lists(Positions(r.all), Starts(r.text) \ hints)
                /\ \A i \in DOMAIN r.all : r.all[i].ext = NoClause => Lists(r.all[i].hints, hints)
                /\ Len(r.steps) <= Len(r.all)
                /\ \A i \in DOMAIN r.steps : r.steps[i].stmt = r.all[i]
           /\ r.pc \in Executing \cup {"python"} /\ r.why # "write" => Len(r.steps) = Len(r.all)
           /\ r.pc = "filler" => input[s].mode # "experimental"
           /\ r.pc \notin Compiling \cup {"error"} => r.steps = <<>>
           /\ r.pc \notin Executing => r.ran = <<>>

\* findModelGenerationTrainStmt (codegen_step.go:144): a step that uses a
\* model runs in the image that trained the model it finds: when it is the
\* one that was there at compile time, and when the program itself was the
\* last to train it, however often that was.  Only when another session has
\* trained it in between may the image be another one.
ImageFits ==
    \A s \in Sessions : \A i \in DOMAIN ses[s].ran :
        LET step == ses[s].steps[i]
            now == ses[s].ran[i]
        IN input[s].mode = "experimental" /\ step.stmt.ext.clause \in Users
             /\ (now.by = step.by \/ now.by[1] = s) => step.image = now.image

\* A training, as it is noted beside a model, is a step that was run.
RanAs(by, image) ==
    /\ by[1] \in Sessions /\ by[2] \in DOMAIN ses[by[1]].ran
    /\ ses[by[1]].steps[by[2]].image = image

Trains(s, i, m) ==
    ses[s].steps[i].stmt.ext.clause = "train" /\ ses[s].steps[i].stmt.ext.model = m

\* A model was there before, or is of the last step of a session that
\* trained it.
TrainedLast ==
    \A m \in Models :
        LET by == trained[m].by
        IN \/ by = Nobody /\ trained[m].image = Stored[m]
           \/ /\ RanAs(by, trained[m].image) /\ Trains(by[1], by[2], m)
              /\ \A i \in by[2] + 1..Len(ses[by[1]].ran) : ~Trains(by[1], i, m)

\* What the experimental compiler knew of the model of a step.
ImageKnown ==
    \A s \in Sessions : \A i \in DOMAIN ses[s].steps :
        LET step == ses[s].steps[i]
            ext == step.stmt.ext
            all == ses[s].all
        IN /\ ext.clause = "train" => step.image = ext.image
           /\ ext.clause \in Users /\ input[s].mode = "experimental" =>
                IF Trainers(all, i) # {}
                THEN LET j == Max(Trainers(all, i))
                     IN step.by = <<s, j>> /\ step.image = all[j].ext.image
                ELSE \/ step.by = Nobody /\ step.image = Stored[ext.model]
                     \/ RanAs(step.by, step.image)

\* A workflow does what the program says, in the images of its models.
WorkflowIsProgram ==
    /\ TypeOK /\ ParsedExactly /\ StepsAreProgram /\ ImageFits
    /\ Turns /\ Stepwise /\ TrainedLast /\ ImageKnown

-----------------------------------------------------------------------------
Nodes == Tables \X Nat

Edge(graph, i, j) == Range(graph[i].out) \cap Range(graph[j].in) # {}

\* The i-th and the j-th statement, i < j, must keep their order.
RawOrWaw(all, i, j) ==
    Range(all[i].out) \cap (Range(all[j].in) \cup Range(all[j].out)) # {}

Touches(all, k, t) == t \in Range(all[k].in) \cup Range(all[k].out)

\* Edges go forward, and a node comes from one statement.
Forward(graph) ==
    \A i, j \in DOMAIN graph :
        /\ Edge(graph, i, j) => i < j
        /\ i # j => Range(graph[i].out) \cap Range(graph[j].out) = {}

\* A statement follows every earlier one that writes what it reads or writes,
\* by an edge or by two.
InSequence(graph, all) ==
    \A j \in DOMAIN graph : \A i \in 1..j - 1 :
        RawOrWaw(all, i, j) =>
            \/ Edge(graph, i, j)
            \/ \E k \in DOMAIN graph : Edge(graph, i, k) /\ Edge(graph, k, j)

\* Analyze (sql_program_deps_graph.go:59) orders a program by the names of
\* its tables, read after write and write after write.  Write after read is
\* not claimed: the design asks that a writer follows all the readers before
\* it, and the code links it with one of them (:172).
GraphOrdered ==
    \A s \in Sessions :
        ses[s].pc = "analyzed" /\ Len(ses[s].all) > 1 =>
            /\ Len(ses[s].graph) = Len(ses[s].all)
            /\ Forward(ses[s].graph) /\ InSequence(ses[s].graph, ses[s].all)

\* The nodes of a table are numbered, and these are all there are.
Numbered(graph, nodes) ==
    /\ nodes \in [Tables -> Seq(Nodes)]
    /\ \A t \in Tables : \A k \in DOMAIN nodes[t] : nodes[t][k] = <<t, k - 1>>
    /\ \A i \in DOMAIN graph :
         /\ graph[i].in \in Seq(Nodes) /\ graph[i].out \in Seq(Nodes)
         /\ \A x \in Range(graph[i].in) \cup Range(graph[i].out) : x[2] < Len(nodes[x[1]])

\* A statement has nodes of the tables it touches and of no other, and the
\* newest node of a table comes from the last statement that writes it.
Connected(graph, nodes, all) ==
    /\ \A i \in DOMAIN graph : \A t \in Tables :
         /\ t \in Range(all[i].in) => ContainsTable(graph[i].in, t)
         /\ t \in Range(all[i].out) => ContainsTable(graph[i].out, t)
         /\ ContainsTable(graph[i].in, t) \/ ContainsTable(graph[i].out, t) => Touches(all, i, t)
    /\ \A w \in DOMAIN graph : \A t \in Range(all[w].out) :
         (\A k \in w + 1..Len(graph) : t \notin Range(all[k].out)) =>
             nodes[t] # <<>> /\ Last(nodes[t]) \in Range(graph[w].out)

\* Writers of one table are ordered by an edge each.
WritersLinked(graph, all) ==
    \A j \in DOMAIN graph : \A i \in 1..j - 1 :
        Range(all[i].out) \cap Range(all[j].out) # {} => Edge(graph, i, j)

GraphProgress ==
    \A s \in Sessions :
        LET r == ses[s]
        IN /\ r.pc \in {"analyze", "analyzed"} /\ Len(r.all) > 1 =>
                /\ Len(r.graph) <= Len(r.all)
                /\ Numbered(r.graph, r.nodes) /\ Connected(r.graph, r.nodes, r.all)
                /\ Forward(r.graph) /\ WritersLinked(r.graph, r.all) /\ InSequence(r.graph, r.all)
           /\ r.pc \notin {"analyze", "analyzed", "error"} =>
                r.graph = <<>> /\ r.nodes = [t \in Tables |-> <<>>]

GraphInv == GraphOrdered /\ GraphProgress

\* startServerIfNotUp (java_parser_server.go:62): a Java process that does
\* not listen yet is the one somebody waits for, or one that was given up.
ServersBounded ==
    booting <= late + (IF lock # "none" THEN 1 ELSE 0)

\* The mutex is held by the session that connects, and given back on every
\* way out, the failed ones included.
MutexHeld == \A s \in Sessions : ses[s].pc \in Connecting <=> lock = s

\* A process that is not among those given up has been started by a session
\* that still waits, and none has answered since.
StartAwaited ==
    booting <= late + (IF \E s \in Sessions : ses[s].pc = "wait" /\ ~up THEN 1 ELSE 0)

\* The sessions share one Java server and start it one at a time.
ParserServerInv == ServersBounded /\ MutexHeld /\ StartAwaited

\* Every compilation ends, or it waits for the answer of a parser server
\* that listens and does not give it (java_parser.go:38 has no deadline);
\* one session that waits so keeps no other from its end.
CompileEnds ==
    \A s \in Sessions :
        <>(ses[s].pc \in Final) \/ <>[](ses[s].pc = "rpc" /\ up)

=============================================================================
