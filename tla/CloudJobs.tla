----------------------------- MODULE CloudJobs ------------------------------
(***************************************************************************)
(* The executors that submit a statement to MaxCompute: PAI, PAI local,    *)
(* Alisa and ALPS (go/executor/{pai,pai_local,alisa,alps}.go) with the     *)
(* code generators they call (go/codegen/pai).  Several sessions of one    *)
(* server process run one statement each.  They share the project's        *)
(* tables, the models on OSS, and two things of the process: its working   *)
(* directory and its environment variables.                                *)
(*                                                                         *)
(* A statement is a sequence of phases in the order of the code; any phase *)
(* may fail, which ends the statement, and then the deferred calls run.    *)
(* What is reported as failed may have been executed all the same.  A job  *)
(* is what the cluster, or a local Python program, does meanwhile: the     *)
(* programs of python/runtime, and PAI's own algorithms, which are         *)
(* external.                                                               *)
(***************************************************************************)
EXTENDS Naturals, Sequences, FiniteSets, SequencesExt

CONSTANTS
    Sessions,   \* the sessions of the process
    Workloads,  \* the statements they run: functions from Sessions
    Models,     \* paths of models on OSS (they contain the user)
    Stored,     \* [model -> the estimator of the one on OSS, or none]
    Faults      \* the phases that may fail

Kinds == {"train", "predict", "explain", "evaluate", "optimize", "run", "idle"}
Submitters == {"pai", "local", "alisa", "alps"}
Estimators == {"DNN", "BoostedTrees", "xgboost", "kmeans", "randomforests"}
Names == {"r1", "r2"}

\* into: the result table, for kmeans the one of idx_table_name; label: the
\* attribute that names the label column; fscore: USING XGBoostExplainer.
Statements ==
    [kind : Kinds, sub : Submitters, est : Estimators,
     model : Models, load : Models \cup {"none"},
     into : Names \cup {"none"}, qualified : BOOLEAN, sameDb : BOOLEAN,
     valid : BOOLEAN, vars : {1, 3}, config : {"ok", "workers", "bad"},
     label : BOOLEAN, fscore : BOOLEAN, user : {"u1", "u2"}]

Phases ==
    {"tmp", "valid", "concat", "open", "cleanSub", "cleanTop", "offline",
     "result", "drop result", "drop old", "create new", "type", "read", "xgb",
     "hyper", "codegen", "archive", "upload", "params", "env", "submit", "download", "save",
     "draw", "unsupported", "code object", "params object", "drop"}

ASSUME JobsAssumption ==
    /\ Workloads \subseteq [Sessions -> Statements]
    /\ Stored \in [Models -> Estimators \cup {"none"}]
    /\ Faults \subseteq Phases
    /\ "none" \notin Models
    /\ \A w \in Workloads : \A s \in Sessions :
         w[s].kind \in {"predict", "optimize"} => w[s].into # "none"

VARIABLES
    stmt,    \* [session -> its statement]
    ses,     \* [session -> where it is], see Fresh
    tables,  \* the temporary tables of the project
    results, \* [name of a table -> absent, old, empty or its writer]
    oss,     \* [model -> [object -> who wrote it]]
    offline, \* [model -> who trained it], the models kept by PAI itself
    objects, \* what is in the Alisa bucket
    figures, \* [key -> who wrote it], explain_images on OSS
    file,    \* tmp_estimator_name, in the directory of the process
    env,     \* the environment variables of the process
    archive, \* [model -> what sqlfs holds]
    now      \* the second of the clock

store == <<tables, results, oss, offline, objects, figures>>
process == <<file, env>>
vars == <<stmt, ses, store, process, archive, now>>

None == [by |-> "none", est |-> "none"]

\* The objects in the directory of a model: the subdirectory model_save with
\* exported_path; my_model; tensorflow_model_desc; the same with _estimator;
\* xgboost_model_desc.
Objects == {"model_save", "my_model", "tf", "tf_estimator", "xgb"}
EnvKeys == {"select", "into"}
Seconds == 0..1

TypeOf(est) ==
    CASE est \in {"DNN", "BoostedTrees"} -> "TENSORFLOW"
      [] est = "xgboost" -> "XGBOOST"
      [] OTHER -> "PAIML"

\* The objects a finished training of the estimator leaves in its directory.
SavedObjects(est) ==
    CASE TypeOf(est) = "TENSORFLOW" -> {"model_save", "tf", "tf_estimator"}
      [] TypeOf(est) = "XGBOOST" -> {"my_model", "xgb"}
      [] OTHER -> {}

\* The one of them that holds what was learned.
Content(type) == IF type = "TENSORFLOW" THEN "model_save" ELSE "my_model"

-----------------------------------------------------------------------------
(* The phases of a statement. *)

\* Mutant: the directory is emptied even when the model in it is continued.
CleansAlways(st) == TRUE

\* Training into a model empties its directory, unless it is the one that
\* the training continues; Alisa always does.
CleansDir(st) == st.sub = "alisa" \/ st.load # st.model

\* achieveResource and odpscmd, the upload for Alisa, or a local program.
SubmitPhases(st) ==
    CASE st.sub = "pai" -> <<"archive", "submit">>
      [] st.sub = "alisa" -> <<"archive", "upload", "params", "submit">>
      [] OTHER -> <<"submit">>

If(cond, phases) == IF cond THEN phases ELSE <<>>

TrainPlan(st) ==
    <<"tmp">> \o If(st.valid, <<"valid">>)
    \o If(st.sub # "alps",
          <<"open">> \o If(CleansDir(st), <<"cleanSub", "cleanTop">>)
          \o If(st.sub = "alisa", <<"offline">>) \o <<"hyper">>)
    \o <<"codegen">> \o SubmitPhases(st)
    \o If(st.sub \in {"pai", "local"}, <<"download", "save">>)

PredictPlan(st) ==
    <<"tmp", "result", "open", "type", "hyper", "codegen">> \o SubmitPhases(st)

\* The result table of an explanation depends on the model's type.
ExplainPlan(st) ==
    <<"tmp", "open", "type", "result", "hyper", "codegen">> \o SubmitPhases(st)
    \o If(st.sub # "local", <<"draw">>)

EvaluatePlan(st) ==
    <<"tmp", "open", "type", "result", "hyper", "codegen">> \o SubmitPhases(st)

\* executeOptimizeUsingOptFlow; the others inherit pythonExecutor's, which
\* makes no temporary table.
OptFlow(st) == st.sub \in {"pai", "alisa"}

OptimizePlan(st) ==
    IF OptFlow(st)
    THEN <<"tmp">> \o If(st.vars > 2, <<"concat">>)
         \o <<"open", "drop result", "codegen", "submit">>
    ELSE <<"open", "drop old", "create new", "codegen", "submit">>

RunPlan(st) ==
    CASE st.sub = "pai" -> <<"unsupported">>
      [] st.sub = "alisa" -> <<"open", "submit">>
      [] OTHER -> <<"env", "env", "submit">>

Plan(st) ==
    CASE st.kind = "idle" -> <<>>
      [] st.kind = "train" -> TrainPlan(st)
      [] st.kind = "run" -> RunPlan(st)
      [] st.kind = "predict" /\ st.sub # "alps" -> PredictPlan(st)
      [] st.kind = "explain" /\ st.sub # "alps" -> ExplainPlan(st)
      [] st.kind = "evaluate" /\ st.sub # "alps" -> EvaluatePlan(st)
      [] st.kind = "optimize" -> OptimizePlan(st)
      [] OTHER -> <<"unsupported">>

(***************************************************************************)
(* A session before its first phase.  todo: the phases left; defer: the    *)
(* deferred calls, last one first; names: the temporary tables noted in    *)
(* the statement, which the deferred call drops; top: objects listed for   *)
(* deletion; type, est: what was read of the model; cmd: the generated     *)
(* command; job: what the cluster does for it; loaded: the model the job   *)
(* found; key: where its figure goes; shown: the figure drawn; set: the    *)
(* variables set; ctx: the variables a TO RUN program got; bad: the phases *)
(* that have failed.                                                       *)
(***************************************************************************)
Fresh(st) ==
    [todo |-> Plan(st), defer |-> <<>>, names |-> <<>>,
     top |-> {}, type |-> "none", est |-> "none", cmd |-> "none",
     job |-> "none", loaded |-> "none", key |-> <<>>, shown |-> "none",
     set |-> {}, ctx |-> [k \in EnvKeys |-> "none"], bad |-> {},
     res |-> IF st.kind = "idle" THEN "ok" ELSE "running"]

\* What is on OSS and in PAI before the statements.
StoredObject(m, o) ==
    IF Stored[m] # "none" /\ o \in SavedObjects(Stored[m])
    THEN [by |-> "before", est |-> Stored[m]] ELSE None

StoredOffline(m) ==
    IF Stored[m] # "none" /\ TypeOf(Stored[m]) = "PAIML" THEN "before" ELSE "none"

Init ==
    /\ stmt \in Workloads
    /\ ses = [s \in Sessions |-> Fresh(stmt[s])]
    /\ tables = {}
    /\ results = [t \in Names |-> "old"]
    /\ oss = [m \in Models |-> [o \in Objects |-> StoredObject(m, o)]]
    /\ offline = [m \in Models |-> StoredOffline(m)]
    /\ objects = {}
    /\ figures = [k \in {"u1", "u2"} \X Seconds |-> "none"]
    /\ file = "none"
    /\ env = [k \in EnvKeys |-> "none"]
    /\ archive = [m \in Models |-> "old"]
    /\ now = 0

-----------------------------------------------------------------------------
(* How a session moves. *)

At(s, phase) == ses[s].todo # <<>> /\ Head(ses[s].todo) = phase

\* The session as a record r, one phase further.
Go(s, r) == ses' = [ses EXCEPT ![s] = [r EXCEPT !.todo = Tail(@)]]

On(s) == Go(s, ses[s])

\* An error: the deferred calls are what is left.
FailedIn(r) ==
    [r EXCEPT !.todo = r.defer, !.defer = <<>>, !.bad = @ \cup {Head(r.todo)}]

Refuse(s) == ses' = [ses EXCEPT ![s] = FailedIn(ses[s])]

Fail(s) == Head(ses[s].todo) \in Faults /\ Refuse(s)

\* createTmpTableFromSelect; the n-th temporary table of the session.
Tmp(s, n) == <<s, n>>

\* The name is noted in the statement, and its deferred DROP is registered.
Noted(r, names) ==
    [r EXCEPT !.names = names, !.defer = <<"drop">> \o @]

CreateTmp(s) ==
    /\ At(s, "tmp")
    /\ \/ /\ tables' = tables \cup {Tmp(s, 1)}
          /\ Go(s, IF ses[s].todo[2] \in {"valid", "concat"} THEN ses[s]
                   ELSE Noted(ses[s], <<Tmp(s, 1)>>))
       \/ Fail(s) /\ tables' \in {tables, tables \cup {Tmp(s, 1)}}
    /\ UNCHANGED <<stmt, results, oss, offline, objects, figures, process, archive, now>>

\* createTempTrainAndValTable returns no names when the second statement
\* fails, and the deferred DROP has none.
CreateValid(s) ==
    /\ At(s, "valid")
    /\ \/ /\ tables' = tables \cup {Tmp(s, 2)}
          /\ Go(s, Noted(ses[s], <<Tmp(s, 1), Tmp(s, 2)>>))
       \/ Fail(s) /\ tables' \in {tables, tables \cup {Tmp(s, 2)}}
    /\ UNCHANGED <<stmt, results, oss, offline, objects, figures, process, archive, now>>

\* Mutant: the first table is only dropped when the second was created.
ConcatKeeps(s) ==
    /\ At(s, "concat")
    /\ \/ /\ tables' = (tables \cup {Tmp(s, 2)}) \ {Tmp(s, 1)}
          /\ Go(s, Noted(ses[s], <<Tmp(s, 2)>>))
       \/ Fail(s) /\ tables' \in {tables, tables \cup {Tmp(s, 2)}}
    /\ UNCHANGED <<stmt, results, oss, offline, objects, figures, process, archive, now>>

\* More than two variables: a second table is made from the first, which is
\* dropped whatever happens; nobody sees the DROP fail.
Concat(s) ==
    /\ At(s, "concat")
    /\ \E failed, kept \in BOOLEAN :
         /\ failed => "drop" \in Faults
         /\ kept => failed
         /\ LET r == IF failed THEN [ses[s] EXCEPT !.bad = @ \cup {"drop"}] ELSE ses[s]
                rest == IF kept THEN tables ELSE tables \ {Tmp(s, 1)}
            IN \/ tables' = rest \cup {Tmp(s, 2)} /\ Go(s, Noted(r, <<Tmp(s, 2)>>))
               \/ /\ "concat" \in Faults
                  /\ tables' \in {rest, rest \cup {Tmp(s, 2)}}
                  /\ ses' = [ses EXCEPT ![s] = FailedIn(r)]
    /\ UNCHANGED <<stmt, results, oss, offline, objects, figures, process, archive, now>>

Try(s, phase) ==
    /\ At(s, phase)
    /\ On(s) \/ Fail(s)
    /\ UNCHANGED <<stmt, store, process, archive, now>>

\* A connection to the database or to OSS, the path of a model, or a file.
Open(s) == Try(s, "open")

\* createPAIHyperParamFile: params.txt in the directory of the session.
WriteHyperParams(s) == Try(s, "hyper")

\* achieveResource: the program and its packages, in an archive.
AchieveResource(s) == Try(s, "archive")

\* downloadOSSModel: into the directory of the process, where nothing else
\* looks for it.
DownloadModel(s) == Try(s, "download")

Unsupported(s) ==
    /\ At(s, "unsupported")
    /\ Refuse(s)
    /\ UNCHANGED <<stmt, store, process, archive, now>>

-----------------------------------------------------------------------------
(* Emptying the directory of a model: deleteDirRecursive lists it, deletes *)
(* what is below its subdirectories and then the objects of the list.      *)

Without(m, os) == [oss EXCEPT ![m] = [o \in Objects |-> IF o \in os THEN None ELSE @[o]]]

CleanSub(s) ==
    /\ At(s, "cleanSub")
    /\ LET m == stmt[s].model
           listed == {o \in Objects \ {"model_save"} : oss[m][o] # None}
       IN \/ oss' = Without(m, {"model_save"}) /\ Go(s, [ses[s] EXCEPT !.top = listed])
          \/ Fail(s) /\ oss' \in {oss, Without(m, {"model_save"})}
    /\ UNCHANGED <<stmt, tables, results, offline, objects, figures, process, archive, now>>

CleanTop(s) ==
    /\ At(s, "cleanTop")
    /\ \/ oss' = Without(stmt[s].model, ses[s].top) /\ On(s)
       \/ Fail(s) /\ \E os \in SUBSET ses[s].top : oss' = Without(stmt[s].model, os)
    /\ UNCHANGED <<stmt, tables, results, offline, objects, figures, process, archive, now>>

\* CleanupPAIModel: DROP OFFLINEMODEL IF EXISTS, for PAI's own estimators.
CleanupPAIModel(s) ==
    /\ At(s, "offline")
    /\ LET without == IF TypeOf(stmt[s].est) = "PAIML"
                      THEN [offline EXCEPT ![stmt[s].model] = "none"] ELSE offline
       IN \/ offline' = without /\ On(s)
          \/ offline' \in {offline, without} /\ Fail(s)
    /\ UNCHANGED <<stmt, tables, results, oss, objects, figures, process, archive, now>>

-----------------------------------------------------------------------------
(* getOSSSavedModelType: the type of a model, by the objects it left. *)

ReadType(s) ==
    /\ At(s, "type")
    /\ LET st == stmt[s]
           next(ps) == ses' = [ses EXCEPT ![s].todo = ps \o Tail(@)]
       IN \/ /\ oss[st.model]["tf"] # None
             /\ \/ /\ oss[st.model]["tf_estimator"] # None
                   /\ file' = oss[st.model]["tf_estimator"].est
                   /\ next(<<"read">>)
                \/ /\ oss[st.model]["tf_estimator"] = None \/ "type" \in Faults
                   /\ Refuse(s) /\ UNCHANGED file
          \/ /\ oss[st.model]["tf"] = None
             /\ next(<<"xgb">>) \/ Fail(s)
             /\ UNCHANGED file
    /\ UNCHANGED <<stmt, store, env, archive, now>>

\* The estimator's name is read back from tmp_estimator_name, a file in the
\* directory of the process.
ReadEstimator(s) ==
    /\ At(s, "read")
    /\ Go(s, [ses[s] EXCEPT !.type = "TENSORFLOW", !.est = file]) \/ Fail(s)
    /\ UNCHANGED <<stmt, store, process, archive, now>>

\* Neither description is there: it must be a model of PAI.
AskXgboost(s) ==
    /\ At(s, "xgb")
    /\ \/ Go(s, [ses[s] EXCEPT !.type =
                   IF oss[stmt[s].model]["xgb"] # None THEN "XGBOOST" ELSE "PAIML"])
       \/ Fail(s)
    /\ UNCHANGED <<stmt, store, process, archive, now>>

-----------------------------------------------------------------------------
(* Result tables. *)

\* Is a result table created before the job, or is that left to PAI?
NeedsResult(st, type) ==
    CASE st.kind = "explain" -> st.into # "none" /\ (st.sub = "alisa" \/ type # "PAIML")
      [] st.kind = "evaluate" -> st.sub = "alisa" \/ (st.into # "none" /\ type # "PAIML")
      [] OTHER -> TRUE

\* What createExplainResultTable refuses after it has dropped the table.
CannotCreate(st, type, est) ==
    \/ st.into = "none"
    \/ /\ st.kind = "explain" /\ ~st.fscore
       /\ \/ type = "PAIML"
          \/ ~st.label /\ ~(type = "TENSORFLOW" /\ est = "BoostedTrees")

\* DROP TABLE IF EXISTS, then CREATE TABLE.
ResultTable(s) ==
    /\ At(s, "result")
    /\ LET st == stmt[s]
           set(c) == results' = IF st.into = "none" THEN results
                                ELSE [results EXCEPT ![st.into] = c]
       IN \/ /\ ~NeedsResult(st, ses[s].type)
             /\ On(s) /\ UNCHANGED results
          \/ /\ NeedsResult(st, ses[s].type)
             /\ ~CannotCreate(st, ses[s].type, ses[s].est)
             /\ set("empty") /\ On(s)
          \/ /\ NeedsResult(st, ses[s].type)
             /\ \/ CannotCreate(st, ses[s].type, ses[s].est) /\ set("absent") /\ Refuse(s)
                \/ (set("absent") \/ set("empty") \/ UNCHANGED results) /\ Fail(s)
    /\ UNCHANGED <<stmt, tables, oss, offline, objects, figures, process, archive, now>>

\* executeOptimizeUsingOptFlow drops the result table, which must be in the
\* database of the source; the program will create it.
DropResult(s) ==
    /\ At(s, "drop result")
    /\ \/ ~stmt[s].sameDb /\ Refuse(s) /\ UNCHANGED results
       \/ /\ stmt[s].sameDb
          /\ LET without == [results EXCEPT ![stmt[s].into] = "absent"]
             IN \/ results' = without /\ On(s)
                \/ results' \in {results, without} /\ Fail(s)
    /\ UNCHANGED <<stmt, tables, oss, offline, objects, figures, process, archive, now>>

\* pythonExecutor.ExecuteOptimize: DROP TABLE, which nobody sees fail, and
\* CREATE TABLE, which wants no such table.
DropOld(s) ==
    /\ At(s, "drop old")
    /\ On(s)
    /\ \/ results' = [results EXCEPT ![stmt[s].into] = "absent"]
       \/ "drop old" \in Faults /\ UNCHANGED results
    /\ UNCHANGED <<stmt, tables, oss, offline, objects, figures, process, archive, now>>

CreateNew(s) ==
    /\ At(s, "create new")
    /\ LET Create == /\ results[stmt[s].into] = "absent"
                     /\ results' = [results EXCEPT ![stmt[s].into] = "empty"]
       IN \/ Create /\ On(s)
          \/ results[stmt[s].into] # "absent" /\ Refuse(s) /\ UNCHANGED results
          \/ (Create \/ UNCHANGED results) /\ Fail(s)
    /\ UNCHANGED <<stmt, tables, oss, offline, objects, figures, process, archive, now>>

-----------------------------------------------------------------------------
(* Code generation: pai.Train, Predict, Explain, Evaluate. *)

\* GetClusterConfig, GetClusterConfig4Pred.
BadCluster(st) == st.config = "bad"

\* maxComputeTableURL wants db.table: PAI completes the name, Alisa does not.
\* The name is looked at after the configuration.
BadURL(st, type) ==
    /\ st.kind \in {"predict", "explain", "evaluate"}
    /\ type # "PAIML" /\ ~BadCluster(st)
    /\ st.into # "none" /\ ~st.qualified /\ st.sub = "alisa"

\* Several TensorFlow workers need validation data, and kmeans a table.
TrainRefused(st, type) ==
    \/ BadCluster(st)
    \/ type = "TENSORFLOW" /\ st.config = "workers" /\ ~st.valid
    \/ st.est = "kmeans" /\ st.into = "none"

ExplainRefused(st, type) ==
    BadCluster(st) \/ (type = "PAIML" /\ (st.into = "none" \/ ~st.label))

EvaluateRefused(st, type) == BadCluster(st) \/ type = "PAIML"

\* The statements the code generators refuse.
Refuses(st, type) ==
    \/ BadURL(st, type)
    \/ st.kind = "train" /\ TrainRefused(st, type)
    \/ st.kind = "explain" /\ ExplainRefused(st, type)
    \/ st.kind = "evaluate" /\ EvaluateRefused(st, type)

(***************************************************************************)
(* What has been generated: a command and a program that do the work, or   *)
(* something empty.  PAI's own algorithms have a command and no program,   *)
(* so nothing runs locally; the error of a bad configuration is lost by    *)
(* Predict, which then returns what it has: for XGBoost the program, but   *)
(* no command.  Alisa's is submitted all the same.                         *)
(***************************************************************************)
Generated(st, type) ==
    CASE st.sub = "local" /\ type = "PAIML" -> "empty"
      [] st.kind = "predict" /\ type # "PAIML" /\ BadCluster(st) ->
           IF st.sub = "local" /\ type = "XGBOOST" THEN "full" ELSE "empty"
      [] OTHER -> "full"

\* The tables that code generation drops: PAI will create them.  For the
\* index table of kmeans the error is looked at.
DropsInto(st, type) ==
    /\ type = "PAIML" /\ st.into # "none"
    /\ st.kind \in {"predict", "explain"} \/ (st.kind = "train" /\ st.est = "kmeans")

\* An explanation without the label column is refused after the DROP.
DropsFirst(st, type) == DropsInto(st, type) /\ st.kind = "explain" /\ ~BadCluster(st)

\* newExplainRender: where the figure of an explanation goes.
FigureKey(st) == <<st.user, now>>

Codegen(s) ==
    /\ At(s, "codegen")
    /\ LET st == stmt[s]
           cloud == st.sub # "alps" /\ st.kind # "optimize"
           type == IF st.kind = "train" THEN TypeOf(st.est) ELSE ses[s].type
           dropped == IF cloud /\ DropsInto(st, type)
                      THEN [results EXCEPT ![st.into] = "absent"] ELSE results
       IN \/ /\ ~(cloud /\ Refuses(st, type))
             /\ \/ results' = dropped
                \/ st.kind # "train" /\ "codegen" \in Faults /\ UNCHANGED results
             /\ Go(s, [ses[s] EXCEPT !.cmd = IF cloud THEN Generated(st, type) ELSE "full",
                                     !.key = FigureKey(st)])
          \/ /\ cloud /\ Refuses(st, type)
             /\ \/ results' = IF DropsFirst(st, type) THEN dropped ELSE results
                \/ "codegen" \in Faults /\ UNCHANGED results
             /\ Refuse(s)
          \/ Fail(s) /\ results' \in {results, dropped}
    /\ UNCHANGED <<stmt, tables, oss, offline, objects, figures, process, archive, now>>

-----------------------------------------------------------------------------
(* Submission. *)

\* tarAndUploadResource: the code, deleted by a deferred call.
UploadCode(s) ==
    /\ At(s, "upload")
    /\ \/ /\ objects' = objects \cup {<<s, "code">>}
          /\ Go(s, [ses[s] EXCEPT !.defer = <<"code object">> \o @])
       \/ Fail(s) /\ objects' \in {objects, objects \cup {<<s, "code">>}}
    /\ UNCHANGED <<stmt, tables, results, oss, offline, figures, process, archive, now>>

\* The upload of params.txt: its error is not looked at.
UploadParams(s) ==
    /\ At(s, "params")
    /\ Go(s, [ses[s] EXCEPT !.defer = <<"params object">> \o @])
    /\ \/ objects' = objects \cup {<<s, "params">>}
       \/ "params" \in Faults /\ UNCHANGED objects
    /\ UNCHANGED <<stmt, tables, results, oss, offline, figures, process, archive, now>>

\* os.Setenv, one variable of a TO RUN statement, in the order of a Go map.
SetEnv(s) ==
    /\ At(s, "env")
    /\ \E k \in EnvKeys \ ses[s].set :
         /\ env' = [env EXCEPT ![k] = s]
         /\ Go(s, [ses[s] EXCEPT !.set = @ \cup {k}])
    /\ UNCHANGED <<stmt, store, file, archive, now>>

\* The statements that use a trained model.
Using == {"predict", "explain", "evaluate"}

\* ALPS does not continue a model, nor do PAI's own algorithms.
Continues(st) == st.load # "none" /\ st.sub # "alps" /\ TypeOf(st.est) # "PAIML"

\* The models that have an object.
Having(o) == {m \in Models : oss[m][o] # None}

\* The model that the job looks for.  Alisa passes the name of the model to
\* continue, not its path, and nothing is there.
ModelFound(s) ==
    LET st == stmt[s]
    IN CASE st.kind = "train" /\ Continues(st) ->
              st.sub # "alisa" /\ st.load \in Having(Content(TypeOf(st.est)))
         [] st.kind \in Using -> st.model \in
              CASE ses[s].type = "PAIML" -> {m \in Models : offline[m] # "none"}
                [] ses[s].type = "XGBOOST" -> Having("xgb") \cap Having("my_model")
                [] OTHER -> Having("tf") \cap Having("model_save")
         [] OTHER -> TRUE

\* oss.load_file, load_oss_model: whose model the job continues or uses.
Loaded(s) ==
    LET st == stmt[s]
    IN CASE st.kind = "train" /\ Continues(st) -> oss[st.load][Content(TypeOf(st.est))].by
         [] st.kind \in Using /\ ses[s].type = "PAIML" -> offline[st.model]
         [] st.kind \in Using -> oss[st.model][Content(ses[s].type)].by
         [] OTHER -> "none"

\* explain with XGBoostExplainer: scores in a table, and no figure.
Scores(s) == stmt[s].kind = "explain" /\ stmt[s].fscore /\ ses[s].type = "XGBOOST"

JobCanRun(s) == ModelFound(s) /\ ~(Scores(s) /\ stmt[s].into = "none")

\* The program or the job starts, with the environment of the process.
JobStart(s) ==
    /\ At(s, "submit")
    /\ ses[s].job = "none"
    /\ ses' = [ses EXCEPT ![s].job = IF ses[s].cmd = "empty" THEN "idle"
                                     ELSE IF JobCanRun(s) THEN "running" ELSE "failing",
                          ![s].loaded = IF ModelFound(s) THEN Loaded(s) ELSE "none",
                          ![s].ctx = env]
    /\ UNCHANGED <<stmt, store, process, archive, now>>

Wrote(s) == [by |-> s, est |-> stmt[s].est]

\* The trainings that save a model on OSS, object by object.
SavesModel(st) == st.kind = "train" /\ st.sub # "alps" /\ TypeOf(st.est) # "PAIML"

Put(s, o) == oss' = [oss EXCEPT ![stmt[s].model][o] = Wrote(s)]

\* save_oss_model and save_model: what was learned first.
JobSaves(s) ==
    /\ At(s, "submit")
    /\ ses[s].job = "running"
    /\ SavesModel(stmt[s])
    /\ Put(s, Content(TypeOf(stmt[s].est)))
    /\ ses' = [ses EXCEPT ![s].job = "saving"]
    /\ UNCHANGED <<stmt, tables, results, offline, objects, figures, process, archive, now>>

\* save_metas: the description, and after it the name of the estimator.
JobDescribes(s) ==
    /\ At(s, "submit")
    /\ ses[s].job = "saving"
    /\ TypeOf(stmt[s].est) = "TENSORFLOW"
    /\ Put(s, "tf")
    /\ ses' = [ses EXCEPT ![s].job = "describing"]
    /\ UNCHANGED <<stmt, tables, results, offline, objects, figures, process, archive, now>>

\* What is left to do for a job that ends.
LastState(st) ==
    CASE ~SavesModel(st) -> "running"
      [] TypeOf(st.est) = "TENSORFLOW" -> "describing"
      [] OTHER -> "saving"

\* The statements whose job fills their result table.
Produces(st) ==
    /\ st.into # "none"
    /\ \/ st.kind \in {"predict", "explain", "evaluate", "optimize"}
       \/ st.kind = "train" /\ st.est = "kmeans" /\ st.sub # "alps"

\* What a job does at its end.
JobEffect(s) ==
    LET st == stmt[s]
    IN /\ IF SavesModel(st)
          THEN Put(s, IF TypeOf(st.est) = "TENSORFLOW" THEN "tf_estimator" ELSE "xgb")
          ELSE UNCHANGED oss
       /\ offline' = IF st.kind = "train" /\ st.sub # "alps" /\ TypeOf(st.est) = "PAIML"
                     THEN [offline EXCEPT ![st.model] = s] ELSE offline
       /\ results' = IF Produces(st) THEN [results EXCEPT ![st.into] = s] ELSE results
       /\ figures' = IF st.kind = "explain" /\ ses[s].type # "PAIML" /\ ~Scores(s)
                     THEN [figures EXCEPT ![ses[s].key] = s] ELSE figures

\* The job has ended well, and so has the call that submitted it.
JobEnd(s) ==
    /\ At(s, "submit")
    /\ \/ ses[s].job = LastState(stmt[s]) /\ JobEffect(s)
       \/ ses[s].job = "idle" /\ UNCHANGED <<oss, offline, results, figures>>
    /\ Go(s, [ses[s] EXCEPT !.job = "done"])
    /\ UNCHANGED <<stmt, tables, objects, process, archive, now>>

\* A job that is not over.
Going == {"idle", "running", "saving", "describing"}

\* Mutant: the exit status of odpscmd is not looked at.
JobFailsUnseen(s) ==
    /\ At(s, "submit")
    /\ ses[s].job \in Going \cup {"failing"}
    /\ Go(s, [ses[s] EXCEPT !.job = "failed"])
    /\ UNCHANGED <<stmt, store, process, archive, now>>

\* The job fails, at any time, or is said to have failed; one without its
\* model fails for sure.
JobFails(s) ==
    /\ At(s, "submit")
    /\ \/ ses[s].job = "failing"
       \/ ses[s].job \in Going /\ "submit" \in Faults
    /\ \/ ses[s].job = LastState(stmt[s]) /\ JobEffect(s)
       \/ UNCHANGED <<oss, offline, results, figures>>
    /\ ses' = [ses EXCEPT ![s] = [FailedIn(ses[s]) EXCEPT !.job = "failed"]]
    /\ UNCHANGED <<stmt, tables, objects, process, archive, now>>

\* model.Save packs the directory of the session.  The trained model is in
\* it when the program ran there; it was downloaded into the directory of
\* the process otherwise.
SaveModel(s) ==
    /\ At(s, "save")
    /\ \E m \in {stmt[s].model} :
         \/ /\ archive' = [archive EXCEPT ![m] =
                 IF stmt[s].sub = "local" THEN "model" ELSE "without model"]
            /\ On(s)
         \/ (archive' = [archive EXCEPT ![m] = "partial"] \/ UNCHANGED archive) /\ Fail(s)
    /\ UNCHANGED <<stmt, store, process, now>>

\* ExplainRender.Draw: its errors are ignored.
Draw(s) ==
    /\ At(s, "draw")
    /\ \/ Go(s, [ses[s] EXCEPT !.shown = figures[ses[s].key]])
       \/ "draw" \in Faults /\ On(s)
    /\ UNCHANGED <<stmt, store, process, archive, now>>

-----------------------------------------------------------------------------
(* Deferred calls. *)

\* alisaBucket.DeleteObject and DROP TABLE: nobody sees their errors.
Ignored == {"code object", "params object", "drop"}

\* The statement is over: what is left are the deferred calls.
Return(s) ==
    LET r == ses[s]
    IN /\ r.todo = <<>> /\ r.res = "running"
       /\ ses' = [ses EXCEPT ![s] =
            IF r.defer # <<>> THEN [r EXCEPT !.todo = r.defer, !.defer = <<>>]
            ELSE [r EXCEPT !.res = IF r.bad \subseteq Ignored THEN "ok" ELSE "error"]]
       /\ UNCHANGED <<stmt, store, process, archive, now>>

Deletion(o) == IF o = "code" THEN "code object" ELSE "params object"

DeleteObject(s) ==
    /\ \E o \in {"code", "params"} :
         /\ At(s, Deletion(o))
         /\ \/ objects' = objects \ {<<s, o>>} /\ On(s)
            \/ /\ Deletion(o) \in Faults
               /\ Go(s, [ses[s] EXCEPT !.bad = @ \cup {Deletion(o)}])
               /\ objects' \in {objects, objects \ {<<s, o>>}}
    /\ UNCHANGED <<stmt, tables, results, oss, offline, figures, process, archive, now>>

\* Mutant: a DROP that fails is tried again.
DropRetried(s) ==
    /\ At(s, "drop")
    /\ \/ ses[s].names = <<>> /\ On(s) /\ UNCHANGED tables
       \/ /\ ses[s].names # <<>>
          /\ "drop" \in Faults
          /\ UNCHANGED <<ses, tables>>
    /\ UNCHANGED <<stmt, results, oss, offline, objects, figures, process, archive, now>>

\* dropTmpTables: one table after the other, until a DROP fails.
DropTmp(s) ==
    /\ At(s, "drop")
    /\ LET names == ses[s].names
       IN \/ names = <<>> /\ On(s) /\ UNCHANGED tables
          \/ /\ names # <<>>
             /\ \/ /\ tables' = tables \ {Head(names)}
                   /\ ses' = [ses EXCEPT ![s].names = Tail(names)]
                \/ /\ "drop" \in Faults
                   /\ Go(s, [ses[s] EXCEPT !.bad = @ \cup {"drop"}, !.names = <<>>])
                   /\ tables' \in {tables, tables \ {Head(names)}}
    /\ UNCHANGED <<stmt, results, oss, offline, objects, figures, process, archive, now>>

\* The clock that the names of figures are made of.
Tick ==
    /\ \E s \in Sessions : stmt[s].kind = "explain"
    /\ now < 1 /\ now' = now + 1
    /\ UNCHANGED <<stmt, ses, store, process, archive>>

Prepare(s) ==
    \/ CreateTmp(s) \/ CreateValid(s) \/ Concat(s) \/ Open(s) \/ Unsupported(s)
    \/ CleanSub(s) \/ CleanTop(s) \/ CleanupPAIModel(s)
    \/ ReadType(s) \/ ReadEstimator(s) \/ AskXgboost(s)
    \/ ResultTable(s) \/ DropResult(s) \/ DropOld(s) \/ CreateNew(s)
    \/ WriteHyperParams(s) \/ Codegen(s)

Submit(s) ==
    \/ AchieveResource(s) \/ UploadCode(s) \/ UploadParams(s) \/ SetEnv(s)
    \/ JobStart(s) \/ JobSaves(s) \/ JobDescribes(s) \/ JobEnd(s) \/ JobFails(s)
    \/ DownloadModel(s) \/ SaveModel(s) \/ Draw(s)

Unwind(s) == Return(s) \/ DeleteObject(s) \/ DropTmp(s)

Step(s) == Prepare(s) \/ Submit(s) \/ Unwind(s)

Next == Tick \/ \E s \in Sessions : Step(s)

\* Every call returns, with an answer or an error, and every job ends.
Fairness == \A s \in Sessions : WF_vars(Step(s))

Spec == Init /\ [][Next]_vars /\ Fairness

-----------------------------------------------------------------------------
(* Properties. *)

SessionType(s) ==
    [todo : Seq(Phases), defer : Seq(Ignored), names : Seq({s} \X (1..2)),
     top : SUBSET Objects, type : {"none", "TENSORFLOW", "XGBOOST", "PAIML"},
     est : Estimators \cup {"none"}, cmd : {"none", "empty", "full"},
     job : Going \cup {"none", "failing", "done", "failed"},
     loaded : Sessions \cup {"before", "none"},
     key : ({"u1", "u2"} \X Seconds) \cup {<<>>}, shown : Sessions \cup {"none"},
     set : SUBSET EnvKeys, ctx : [EnvKeys -> Sessions \cup {"none"}],
     bad : SUBSET Phases, res : {"running", "ok", "error"}]

\* Type invariant: sessions, tables, models and objects have their types.
TypeOK ==
    /\ stmt \in Workloads
    /\ DOMAIN ses = Sessions /\ \A s \in Sessions : ses[s] \in SessionType(s)
    /\ tables \subseteq Sessions \X (1..2)
    /\ results \in [Names -> {"absent", "old", "empty"} \cup Sessions]
    /\ oss \in [Models -> [Objects -> [by : Sessions \cup {"before", "none"},
                                       est : Estimators \cup {"none"}]]]
    /\ offline \in [Models -> Sessions \cup {"before", "none"}]
    /\ objects \subseteq Sessions \X {"code", "params"}
    /\ figures \in [{"u1", "u2"} \X Seconds -> Sessions \cup {"none"}]
    /\ file \in Estimators \cup {"none"}
    /\ env \in [EnvKeys -> Sessions \cup {"none"}]
    /\ archive \in [Models -> {"old", "model", "without model", "partial"}]
    /\ now \in Seconds

Ended(s) == ses[s].res # "running"

\* Trainings of other sessions into the model m.
OtherTrains(s, m) ==
    \E o \in Sessions \ {s} : stmt[o].kind = "train" /\ stmt[o].model = m

\* What may leave the n-th temporary table of a session behind: a DROP that
\* fails, and a CREATE that fails after the table was made, or, for the
\* validation table, at all: the training table is then dropped by nobody.
MayStay(s, n) ==
    \/ "drop" \in ses[s].bad
    \/ n = 1 /\ ses[s].bad \cap {"tmp", "valid"} # {}
    \/ n = 2 /\ ses[s].bad \cap {"valid", "concat"} # {}

\* The same for the objects in the Alisa bucket.
ObjectMayStay(s, o) ==
    Deletion(o) \in ses[s].bad \/ (o = "code" /\ "upload" \in ses[s].bad)

\* A statement that has ended, whichever of its phases failed, has left no
\* temporary table and no object in the Alisa bucket, but for those whose
\* own creation or deletion failed.  (pai.go: "drop table should be run even
\* if there's error."  That is not so where the validation table cannot be
\* created: the training table stays, for its life cycle of 7 days.)
NoLeftovers ==
    \A s \in Sessions : Ended(s) =>
        /\ \A n \in 1..2 : Tmp(s, n) \in tables => MayStay(s, n)
        /\ \A o \in {"code", "params"} : <<s, o>> \in objects => ObjectMayStay(s, o)

\* The statements that make a temporary table.
UsesTmp(st) == st.kind # "run" /\ (st.kind = "optimize" => OptFlow(st))

\* While a job runs, the temporary tables of its command exist, and for
\* Alisa so does the code it was sent.
JobHasInputs(s) ==
    ses[s].job \in Going /\ At(s, "submit") =>
        /\ Range(ses[s].names) \subseteq tables
        /\ UsesTmp(stmt[s]) => ses[s].names # <<>>
        /\ stmt[s].sub = "alisa" /\ stmt[s].kind \notin {"run", "optimize"} =>
             <<s, "code">> \in objects

\* A training that continues a model under the same name finds it, whatever
\* happened before, as long as nobody else trains it (PAI and PAI local).
ResumeFindsModel(s) ==
    LET st == stmt[s]
    IN (/\ st.kind = "train" /\ st.sub \in {"pai", "local"}
        /\ st.load = st.model /\ ses[s].cmd = "full"
        /\ TypeOf(st.est) # "PAIML"
        /\ Stored[st.load] # "none" /\ TypeOf(Stored[st.load]) = TypeOf(st.est)
        /\ ~OtherTrains(s, st.load))
       => ses[s].job # "failing" /\ (ses[s].job = "running" => ses[s].loaded = "before")

\* The model is complete and is that of the session, and so is its result
\* table, unless another session overwrites it.
DidWork(s) ==
    LET st == stmt[s]
    IN /\ st.kind = "train" /\ st.sub # "alps" /\ ~OtherTrains(s, st.model) =>
            IF TypeOf(st.est) = "PAIML" THEN offline[st.model] = s
            ELSE \A o \in SavedObjects(st.est) : oss[st.model][o] = Wrote(s)
       /\ Produces(st) /\ (\A o \in Sessions \ {s} : stmt[o].into # st.into) => results[st.into] = s

\* A statement that ended well did its work.  (A bad configuration, and
\* PAI's algorithms run locally, excepted: they generate nothing.)
OkMeansDone ==
    \A s \in Sessions : ses[s].res = "ok" /\ ses[s].cmd = "full" => DidWork(s)

\* A statement that uses a model nobody trains meanwhile takes it for what
\* it is: TensorFlow, XGBoost or one of PAI's own.
TypeIsSaved(s) ==
    LET st == stmt[s]
    IN (/\ st.kind \in Using
        /\ ses[s].type # "none" /\ Stored[st.model] # "none"
        /\ ~OtherTrains(s, st.model))
       => ses[s].type = TypeOf(Stored[st.model])

\* The figure that an explanation shows is its own, or that of a statement
\* of the same user generated in the same second: the key on OSS is made of
\* nothing else.
FigureIsOwn(s) ==
    ses[s].shown # "none" =>
        \/ ses[s].shown = s
        \/ stmt[ses[s].shown].user = stmt[s].user /\ ses[ses[s].shown].key = ses[s].key

-----------------------------------------------------------------------------
(* What the properties rest on. *)

\* The stages of a statement; the phases of a stage may come in any order
\* where several belong to it.
Stage(p) ==
    CASE p = "tmp" -> 1
      [] p \in {"valid", "concat"} -> 2
      [] p = "codegen" -> 4
      [] p = "archive" -> 5
      [] p = "upload" -> 6
      [] p = "params" -> 7
      [] p = "submit" -> 8
      [] p \in {"download", "save", "draw"} -> 9
      [] p \in Ignored -> 10
      [] OTHER -> 3

Follows(p, q) == Stage(p) < Stage(q) \/ (Stage(p) = Stage(q) /\ Stage(p) \in {3, 9, 10})

Ordered(todo) == \A i, j \in DOMAIN todo : i < j => Follows(todo[i], todo[j])

Left(s) == Range(ses[s].todo)
Due(s) == Left(s) \cup Range(ses[s].defer)

\* A session is either at its phases, in their order, or unwinds; it ends
\* well only when nothing but the deferred calls has failed.
InOrder(s) ==
    /\ Ordered(ses[s].todo)
    /\ Left(s) \cap Ignored = {} \/ (Left(s) \subseteq Ignored /\ ses[s].defer = <<>>)
    /\ Ended(s) => ses[s].todo = <<>> /\ ses[s].defer = <<>>
    /\ ses[s].res = "ok" => ses[s].bad \subseteq Ignored

\* Before its temporary tables are noted a session has no deferred call; a
\* table is noted and will be dropped, or it waits for the second one.
TablesHeld(s) ==
    LET r == ses[s]
    IN /\ r.names \in {<<>>, <<Tmp(s, 1)>>, <<Tmp(s, 2)>>, <<Tmp(s, 1), Tmp(s, 2)>>}
       /\ Range(r.names) \subseteq tables
       /\ Left(s) \cap {"tmp", "valid", "concat"} # {} =>
            r.names = <<>> /\ r.defer = <<>> /\ "submit" \in Left(s)
       /\ "valid" \in Left(s) /\ "tmp" \notin Left(s) => Tmp(s, 1) \in tables
       /\ UsesTmp(stmt[s]) /\ "submit" \in Left(s) =>
            r.names # <<>> \/ Left(s) \cap {"tmp", "valid", "concat"} # {}
       /\ \A n \in 1..2 : Tmp(s, n) \in tables =>
            \/ Tmp(s, n) \in Range(r.names) /\ "drop" \in Due(s)
            \/ n = 1 /\ "tmp" \notin Left(s) /\ Left(s) \cap {"valid", "concat"} # {}
            \/ MayStay(s, n)

\* What was uploaded will be deleted, and the code is there for its job.
ObjectsHeld(s) ==
    /\ \A o \in {"code", "params"} : <<s, o>> \in objects =>
         Deletion(o) \in Due(s) \/ ObjectMayStay(s, o)
    /\ stmt[s].sub = "alisa" /\ stmt[s].kind \notin {"run", "optimize"}
         /\ "submit" \in Left(s) => "upload" \in Left(s) \/ <<s, "code">> \in objects

\* The phases that only some statements have.
PhasesOfKind(s) ==
    /\ Left(s) \cap {"cleanSub", "cleanTop", "offline"} # {} => stmt[s].kind = "train"
    /\ Left(s) \cap {"cleanSub", "cleanTop"} # {} => CleansDir(stmt[s])
    /\ Left(s) \cap {"type", "read", "xgb"} # {} => stmt[s].kind \in Using
    /\ Left(s) \cap {"drop result", "drop old", "create new"} # {} =>
         stmt[s].kind = "optimize"
    /\ "draw" \in Left(s) => stmt[s].kind = "explain"

\* A job belongs to the phase that submits it, runs what was generated, and
\* a statement without errors has not ended before its job.
JobPlace(s) ==
    LET r == ses[s]
    IN /\ r.job \in Going \cup {"failing"} => At(s, "submit")
       /\ r.job \in {"done", "failed"} =>
            Left(s) \subseteq {"download", "save", "draw"} \cup Ignored
       /\ r.job = "idle" => r.cmd = "empty"
       /\ r.job \in (Going \cup {"failing"}) \ {"idle"} => r.cmd # "empty"
       /\ r.job \in {"saving", "describing"} => SavesModel(stmt[s])
       /\ r.job = "describing" => TypeOf(stmt[s].est) = "TENSORFLOW"
       /\ r.bad \subseteq Ignored => \/ r.job = "done" \/ stmt[s].kind = "idle"
                                     \/ Left(s) \cap {"submit", "unsupported"} # {}
       /\ stmt[s].kind = "idle" => r.cmd = "none" /\ r.res = "ok" /\ Left(s) = {}

\* A figure's key is made once, of the user, before the job that draws it.
FigureKeyed(s) ==
    /\ stmt[s].kind = "explain" /\ Left(s) \cap {"submit", "draw"} # {} =>
         "codegen" \in Left(s) \/ ses[s].key # <<>>
    /\ ses[s].key # <<>> => ses[s].key[1] = stmt[s].user /\ "codegen" \notin Left(s)

\* What a session has left to do, and what it has to clean up.
Place(s) ==
    /\ InOrder(s) /\ TablesHeld(s) /\ ObjectsHeld(s)
    /\ PhasesOfKind(s) /\ JobPlace(s) /\ FigureKeyed(s)

\* A figure is where its session wanted it, and is looked for where it was
\* wanted.
FiguresInPlace ==
    /\ \A k \in DOMAIN figures : figures[k] # "none" => ses[figures[k]].key = k
    /\ \A s \in Sessions : ses[s].shown # "none" => ses[s].key # <<>>

\* Nobody but trainings writes models.
ModelsUntouched ==
    \A m \in Models : (\A s \in Sessions : stmt[s].kind = "train" => stmt[s].model # m) =>
        /\ \A o \in Objects : oss[m][o] = StoredObject(m, o)
        /\ offline[m] = StoredOffline(m)

\* The model that a training continues is as it was until its job runs.
ModelWaits(s) ==
    LET st == stmt[s]
    IN (/\ st.kind = "train" /\ st.sub \in {"pai", "local"} /\ st.load = st.model
        /\ ~OtherTrains(s, st.model) /\ ses[s].job = "none")
       => \A o \in {"model_save", "my_model"} : oss[st.model][o] = StoredObject(st.model, o)

\* What is read next decides the type of a model.
TypeBeingRead(s) ==
    LET m == stmt[s].model
    IN stmt[s].kind \in Using /\ Stored[m] # "none" /\ ~OtherTrains(s, m) =>
         /\ "read" \in Left(s) => TypeOf(Stored[m]) = "TENSORFLOW"
         /\ "xgb" \in Left(s) => TypeOf(Stored[m]) # "TENSORFLOW"

\* A job that is done, or has saved its model, has left its effect.
JobsWork(s) ==
    /\ ses[s].job \in {"saving", "describing"} /\ ~OtherTrains(s, stmt[s].model) =>
         oss[stmt[s].model][Content(TypeOf(stmt[s].est))] = Wrote(s)
    /\ ses[s].job = "describing" /\ ~OtherTrains(s, stmt[s].model) =>
         oss[stmt[s].model]["tf"] = Wrote(s)
    /\ ses[s].job = "done" /\ ses[s].cmd # "empty" => DidWork(s)

\* A statement works on what is its own: its tables, its model, its figure.
OwnInputs ==
    /\ TypeOK /\ FiguresInPlace /\ ModelsUntouched
    /\ \A s \in Sessions :
         /\ Place(s) /\ JobHasInputs(s) /\ FigureIsOwn(s)
         /\ ModelWaits(s) /\ ResumeFindsModel(s)
         /\ TypeBeingRead(s) /\ TypeIsSaved(s) /\ JobsWork(s)

\* Every statement ends, with every session stepping and every job ending.
SessionsEnd == \A s \in Sessions : <>Ended(s)

-----------------------------------------------------------------------------
(* Stated in a document or a comment, and not so. *)

\* doc/design/to_run.md: the program of a TO RUN statement gets the SELECT
\* and the INTO of its statement in environment variables.
RunSeesOwnContext ==
    \A s \in Sessions :
        stmt[s].kind = "run" /\ stmt[s].sub = "local" /\ ses[s].job = "running"
            => \A k \in EnvKeys : ses[s].ctx[k] = s
=============================================================================
