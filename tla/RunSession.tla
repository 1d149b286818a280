----------------------------- MODULE RunSession -----------------------------
(***************************************************************************)
(* One call of the Run RPC.  The runner is the goroutine of RunSQLProgram  *)
(* (go/sql/executor_ir.go): it parses the program, executes its statements *)
(* one by one with an executor (go/executor) and writes what they print    *)
(* into a pipe.  In workflow mode it is the goroutine of SubmitWorkflow.   *)
(* Server.Run (go/sqlflowserver) ranges over the pipe and sends one        *)
(* response per item to the client, which may go away at any time.         *)
(*                                                                         *)
(* The contents of rows and log lines are abstracted to a number that      *)
(* tells them apart; which step of an executor fails is a choice.          *)
(***************************************************************************)
EXTENDS Naturals, Sequences, FiniteSets

CONSTANTS
    Programs,  \* the SQL programs: sequences of statement kinds
    MaxOut     \* bound: rows of a query, log lines of a submitted program

ASSUME RunAssumption == MaxOut \in Nat

VARIABLES
    wrClosed, done, wr, rd,   \* the pipe, see Pipe
    prog,      \* the statements of the request
    mode,      \* local, experimental or workflow: how the server runs it
    hinted,    \* the text holds one more statement, a hint
    run,       \* [pc, stmt, phase, cnt, err]: where the runner is, how many
               \* outputs this phase has written, the error it will report
    dbOpen,    \* the runner holds a database connection
    cwd,       \* the statement's temporary directory: none, there, stuck
    target,    \* [statement -> the table or model it produces]
    submitted, \* workflow mode: the Argo workflow exists
    results,   \* history: the outputs whose Write returned nil, in order
    connected, \* the client is still there
    sent,      \* history: the outputs Server.Run has sent, in order
    nilSend,   \* Server.Run goes on to send the nil response
    status     \* the status Server.Run returned, or none

pvars == <<wrClosed, done, wr, rd>>
request == <<prog, mode, hinted>>
world == <<dbOpen, cwd, target, submitted>>
history == <<results>>
server == <<connected, sent, nilSend, status>>
vars == <<pvars, request, run, world, history, server>>

-----------------------------------------------------------------------------
(***************************************************************************)
(* The items in the pipe: outputs (a table header, a row, a line of text,  *)
(* a figure, a job), numbered in the order they are written; an error; the *)
(* EndOfExecution of a statement.                                          *)
(***************************************************************************)
OutputKinds == {"head", "row", "string", "figures", "job"}
Outputs == [kind : OutputKinds, n : Nat]
Items == [kind : OutputKinds \cup {"error", "eoe"}, n : Nat]
NoItem == [kind |-> "none", n |-> 0]

P == INSTANCE Pipe WITH Writers <- {"runner"}, CloseInParallel <- FALSE

StatementKinds ==
    {"query", "exec", "train", "predict", "explain", "explainInto",
     "evaluate", "evaluateInto", "optimize", "run", "show"}

ASSUME ProgramsAssumption == Programs \subseteq Seq(StatementKinds)

(***************************************************************************)
(* What Run(exec, stmt) does for a kind of statement, as the sequence of   *)
(* its fallible phases.  call: code generation, a connection, a query, a   *)
(* file read; table: drop and create the result table; effect: a change of *)
(* the database (db.Exec, SaveModel); program: run a Python program whose  *)
(* stdout lines go to the pipe; run: the same for TO RUN, where an error   *)
(* is also written as text; rows: the rows of a query; head and string:    *)
(* write one item and return its error; head?, row? and figures?: write    *)
(* one item and ignore what Write returns; load: read the model, writing a *)
(* text when that fails.                                                   *)
(***************************************************************************)
Plan(kind) ==
    CASE kind = "query"        -> <<"call", "head", "rows">>
      [] kind = "exec"         -> <<"effect", "string">>
      [] kind = "train"        -> <<"call", "program", "effect">>
      [] kind = "predict"      -> <<"table", "call", "program">>
      [] kind = "explain"      -> <<"call", "program", "call", "figures?">>
      [] kind = "explainInto"  -> <<"call", "table", "call", "program">>
      [] kind = "evaluate"     -> <<"call", "program">>
      [] kind = "evaluateInto" -> <<"call", "table", "program">>
      [] kind = "optimize"     -> <<"call", "table", "call", "program">>
      [] kind = "run"          -> <<"call", "run">>
      [] kind = "show"         -> <<"load", "head?", "row?">>

\* tryExperimentalExecute: one generated program, whatever the statement.
ExperimentalPlan == <<"call", "program">>

CurrentPlan ==
    IF mode = "experimental" THEN ExperimentalPlan ELSE Plan(prog[run.stmt])

InPhase(names) ==
    /\ run.pc = "exec"
    /\ run.phase <= Len(CurrentPlan)
    /\ CurrentPlan[run.phase] \in names

\* The kinds of statements that leave a table or a model behind.
Producing == {"exec", "train", "predict", "explainInto", "evaluateInto", "optimize"}

Init ==
    /\ P!PipeInit
    /\ prog \in Programs
    /\ mode \in {"local", "experimental", "workflow"}
    /\ hinted \in BOOLEAN
    /\ run = [pc |-> IF mode = "workflow" THEN "compile" ELSE "open",
              stmt |-> 1, phase |-> 1, cnt |-> 0, err |-> "none"]
    /\ dbOpen = FALSE
    /\ cwd = "none"
    /\ target = [s \in DOMAIN prog |-> "old"]
    /\ submitted = FALSE
    /\ results = <<>>
    /\ connected = TRUE
    /\ sent = <<>>
    /\ nilSend = FALSE
    /\ status = "none"

-----------------------------------------------------------------------------
(* How the runner moves. *)

Goto(pc) == run' = [run EXCEPT !.pc = pc]

FailTo(pc, e) == run' = [run EXCEPT !.pc = pc, !.err = e]

NextPhase(pc) == run' = [run EXCEPT !.pc = pc, !.phase = @ + 1, !.cnt = 0]

\* A step of the runner that neither reads nor writes the pipe.
OffPipe == UNCHANGED <<pvars, request, history, server>>

\* The last Write has returned.
Returned == wr["runner"].pc # "select"

\* wr.Write(item); the runner goes on when it has returned.
WriteItem(kind) ==
    /\ P!WriteCall("runner", [kind |-> kind, n |-> Len(results) + 1])
    /\ UNCHANGED <<request, history, server>>

-----------------------------------------------------------------------------
(* RunSQLProgram and runSQLProgram. *)

\* database.OpenAndConnectDB.
OpenDB ==
    /\ run.pc = "open"
    /\ \/ Goto("parse") /\ dbOpen' = TRUE
       \/ FailTo("report", "open") /\ UNCHANGED dbOpen
    /\ OffPipe /\ UNCHANGED <<cwd, target, submitted>>

\* RemoveCommentInSQLStatement and parser.Parse.
ParseProgram ==
    /\ run.pc = "parse"
    /\ Goto("stmt") \/ FailTo("report", "parse")
    /\ OffPipe /\ UNCHANGED world

\* ioutil.TempDir, the first step of runSingleSQLFlowStatement.
StartStatement ==
    /\ run.pc = "stmt"
    /\ run.stmt <= Len(prog)
    /\ \/ Goto("ir") /\ cwd' = "there"
       \/ FailTo("eoe", "tempdir") /\ UNCHANGED cwd
    /\ OffPipe /\ UNCHANGED <<dbOpen, target, submitted>>

\* IR generation and initializeAndCheckAttributes.
GenerateIR ==
    /\ run.pc = "ir"
    /\ Goto("exec") \/ FailTo("cleanup", "ir")
    /\ OffPipe /\ UNCHANGED world

\* The deferred os.RemoveAll(cwd): its error replaces the statement's.
RemoveCwd ==
    /\ run.pc = "cleanup"
    /\ \/ Goto("eoe") /\ cwd' = "none"
       \/ FailTo("eoe", "removeall") /\ cwd' = "stuck"
    /\ OffPipe /\ UNCHANGED <<dbOpen, target, submitted>>

\* Mutant: the loop goes on after a failed statement.
WriteEOEAndContinue ==
    /\ run.pc = "eoe"
    /\ run.err # "none"
    /\ WriteItem("eoe")
    /\ run' = [run EXCEPT !.pc = "stmt", !.stmt = @ + 1, !.phase = 1, !.cnt = 0]
    /\ UNCHANGED world

\* The deferred EndOfExecution: written only when e != nil.
WriteEOE ==
    /\ run.pc = "eoe"
    /\ run.err # "none"
    /\ WriteItem("eoe")
    /\ Goto("report")
    /\ UNCHANGED world

\* No error: the loop of runSQLProgram goes to the next statement.
StatementDone ==
    /\ run.pc = "eoe"
    /\ run.err = "none"
    /\ run' = [run EXCEPT !.pc = "stmt", !.stmt = @ + 1, !.phase = 1, !.cnt = 0]
    /\ OffPipe /\ UNCHANGED world

ProgramDone ==
    /\ run.pc = "stmt"
    /\ run.stmt > Len(prog)
    /\ Goto("close")
    /\ OffPipe /\ UNCHANGED world

\* Mutant: the error of runSQLProgram is only logged.
LogError ==
    /\ run.pc = "report"
    /\ Returned
    /\ Goto("close")
    /\ OffPipe /\ UNCHANGED world

\* wr.Write(fmt.Errorf(...)): the error ends up in the pipe.
WriteError ==
    /\ run.pc = "report"
    /\ Returned
    /\ WriteItem("error")
    /\ Goto("close")
    /\ UNCHANGED world

\* The deferred db.Close and wr.Close.
RunnerClose ==
    /\ run.pc = "close"
    /\ Returned
    /\ P!WriterClose
    /\ Goto("ended")
    /\ dbOpen' = FALSE
    /\ UNCHANGED <<request, cwd, target, submitted, history, server>>

-----------------------------------------------------------------------------
(* SubmitWorkflow: compile, submit, and one item in the pipe. *)

Compile ==
    /\ run.pc = "compile"
    /\ Goto("submit") \/ FailTo("report", "compile")
    /\ OffPipe /\ UNCHANGED world

\* argo.Submit, which may also fail after the workflow was created.
Submit ==
    /\ run.pc = "submit"
    /\ \/ Goto("job") /\ submitted' = TRUE
       \/ FailTo("report", "submit") /\ submitted' \in BOOLEAN
    /\ OffPipe /\ UNCHANGED <<dbOpen, cwd, target>>

WriteJob ==
    /\ run.pc = "job"
    /\ WriteItem("job")
    /\ Goto("close")
    /\ UNCHANGED world

-----------------------------------------------------------------------------
(* executor.Run: the phases of a statement. *)

\* A phase that succeeds or fails.
CallPhase ==
    /\ InPhase({"call"})
    /\ NextPhase("exec") \/ FailTo("cleanup", "exec")
    /\ OffPipe /\ UNCHANGED world

\* DROP TABLE IF EXISTS, then CREATE TABLE: either may fail.
TablePhase ==
    /\ InPhase({"table"})
    /\ \/ /\ NextPhase("exec")
          /\ target' = [target EXCEPT ![run.stmt] = "partial"]
       \/ /\ FailTo("cleanup", "exec")
          /\ \E t \in {target[run.stmt], "dropped"} :
               target' = [target EXCEPT ![run.stmt] = t]
    /\ OffPipe /\ UNCHANGED <<dbOpen, cwd, submitted>>

\* db.Exec or SaveModel; saving drops the old model first.
EffectPhase ==
    /\ InPhase({"effect"})
    /\ \/ /\ NextPhase("exec")
          /\ target' = [target EXCEPT ![run.stmt] = "full"]
       \/ /\ FailTo("cleanup", "exec")
          /\ \E t \in {target[run.stmt], "partial"} :
               target' = [target EXCEPT ![run.stmt] = t]
    /\ OffPipe /\ UNCHANGED <<dbOpen, cwd, submitted>>

\* Write one item and return the error of Write.
WritePhase ==
    /\ \E kind \in {"head", "string"} : InPhase({kind}) /\ WriteItem(kind)
    /\ NextPhase("checked")
    /\ UNCHANGED world

\* Write one item without looking at what Write returns.
UncheckedWritePhase ==
    /\ \/ InPhase({"head?"}) /\ WriteItem("head")
       \/ InPhase({"row?"}) /\ WriteItem("row")
       \/ InPhase({"figures?"}) /\ WriteItem("figures")
    /\ NextPhase("unchecked")
    /\ UNCHANGED world

\* rows.Next and parseRow: a row is written, or Scan or fieldValue fails.
RowsPhase ==
    /\ InPhase({"rows"})
    /\ \/ /\ run.cnt < MaxOut
          /\ WriteItem("row")
          /\ run' = [run EXCEPT !.pc = "checked", !.cnt = @ + 1]
       \/ NextPhase("exec") /\ OffPipe
       \/ FailTo("cleanup", "exec") /\ OffPipe
    /\ UNCHANGED world

\* model.Load of ExecuteShowTrain: on an error a text goes to the pipe too.
LoadPhase ==
    /\ InPhase({"load"})
    /\ \/ NextPhase("exec") /\ OffPipe
       \/ FailTo("settle", "exec") /\ WriteItem("string")
    /\ UNCHANGED world

\* The executor looks at what Write returned, or does not.
WriteReturned ==
    /\ run.pc \in {"checked", "unchecked"}
    /\ Returned
    /\ IF run.pc = "checked" /\ wr["runner"].pc = "ErrClosedPipe"
       THEN FailTo("cleanup", "pipe")
       ELSE Goto("exec")
    /\ OffPipe /\ UNCHANGED world

-----------------------------------------------------------------------------
(* runCommand: a child process whose stdout goes through logChanWriter.    *)

\* A whole line reaches logChanWriter.Write.
ChildLine ==
    /\ InPhase({"program", "run"})
    /\ run.cnt < MaxOut
    /\ WriteItem("string")
    /\ run' = [run EXCEPT !.pc = "line", !.cnt = @ + 1]
    /\ UNCHANGED world

(***************************************************************************)
(* An error of logChanWriter.Write stops the copying of stdout: the child  *)
(* dies on its next write or ends, and cmd.Run returns the error.          *)
(***************************************************************************)
LineReturned ==
    /\ run.pc = "line"
    /\ Returned
    /\ IF wr["runner"].pc = "ErrClosedPipe" THEN FailTo("flush", "pipe") ELSE Goto("exec")
    /\ OffPipe /\ UNCHANGED world

\* Where the generated program writes its results.
Fills == mode = "experimental" \/ target[run.stmt] = "partial"

\* cmd.Run returns: the program succeeded, or failed and left what it did.
ChildExit ==
    /\ InPhase({"program", "run"})
    /\ \/ /\ Goto("flush")
          /\ target' = [target EXCEPT ![run.stmt] = IF Fills THEN "full" ELSE @]
       \/ /\ FailTo("flush", "exec")
          /\ target' = [target EXCEPT ![run.stmt] = IF Fills THEN "partial" ELSE @]
    /\ OffPipe /\ UNCHANGED <<dbOpen, cwd, submitted>>

(***************************************************************************)
(* The deferred logChanWriter.Close: an unfinished last line is written,   *)
(* and so is the line whose Write has failed.                              *)
(***************************************************************************)
FlushPartialLine ==
    /\ run.pc = "flush"
    /\ WriteItem("string") \/ (run.err # "pipe" /\ OffPipe)
    /\ Goto("settle")
    /\ UNCHANGED world

\* Back in the executor; ExecuteRun also writes the child's stderr.
ChildSettled ==
    /\ run.pc = "settle"
    /\ Returned
    /\ \/ run.err = "none" /\ NextPhase("exec") /\ OffPipe
       \/ /\ run.err # "none"
          /\ Goto("failed")
          /\ IF CurrentPlan[run.phase] = "run" THEN WriteItem("string") ELSE OffPipe
    /\ UNCHANGED world

ExecFailed ==
    /\ run.pc = "failed"
    /\ Returned
    /\ Goto("cleanup")
    /\ OffPipe /\ UNCHANGED world

ExecDone ==
    /\ run.pc = "exec"
    /\ run.phase > Len(CurrentPlan)
    /\ Goto("cleanup")
    /\ OffPipe /\ UNCHANGED world

-----------------------------------------------------------------------------
(* The pipe and Server.Run. *)

Item == rd.item

\* The send of Write meets the receive of Server.Run's range loop.
PipeSend ==
    /\ P!WriteSend("runner")
    /\ LET item == wr["runner"].item IN
         results' = IF item.kind \in OutputKinds THEN Append(results, item) ELSE results
    /\ UNCHANGED <<request, run, world, server>>

\* Mutant: Write does not watch the reader.
PipeClosedUnseen == FALSE /\ UNCHANGED vars

\* Write returns ErrClosedPipe.
PipeClosed ==
    /\ P!WriteDone("runner")
    /\ UNCHANGED <<request, run, world, history, server>>

ServerOnly == UNCHANGED <<request, run, world, history>>

\* Server.Run returns a non-nil error.
Return(e) == P!BodyLeave /\ status' = e /\ UNCHANGED sent

\* Mutant: the handler skips an output it cannot encode.
SkipOutput ==
    /\ rd.pc = "body"
    /\ Item.kind \in OutputKinds
    /\ \/ P!BodyNext /\ sent' = Append(sent, Item) /\ UNCHANGED status
       \/ ~connected /\ Return("sendError")
       \/ Item.kind \in {"head", "row"} /\ P!BodyNext /\ UNCHANGED <<sent, status>>
    /\ UNCHANGED <<connected, nilSend>> /\ ServerOnly

\* An output is encoded and sent; a client that is gone makes Send fail.
SendOutput ==
    /\ rd.pc = "body"
    /\ Item.kind \in OutputKinds
    /\ \/ P!BodyNext /\ sent' = Append(sent, Item) /\ UNCHANGED status
       \/ ~connected /\ Return("sendError")
       \/ Item.kind \in {"head", "row"} /\ Return("encodeError")
    /\ UNCHANGED <<connected, nilSend>> /\ ServerOnly

\* case error: return s.
ReturnProgramError ==
    /\ rd.pc = "body"
    /\ Item.kind = "error"
    /\ Return("programError")
    /\ UNCHANGED <<connected, nilSend>> /\ ServerOnly

\* How many statements Server.Run finds in the text of the request.
StatementCount == Len(prog) + IF hinted THEN 1 ELSE 0

(***************************************************************************)
(* case EndOfExecution: the request is parsed again; with one statement    *)
(* the loop continues, with more the message is sent and control falls out *)
(* of the switch with res still nil.                                       *)
(***************************************************************************)
ServeEOE ==
    /\ rd.pc = "body"
    /\ Item.kind = "eoe"
    /\ ~nilSend
    /\ \/ Return("parseError") /\ UNCHANGED nilSend
       \/ /\ StatementCount <= 1
          /\ P!BodyNext
          /\ UNCHANGED <<sent, nilSend, status>>
       \/ /\ StatementCount > 1
          /\ \/ nilSend' = TRUE /\ UNCHANGED <<pvars, sent, status>>
             \/ ~connected /\ Return("sendError") /\ UNCHANGED nilSend
    /\ UNCHANGED connected /\ ServerOnly

\* stream.Send(res) with a nil res: marshalling fails.
SendNil ==
    /\ rd.pc = "body"
    /\ nilSend
    /\ nilSend' = FALSE
    /\ Return("marshalError")
    /\ UNCHANGED connected /\ ServerOnly

\* Mutant: the handler returns nil as soon as the reader half is done.
DrainedEarly ==
    /\ P!BodyLeave
    /\ status' = "OK"
    /\ UNCHANGED <<connected, sent, nilSend>> /\ ServerOnly

\* The range loop ends because the runner closed the pipe.
PipeDrained ==
    /\ P!ReadEnd
    /\ status' = "OK"
    /\ UNCHANGED <<connected, sent, nilSend>> /\ ServerOnly

\* The deferred rd.Close.
ServerClose ==
    /\ P!ReaderClose
    /\ UNCHANGED server /\ ServerOnly

ClientGone ==
    /\ connected
    /\ status = "none"
    /\ connected' = FALSE
    /\ UNCHANGED <<pvars, sent, nilSend, status>> /\ ServerOnly

-----------------------------------------------------------------------------
RunnerStep ==
    \/ OpenDB \/ ParseProgram \/ StartStatement \/ GenerateIR \/ RemoveCwd
    \/ WriteEOE \/ StatementDone \/ ProgramDone \/ WriteError \/ RunnerClose
    \/ Compile \/ Submit \/ WriteJob
    \/ CallPhase \/ TablePhase \/ EffectPhase \/ WritePhase \/ UncheckedWritePhase
    \/ RowsPhase \/ LoadPhase \/ WriteReturned
    \/ ChildLine \/ LineReturned \/ ChildExit \/ FlushPartialLine \/ ChildSettled
    \/ ExecFailed \/ ExecDone

PipeStep == PipeSend \/ PipeClosed

ServerStep ==
    \/ SendOutput \/ ReturnProgramError \/ ServeEOE \/ SendNil
    \/ PipeDrained \/ ServerClose

Next == RunnerStep \/ PipeStep \/ ServerStep \/ ClientGone

(***************************************************************************)
(* Goroutines that can run do run, and the database, the child process and *)
(* Argo answer.  That a client goes away is not assumed.                   *)
(***************************************************************************)
Fairness == WF_vars(RunnerStep) /\ WF_vars(PipeStep) /\ WF_vars(ServerStep)

Spec == Init /\ [][Next]_vars /\ Fairness

-----------------------------------------------------------------------------
(* Properties. *)

RunnerPC ==
    {"compile", "submit", "job", "open", "parse", "stmt", "ir", "exec", "checked",
     "unchecked", "line", "flush", "settle", "failed", "cleanup", "eoe", "report",
     "close", "ended"}

Errors ==
    {"none", "open", "parse", "tempdir", "ir", "exec", "pipe", "removeall",
     "compile", "submit"}

Statuses ==
    {"none", "OK", "programError", "sendError", "encodeError", "parseError",
     "marshalError"}

\* The types of the session's variables.
TypeOK ==
    /\ P!PipeTypeOK
    /\ prog \in Seq(StatementKinds)
    /\ mode \in {"local", "experimental", "workflow"}
    /\ hinted \in BOOLEAN
    /\ run \in [pc : RunnerPC, stmt : Nat, phase : Nat, cnt : Nat, err : Errors]
    /\ dbOpen \in BOOLEAN
    /\ cwd \in {"none", "there", "stuck"}
    /\ target \in [DOMAIN prog -> {"old", "dropped", "partial", "full"}]
    /\ submitted \in BOOLEAN
    /\ results \in Seq(Outputs)
    /\ connected \in BOOLEAN
    /\ sent \in Seq(Outputs)
    /\ nilSend \in BOOLEAN
    /\ status \in Statuses

\* Server.Run returns nil only when the goroutine behind it ended without an
\* error, everything it wrote was sent, and the work is done: every
\* statement of the program ran and left its table or model, or the workflow
\* was submitted and its job sent.
OkMeansComplete ==
    status = "OK" =>
        /\ run.pc = "ended"
        /\ run.err = "none"
        /\ sent = results
        /\ IF mode = "workflow"
           THEN submitted /\ Len(sent) = 1
           ELSE /\ run.stmt = Len(prog) + 1
                /\ \A s \in DOMAIN prog : prog[s] \in Producing => target[s] = "full"

\* runSQLProgram stops at the first error: the statements before the current
\* one have left complete results, the ones after it have touched nothing,
\* whichever statement fails and whatever happens to the client.
FailStop ==
    mode # "workflow" =>
        \A s \in DOMAIN prog :
            /\ s < run.stmt /\ prog[s] \in Producing => target[s] = "full"
            /\ s > run.stmt => target[s] = "old"

\* The pipe is synchronous: the program is never more than one output ahead
\* of what the server has sent, and outputs are sent in order, once each.
OneOutputAhead ==
    /\ Len(sent) <= Len(results)
    /\ Len(results) <= Len(sent) + 1
    /\ \A i \in 1 .. Len(sent) : sent[i] = results[i]

\* The goroutine leaves no database connection and no temporary directory
\* behind, other than a directory that could not be removed.
CleanedUp == run.pc = "ended" => ~dbOpen /\ cwd # "there"

-----------------------------------------------------------------------------
(* What the invariants above rest on. *)

\* The ends of the pipe: the writer half is closed when the runner's
\* goroutine ends, the reader half when Server.Run has returned; OK is
\* returned on a closed channel only, and nil is sent after an
\* EndOfExecution only.
PipeEnds ==
    /\ wrClosed <=> run.pc = "ended"
    /\ wrClosed => Returned
    /\ done <=> rd.pc = "closed"
    /\ status = "none" <=> rd.pc \in {"range", "body"}
    /\ status = "OK" => wrClosed
    /\ rd.pc = "body" => Item # NoItem
    /\ nilSend => rd.pc = "body" /\ Item.kind = "eoe"

\* Where the runner waits for a Write tells what it is writing.
RunnerWaits ==
    ~Returned =>
        LET kind == wr["runner"].item.kind IN
            \/ kind = "eoe" /\ run.pc = "report"
            \/ kind = "error" /\ run.pc = "close" /\ run.err # "none"
            \/ kind = "job" /\ run.pc = "close" /\ run.err = "none"
            \/ /\ kind \in OutputKinds \ {"job"}
               /\ run.pc \in {"checked", "unchecked", "line", "settle", "failed"}

\* What was produced is sent, but for the output that Server.Run has in hand
\* or has given up with.
InHand == rd.pc # "range" /\ status # "OK" /\ Item.kind \in OutputKinds
Delivery == results = IF InHand THEN Append(sent, Item) ELSE sent

\* The runner's error is set on the failing paths only; when the runner is
\* through, the error is in its last Write, in the hands of Server.Run, or
\* the call has failed already.
ErrorOnItsWay ==
    /\ run.pc \in {"compile", "submit", "job", "open", "parse", "stmt", "ir", "exec",
                   "checked", "unchecked", "line"} => run.err = "none"
    /\ run.pc \in {"failed", "report"} => run.err # "none"
    /\ run.pc \in {"close", "ended"} /\ run.err # "none" =>
         \/ ~Returned
         \/ rd.pc = "body" /\ Item.kind = "error"
         \/ status \notin {"none", "OK"}

\* Where the runner can be, and for how long a temporary directory is there.
Executing == {"exec", "checked", "unchecked", "line"}
InStatement == Executing \cup {"ir", "flush", "settle", "failed", "cleanup"}
RunnerPlace ==
    /\ IF mode = "workflow"
       THEN run.pc \in {"compile", "submit", "job", "report", "close", "ended"}
       ELSE run.pc \notin {"compile", "submit", "job"}
    /\ run.stmt \in 1 .. Len(prog) + 1 /\ run.phase >= 1
    /\ run.pc \in InStatement \cup {"eoe"} => run.stmt <= Len(prog)
    /\ cwd = "there" => run.pc \in InStatement
    /\ mode # "workflow" /\ run.pc \in {"close", "ended"} /\ run.err = "none" =>
         run.stmt = Len(prog) + 1

\* The phase that makes the result table of a statement, and the one after
\* which its table or model is complete.
WithTable == {"predict", "explainInto", "evaluateInto", "optimize"}
MadeAt(kind) == IF kind = "predict" THEN 1 ELSE 2
CompleteAt(kind) ==
    IF mode = "experimental" THEN 2
    ELSE IF kind = "exec" THEN 1
    ELSE IF kind \in {"explainInto", "optimize"} THEN 4
    ELSE 3

\* How far the target of the running statement is: a statement starts with
\* its first phase, a result table is there, and empty, from the phase that
\* makes it to the program that fills it, and the target is complete after
\* the phase that completes it.
Progress ==
    /\ run.pc \in {"open", "parse", "stmt", "ir"} => run.phase = 1
    /\ run.err = "none" /\ run.stmt <= Len(prog) /\ prog[run.stmt] \in Producing =>
         LET kind == prog[run.stmt]
             filling == mode = "local" /\ kind \in WithTable
             complete == target[run.stmt] = "full"
         IN /\ filling /\ run.pc \in Executing /\ run.phase \in MadeAt(kind) + 1 .. CompleteAt(kind)
                 => target[run.stmt] = "partial"
            /\ filling /\ run.pc \in {"flush", "settle"} => run.phase = CompleteAt(kind)
            /\ run.pc \in Executing /\ run.phase > CompleteAt(kind) => complete
            /\ run.pc \in {"flush", "settle"} /\ run.phase >= CompleteAt(kind) => complete
            /\ run.pc \in {"cleanup", "eoe"} => complete

\* In workflow mode the one output is the job.
OneJob ==
    mode = "workflow" =>
        /\ run.pc \in {"compile", "submit", "job"} => results = <<>>
        /\ run.pc \in {"job", "close", "ended"} /\ run.err = "none" => submitted
        /\ run.pc \in {"close", "ended"} /\ run.err = "none" =>
             IF Returned THEN Len(results) = 1 \/ status \notin {"none", "OK"}
             ELSE results = <<>>

\* What holds throughout a call, whatever fails and whenever the client
\* leaves: the promises (FailStop, OneOutputAhead and CleanedUp)
\* and what they rest on.
SessionInv ==
    /\ TypeOK /\ FailStop /\ OneOutputAhead /\ CleanedUp
    /\ PipeEnds /\ RunnerWaits /\ Delivery /\ ErrorOnItsWay /\ RunnerPlace
    /\ Progress /\ OneJob

\* Both goroutines of a call end, also when the client goes away in the
\* middle (TestGoroutineLeaky).
SessionEnds == <>(run.pc = "ended" /\ status # "none")

\* An error of the program makes the call fail: it is never lost between the
\* goroutine, the pipe and the handler.
FailureReported == (run.err # "none") ~> (status \notin {"none", "OK"})


\* When the program fails, a client that stays sees the program's error (or
\* one of the parser or the encoder), not one of the server's own making.
CauseReported == connected => status # "marshalError"

-----------------------------------------------------------------------------
\* The session implements the abstract stream of results.
R == INSTANCE ResultStream WITH
       Results   <- Outputs,
       produced  <- results,
       delivered <- sent,
       failed    <- run.err # "none",
       ended     <- wrClosed,
       verdict   <- IF status \in {"none", "OK"} THEN status ELSE "error"

\* Every behaviour of a session is one of ResultStream: results arrive in
\* order, and OK means that all of them arrived and nothing failed.
ImplementsStream == R!StreamSpec
=============================================================================
