------------------------------ MODULE ModelZoo ------------------------------
(***************************************************************************)
(* go/modelzooserver: the RPC handlers that release and drop model         *)
(* repositories and trained models, and the start of the server.           *)
(*                                                                         *)
(* gRPC runs every handler in a goroutine of its own.  The handlers share  *)
(* the three tables of the zoo, the public tables that hold the models,    *)
(* the Docker daemon and the registry, and the working directory of the    *)
(* process.  A handler is a sequence of statements and system calls        *)
(* without a transaction or a lock: one action per statement.  A statement *)
(* that failed may have been executed all the same.                        *)
(*                                                                         *)
(* A name stands for a name and its tag.  An image and a package are       *)
(* represented by the handler whose directory they come from.  A package   *)
(* repository holds one Python package.  The server is not in the dry run  *)
(* mode of the tests, where nothing is pushed.                             *)
(***************************************************************************)
EXTENDS Naturals, Sequences, FiniteSets

CONSTANTS
    Handlers,        \* one RPC each
    Home,            \* the directory the server was started in
    Scenarios,       \* [req, env]: what the handlers may be asked to do, and
                     \* under which circumstances
    RepoNames, ModelNames, Classes,
    TableOf,         \* [ModelNames -> table]: the name with "." as "_"
    DefaultRepo,     \* sqlflow/sqlflow:latest
    DefaultClasses   \* defaultModelNames

NoImage == "no image"

Tables == {TableOf[n] : n \in ModelNames}

FaultKinds ==
    {"exec",      \* a statement or a command fails
     "cut",       \* a result set is cut short, which rows.Next does not tell
     "client",    \* a client goes away in the middle of its stream
     "crash"}     \* the server is killed

\* starts is a bound: how often the server is started.
Environments ==
    [builder : {"docker", "kaniko"},  \* kaniko where there is no docker.sock
     faults : SUBSET FaultKinds, starts : Nat \ {0}]

(***************************************************************************)
(* classes: what Python prints of the package, a class for each of its     *)
(* names, so that one with an alias is there twice; <<>> when it cannot be *)
(* imported or defines nothing.  repo and class: the metadata of a model.  *)
(* tagged: whether its model_repo_image is image:tag or only image.        *)
(***************************************************************************)
Requests ==
    [op : {"releaseRepo"}, name : RepoNames, classes : Seq(Classes)]
    \cup [op : {"dropRepo"}, name : RepoNames]
    \cup [op : {"releaseModel", "releaseLocal"}, name : ModelNames,
          repo : RepoNames, class : Classes, tagged : {"tagged", "untagged"}]
    \cup [op : {"dropModel"}, name : ModelNames]
    \cup [op : {"none"}]

ASSUME ModelZooAssumption ==
    /\ Home \notin Handlers /\ NoImage \notin Handlers \cup {Home}
    /\ Scenarios \subseteq [req : [Handlers -> Requests], env : Environments]
    /\ DefaultRepo \in RepoNames /\ DefaultClasses \subseteq Classes

VARIABLES
    req,       \* the request of each handler
    env,       \* the circumstances
    h,         \* [pc, cwd, descs, todo, coll, def, before, result]: the
               \* handlers; before: the rows of the repository that were
               \* there when the request arrived
    server,    \* [pc, coll, todo, starts]: StartModelZooServer
    cwd,       \* the working directory of the process
    registry,  \* the image on the registry under each name
    local,     \* the image of the Docker daemon under each name
    repos,     \* table model_repos: rows [id, name]
    defs,      \* table model_definitions: rows [id, coll, entry], see Entries
    models,    \* table models: rows [id, def, name, by]
    nextId,    \* AUTO_INCREMENT, shared by the tables for simplicity
    tables,    \* the tables of sqlflow_public_models
    blocks     \* their rows [table, by, part]

scenario == <<req, env>>
database == <<repos, defs, models, nextId>>
images == <<registry, local>>
storage == <<tables, blocks>>
vars == <<scenario, h, server, cwd, images, database, storage>>

-----------------------------------------------------------------------------
(***************************************************************************)
(* A line of what Python printed: its number, which the tables do not      *)
(* hold, and the class.  The classes of the default repository have no     *)
(* lines.                                                                  *)
(***************************************************************************)
Entries == (Nat \ {0}) \X Classes
DefaultEntries == {0} \X DefaultClasses
ClassOf(d) == d.entry[2]
Printed(x) == {<<i, req[x].classes[i]>> : i \in DOMAIN req[x].classes}

NewHandler ==
    [pc |-> "idle", cwd |-> Home, descs |-> {}, todo |-> {}, coll |-> 0, def |-> 0,
     before |-> {}, result |-> "none"]

Init ==
    /\ \E s \in Scenarios : req = s.req /\ env = s.env
    /\ h = [x \in Handlers |-> NewHandler]
    /\ server = [pc |-> "start", coll |-> 0, todo |-> {}, starts |-> 1]
    /\ cwd = Home
    /\ registry = [n \in RepoNames |-> IF n = DefaultRepo THEN Home ELSE NoImage]
    /\ local = [n \in RepoNames |-> NoImage]
    /\ repos = {} /\ defs = {} /\ models = {} /\ nextId = 1
    /\ tables = {} /\ blocks = {}

Fault(f) == f \in env.faults

At(x, pc) == server.pc = "up" /\ h[x].pc = pc

Goto(x, pc) == h' = [h EXCEPT ![x].pc = pc]

\* The handler returns; the error, or what the last message says.
End(x, result) == h' = [h EXCEPT ![x].pc = "end", ![x].result = result]

Lost(hs) ==
    [x \in Handlers |->
       IF hs[x].pc \in {"idle", "end"} THEN hs[x]
       ELSE [hs[x] EXCEPT !.pc = "end", !.result = "lost"]]

\* INSERT INTO a table: ids grow and are not used again.
Inserted(rows, row) == rows \cup {row}
TakeId == nextId' = nextId + 1

\* The foreign keys of createTableStmts.
RepoExists(coll) == \E r \in repos : r.id = coll
DefExists(def) == \E d \in defs : d.id = def
NoForeignKey(coll) == FALSE  \* mutant: the table has no foreign key
RepoReferenced(coll) == \E d \in defs : d.coll = coll
DefsReferenced(coll) == \E d \in defs, m \in models : d.coll = coll /\ m.def = d.id

\* SELECT id FROM model_repos WHERE name=... AND version=...
RepoRows(name) == {r \in repos : r.name = name}

-----------------------------------------------------------------------------
(* StartModelZooServer and addDefaultModelDefs. *)

BootOnly == UNCHANGED <<scenario, h, cwd, images, models, storage>>

\* logger.Fatalf ends the process.
Fatal == server' = [server EXCEPT !.pc = "down"]

\* The tables are created if they are not there; then the default
\* repository is looked up.
BootSelect ==
    /\ server.pc = "start"
    /\ \/ /\ RepoRows(DefaultRepo) # {}
          /\ server' = [server EXCEPT !.pc = "up"]
       \/ /\ RepoRows(DefaultRepo) = {} \/ Fault("cut")
          /\ server' = [server EXCEPT !.pc = "repo"]
       \/ Fault("exec") /\ Fatal
    /\ UNCHANGED <<repos, defs, nextId>> /\ BootOnly

BootInsertRepo ==
    /\ server.pc = "repo"
    /\ LET Insert == /\ repos' = Inserted(repos, [id |-> nextId, name |-> DefaultRepo])
                     /\ TakeId
       IN \/ Insert /\ server' = [server EXCEPT !.pc = "defs", !.coll = nextId,
                                                !.todo = DefaultEntries]
          \/ Fault("exec") /\ Fatal /\ (Insert \/ UNCHANGED <<repos, nextId>>)
    /\ UNCHANGED defs /\ BootOnly

BootInsertDef ==
    /\ server.pc = "defs"
    /\ \/ /\ server.todo = {}
          /\ server' = [server EXCEPT !.pc = "up"]
          /\ UNCHANGED <<defs, nextId>>
       \/ \E c \in server.todo :
            LET Insert == /\ defs' = Inserted(defs, [id |-> nextId, coll |-> server.coll, entry |-> c])
                          /\ TakeId
            IN \/ Insert /\ server' = [server EXCEPT !.todo = @ \ {c}]
               \/ Fault("exec") /\ Fatal /\ (Insert \/ UNCHANGED <<defs, nextId>>)
    /\ UNCHANGED repos /\ BootOnly

\* The process is killed; what it did to the database stays.
Crash ==
    /\ Fault("crash") /\ server.pc \notin {"down", "panicked"}
    /\ Fatal
    /\ h' = Lost(h)
    /\ UNCHANGED <<scenario, cwd, images, database, storage>>

Restart ==
    /\ server.pc \in {"down", "panicked"} /\ server.starts < env.starts
    /\ server' = [pc |-> "start", coll |-> 0, todo |-> {}, starts |-> server.starts + 1]
    /\ cwd' = Home
    /\ UNCHANGED <<scenario, h, images, database, storage>>

-----------------------------------------------------------------------------
(* A request arrives. *)

First ==
    [releaseRepo |-> "recv", dropRepo |-> "find", releaseModel |-> "drop",
     releaseLocal |-> "recv", dropModel |-> "delete"]

HandlerOnly == UNCHANGED <<scenario, server>>

\* checkNameAndTag and checkImageAndTag at the head of DropModelRepo,
\* ReleaseModel and DropModel; what ReleaseModel reads from the user's
\* database before it writes anything.
Accept(x) ==
    /\ At(x, "idle") /\ req[x].op # "none"
    /\ \/ h' = [h EXCEPT ![x].pc = First[req[x].op],
                         ![x].before = IF req[x].op = "releaseRepo"
                                       THEN {r.id : r \in RepoRows(req[x].name)} ELSE {}]
       \/ /\ Fault("exec") /\ req[x].op \in {"dropRepo", "releaseModel", "dropModel"}
          /\ End(x, "error")
    /\ UNCHANGED <<cwd, images, database, storage>> /\ HandlerOnly

(***************************************************************************)
(* The loops around stream.Recv leave only at io.EOF.  When the client has *)
(* gone Recv returns another error and no message, again and again;        *)
(* ReleaseModelFromLocal dereferences the first message if it is such.     *)
(***************************************************************************)
RecvAll(x) ==
    /\ At(x, "recv") /\ req[x].op = "releaseRepo"
    /\ \/ Goto(x, "image")
       \/ Fault("exec") /\ End(x, "error")
       \/ Fault("client") /\ Goto(x, "spin")
    /\ UNCHANGED <<server, cwd, images, database, storage, scenario>>

Panic ==
    /\ server' = [server EXCEPT !.pc = "panicked"]
    /\ h' = Lost(h)

RecvFirst(x) ==
    /\ At(x, "recv") /\ req[x].op = "releaseLocal"
    /\ \/ Goto(x, "drop") /\ UNCHANGED server
       \/ Fault("exec") /\ End(x, "error") /\ UNCHANGED server
       \/ Fault("client") /\ Panic
    /\ UNCHANGED <<scenario, cwd, images, database, storage>>

-----------------------------------------------------------------------------
(* ReleaseModelRepo, once the tarball has arrived. *)

\* The states of a handler whose temporary directory holds a package.
Unpacked ==
    {"getwd", "chdir", "python", "restore", "build getwd", "build chdir", "build", "push",
     "build return", "select", "insert", "defs", "hang"}

DirExists(d) == d = Home \/ h[d].pc \in Unpacked

RepoOnly == UNCHANGED <<models, storage>> /\ HandlerOnly
FilesOnly == UNCHANGED <<cwd, images, database>> /\ RepoOnly

\* A registry that cannot be reached has no image.
imageExistsOnRegistry(x) ==
    /\ At(x, "image")
    /\ \/ registry[req[x].name] # NoImage /\ End(x, "exists")
       \/ (registry[req[x].name] = NoImage \/ Fault("exec")) /\ Goto(x, "unzip")
    /\ FilesOnly

Unzip(x) ==
    /\ At(x, "unzip")
    /\ Goto(x, "getwd") \/ (Fault("exec") /\ End(x, "error"))
    /\ FilesOnly

\* os.Getwd in getModelClasses and in the two builds: it fails in a
\* directory that has been removed.
Getwd(x) ==
    /\ \/ At(x, "getwd")
       \/ At(x, "build getwd")
    /\ IF DirExists(cwd)
       THEN h' = [h EXCEPT ![x].cwd = cwd,
                           ![x].pc = IF @ = "getwd" THEN "chdir" ELSE "build chdir"]
       ELSE End(x, IF h[x].pc = "getwd" THEN "noclasses" ELSE "error")
    /\ FilesOnly

Chdir(x) ==
    /\ \/ At(x, "chdir") /\ Goto(x, "python")
       \/ At(x, "build chdir") /\ Goto(x, "build")
    /\ cwd' = x
    /\ UNCHANGED <<images, database>> /\ RepoOnly

(***************************************************************************)
(* Python imports the package from whatever directory the process is in by *)
(* now.  The package of another handler has another name or the same, and  *)
(* one that cannot be imported ends the function before it has gone back.  *)
(***************************************************************************)
RunPython(x) ==
    /\ At(x, "python")
    /\ \/ /\ cwd # Home /\ DirExists(cwd)
          /\ h' = [h EXCEPT ![x].pc = "restore", ![x].descs = Printed(cwd)]
       \/ /\ cwd # x \/ req[x].classes = <<>> \/ Fault("exec")
          /\ End(x, "noclasses")
    /\ FilesOnly

\* os.Chdir(cwd), and the test of len(modelDescs).
Restore(x) ==
    /\ At(x, "restore")
    /\ cwd' = IF DirExists(h[x].cwd) THEN h[x].cwd ELSE cwd
    /\ IF DirExists(h[x].cwd) /\ h[x].descs # {}
       THEN Goto(x, "build getwd")
       ELSE End(x, "noclasses")
    /\ UNCHANGED <<images, database>> /\ RepoOnly

BuildFails(x) == h' = [h EXCEPT ![x].pc = "build return", ![x].result = "error"]

(***************************************************************************)
(* docker build reads the working directory of the process.  Kaniko gets   *)
(* the handler's own directory and pushes the image itself; when it dies   *)
(* while tar is still writing to the io.Pipe, nobody reads that any more   *)
(* and the wait for tar does not end.                                      *)
(***************************************************************************)
Build(x) ==
    /\ At(x, "build")
    /\ \/ /\ env.builder = "docker" /\ cwd # Home /\ DirExists(cwd)
          /\ local' = [local EXCEPT ![req[x].name] = cwd]
          /\ Goto(x, "push") /\ UNCHANGED registry
       \/ /\ env.builder = "kaniko"
          /\ registry' = [registry EXCEPT ![req[x].name] = x]
          /\ Goto(x, "build return") /\ UNCHANGED local
       \/ /\ env.builder = "kaniko" /\ Fault("exec")
          /\ Goto(x, "hang") /\ UNCHANGED images
       \/ /\ (env.builder = "docker" /\ (cwd = Home \/ ~DirExists(cwd))) \/ Fault("exec")
          /\ BuildFails(x) /\ UNCHANGED images
    /\ UNCHANGED <<cwd, database>> /\ RepoOnly

\* docker login and docker push.
Push(x) ==
    /\ At(x, "push")
    /\ \/ /\ registry' = [registry EXCEPT ![req[x].name] = local[req[x].name]]
          /\ Goto(x, "build return")
       \/ /\ Fault("exec")
          /\ \/ UNCHANGED registry
             \/ registry' = [registry EXCEPT ![req[x].name] = local[req[x].name]]
          /\ BuildFails(x)
    /\ UNCHANGED <<cwd, local, database>> /\ RepoOnly

BuildReturns(x, ok) ==
    /\ At(x, "build return")
    /\ cwd' = IF DirExists(h[x].cwd) THEN h[x].cwd ELSE cwd
    /\ IF ok THEN Goto(x, "select") ELSE End(x, "error")
    /\ UNCHANGED <<images, database>> /\ RepoOnly

\* Mutant: the error of the build is not looked at.
BuildReturnIgnoresError(x) == BuildReturns(x, TRUE)

\* The deferred os.Chdir, whose error nobody sees.
BuildReturn(x) == BuildReturns(x, h[x].result = "none")

SelectRepo(x) ==
    /\ At(x, "select")
    /\ \/ RepoRows(req[x].name) # {} /\ End(x, "exists")
       \/ (RepoRows(req[x].name) = {} \/ Fault("cut")) /\ Goto(x, "insert")
       \/ Fault("exec") /\ End(x, "error")
    /\ FilesOnly

InsertRepo(x) ==
    /\ At(x, "insert")
    /\ LET Insert == /\ repos' = Inserted(repos, [id |-> nextId, name |-> req[x].name])
                     /\ TakeId
       IN \/ Insert /\ h' = [h EXCEPT ![x].pc = "defs", ![x].coll = nextId,
                                       ![x].todo = h[x].descs]
          \/ Fault("exec") /\ End(x, "error") /\ (Insert \/ UNCHANGED <<repos, nextId>>)
    /\ UNCHANGED <<cwd, images, defs>> /\ RepoOnly

DefRow(x, c) == [id |-> nextId, coll |-> h[x].coll, entry |-> c]

\* The loop over modelDescs goes on with the first line that is left.
Earliest(todo) == {c \in todo : \A e \in todo : c[1] <= e[1]}

\* Mutant: the loop goes on when a statement has failed.
InsertDefIgnoresError(x) ==
    /\ At(x, "defs")
    /\ \/ h[x].todo = {} /\ End(x, "ok") /\ UNCHANGED <<defs, nextId>>
       \/ \E c \in Earliest(h[x].todo) :
            /\ h' = [h EXCEPT ![x].todo = @ \ {c}]
            /\ \/ RepoExists(h[x].coll) /\ defs' = Inserted(defs, DefRow(x, c)) /\ TakeId
               \/ Fault("exec") /\ UNCHANGED <<defs, nextId>>
    /\ UNCHANGED <<cwd, images, repos>> /\ RepoOnly

\* The loop over modelDescs, and SendAndClose.
InsertDef(x) ==
    /\ At(x, "defs")
    /\ \/ h[x].todo = {} /\ End(x, "ok") /\ UNCHANGED <<defs, nextId>>
       \/ \E c \in Earliest(h[x].todo) :
            LET Insert == /\ RepoExists(h[x].coll)
                          /\ defs' = Inserted(defs, DefRow(x, c)) /\ TakeId
            IN \/ Insert /\ h' = [h EXCEPT ![x].todo = @ \ {c}]
               \/ /\ ~RepoExists(h[x].coll) \/ Fault("exec")
                  /\ End(x, "error") /\ (Insert \/ UNCHANGED <<defs, nextId>>)
    /\ UNCHANGED <<cwd, images, repos>> /\ RepoOnly

-----------------------------------------------------------------------------
(* DropModelRepo. *)

FindRepo(x) ==
    /\ At(x, "find")
    /\ \/ \E r \in RepoRows(req[x].name) :
            h' = [h EXCEPT ![x].pc = "delete defs", ![x].coll = r.id]
       \/ (RepoRows(req[x].name) = {} \/ Fault("exec") \/ Fault("cut")) /\ End(x, "error")
    /\ FilesOnly

DeleteDefs(x) ==
    /\ At(x, "delete defs")
    /\ LET Delete == /\ ~DefsReferenced(h[x].coll)
                     /\ defs' = {d \in defs : d.coll # h[x].coll}
       IN \/ Delete /\ Goto(x, "delete repo")
          \/ /\ DefsReferenced(h[x].coll) \/ Fault("exec")
             /\ End(x, "error") /\ (Delete \/ UNCHANGED defs)
    /\ UNCHANGED <<cwd, images, repos, nextId>> /\ RepoOnly

\* Mutant: the row is deleted again until the statement succeeds.
DeleteRepoRetries(x) ==
    /\ At(x, "delete repo")
    /\ ~RepoReferenced(h[x].coll)
    /\ repos' = {r \in repos : r.id # h[x].coll}
    /\ End(x, "ok")
    /\ UNCHANGED <<cwd, images, defs, nextId>> /\ RepoOnly

DeleteRepo(x) ==
    /\ At(x, "delete repo")
    /\ LET Delete == /\ ~RepoReferenced(h[x].coll)
                     /\ repos' = {r \in repos : r.id # h[x].coll}
       IN \/ Delete /\ End(x, "ok")
          \/ /\ RepoReferenced(h[x].coll) \/ Fault("exec")
             /\ End(x, "error") /\ (Delete \/ UNCHANGED repos)
    /\ UNCHANGED <<cwd, images, defs, nextId>> /\ RepoOnly

-----------------------------------------------------------------------------
(* ReleaseModel and ReleaseModelFromLocal: the content is stored first.    *)

ModelOnly == UNCHANGED <<scenario, cwd, images, repos, defs>>

table(x) == TableOf[req[x].name]

\* A return after sqlfs.Create: the deferred sqlf.Close comes next.
Return(x, result) == h' = [h EXCEPT ![x].pc = "close", ![x].result = result]

\* sqlfs.Create: DROP TABLE IF EXISTS, CREATE TABLE IF NOT EXISTS.
DropTable(x) ==
    /\ At(x, "drop")
    /\ LET Drop == /\ tables' = tables \ {table(x)}
                   /\ blocks' = {b \in blocks : b.table # table(x)}
       IN \/ Drop /\ Goto(x, "create")
          \/ Fault("exec") /\ End(x, "error") /\ (Drop \/ UNCHANGED storage)
    /\ UNCHANGED <<server, models, nextId>> /\ ModelOnly

CreateTable(x) ==
    /\ At(x, "create")
    /\ LET Create == tables' = tables \cup {table(x)}
       IN \/ Create /\ Goto(x, "write")
          \/ Fault("exec") /\ End(x, "error") /\ (Create \/ UNCHANGED tables)
    /\ UNCHANGED <<server, models, nextId, blocks>> /\ ModelOnly

(***************************************************************************)
(* The content is written in rows, "head", as it comes; what is left in    *)
(* the buffer, "tail", is written by Close.  The rows are numbered from 0  *)
(* and the number is the primary key.                                      *)
(***************************************************************************)
Flush(x, part) ==
    /\ table(x) \in tables
    /\ ~\E b \in blocks : b.table = table(x) /\ b.part = part
    /\ blocks' = blocks \cup {[table |-> table(x), by |-> x, part |-> part]}

CannotFlush(x, part) ==
    \/ table(x) \notin tables
    \/ \E b \in blocks : b.table = table(x) /\ b.part = part
    \/ Fault("exec")

Write(x) ==
    /\ At(x, "write")
    /\ \/ Flush(x, "head") /\ Goto(x, "coll")
       \/ /\ CannotFlush(x, "head") /\ Return(x, "error")
          /\ Flush(x, "head") \/ UNCHANGED blocks
       \/ Fault("client") /\ req[x].op = "releaseLocal" /\ Goto(x, "spin") /\ UNCHANGED blocks
    /\ UNCHANGED <<server, models, nextId, tables>> /\ ModelOnly

\* ReleaseModelFromLocal refuses an image without a tag, after it has stored
\* the content.
CheckLocalImage(x) ==
    /\ At(x, "coll") /\ req[x].op = "releaseLocal"
    /\ req[x].tagged = "untagged" \/ Fault("exec")
    /\ Return(x, "error")
    /\ UNCHANGED <<server, models, nextId, storage>> /\ ModelOnly

\* ReleaseModel takes imageAndTag[1] without having looked; the deferred
\* Close runs before the panic ends the process.
SelectColl(x) ==
    /\ At(x, "coll")
    /\ \/ /\ req[x].tagged = "tagged"
          /\ \/ \E r \in RepoRows(req[x].repo) :
                  h' = [h EXCEPT ![x].pc = "def", ![x].coll = r.id]
             \/ /\ RepoRows(req[x].repo) = {} \/ Fault("exec") \/ Fault("cut")
                /\ Return(x, "error")
          /\ UNCHANGED <<server, blocks>>
       \/ /\ req[x].tagged = "untagged" /\ req[x].op = "releaseModel"
          /\ Panic /\ (Flush(x, "tail") \/ UNCHANGED blocks)
    /\ UNCHANGED <<models, nextId, tables>> /\ ModelOnly

DefSelected(x, rows) ==
    /\ At(x, "def")
    /\ \/ \E d \in rows : h' = [h EXCEPT ![x].pc = "model", ![x].def = d.id]
       \/ (rows = {} \/ Fault("exec") \/ Fault("cut")) /\ Return(x, "error")
    /\ UNCHANGED <<server, models, nextId, storage>> /\ ModelOnly

\* Mutant: the class is looked up in all repositories.
SelectDefAnywhere(x) == DefSelected(x, {d \in defs : ClassOf(d) = req[x].class})

SelectDef(x) ==
    DefSelected(x, {d \in defs : ClassOf(d) = req[x].class /\ d.coll = h[x].coll})

InsertModel(x) ==
    /\ At(x, "model")
    /\ LET Insert == /\ DefExists(h[x].def)
                     /\ models' = Inserted(models, [id |-> nextId, def |-> h[x].def,
                                                    name |-> req[x].name, by |-> x])
                     /\ TakeId
       IN \/ Insert /\ Return(x, "ok")
          \/ /\ ~DefExists(h[x].def) \/ Fault("exec")
             /\ Return(x, "error") /\ (Insert \/ UNCHANGED <<models, nextId>>)
    /\ UNCHANGED <<server, storage>> /\ ModelOnly

\* The error of the deferred Close is dropped.
Close(x) ==
    /\ At(x, "close")
    /\ Goto(x, "end")
    /\ Flush(x, "tail") \/ (CannotFlush(x, "tail") /\ UNCHANGED blocks)
    /\ UNCHANGED <<server, models, nextId, tables>> /\ ModelOnly

\* DropModel; the table stays.
DeleteModel(x) ==
    /\ At(x, "delete")
    /\ LET Delete == models' = {m \in models : m.name # req[x].name}
       IN \/ Delete /\ End(x, "ok")
          \/ Fault("exec") /\ End(x, "error") /\ (Delete \/ UNCHANGED models)
    /\ UNCHANGED <<server, nextId, storage>> /\ ModelOnly

-----------------------------------------------------------------------------
Handle(x) ==
    \/ Accept(x) \/ RecvAll(x) \/ RecvFirst(x)
    \/ imageExistsOnRegistry(x) \/ Unzip(x) \/ Getwd(x) \/ Chdir(x) \/ RunPython(x)
    \/ Restore(x) \/ Build(x) \/ Push(x) \/ BuildReturn(x)
    \/ SelectRepo(x) \/ InsertRepo(x) \/ InsertDef(x)
    \/ FindRepo(x) \/ DeleteDefs(x) \/ DeleteRepo(x)
    \/ DropTable(x) \/ CreateTable(x) \/ Write(x) \/ CheckLocalImage(x) \/ SelectColl(x)
    \/ SelectDef(x) \/ InsertModel(x) \/ Close(x) \/ DeleteModel(x)

Boot == BootSelect \/ BootInsertRepo \/ BootInsertDef

Next == Boot \/ Crash \/ Restart \/ \E x \in Handlers : Handle(x)

\* The process takes its steps while it runs: no handler waits for another.
Spec == Init /\ [][Next]_vars /\ WF_vars(Boot) /\ \A x \in Handlers : WF_vars(Handle(x))

-----------------------------------------------------------------------------
(* Properties. *)

Dirs == Handlers \cup {Home}

Pcs ==
    {"idle", "recv", "image", "unzip", "find", "delete defs", "delete repo", "drop", "create",
     "write", "coll", "def", "model", "close", "delete", "spin", "end"} \cup Unpacked

Results == {"none", "ok", "error", "exists", "noclasses", "lost"}

HandlerType ==
    [pc : Pcs, cwd : Dirs, descs : SUBSET Entries, todo : SUBSET Entries, coll : Nat, def : Nat,
     before : SUBSET Nat, result : Results]

ServerType ==
    [pc : {"start", "repo", "defs", "up", "down", "panicked"}, coll : Nat,
     todo : SUBSET DefaultEntries, starts : 1 .. env.starts]

TypeOK ==
    /\ [req |-> req, env |-> env] \in Scenarios
    /\ h \in [Handlers -> HandlerType]
    /\ server \in ServerType
    /\ cwd \in Dirs
    /\ registry \in [RepoNames -> Dirs \cup {NoImage}]
    /\ local \in [RepoNames -> Handlers \cup {NoImage}]
    /\ repos \subseteq [id : Nat, name : RepoNames]
    /\ defs \subseteq [id : Nat, coll : Nat, entry : Entries \cup DefaultEntries]
    /\ models \subseteq [id : Nat, def : Nat, name : ModelNames, by : Handlers]
    /\ nextId \in Nat \ {0}
    /\ tables \subseteq Tables
    /\ blocks \subseteq [table : Tables, by : Handlers, part : {"head", "tail"}]

(***************************************************************************)
(* A repository that users are shown has an image they can pull: whatever  *)
(* fails on the way, ReleaseModelRepo writes its rows after the push, and  *)
(* boot writes only those of the default image.                            *)
(***************************************************************************)
ReposHaveImages == \A r \in repos : registry[r.name] # NoImage

(***************************************************************************)
(* A released model is listed under the class and the repository it was    *)
(* trained with, although other handlers drop and add definitions between  *)
(* the three statements that look them up and insert the row.              *)
(***************************************************************************)
ModelsAttributed ==
    \A m \in models : \E d \in defs, r \in repos :
        /\ d.id = m.def /\ ClassOf(d) = req[m.by].class
        /\ r.id = d.coll /\ r.name = req[m.by].repo

(***************************************************************************)
(* What makes ModelsAttributed inductive: ids are new and not used again,  *)
(* the foreign keys hold, and the ids a handler has read still mean what   *)
(* they meant, whatever has been deleted since.                            *)
(***************************************************************************)
IdsUsed ==
    /\ \A r \in repos : r.id < nextId
    /\ \A d \in defs : d.id < nextId
    /\ \A r, s \in repos : r.id = s.id => r = s
    /\ \A d, e \in defs : d.id = e.id => d = e

ForeignKeys ==
    /\ \A d \in defs : RepoExists(d.coll)
    /\ \A m \in models : DefExists(m.def)
    /\ server.pc = "defs" => RepoExists(server.coll)

CollRead(x) ==
    h[x].coll < nextId /\ \A r \in repos : r.id = h[x].coll => r.name = req[x].repo

DefRead(x) ==
    /\ h[x].def < nextId
    /\ \A d \in defs : d.id = h[x].def => ClassOf(d) = req[x].class /\ d.coll = h[x].coll

RowsMeant ==
    \A m \in models : \A d \in defs : d.id = m.def =>
        /\ ClassOf(d) = req[m.by].class
        /\ \A r \in repos : r.id = d.coll => r.name = req[m.by].repo

AttributionInv ==
    /\ IdsUsed /\ ForeignKeys /\ RowsMeant
    /\ \A x \in Handlers :
         /\ h[x].pc \in {"def", "model"} => CollRead(x)
         /\ h[x].pc = "model" => DefRead(x)

\* The requests to drop a repository that have found the row with this id.
Droppers(coll) == {y \in Handlers : req[y].op = "dropRepo" /\ h[y].coll = coll}

(***************************************************************************)
(* When ReleaseModelRepo answers success, the repository and each class    *)
(* that was printed are listed, unless somebody has begun to drop it.      *)
(***************************************************************************)
ReleaseOkMeansListed ==
    \A x \in Handlers :
        /\ req[x].op = "releaseRepo" /\ h[x].result = "ok"
        /\ Droppers(h[x].coll) = {}
        => /\ [id |-> h[x].coll, name |-> req[x].name] \in repos
           /\ {d.entry : d \in {e \in defs : e.coll = h[x].coll}} = h[x].descs

(***************************************************************************)
(* A repository that was listed when a request to release it arrived, and  *)
(* that nobody has dropped since, is not released again, whether or not    *)
(* the registry could be asked.                                            *)
(***************************************************************************)
ExistingRefused ==
    \A x \in Handlers :
        req[x].op = "releaseRepo" /\ h[x].result = "ok" /\ "cut" \notin env.faults
        => h[x].before \cap {r.id : r \in repos} = {}

(***************************************************************************)
(* When DropModelRepo answers success, nothing of the repository it found  *)
(* is left, also when a release was adding definitions to it meanwhile.    *)
(***************************************************************************)
DropOkMeansGone ==
    \A x \in Handlers :
        req[x].op = "dropRepo" /\ h[x].result = "ok"
        => /\ \A r \in repos : r.id # h[x].coll
           /\ \A d \in defs : d.coll # h[x].coll

(***************************************************************************)
(* However often the server is killed and started, the default repository  *)
(* is listed at most once, as long as no result of the look-up is cut      *)
(* short and no two requests release it (they may both find nothing, and   *)
(* both insert).  No line that was printed is listed twice, and a class is *)
(* there twice only where it was printed twice, which an alias does        *)
(* (get_model_classes.go:32): what boot lists is in a repository of its    *)
(* own, with each class once.  It may stay incomplete: a server that was   *)
(* killed between two of the inserts finds the repository when it starts   *)
(* again, and adds nothing.                                                *)
(***************************************************************************)
ReleasesDefault(x) == req[x].op = "releaseRepo" /\ req[x].name = DefaultRepo

OneRelease == \A x, y \in Handlers : ReleasesDefault(x) /\ ReleasesDefault(y) => x = y

DefaultsOnce ==
    /\ "cut" \notin env.faults /\ OneRelease => \A r, s \in RepoRows(DefaultRepo) : r = s
    /\ \A d, e \in defs : d.coll = e.coll /\ d.entry = e.entry => d = e
    /\ \A d, e \in defs : d.coll = e.coll /\ d.entry[1] = 0 => e.entry[1] = 0

(***************************************************************************)
(* No handler gets stuck: a request that was accepted is answered, or the  *)
(* server dies, when clients do not go away and images are built by Docker *)
(* (the loops around Recv and the pipe to Kaniko have no other way out).   *)
(***************************************************************************)
HandlersEnd ==
    \A x \in Handlers :
        h[x].pc # "idle" /\ "client" \notin env.faults /\ env.builder = "docker" ~> h[x].pc = "end"

ModelRelease(x) == req[x].op \in {"releaseModel", "releaseLocal"}

(***************************************************************************)
(* When no statement fails and nobody else writes to its table, a model    *)
(* released with success is stored to the last block, although the last    *)
(* one is written after its row was inserted.                              *)
(***************************************************************************)
SuccessMeansStored ==
    \A x \in Handlers :
        /\ ModelRelease(x) /\ h[x].pc = "end" /\ h[x].result = "ok" /\ ~Fault("exec")
        /\ \A y \in Handlers \ {x} : ModelRelease(y) /\ table(y) = table(x) => h[y].pc = "idle"
        => {b.part : b \in {c \in blocks : c.table = table(x) /\ c.by = x}} = {"head", "tail"}

(***************************************************************************)
(* "no model classes detected" (modelzooserver.go:253) is said of a        *)
(* repository without classes, as long as no other release has been in the *)
(* process: releases share its working directory, and one whose Python     *)
(* failed leaves it in a directory that is then removed.                   *)
(***************************************************************************)
RefusalIsTrue ==
    \A x \in Handlers :
        /\ h[x].result = "noclasses" /\ ~Fault("exec")
        /\ \A y \in Handlers \ {x} : req[y].op = "releaseRepo" => h[y].pc = "idle"
        => req[x].classes = <<>>

-----------------------------------------------------------------------------
(* What the answers and the catalogue rest on. *)

\* The states a request of each kind goes through.
Storing == {"drop", "create", "write", "coll", "def", "model", "close"}
Places ==
    [releaseRepo |-> {"recv", "spin", "image", "unzip"} \cup Unpacked,
     dropRepo |-> {"find", "delete defs", "delete repo"},
     releaseModel |-> Storing,
     releaseLocal |-> {"recv", "spin"} \cup Storing,
     dropModel |-> {"delete"},
     none |-> {}]

\* A handler runs only while the server is up, is where its request takes
\* it, and has an answer when it returns.
OnItsWay ==
    \A x \in Handlers :
        /\ h[x].pc \in Places[req[x].op] \cup {"idle", "end"}
        /\ server.pc # "up" => h[x].pc \in {"idle", "end"}
        /\ h[x].pc = "idle" => h[x] = NewHandler
        /\ h[x].result # "none" => h[x].pc \in {"build return", "close", "end"}
        /\ h[x].pc = "build return" => h[x].result \in {"none", "error"}
        /\ h[x].pc = "close" => h[x].result \in {"ok", "error"}

\* The image is pushed, or on its way, before the repository is listed.
ImageFirst ==
    /\ registry[DefaultRepo] # NoImage
    /\ \A x \in Handlers :
         /\ h[x].pc \in {"select", "insert"} => registry[req[x].name] # NoImage
         /\ h[x].pc = "push" => local[req[x].name] # NoImage
         /\ h[x].pc = "build return" /\ h[x].result = "none" => registry[req[x].name] # NoImage

\* The ids that handlers and the server hold are ids of earlier rows.
IdsHeld ==
    /\ server.pc = "defs" => server.coll \in 1 .. nextId - 1
    /\ \A r \in repos : r.id > 0
    /\ \A x \in Handlers :
         /\ h[x].coll < nextId /\ \A i \in h[x].before : i < nextId
         /\ h[x].pc = "find" => h[x].coll = 0

\* A release that has inserted its row owns it: nobody else inserts
\* definitions there, and the lines it has yet to insert are not there.
Owner(x) == req[x].op = "releaseRepo" /\ h[x].coll # 0
Listing(x) == Owner(x) /\ (h[x].pc = "defs" \/ h[x].result = "ok")
EntriesOf(coll) == {d.entry : d \in {e \in defs : e.coll = coll}}
OwnersApart ==
    \A x, y \in Handlers : Owner(x) /\ Owner(y) /\ h[x].coll = h[y].coll => x = y
ServerOwns ==
    server.pc = "defs" =>
        /\ \A x \in Handlers : Owner(x) => h[x].coll # server.coll
        /\ EntriesOf(server.coll) \cap server.todo = {}
        /\ EntriesOf(server.coll) \subseteq DefaultEntries
Owned(x) ==
    /\ h[x].pc = "defs" \/ (req[x].op = "releaseRepo" /\ h[x].result = "ok") => Owner(x)
    /\ Listing(x) =>
         /\ EntriesOf(h[x].coll) \cap h[x].todo = {} /\ h[x].todo \subseteq h[x].descs
         /\ EntriesOf(h[x].coll) \subseteq h[x].descs
         /\ h[x].result = "ok" => h[x].todo = {}
         /\ Droppers(h[x].coll) = {} =>
              /\ [id |-> h[x].coll, name |-> req[x].name] \in repos
              /\ EntriesOf(h[x].coll) = h[x].descs \ h[x].todo
OwnRows == OwnersApart /\ ServerOwns /\ \A x \in Handlers : Owned(x)

\* A repository that has been dropped does not come back, and one that was
\* there before a release is not there when the release inserts its row.
GoneStaysGone ==
    \A x \in Handlers :
        /\ req[x].op = "dropRepo" /\ h[x].result = "ok" => ~RepoExists(h[x].coll)
        /\ req[x].op = "releaseRepo" =>
             /\ \A r \in repos : r.id \in h[x].before => r.name = req[x].name
             /\ "cut" \notin env.faults /\ (h[x].pc \in {"insert", "defs"} \/ h[x].result = "ok") =>
                  \A r \in repos : r.id \notin h[x].before

\* The default repository is inserted only while it is not there.
DefaultAbsent ==
    "cut" \notin env.faults /\ OneRelease =>
        /\ server.pc = "repo" => RepoRows(DefaultRepo) = {}
        /\ \A x \in Handlers :
             ReleasesDefault(x) /\ h[x].pc = "insert" => RepoRows(DefaultRepo) = {}

\* How much of its model a release has stored while it is alone with its
\* table.
AloneWithTable(x) ==
    /\ ModelRelease(x) /\ ~Fault("exec")
    /\ \A y \in Handlers \ {x} : ModelRelease(y) /\ table(y) = table(x) => h[y].pc = "idle"
Block(x, part) == [table |-> table(x), by |-> x, part |-> part]
StoredSoFar(x) == {b \in blocks : b.table = table(x)}
Storage ==
    \A x \in Handlers : AloneWithTable(x) =>
        /\ h[x].pc \in {"create", "write"} => StoredSoFar(x) = {}
        /\ h[x].pc \in Storing \ {"drop", "create"} => table(x) \in tables
        /\ h[x].pc \in {"coll", "def", "model"} \/ (h[x].pc = "close" /\ h[x].result = "ok") =>
             StoredSoFar(x) = {Block(x, "head")}
        /\ h[x].pc = "end" /\ h[x].result = "ok" =>
             StoredSoFar(x) = {Block(x, "head"), Block(x, "tail")}

\* The working directory while only one release has been in the process.
AloneInProcess(x) ==
    /\ req[x].op = "releaseRepo" /\ ~Fault("exec")
    /\ \A y \in Handlers \ {x} : req[y].op = "releaseRepo" => h[y].pc = "idle"
WorkingDirectory ==
    \A x \in Handlers :
        /\ h[x].result = "noclasses" => req[x].op = "releaseRepo"
        /\ AloneInProcess(x) =>
             /\ h[x].pc \in {"idle", "recv", "image", "unzip", "getwd", "chdir"} => cwd = Home
             /\ h[x].pc \in {"python", "restore"} => cwd = x
             /\ h[x].pc \in {"chdir", "python", "restore"} => h[x].cwd = Home
             /\ h[x].pc = "restore" => h[x].descs = Printed(x)
             /\ h[x].result = "noclasses" => req[x].classes = <<>>

(***************************************************************************)
(* What users can see is consistent at any time, whoever is in the middle  *)
(* of a release or a drop and however often the server was killed: each    *)
(* repository has its image, and the default one is there once.            *)
(***************************************************************************)
CatalogueConsistent ==
    /\ TypeOK /\ ReposHaveImages /\ DefaultsOnce
    /\ OnItsWay /\ ImageFirst /\ IdsHeld /\ OwnRows /\ DefaultAbsent

(***************************************************************************)
(* The answers of the server are true: what it says is released is listed  *)
(* and stored, what it says is dropped is gone, a name that was taken is   *)
(* not released again, and what it says has no classes has none.           *)
(***************************************************************************)
AnswersAreTrue ==
    /\ ReleaseOkMeansListed /\ SuccessMeansStored
    /\ DropOkMeansGone /\ ExistingRefused /\ RefusalIsTrue
    /\ GoneStaysGone /\ Storage /\ WorkingDirectory
=============================================================================
