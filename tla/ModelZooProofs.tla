--------------------------- MODULE ModelZooProofs ---------------------------
(***************************************************************************)
(* Proofs about ModelZoo, for any set of handlers, requests and names: the *)
(* rows mean what they were inserted for, the catalogue agrees with the    *)
(* images and the defaults, and what is answered is so.                    *)
(***************************************************************************)
EXTENDS ModelZoo, SequenceTheorems, TLAPS

\* A step is one of these.
LEMMA NextCases ==
    ASSUME Next
    PROVE  \/ BootSelect \/ BootInsertRepo \/ BootInsertDef \/ Crash \/ Restart
           \/ \E x \in Handlers : Handle(x)
BY DEF Next, Boot

-----------------------------------------------------------------------------
(* Steps of a handler.  Of the types only what the proof needs: the        *)
(* handlers and the server are records, and ids are numbers.               *)

HandlerShape ==
    /\ DOMAIN h = Handlers
    /\ \A x \in Handlers : {"pc", "coll", "def"} \subseteq DOMAIN h[x]

ServerShape == {"pc", "coll"} \subseteq DOMAIN server

\* Handler x has gone to p; the others stay.
Moves(x, p) ==
    /\ HandlerShape'
    /\ h'[x].pc = p
    /\ \A y \in Handlers \ {x} : h'[y] = h[y]

\* To go on,
LEMMA GotoMoves ==
    ASSUME HandlerShape, NEW x \in Handlers, NEW p, Goto(x, p)
    PROVE  Moves(x, p)
BY DEF HandlerShape, Moves, Goto

\* to end,
LEMMA EndMoves ==
    ASSUME HandlerShape, NEW x \in Handlers, NEW r, End(x, r)
    PROVE  Moves(x, "end")
BY DEF HandlerShape, Moves, End

\* to return
LEMMA ReturnMoves ==
    ASSUME HandlerShape, NEW x \in Handlers, NEW r, Return(x, r)
    PROVE  Moves(x, "close")
BY DEF HandlerShape, Moves, Return

\* and to give up a build concern only the handler.
LEMMA BuildFailsMoves ==
    ASSUME HandlerShape, NEW x \in Handlers, BuildFails(x)
    PROVE  Moves(x, "build return")
BY DEF HandlerShape, Moves, BuildFails

\* No handler comes to a state in which it relies on the ids it has read.
Quiet ==
    /\ HandlerShape'
    /\ \A y \in Handlers : h'[y].pc \in {"def", "model"} => h'[y] = h[y]

\* Such a step brings no handler to rely on ids it has read.
LEMMA MovesQuiet ==
    ASSUME NEW x \in Handlers, NEW p, p \notin {"def", "model"}, Moves(x, p)
    PROVE  Quiet
BY DEF Quiet, Moves

\* Nor does a process that dies.
LEMMA LostQuiet ==
    ASSUME HandlerShape, h' = Lost(h)
    PROVE  Quiet
BY DEF Quiet, Lost, HandlerShape

-----------------------------------------------------------------------------
(* The effect of each statement on the inductive invariant. *)

IdTypes ==
    /\ nextId \in Nat
    /\ \A r \in repos : r.id \in Nat
    /\ \A d \in defs : d.id \in Nat
    /\ \A x \in Handlers : h[x].pc \in {"def", "model"} => h[x].coll \in Nat
    /\ \A x \in Handlers : h[x].pc = "model" => h[x].def \in Nat

Inv == HandlerShape /\ ServerShape /\ (\E s \in Scenarios : req = s.req) /\ IdTypes /\ AttributionInv

ServerQuiet == ServerShape' /\ (server'.pc = "defs" => server.pc = "defs" /\ server'.coll = server.coll)

\* The steps that touch no row keep the invariant.
LEMMA NoStatement ==
    ASSUME Inv, Quiet, ServerQuiet, UNCHANGED <<req, repos, defs, models, nextId>>
    PROVE  Inv'
BY DEF Inv, Quiet, ServerQuiet, IdTypes, AttributionInv, IdsUsed, ForeignKeys, RowsMeant, CollRead,
   DefRead, RepoExists, DefExists

\* A repository is inserted.
LEMMA RepoInserted ==
    ASSUME Inv, Quiet, NEW n,
           repos' = Inserted(repos, [id |-> nextId, name |-> n]), TakeId,
           UNCHANGED <<req, defs, models>>,
           ServerShape', server'.pc = "defs" => server'.coll = nextId \/ server' = server
    PROVE  Inv'
<1> USE DEF Inv, Quiet, AttributionInv, Inserted, TakeId
<1>1. IdTypes'
  BY DEF IdTypes
<1>2. IdsUsed'
  BY DEF IdTypes, IdsUsed
<1>3. ForeignKeys'
  <2> DEFINE row == [id |-> nextId, name |-> n]
  <2>1. \E r \in repos' : r.id = nextId
    <3>1. row.id = nextId /\ row \in repos'
      OBVIOUS
    <3> HIDE DEF row
    <3>2. QED
      BY <3>1
  <2>2. ASSUME NEW c, \E r \in repos : r.id = c PROVE \E r \in repos' : r.id = c
    BY <2>2
  <2>3. server'.pc = "defs" => \E r \in repos' : r.id = server'.coll
    BY <2>1, <2>2 DEF ForeignKeys, RepoExists
  <2>4. \A d \in defs : \E r \in repos' : r.id = d.coll
    BY <2>2 DEF ForeignKeys, RepoExists
  <2>5. QED
    BY <2>3, <2>4 DEF ForeignKeys, RepoExists, DefExists
<1>4. RowsMeant'
  BY DEF RowsMeant, IdTypes, IdsUsed, ForeignKeys, RepoExists
<1>5. ASSUME NEW x \in Handlers
      PROVE  /\ h'[x].pc \in {"def", "model"} => CollRead(x)'
             /\ h'[x].pc = "model" => DefRead(x)'
  BY DEF CollRead, DefRead, IdTypes
<1>6. QED
  BY <1>1, <1>2, <1>3, <1>4, <1>5

\* A definition is inserted.
LEMMA DefInserted ==
    ASSUME Inv, Quiet, ServerQuiet, NEW coll, NEW c, RepoExists(coll),
           defs' = Inserted(defs, [id |-> nextId, coll |-> coll, entry |-> c]), TakeId,
           UNCHANGED <<req, repos, models>>
    PROVE  Inv'
<1> USE DEF Inv, Quiet, ServerQuiet, AttributionInv, Inserted, TakeId
<1>1. IdTypes'
  BY DEF IdTypes
<1>2. IdsUsed'
  BY DEF IdTypes, IdsUsed
<1>3. ForeignKeys'
  BY DEF ForeignKeys, RepoExists, DefExists
<1>4. RowsMeant'
  BY DEF RowsMeant, IdTypes, IdsUsed, ForeignKeys, DefExists
<1>5. ASSUME NEW x \in Handlers
      PROVE  /\ h'[x].pc \in {"def", "model"} => CollRead(x)'
             /\ h'[x].pc = "model" => DefRead(x)'
  BY DEF CollRead, DefRead, IdTypes
<1>6. QED
  BY <1>1, <1>2, <1>3, <1>4, <1>5

\* Rows are deleted.
LEMMA RowsDeleted ==
    ASSUME Inv, Quiet, ServerShape', server'.pc # "defs",
           repos' \subseteq repos, defs' \subseteq defs, models' \subseteq models,
           \A d \in defs' : RepoExists(d.coll)', \A m \in models' : DefExists(m.def)',
           UNCHANGED <<req, nextId>>
    PROVE  Inv'
<1> USE DEF Inv, Quiet, AttributionInv
<1>1. IdTypes'
  BY DEF IdTypes
<1>2. IdsUsed'
  BY DEF IdsUsed
<1>3. ForeignKeys'
  BY DEF ForeignKeys
<1>4. RowsMeant'
  BY DEF RowsMeant
<1>5. ASSUME NEW x \in Handlers
      PROVE  /\ h'[x].pc \in {"def", "model"} => CollRead(x)'
             /\ h'[x].pc = "model" => DefRead(x)'
  BY DEF CollRead, DefRead
<1>6. QED
  BY <1>1, <1>2, <1>3, <1>4, <1>5

\* A model is inserted.
LEMMA ModelInserted ==
    ASSUME Inv, Quiet, ServerQuiet, NEW x \in Handlers, h[x].pc = "model", DefExists(h[x].def), NEW n,
           models' = Inserted(models, [id |-> nextId, def |-> h[x].def, name |-> n, by |-> x]), TakeId,
           UNCHANGED <<req, repos, defs>>
    PROVE  Inv'
<1> USE DEF Inv, Quiet, ServerQuiet, AttributionInv, Inserted, TakeId
<1>1. IdTypes'
  BY DEF IdTypes
<1>2. IdsUsed'
  BY DEF IdTypes, IdsUsed
<1>3. ForeignKeys'
  BY DEF ForeignKeys, RepoExists, DefExists
<1>4. RowsMeant'
  BY DEF RowsMeant, CollRead, DefRead
<1>5. ASSUME NEW y \in Handlers
      PROVE  /\ h'[y].pc \in {"def", "model"} => CollRead(y)'
             /\ h'[y].pc = "model" => DefRead(y)'
  BY DEF CollRead, DefRead, IdTypes
<1>6. QED
  BY <1>1, <1>2, <1>3, <1>4, <1>5

-----------------------------------------------------------------------------
(* The actions of a handler. *)

\* A request is for one of the operations.
LEMMA Operations ==
    ASSUME \E s \in Scenarios : req = s.req, NEW x \in Handlers
    PROVE  req[x].op \in {"releaseRepo", "dropRepo", "releaseModel", "releaseLocal", "dropModel",
                        "none"}
<1>1. req[x] \in Requests
  BY ModelZooAssumption
<1>2. QED
  BY <1>1 DEF Requests

\* The steps between the statements on the tables of the zoo.
LEMMA OtherSteps ==
    ASSUME Inv, NEW x \in Handlers,
           \/ Accept(x) \/ RecvAll(x) \/ RecvFirst(x)
           \/ imageExistsOnRegistry(x) \/ Unzip(x) \/ Getwd(x) \/ Chdir(x) \/ RunPython(x)
           \/ Restore(x) \/ Build(x) \/ Push(x) \/ BuildReturn(x)
           \/ SelectRepo(x) \/ FindRepo(x) \/ DropTable(x) \/ CreateTable(x) \/ Write(x)
           \/ CheckLocalImage(x) \/ Close(x)
    PROVE  Inv'
<1> DEFINE Still == UNCHANGED <<req, repos, defs, models, nextId>> /\ ServerQuiet
<1> USE MovesQuiet DEF Inv, At, ServerShape, ServerQuiet, scenario, database, storage, HandlerOnly,
      RepoOnly, FilesOnly, ModelOnly
<1>1. CASE Accept(x)
  <2>1. Quiet
    <3>1. CASE End(x, "error")
      BY <3>1, EndMoves
    <3>2. ASSUME NEW b, h' = [h EXCEPT ![x].pc = First[req[x].op], ![x].before = b]
          PROVE  Quiet
      <4>1. First[req[x].op] \notin {"def", "model"}
        BY <1>1, Operations DEF Accept, First
      <4>2. QED
        BY <3>2, <4>1 DEF HandlerShape, Quiet
    <3>3. QED
      BY <1>1, <3>1, <3>2 DEF Accept
  <2>2. Still
    BY <1>1 DEF Accept
  <2>3. QED
    BY <2>1, <2>2, NoStatement
<1>2. CASE RecvAll(x)
  <2>1. Quiet
    BY <1>2, GotoMoves, EndMoves DEF RecvAll
  <2>2. Still
    BY <1>2 DEF RecvAll
  <2>3. QED
    BY <2>1, <2>2, NoStatement
<1>3. CASE RecvFirst(x)
  <2>1. Quiet
    BY <1>3, GotoMoves, EndMoves, LostQuiet DEF RecvFirst, Panic
  <2>2. Still
    BY <1>3 DEF RecvFirst, Panic
  <2>3. QED
    BY <2>1, <2>2, NoStatement
<1>4. CASE imageExistsOnRegistry(x)
  <2>1. Quiet
    BY <1>4, GotoMoves, EndMoves DEF imageExistsOnRegistry
  <2>2. Still
    BY <1>4 DEF imageExistsOnRegistry
  <2>3. QED
    BY <2>1, <2>2, NoStatement
<1>5. CASE Unzip(x)
  <2>1. Quiet
    BY <1>5, GotoMoves, EndMoves DEF Unzip
  <2>2. Still
    BY <1>5 DEF Unzip
  <2>3. QED
    BY <2>1, <2>2, NoStatement
<1>6. CASE Chdir(x)
  <2>1. Quiet
    BY <1>6, GotoMoves DEF Chdir
  <2>2. Still
    BY <1>6 DEF Chdir
  <2>3. QED
    BY <2>1, <2>2, NoStatement
<1>7. CASE Restore(x)
  <2>1. Quiet
    BY <1>7, GotoMoves, EndMoves DEF Restore
  <2>2. Still
    BY <1>7 DEF Restore
  <2>3. QED
    BY <2>1, <2>2, NoStatement
<1>8. CASE Build(x)
  <2>1. Quiet
    BY <1>8, GotoMoves, BuildFailsMoves DEF Build
  <2>2. Still
    BY <1>8 DEF Build
  <2>3. QED
    BY <2>1, <2>2, NoStatement
<1>9. CASE Push(x)
  <2>1. Quiet
    BY <1>9, GotoMoves, BuildFailsMoves DEF Push
  <2>2. Still
    BY <1>9 DEF Push
  <2>3. QED
    BY <2>1, <2>2, NoStatement
<1>10. CASE BuildReturn(x)
  <2>1. Quiet
    BY <1>10, GotoMoves, EndMoves DEF BuildReturn, BuildReturns
  <2>2. Still
    BY <1>10 DEF BuildReturn, BuildReturns
  <2>3. QED
    BY <2>1, <2>2, NoStatement
<1>11. CASE SelectRepo(x)
  <2>1. Quiet
    BY <1>11, GotoMoves, EndMoves DEF SelectRepo
  <2>2. Still
    BY <1>11 DEF SelectRepo
  <2>3. QED
    BY <2>1, <2>2, NoStatement
<1>12. CASE DropTable(x)
  <2>1. Quiet
    BY <1>12, GotoMoves, EndMoves DEF DropTable
  <2>2. Still
    BY <1>12 DEF DropTable
  <2>3. QED
    BY <2>1, <2>2, NoStatement
<1>13. CASE CreateTable(x)
  <2>1. Quiet
    BY <1>13, GotoMoves, EndMoves DEF CreateTable
  <2>2. Still
    BY <1>13 DEF CreateTable
  <2>3. QED
    BY <2>1, <2>2, NoStatement
<1>14. CASE Write(x)
  <2>1. Quiet
    BY <1>14, GotoMoves, ReturnMoves DEF Write
  <2>2. Still
    BY <1>14 DEF Write
  <2>3. QED
    BY <2>1, <2>2, NoStatement
<1>15. CASE Close(x)
  <2>1. Quiet
    BY <1>15, GotoMoves DEF Close
  <2>2. Still
    BY <1>15 DEF Close
  <2>3. QED
    BY <2>1, <2>2, NoStatement
<1>16. CASE Getwd(x)
  <2>1. Quiet
    BY <1>16, EndMoves DEF Getwd, Quiet, HandlerShape
  <2>2. Still
    BY <1>16 DEF Getwd
  <2>3. QED
    BY <2>1, <2>2, NoStatement
<1>17. CASE RunPython(x)
  <2>1. Quiet
    BY <1>17, EndMoves DEF RunPython, Quiet, HandlerShape
  <2>2. Still
    BY <1>17 DEF RunPython
  <2>3. QED
    BY <2>1, <2>2, NoStatement
<1>18. CASE FindRepo(x)
  <2>1. Quiet
    BY <1>18, EndMoves DEF FindRepo, Quiet, HandlerShape
  <2>2. Still
    BY <1>18 DEF FindRepo
  <2>3. QED
    BY <2>1, <2>2, NoStatement
<1>19. CASE CheckLocalImage(x)
  <2>1. Quiet
    BY <1>19, ReturnMoves DEF CheckLocalImage
  <2>2. Still
    BY <1>19 DEF CheckLocalImage
  <2>3. QED
    BY <2>1, <2>2, NoStatement
<1>20. QED
  BY <1>1, <1>2, <1>3, <1>4, <1>5, <1>6, <1>7, <1>8, <1>9, <1>10, <1>11,
     <1>12, <1>13, <1>14, <1>15, <1>16, <1>17, <1>18, <1>19

\* The statements of repositories and definitions.
LEMMA RepoStatements ==
    ASSUME Inv, NEW x \in Handlers,
           InsertRepo(x) \/ InsertDef(x) \/ DeleteDefs(x) \/ DeleteRepo(x)
    PROVE  Inv'
<1> USE MovesQuiet DEF Inv, At, RepoOnly, HandlerOnly, scenario
<1>1. CASE InsertRepo(x)
  <2>1. Quiet
    BY <1>1, EndMoves DEF InsertRepo, Quiet, HandlerShape
  <2>2. /\ UNCHANGED <<req, defs, models, server>>
        /\ \/ repos' = Inserted(repos, [id |-> nextId, name |-> req[x].name]) /\ TakeId
           \/ UNCHANGED <<repos, nextId>>
    BY <1>1 DEF InsertRepo
  <2>3. QED
    BY <2>1, <2>2, NoStatement, RepoInserted DEF ServerQuiet, ServerShape
<1>2. CASE InsertDef(x)
  <2>1. Quiet
    BY <1>2, EndMoves DEF InsertDef, Quiet, HandlerShape
  <2>2. /\ UNCHANGED <<req, repos, models, server>>
        /\ \/ UNCHANGED <<defs, nextId>>
           \/ \E c \in Earliest(h[x].todo) :
                 RepoExists(h[x].coll) /\ defs' = Inserted(defs, DefRow(x, c)) /\ TakeId
    BY <1>2 DEF InsertDef
  <2>3. QED
    BY <2>1, <2>2, NoStatement, DefInserted DEF ServerQuiet, ServerShape, DefRow
<1>3. CASE DeleteDefs(x)
  <2>1. Quiet
    BY <1>3, GotoMoves, EndMoves DEF DeleteDefs
  <2>2. /\ UNCHANGED <<req, repos, models, nextId, server>> /\ server.pc = "up"
        /\ \/ UNCHANGED defs
           \/ ~DefsReferenced(h[x].coll) /\ defs' = {d \in defs : d.coll # h[x].coll}
    BY <1>3 DEF DeleteDefs
  <2>3. CASE UNCHANGED defs
    BY <2>1, <2>2, <2>3, NoStatement DEF ServerQuiet, ServerShape
  <2>4. CASE ~DefsReferenced(h[x].coll) /\ defs' = {d \in defs : d.coll # h[x].coll}
    <3>1. \A d \in defs' : RepoExists(d.coll)'
      BY <2>2, <2>4 DEF AttributionInv, ForeignKeys, RepoExists
    <3>2. \A m \in models' : DefExists(m.def)'
      BY <2>2, <2>4 DEF AttributionInv, ForeignKeys, DefExists, DefsReferenced
    <3>3. QED
      BY <2>1, <2>2, <2>4, <3>1, <3>2, RowsDeleted DEF ServerShape
  <2>5. QED
    BY <2>2, <2>3, <2>4
<1>4. CASE DeleteRepo(x)
  <2>1. Quiet
    BY <1>4, EndMoves DEF DeleteRepo
  <2>2. /\ UNCHANGED <<req, defs, models, nextId, server>> /\ server.pc = "up"
        /\ \/ UNCHANGED repos
           \/ ~RepoReferenced(h[x].coll) /\ repos' = {r \in repos : r.id # h[x].coll}
    BY <1>4 DEF DeleteRepo
  <2>3. CASE UNCHANGED repos
    BY <2>1, <2>2, <2>3, NoStatement DEF ServerQuiet, ServerShape
  <2>4. CASE ~RepoReferenced(h[x].coll) /\ repos' = {r \in repos : r.id # h[x].coll}
    <3>1. \A d \in defs' : RepoExists(d.coll)'
      BY <2>2, <2>4 DEF AttributionInv, ForeignKeys, RepoExists, RepoReferenced
    <3>2. \A m \in models' : DefExists(m.def)'
      BY <2>2, <2>4 DEF AttributionInv, ForeignKeys, DefExists
    <3>3. QED
      BY <2>1, <2>2, <2>4, <3>1, <3>2, RowsDeleted DEF ServerShape
  <2>5. QED
    BY <2>2, <2>3, <2>4
<1>5. QED
  BY <1>1, <1>2, <1>3, <1>4

\* The statements of models.
LEMMA ModelStatements ==
    ASSUME Inv, NEW x \in Handlers,
           SelectColl(x) \/ SelectDef(x) \/ InsertModel(x) \/ DeleteModel(x)
    PROVE  Inv'
<1> USE MovesQuiet DEF Inv, At, ModelOnly, scenario
<1>1. CASE SelectColl(x)
  <2>1. UNCHANGED <<req, repos, defs, models, nextId>> /\ ServerQuiet
    BY <1>1 DEF SelectColl, Panic, ServerQuiet, ServerShape
  <2>2. CASE Quiet
    BY <2>1, <2>2, NoStatement
  <2>3. ASSUME NEW r \in repos, r.name = req[x].repo,
               h' = [h EXCEPT ![x].pc = "def", ![x].coll = r.id]
        PROVE  Inv'
    <3>1. HandlerShape' /\ h'[x].pc = "def" /\ h'[x].coll = r.id
          /\ \A y \in Handlers \ {x} : h'[y] = h[y]
      BY <2>3 DEF HandlerShape
    <3>2. IdTypes' /\ IdsUsed' /\ ForeignKeys' /\ RowsMeant'
      BY <2>1, <3>1 DEF IdTypes, AttributionInv, IdsUsed, ForeignKeys, RowsMeant, RepoExists,
         DefExists, ServerQuiet
    <3>3. CollRead(x)'
      BY <2>1, <2>3, <3>1 DEF CollRead, AttributionInv, IdsUsed
    <3>4. ASSUME NEW y \in Handlers \ {x}
          PROVE  /\ h'[y].pc \in {"def", "model"} => CollRead(y)'
                 /\ h'[y].pc = "model" => DefRead(y)'
      BY <2>1, <3>1 DEF AttributionInv, CollRead, DefRead
    <3>5. QED
      BY <2>1, <3>1, <3>2, <3>3, <3>4 DEF AttributionInv, ServerQuiet
  <2>4. Quiet \/ \E r \in repos : r.name = req[x].repo
                                 /\ h' = [h EXCEPT ![x].pc = "def", ![x].coll = r.id]
    BY <1>1, ReturnMoves, LostQuiet DEF SelectColl, Panic, RepoRows
  <2>5. QED
    BY <2>2, <2>3, <2>4
<1>2. CASE SelectDef(x)
  <2>1. UNCHANGED <<req, repos, defs, models, nextId, server>> /\ h[x].pc = "def"
    BY <1>2 DEF SelectDef, DefSelected
  <2>2. CASE Quiet
    BY <2>1, <2>2, NoStatement DEF ServerQuiet, ServerShape
  <2>3. ASSUME NEW d \in defs, ClassOf(d) = req[x].class, d.coll = h[x].coll,
               h' = [h EXCEPT ![x].pc = "model", ![x].def = d.id]
        PROVE  Inv'
    <3>1. HandlerShape' /\ h'[x].pc = "model" /\ h'[x].coll = h[x].coll /\ h'[x].def = d.id
          /\ \A y \in Handlers \ {x} : h'[y] = h[y]
      BY <2>3 DEF HandlerShape
    <3>2. IdTypes' /\ IdsUsed' /\ ForeignKeys' /\ RowsMeant'
      BY <2>1, <3>1 DEF IdTypes, AttributionInv, IdsUsed, ForeignKeys, RowsMeant, RepoExists,
         DefExists
    <3>3. CollRead(x)' /\ DefRead(x)'
      <4>1. CollRead(x)
        BY <2>1 DEF AttributionInv
      <4>2. CollRead(x)'
        BY <2>1, <3>1, <4>1 DEF CollRead
      <4>3. \A e \in defs : e.id = d.id => e = d
        BY DEF AttributionInv, IdsUsed
      <4>4. d.id < nextId
        BY DEF AttributionInv, IdsUsed
      <4>5. DefRead(x)'
        BY <2>1, <2>3, <3>1, <4>3, <4>4 DEF DefRead
      <4>6. QED
        BY <4>2, <4>5
    <3>4. ASSUME NEW y \in Handlers \ {x}
          PROVE  /\ h'[y].pc \in {"def", "model"} => CollRead(y)'
                 /\ h'[y].pc = "model" => DefRead(y)'
      BY <2>1, <3>1 DEF AttributionInv, CollRead, DefRead
    <3>5. QED
      BY <2>1, <3>1, <3>2, <3>3, <3>4 DEF AttributionInv, ServerShape
  <2>4. Quiet \/ \E d \in defs : ClassOf(d) = req[x].class /\ d.coll = h[x].coll
                                 /\ h' = [h EXCEPT ![x].pc = "model", ![x].def = d.id]
    BY <1>2, ReturnMoves DEF SelectDef, DefSelected
  <2>5. QED
    BY <2>2, <2>3, <2>4
<1>3. CASE InsertModel(x)
  <2>1. Quiet
    BY <1>3, ReturnMoves DEF InsertModel
  <2>2. /\ UNCHANGED <<req, repos, defs, server>> /\ h[x].pc = "model"
        /\ \/ UNCHANGED <<models, nextId>>
           \/ /\ DefExists(h[x].def) /\ TakeId
              /\ models' = Inserted(models, [id |-> nextId, def |-> h[x].def,
                                             name |-> req[x].name, by |-> x])
    BY <1>3 DEF InsertModel
  <2>3. QED
    BY <2>1, <2>2, NoStatement, ModelInserted DEF ServerQuiet, ServerShape
<1>4. CASE DeleteModel(x)
  <2>1. Quiet
    BY <1>4, EndMoves DEF DeleteModel
  <2>2. /\ UNCHANGED <<req, repos, defs, nextId, server>> /\ server.pc = "up"
        /\ models' \subseteq models
    BY <1>4 DEF DeleteModel
  <2>3. /\ \A d \in defs' : RepoExists(d.coll)'
        /\ \A m \in models' : DefExists(m.def)'
    BY <2>2 DEF AttributionInv, ForeignKeys, RepoExists, DefExists
  <2>4. QED
    BY <2>1, <2>2, <2>3, RowsDeleted DEF ServerShape
<1>5. QED
  BY <1>1, <1>2, <1>3, <1>4

\* The start of the server, its crash and restart.
LEMMA BootSteps ==
    ASSUME Inv, BootSelect \/ BootInsertRepo \/ BootInsertDef \/ Crash \/ Restart
    PROVE  Inv'
<1> USE DEF Inv, BootOnly, Fatal, scenario
<1>1. Quiet
  BY LostQuiet DEF BootSelect, BootInsertRepo, BootInsertDef, Crash, Restart, Quiet, HandlerShape
<1>2. ServerShape'
  <2>1. CASE BootSelect \/ Crash \/ Restart
    BY <2>1 DEF BootSelect, Crash, Restart, ServerShape
  <2>2. CASE BootInsertRepo
    BY <2>2 DEF BootInsertRepo, ServerShape
  <2>3. CASE BootInsertDef
    BY <2>3 DEF BootInsertDef, ServerShape
  <2>4. QED
    BY <2>1, <2>2, <2>3
<1>3. CASE BootSelect \/ Crash \/ Restart
  BY <1>1, <1>2, <1>3, NoStatement DEF BootSelect, Crash, Restart, ServerQuiet, ServerShape, database
<1>4. CASE BootInsertRepo
  <2>1. /\ UNCHANGED <<req, defs, models>> /\ server.pc = "repo"
        /\ \/ /\ repos' = Inserted(repos, [id |-> nextId, name |-> DefaultRepo]) /\ TakeId
              /\ server'.pc = "defs" => server'.coll = nextId
           \/ UNCHANGED <<repos, nextId>> /\ server'.pc # "defs"
    BY <1>4 DEF BootInsertRepo, ServerShape
  <2>2. QED
    BY <1>1, <1>2, <2>1, NoStatement, RepoInserted DEF ServerQuiet
<1>5. CASE BootInsertDef
  <2>1. /\ UNCHANGED <<req, repos, models>> /\ server.pc = "defs" /\ ServerQuiet
        /\ \/ UNCHANGED <<defs, nextId>>
           \/ \E c \in server.todo :
                 defs' = Inserted(defs, [id |-> nextId, coll |-> server.coll, entry |-> c]) /\ TakeId
    BY <1>2, <1>5 DEF BootInsertDef, ServerShape, ServerQuiet
  <2>2. RepoExists(server.coll)
    BY <2>1 DEF AttributionInv, ForeignKeys
  <2>3. QED
    BY <1>1, <2>1, <2>2, NoStatement, DefInserted
<1>6. QED
  BY <1>3, <1>4, <1>5

-----------------------------------------------------------------------------
\* Ids are not used again, the foreign keys hold, and what a handler has
\* read about a repository and a definition stays true of these rows.
THEOREM Attribution == Spec => []AttributionInv
<1>1. Init => Inv
  BY DEF Init, Inv, HandlerShape, ServerShape, NewHandler, IdTypes, AttributionInv, IdsUsed,
     ForeignKeys, RowsMeant
<1>2. Inv /\ [Next]_vars => Inv'
  <2> SUFFICES ASSUME Inv, [Next]_vars PROVE Inv'
    OBVIOUS
  <2>1. ASSUME NEW x \in Handlers, Handle(x) PROVE Inv'
    BY <2>1, OtherSteps, RepoStatements, ModelStatements DEF Handle
  <2>2. CASE UNCHANGED vars
    BY <2>2, NoStatement
       DEF vars, scenario, database, Inv, Quiet, ServerQuiet, HandlerShape, ServerShape
  <2>3. QED
    BY <2>1, <2>2, BootSteps, NextCases
<1>3. Inv => AttributionInv
  BY DEF Inv
<1>4. QED
  BY <1>1, <1>2, <1>3, PTL DEF Spec

\* Whatever is released and dropped at the same time, every listed model
\* belongs to the class and the repository it was trained with.
THEOREM ModelsStayAttributed == Spec => []ModelsAttributed
<1>1. AttributionInv => ModelsAttributed
  BY DEF AttributionInv, ForeignKeys, RowsMeant, RepoExists, DefExists, ModelsAttributed
<1>2. QED
  BY <1>1, Attribution, PTL

-----------------------------------------------------------------------------
(* The requests, and how a step changes a handler. *)

HandlerTypes == [Handlers -> HandlerType]

\* What a request asks for.
LEMMA RequestTypes ==
    ASSUME TypeOK, NEW x \in Handlers
    PROVE  /\ req[x] \in Requests /\ env \in Environments
           /\ req[x].op \in {"releaseRepo", "dropRepo", "releaseModel", "releaseLocal",
                             "dropModel", "none"}
           /\ req[x].op = "releaseRepo" => req[x].name \in RepoNames /\ req[x].classes \in Seq(Classes)
           /\ req[x].op = "dropRepo" => req[x].name \in RepoNames
           /\ ModelRelease(x) => req[x].name \in ModelNames /\ table(x) \in Tables
           /\ req[x].op = "dropModel" => req[x].name \in ModelNames
<1>1. req[x] \in Requests /\ env \in Environments
  BY ModelZooAssumption DEF TypeOK
<1>2. QED
  BY <1>1 DEF Requests, ModelRelease, Tables, table

\* What Python prints of a package are lines of it; a package without
\* classes is one of which nothing is printed.
LEMMA PrintedLines ==
    ASSUME NEW x \in Handlers, req[x].classes \in Seq(Classes)
    PROVE  /\ Printed(x) \subseteq Entries
           /\ Printed(x) = {} => req[x].classes = <<>>
<1>1. DOMAIN req[x].classes = 1 .. Len(req[x].classes) /\ Len(req[x].classes) \in Nat
  OBVIOUS
<1>2. ASSUME NEW i \in DOMAIN req[x].classes
      PROVE  <<i, req[x].classes[i]>> \in Entries
  <2>1. i \in Nat \ {0} /\ req[x].classes[i] \in Classes
    BY <1>1
  <2>2. QED
    BY <2>1 DEF Entries
<1>3. ASSUME Printed(x) = {}
      PROVE  req[x].classes = <<>>
  <2>1. DOMAIN req[x].classes = {}
    BY <1>3 DEF Printed
  <2>2. Len(req[x].classes) = 0
    <3> DEFINE n == Len(req[x].classes)
    <3>1. n \in Nat /\ 1 \notin 1 .. n
      BY <1>1, <2>1
    <3> HIDE DEF n
    <3>2. n = 0
      BY <3>1
    <3>3. QED
      BY <3>2 DEF n
  <2>3. QED
    BY <2>2, EmptySeq
<1>4. QED
  BY <1>2, <1>3 DEF Printed

\* The numbers of the lines tell the classes of the server from those that
\* were printed.
LEMMA LineNumbers ==
    /\ \A c \in Entries : c[1] # 0
    /\ \A c \in DefaultEntries : c[1] = 0
BY DEF Entries, DefaultEntries

\* Handler x afterwards, field by field; the other handlers stay.
Now(x, pc, dir, descs, todo, coll, def, before, result) ==
    /\ h' \in HandlerTypes
    /\ \A y \in Handlers \ {x} : h'[y] = h[y]
    /\ h'[x].pc = pc /\ h'[x].cwd = dir /\ h'[x].descs = descs /\ h'[x].todo = todo
    /\ h'[x].coll = coll /\ h'[x].def = def /\ h'[x].before = before /\ h'[x].result = result

\* Only its place and its answer change.
Plain(x, pc, result) ==
    Now(x, pc, h[x].cwd, h[x].descs, h[x].todo, h[x].coll, h[x].def, h[x].before, result)

\* A handler becomes the record r.
LEMMA BecomesNow ==
    ASSUME h \in HandlerTypes, NEW x \in Handlers, NEW pc \in Pcs, NEW dir \in Dirs,
           NEW descs \in SUBSET Entries, NEW todo \in SUBSET Entries, NEW coll \in Nat,
           NEW def \in Nat, NEW before \in SUBSET Nat, NEW result \in Results,
           h' = [h EXCEPT ![x] = [pc |-> pc, cwd |-> dir, descs |-> descs, todo |-> todo,
                                  coll |-> coll, def |-> def, before |-> before,
                                  result |-> result]]
    PROVE  Now(x, pc, dir, descs, todo, coll, def, before, result)
<1>1. [pc |-> pc, cwd |-> dir, descs |-> descs, todo |-> todo, coll |-> coll, def |-> def,
       before |-> before, result |-> result] \in HandlerType
  BY DEF HandlerType
<1>2. QED
  BY <1>1 DEF Now, HandlerTypes

\* The fields of a handler.
LEMMA HandlerFields ==
    ASSUME h \in HandlerTypes, NEW x \in Handlers
    PROVE  /\ h[x] = [pc |-> h[x].pc, cwd |-> h[x].cwd, descs |-> h[x].descs, todo |-> h[x].todo,
                      coll |-> h[x].coll, def |-> h[x].def, before |-> h[x].before,
                      result |-> h[x].result]
           /\ h[x].pc \in Pcs /\ h[x].cwd \in Dirs /\ h[x].descs \in SUBSET Entries
           /\ h[x].todo \in SUBSET Entries /\ h[x].coll \in Nat /\ h[x].def \in Nat
           /\ h[x].before \in SUBSET Nat /\ h[x].result \in Results
BY DEF HandlerTypes, HandlerType

\* Going on to another place.
LEMMA GotoNow ==
    ASSUME h \in HandlerTypes, NEW x \in Handlers, NEW pc \in Pcs, Goto(x, pc)
    PROVE  Plain(x, pc, h[x].result)
<1>1. h' \in HandlerTypes /\ \A y \in Handlers \ {x} : h'[y] = h[y]
  BY DEF Goto, HandlerTypes, HandlerType
<1>2. h'[x] = [h[x] EXCEPT !.pc = pc]
  BY DEF Goto, HandlerTypes
<1>3. QED
  BY <1>1, <1>2, HandlerFields DEF Plain, Now, HandlerTypes, HandlerType

\* The handler ends with an answer.
LEMMA EndNow ==
    ASSUME h \in HandlerTypes, NEW x \in Handlers, NEW result \in Results, End(x, result)
    PROVE  Plain(x, "end", result)
<1>1. h'[x] = [h[x] EXCEPT !.pc = "end", !.result = result]
      /\ h' = [h EXCEPT ![x] = h'[x]]
  BY DEF End, HandlerTypes
<1>2. h'[x] = [pc |-> "end", cwd |-> h[x].cwd, descs |-> h[x].descs, todo |-> h[x].todo,
                      coll |-> h[x].coll, def |-> h[x].def, before |-> h[x].before,
                      result |-> result]
  BY <1>1, HandlerFields DEF HandlerType, HandlerTypes
<1>3. QED
  BY <1>1, <1>2, HandlerFields, BecomesNow DEF Plain, Pcs

\* A return after sqlfs.Create.
LEMMA ReturnNow ==
    ASSUME h \in HandlerTypes, NEW x \in Handlers, NEW result \in Results,
           Return(x, result)
    PROVE  Plain(x, "close", result)
<1>1. h'[x] = [h[x] EXCEPT !.pc = "close", !.result = result] /\ h' = [h EXCEPT ![x] = h'[x]]
  BY DEF HandlerTypes, Return
<1>2. h'[x] = [pc |-> "close", cwd |-> h[x].cwd, descs |-> h[x].descs, todo |-> h[x].todo,
              coll |-> h[x].coll, def |-> h[x].def, before |-> h[x].before, result |-> result]
  BY <1>1, HandlerFields DEF HandlerType, HandlerTypes
<1>3. {"close", "build return", "restore", "defs", "model"} \subseteq Pcs /\ "error" \in Results
  BY DEF Pcs, Unpacked, Results
<1>4. QED
  BY <1>1, <1>2, <1>3, HandlerFields, BecomesNow DEF Plain

\* A build that fails.
LEMMA BuildFailsNow ==
    ASSUME h \in HandlerTypes, NEW x \in Handlers, BuildFails(x)
    PROVE  Plain(x, "build return", "error")
<1>1. h'[x] = [h[x] EXCEPT !.pc = "build return", !.result = "error"] /\ h' = [h EXCEPT ![x] = h'[x]]
  BY DEF HandlerTypes, BuildFails
<1>2. h'[x] = [pc |-> "build return", cwd |-> h[x].cwd, descs |-> h[x].descs, todo |-> h[x].todo,
              coll |-> h[x].coll, def |-> h[x].def, before |-> h[x].before, result |-> "error"]
  BY <1>1, HandlerFields DEF HandlerType, HandlerTypes
<1>3. {"close", "build return", "restore", "defs", "model"} \subseteq Pcs /\ "error" \in Results
  BY DEF Pcs, Unpacked, Results
<1>4. QED
  BY <1>1, <1>2, <1>3, HandlerFields, BecomesNow DEF Plain

\* A request that is accepted.
LEMMA AcceptNow ==
    ASSUME h \in HandlerTypes, NEW x \in Handlers, NEW pc \in Pcs,
           NEW before \in SUBSET Nat, h' = [h EXCEPT ![x].pc = pc, ![x].before = before]
    PROVE  Now(x, pc, h[x].cwd, h[x].descs, h[x].todo, h[x].coll, h[x].def,
               before, h[x].result)
<1>1. h'[x] = [h[x] EXCEPT !.pc = pc, !.before = before] /\ h' = [h EXCEPT ![x] = h'[x]]
  BY DEF HandlerTypes
<1>2. h'[x] = [pc |-> pc, cwd |-> h[x].cwd, descs |-> h[x].descs, todo |-> h[x].todo,
              coll |-> h[x].coll, def |-> h[x].def, before |-> before, result |-> h[x].result]
  BY <1>1, HandlerFields DEF HandlerType, HandlerTypes
<1>3. {"close", "build return", "restore", "defs", "model"} \subseteq Pcs /\ "error" \in Results
  BY DEF Pcs, Unpacked, Results
<1>4. QED
  BY <1>1, <1>2, <1>3, HandlerFields, BecomesNow DEF Plain

\* The handler remembers the working directory.
LEMMA GetwdNow ==
    ASSUME h \in HandlerTypes, NEW x \in Handlers, NEW dir \in Dirs,
           NEW pc \in Pcs, h' = [h EXCEPT ![x].cwd = dir, ![x].pc = pc]
    PROVE  Now(x, pc, dir, h[x].descs, h[x].todo, h[x].coll, h[x].def,
               h[x].before, h[x].result)
<1>1. h'[x] = [h[x] EXCEPT !.cwd = dir, !.pc = pc] /\ h' = [h EXCEPT ![x] = h'[x]]
  BY DEF HandlerTypes
<1>2. h'[x] = [pc |-> pc, cwd |-> dir, descs |-> h[x].descs, todo |-> h[x].todo,
              coll |-> h[x].coll, def |-> h[x].def, before |-> h[x].before, result |-> h[x].result]
  BY <1>1, HandlerFields DEF HandlerType, HandlerTypes
<1>3. {"close", "build return", "restore", "defs", "model"} \subseteq Pcs /\ "error" \in Results
  BY DEF Pcs, Unpacked, Results
<1>4. QED
  BY <1>1, <1>2, <1>3, HandlerFields, BecomesNow DEF Plain

\* It has found classes.
LEMMA PythonNow ==
    ASSUME h \in HandlerTypes, NEW x \in Handlers, NEW descs \in SUBSET Entries,
           h' = [h EXCEPT ![x].pc = "restore", ![x].descs = descs]
    PROVE  Now(x, "restore", h[x].cwd, descs, h[x].todo, h[x].coll, h[x].def,
               h[x].before, h[x].result)
<1>1. h'[x] = [h[x] EXCEPT !.pc = "restore", !.descs = descs] /\ h' = [h EXCEPT ![x] = h'[x]]
  BY DEF HandlerTypes
<1>2. h'[x] = [pc |-> "restore", cwd |-> h[x].cwd, descs |-> descs, todo |-> h[x].todo,
              coll |-> h[x].coll, def |-> h[x].def, before |-> h[x].before, result |-> h[x].result]
  BY <1>1, HandlerFields DEF HandlerType, HandlerTypes
<1>3. {"close", "build return", "restore", "defs", "model"} \subseteq Pcs /\ "error" \in Results
  BY DEF Pcs, Unpacked, Results
<1>4. QED
  BY <1>1, <1>2, <1>3, HandlerFields, BecomesNow DEF Plain

\* It has inserted its row.
LEMMA InsertedNow ==
    ASSUME h \in HandlerTypes, NEW x \in Handlers, NEW coll \in Nat,
           h' = [h EXCEPT ![x].pc = "defs", ![x].coll = coll, ![x].todo = h[x].descs]
    PROVE  Now(x, "defs", h[x].cwd, h[x].descs, h[x].descs, coll, h[x].def,
               h[x].before, h[x].result)
<1>1. h'[x] = [h[x] EXCEPT !.pc = "defs", !.coll = coll, !.todo = h[x].descs]
      /\ h' = [h EXCEPT ![x] = h'[x]]
  BY DEF HandlerTypes
<1>2. h'[x] = [pc |-> "defs", cwd |-> h[x].cwd, descs |-> h[x].descs, todo |-> h[x].descs,
              coll |-> coll, def |-> h[x].def, before |-> h[x].before, result |-> h[x].result]
  BY <1>1, HandlerFields DEF HandlerType, HandlerTypes
<1>3. {"close", "build return", "restore", "defs", "model"} \subseteq Pcs /\ "error" \in Results
  BY DEF Pcs, Unpacked, Results
<1>4. QED
  BY <1>1, <1>2, <1>3, HandlerFields, BecomesNow DEF Plain

\* It has inserted a definition.
LEMMA DefinedNow ==
    ASSUME h \in HandlerTypes, NEW x \in Handlers, NEW c,
           h' = [h EXCEPT ![x].todo = @ \ {c}]
    PROVE  Now(x, h[x].pc, h[x].cwd, h[x].descs, h[x].todo \ {c}, h[x].coll, h[x].def,
               h[x].before, h[x].result)
<1>1. h'[x] = [h[x] EXCEPT !.todo = h[x].todo \ {c}] /\ h' = [h EXCEPT ![x] = h'[x]]
  BY DEF HandlerTypes
<1>2. h'[x] = [pc |-> h[x].pc, cwd |-> h[x].cwd, descs |-> h[x].descs, todo |-> h[x].todo \ {c},
              coll |-> h[x].coll, def |-> h[x].def, before |-> h[x].before, result |-> h[x].result]
  <2> DEFINE todo == h[x].todo \ {c}
  <2>1. h'[x] = [h[x] EXCEPT !.todo = todo]
    BY <1>1
  <2> HIDE DEF todo
  <2>2. h'[x] = [pc |-> h[x].pc, cwd |-> h[x].cwd, descs |-> h[x].descs, todo |-> todo,
              coll |-> h[x].coll, def |-> h[x].def, before |-> h[x].before, result |-> h[x].result]
    <3>1. PICK r : h[x] = r
      OBVIOUS
    <3>2. /\ r = [pc |-> r.pc, cwd |-> r.cwd, descs |-> r.descs, todo |-> r.todo,
                 coll |-> r.coll, def |-> r.def, before |-> r.before, result |-> r.result]
          /\ h'[x] = [r EXCEPT !.todo = todo]
      BY <2>1, <3>1, HandlerFields
    <3>3. h'[x] = [pc |-> r.pc, cwd |-> r.cwd, descs |-> r.descs, todo |-> todo,
                 coll |-> r.coll, def |-> r.def, before |-> r.before, result |-> r.result]
      BY <3>2
    <3>4. QED
      BY <3>1, <3>3
  <2>3. QED
    BY <2>2 DEF todo
<1>3. {"close", "build return", "restore", "defs", "model"} \subseteq Pcs /\ "error" \in Results
  BY DEF Pcs, Unpacked, Results
<1>4. QED
  BY <1>1, <1>2, <1>3, HandlerFields, BecomesNow DEF Plain

\* It has found the row of a repository.
LEMMA FoundNow ==
    ASSUME h \in HandlerTypes, NEW x \in Handlers, NEW pc \in Pcs, NEW coll \in Nat,
           h' = [h EXCEPT ![x].pc = pc, ![x].coll = coll]
    PROVE  Now(x, pc, h[x].cwd, h[x].descs, h[x].todo, coll, h[x].def,
               h[x].before, h[x].result)
<1>1. h'[x] = [h[x] EXCEPT !.pc = pc, !.coll = coll] /\ h' = [h EXCEPT ![x] = h'[x]]
  BY DEF HandlerTypes
<1>2. h'[x] = [pc |-> pc, cwd |-> h[x].cwd, descs |-> h[x].descs, todo |-> h[x].todo,
              coll |-> coll, def |-> h[x].def, before |-> h[x].before, result |-> h[x].result]
  BY <1>1, HandlerFields DEF HandlerType, HandlerTypes
<1>3. {"close", "build return", "restore", "defs", "model"} \subseteq Pcs /\ "error" \in Results
  BY DEF Pcs, Unpacked, Results
<1>4. QED
  BY <1>1, <1>2, <1>3, HandlerFields, BecomesNow DEF Plain

\* It has found the row of a definition.
LEMMA DefFoundNow ==
    ASSUME h \in HandlerTypes, NEW x \in Handlers, NEW def \in Nat,
           h' = [h EXCEPT ![x].pc = "model", ![x].def = def]
    PROVE  Now(x, "model", h[x].cwd, h[x].descs, h[x].todo, h[x].coll, def,
               h[x].before, h[x].result)
<1>1. h'[x] = [h[x] EXCEPT !.pc = "model", !.def = def] /\ h' = [h EXCEPT ![x] = h'[x]]
  BY DEF HandlerTypes
<1>2. h'[x] = [pc |-> "model", cwd |-> h[x].cwd, descs |-> h[x].descs, todo |-> h[x].todo,
              coll |-> h[x].coll, def |-> def, before |-> h[x].before, result |-> h[x].result]
  BY <1>1, HandlerFields DEF HandlerType, HandlerTypes
<1>3. {"close", "build return", "restore", "defs", "model"} \subseteq Pcs /\ "error" \in Results
  BY DEF Pcs, Unpacked, Results
<1>4. QED
  BY <1>1, <1>2, <1>3, HandlerFields, BecomesNow DEF Plain

\* A handler when the process dies.
LostAs(y) ==
    IF h[y].pc \in {"idle", "end"} THEN h'[y] = h[y]
    ELSE /\ h'[y].pc = "end" /\ h'[y].result = "lost" /\ h'[y].cwd = h[y].cwd
         /\ h'[y].descs = h[y].descs /\ h'[y].todo = h[y].todo
         /\ h'[y].coll = h[y].coll /\ h'[y].def = h[y].def /\ h'[y].before = h[y].before

\* Every handler that was running ends without an answer.
LEMMA LostNow ==
    ASSUME h \in HandlerTypes, h' = Lost(h)
    PROVE  h' \in HandlerTypes /\ \A y \in Handlers : LostAs(y)
<1>1. "end" \in Pcs /\ "lost" \in Results
  BY DEF Pcs, Results
<1>2. ASSUME NEW y \in Handlers
      PROVE  h'[y] \in HandlerType /\ LostAs(y)
  <2>1. CASE h[y].pc \in {"idle", "end"}
    BY <2>1 DEF Lost, LostAs, HandlerTypes
  <2>2. CASE h[y].pc \notin {"idle", "end"}
    <3> DEFINE lost == [pc |-> "end", cwd |-> h[y].cwd, descs |-> h[y].descs,
                        todo |-> h[y].todo, coll |-> h[y].coll, def |-> h[y].def,
                        before |-> h[y].before, result |-> "lost"]
    <3>1. h'[y] = [h[y] EXCEPT !.pc = "end", !.result = "lost"]
      BY <2>2 DEF Lost
    <3>2. h'[y] = lost
      BY <3>1, HandlerFields DEF HandlerType, HandlerTypes
    <3>3. lost \in HandlerType
      BY <1>1, HandlerFields DEF HandlerType
    <3>4. QED
      BY <2>2, <3>2, <3>3 DEF LostAs
  <2>3. QED
    BY <2>1, <2>2
<1>3. h' \in HandlerTypes
  BY <1>2 DEF Lost, HandlerTypes
<1>4. QED
  BY <1>2, <1>3

-----------------------------------------------------------------------------
(* Types and places. *)

\* What can change while the server is up, with its types.
Typed ==
    /\ cwd \in Dirs
    /\ registry \in [RepoNames -> Dirs \cup {NoImage}]
    /\ local \in [RepoNames -> Handlers \cup {NoImage}]
    /\ repos \subseteq [id : Nat, name : RepoNames]
    /\ defs \subseteq [id : Nat, coll : Nat, entry : Entries \cup DefaultEntries]
    /\ models \subseteq [id : Nat, def : Nat, name : ModelNames, by : Handlers]
    /\ nextId \in Nat \ {0}
    /\ tables \subseteq Tables
    /\ blocks \subseteq [table : Tables, by : Handlers, part : {"head", "tail"}]

\* The types fall into those of the handlers, of the server and of the rest.
LEMMA TypeParts ==
    TypeOK <=> /\ [req |-> req, env |-> env] \in Scenarios /\ h \in HandlerTypes
               /\ server \in ServerType /\ Typed
BY DEF TypeOK, HandlerTypes, Typed

\* A step that keeps the requests and what the types of the rest say.
LEMMA TypesKept ==
    ASSUME TypeOK, UNCHANGED scenario, h' \in HandlerTypes, Typed', server' \in ServerType
    PROVE  TypeOK'
<1>1. UNCHANGED ServerType
  BY DEF ServerType, scenario
<1>2. [req |-> req, env |-> env]' \in Scenarios
  BY DEF TypeOK, scenario
<1>3. QED
  BY <1>1, <1>2 DEF TypeOK, HandlerTypes, Typed

\* The places of each kind of request.
LEMMA PlaceSets ==
    /\ Places["releaseRepo"] = {"recv", "spin", "image", "unzip"} \cup Unpacked
    /\ Places["dropRepo"] = {"find", "delete defs", "delete repo"}
    /\ Places["releaseModel"] = Storing
    /\ Places["releaseLocal"] = {"recv", "spin"} \cup Storing
    /\ Places["dropModel"] = {"delete"}
    /\ Places["none"] = {}
BY DEF Places

\* The places tell the requests.
LEMMA PlaceOps ==
    ASSUME TypeOK, OnItsWay, NEW x \in Handlers
    PROVE  /\ h[x].pc \in Unpacked \cup {"image", "unzip"} => req[x].op = "releaseRepo"
           /\ h[x].pc \in {"find", "delete defs", "delete repo"} => req[x].op = "dropRepo"
           /\ h[x].pc \in Storing => ModelRelease(x)
           /\ h[x].pc = "delete" => req[x].op = "dropModel"
           /\ h[x].pc \in {"recv", "spin"} => req[x].op \in {"releaseRepo", "releaseLocal"}
<1>1. h[x].pc \in Places[req[x].op] \cup {"idle", "end"}
  BY DEF OnItsWay
<1>2. req[x].op \in {"releaseRepo", "dropRepo", "releaseModel", "releaseLocal", "dropModel", "none"}
  BY RequestTypes
<1>3. CASE req[x].op = "releaseRepo"
  <2>1. h[x].pc \in {"recv", "spin", "image", "unzip", "idle", "end"} \cup Unpacked
    BY <1>1, <1>3, PlaceSets
  <2>2. QED
    BY <1>3, <2>1 DEF Unpacked, Storing
<1>4. CASE req[x].op = "dropRepo"
  <2>1. h[x].pc \in {"find", "delete defs", "delete repo", "idle", "end"}
    BY <1>1, <1>4, PlaceSets
  <2>2. QED
    BY <1>4, <2>1 DEF Unpacked, Storing
<1>5. CASE ModelRelease(x)
  <2>1. /\ h[x].pc \in Storing \cup {"recv", "spin", "idle", "end"}
        /\ h[x].pc \in {"recv", "spin"} => req[x].op = "releaseLocal"
    <3>1. {"recv", "spin", "idle", "end"} \cap Storing = {}
      BY DEF Storing
    <3>2. QED
      BY <1>1, <1>5, <3>1, PlaceSets DEF ModelRelease
  <2>2. QED
    BY <1>5, <2>1 DEF Unpacked, Storing
<1>6. CASE req[x].op \in {"dropModel", "none"}
  <2>1. h[x].pc \in {"idle", "end"} \/ (h[x].pc = "delete" /\ req[x].op = "dropModel")
    BY <1>1, <1>6, PlaceSets
  <2>2. QED
    BY <2>1 DEF Unpacked, Storing
<1>7. QED
  BY <1>2, <1>3, <1>4, <1>5, <1>6 DEF ModelRelease

\* Handler x is where its request takes it, with the answer of that place.
Placed(x) ==
    /\ h'[x].pc \in Places[req[x].op] \cup {"end"}
    /\ h'[x].pc # "idle"
    /\ h'[x].result # "none" => h'[x].pc \in {"build return", "close", "end"}
    /\ h'[x].pc = "build return" => h'[x].result \in {"none", "error"}
    /\ h'[x].pc = "close" => h'[x].result \in {"ok", "error"}

\* A step of one handler.
LEMMA StepPlaced ==
    ASSUME TypeOK, OnItsWay, NEW x \in Handlers, server.pc = "up", UNCHANGED <<scenario, server>>,
           \A y \in Handlers \ {x} : h'[y] = h[y], Placed(x)
    PROVE  OnItsWay'
BY DEF OnItsWay, Placed, scenario

\* The process dies.
LEMMA LostPlaced ==
    ASSUME TypeOK, OnItsWay, UNCHANGED scenario, h' = Lost(h)
    PROVE  h' \in HandlerTypes /\ OnItsWay'
<1>1. h \in HandlerTypes
  BY TypeParts
<1>2. h' \in HandlerTypes /\ \A y \in Handlers : LostAs(y)
  BY <1>1, LostNow
<1>3. QED
  BY <1>2 DEF LostAs, OnItsWay, scenario

\* The steps that change no more of a handler than its place and its answer.
LEMMA PlainSteps ==
    ASSUME TypeOK, OnItsWay, NEW x \in Handlers
    PROVE  /\ RecvAll(x) =>
                \/ Plain(x, "image", h[x].result)
                \/ Plain(x, "end", "error")
                \/ Plain(x, "spin", h[x].result)
           /\ imageExistsOnRegistry(x) => Plain(x, "end", "exists") \/ Plain(x, "unzip", h[x].result)
           /\ Unzip(x) => Plain(x, "getwd", h[x].result) \/ Plain(x, "end", "error")
           /\ Chdir(x) => Plain(x, "python", h[x].result) \/ Plain(x, "build", h[x].result)
           /\ Restore(x) => Plain(x, "build getwd", h[x].result) \/ Plain(x, "end", "noclasses")
           /\ Build(x) =>
                \/ Plain(x, "push", h[x].result)
                \/ Plain(x, "build return", h[x].result)
                \/ Plain(x, "hang", h[x].result)
                \/ Plain(x, "build return", "error")
           /\ Push(x) =>
                \/ Plain(x, "build return", h[x].result)
                \/ Plain(x, "build return", "error")
           /\ BuildReturn(x) =>
                \/ h[x].result = "none" /\ Plain(x, "select", h[x].result)
                \/ Plain(x, "end", "error")
           /\ SelectRepo(x) =>
                \/ Plain(x, "insert", h[x].result)
                \/ Plain(x, "end", "error")
                \/ Plain(x, "end", "exists")
           /\ DeleteDefs(x) => Plain(x, "delete repo", h[x].result) \/ Plain(x, "end", "error")
           /\ DeleteRepo(x) => Plain(x, "end", "ok") \/ Plain(x, "end", "error")
           /\ DropTable(x) => Plain(x, "create", h[x].result) \/ Plain(x, "end", "error")
           /\ CreateTable(x) => Plain(x, "write", h[x].result) \/ Plain(x, "end", "error")
           /\ Write(x) =>
                \/ Plain(x, "coll", h[x].result)
                \/ Plain(x, "close", "error")
                \/ req[x].op = "releaseLocal" /\ Plain(x, "spin", h[x].result)
           /\ CheckLocalImage(x) => Plain(x, "close", "error")
           /\ InsertModel(x) => Plain(x, "close", "ok") \/ Plain(x, "close", "error")
           /\ Close(x) => Plain(x, "end", h[x].result)
           /\ DeleteModel(x) => Plain(x, "end", "ok") \/ Plain(x, "end", "error")
<1>1. h \in HandlerTypes
  BY TypeParts
<1>2. {"image", "end", "spin", "unzip", "getwd", "python", "build", "build getwd", "push",
       "build return", "hang", "select", "insert", "delete repo", "create", "write", "coll",
       "close"} \subseteq Pcs
  BY DEF Pcs, Unpacked
<1>3. {"ok", "error", "exists", "noclasses"} \subseteq Results
  BY DEF Results
<1> USE <1>1, <1>2, <1>3, GotoNow, EndNow, ReturnNow, BuildFailsNow
<1>4. RecvAll(x) => 
        \/ Plain(x, "image", h[x].result)
        \/ Plain(x, "end", "error")
        \/ Plain(x, "spin", h[x].result)
  BY DEF RecvAll
<1>5. imageExistsOnRegistry(x) => Plain(x, "end", "exists") \/ Plain(x, "unzip", h[x].result)
  BY DEF imageExistsOnRegistry
<1>6. Unzip(x) => Plain(x, "getwd", h[x].result) \/ Plain(x, "end", "error")
  BY DEF Unzip
<1>7. Chdir(x) => Plain(x, "python", h[x].result) \/ Plain(x, "build", h[x].result)
  BY DEF Chdir
<1>8. Restore(x) => Plain(x, "build getwd", h[x].result) \/ Plain(x, "end", "noclasses")
  BY DEF Restore
<1>9. Build(x) => 
        \/ Plain(x, "push", h[x].result)
        \/ Plain(x, "build return", h[x].result)
        \/ Plain(x, "hang", h[x].result)
        \/ Plain(x, "build return", "error")
  BY DEF Build
<1>10. Push(x) => Plain(x, "build return", h[x].result) \/ Plain(x, "build return", "error")
  BY DEF Push
<1>11. BuildReturn(x) => 
        \/ h[x].result = "none" /\ Plain(x, "select", h[x].result)
        \/ Plain(x, "end", "error")
  BY DEF BuildReturn, BuildReturns
<1>12. SelectRepo(x) => 
        \/ Plain(x, "insert", h[x].result)
        \/ Plain(x, "end", "error")
        \/ Plain(x, "end", "exists")
  BY DEF SelectRepo
<1>13. DeleteDefs(x) => Plain(x, "delete repo", h[x].result) \/ Plain(x, "end", "error")
  BY DEF DeleteDefs
<1>14. DeleteRepo(x) => Plain(x, "end", "ok") \/ Plain(x, "end", "error")
  BY DEF DeleteRepo
<1>15. DropTable(x) => Plain(x, "create", h[x].result) \/ Plain(x, "end", "error")
  BY DEF DropTable
<1>16. CreateTable(x) => Plain(x, "write", h[x].result) \/ Plain(x, "end", "error")
  BY DEF CreateTable
<1>17. Write(x) => 
        \/ Plain(x, "coll", h[x].result)
        \/ Plain(x, "close", "error")
        \/ req[x].op = "releaseLocal" /\ Plain(x, "spin", h[x].result)
  BY DEF Write
<1>18. CheckLocalImage(x) => Plain(x, "close", "error")
  BY DEF CheckLocalImage
<1>19. InsertModel(x) => Plain(x, "close", "ok") \/ Plain(x, "close", "error")
  BY DEF InsertModel
<1>20. Close(x) => Plain(x, "end", h[x].result)
  BY DEF Close
<1>21. DeleteModel(x) => Plain(x, "end", "ok") \/ Plain(x, "end", "error")
  BY DEF DeleteModel
<1>22. QED
  BY <1>4, <1>5, <1>6, <1>7, <1>8, <1>9, <1>10, <1>11, <1>12, <1>13, <1>14, <1>15, <1>16, <1>17,
     <1>18, <1>19, <1>20, <1>21

\* A request is accepted: the handler goes to the first place of its request.
Accepted(x) ==
    Now(x, First[req[x].op], Home, {}, {}, 0, 0,
        IF req[x].op = "releaseRepo" THEN {r.id : r \in RepoRows(req[x].name)} ELSE {}, "none")

\* The first place of each request.
LEMMA FirstPlaces ==
    /\ First["releaseRepo"] = "recv" /\ First["dropRepo"] = "find"
    /\ First["releaseModel"] = "drop" /\ First["releaseLocal"] = "recv"
    /\ First["dropModel"] = "delete"
BY DEF First

\* A handler that has not started.
LEMMA NewFields ==
    ASSUME NEW r, r = NewHandler
    PROVE  /\ r.pc = "idle" /\ r.cwd = Home /\ r.descs = {} /\ r.todo = {} /\ r.coll = 0
           /\ r.def = 0 /\ r.before = {} /\ r.result = "none"
BY DEF NewHandler

\* The steps that change more of a handler.
LEMMA OtherFields ==
    ASSUME TypeOK, OnItsWay, NEW x \in Handlers
    PROVE  /\ Accept(x) => Accepted(x) \/ Plain(x, "end", "error")
           /\ RecvFirst(x) =>
                \/ Plain(x, "drop", h[x].result) /\ UNCHANGED server
                \/ Plain(x, "end", "error") /\ UNCHANGED server
                \/ Panic
           /\ Getwd(x) =>
                \/ \E pc \in {"chdir", "build chdir"} :
                     /\ h[x].pc = "getwd" <=> pc = "chdir"
                     /\ Now(x, pc, cwd, h[x].descs, h[x].todo, h[x].coll, h[x].def, h[x].before,
                            h[x].result)
                \/ Plain(x, "end", "noclasses") \/ Plain(x, "end", "error")
           /\ RunPython(x) =>
                \/ /\ cwd \in Handlers /\ DirExists(cwd)
                   /\ Now(x, "restore", h[x].cwd, Printed(cwd), h[x].todo, h[x].coll, h[x].def,
                          h[x].before, h[x].result)
                \/ Plain(x, "end", "noclasses")
           /\ InsertRepo(x) =>
                \/ Now(x, "defs", h[x].cwd, h[x].descs, h[x].descs, nextId, h[x].def, h[x].before,
                       h[x].result)
                \/ Plain(x, "end", "error")
           /\ InsertDef(x) =>
                \/ Plain(x, "end", "ok") \/ Plain(x, "end", "error")
                \/ \E c \in h[x].todo :
                     Now(x, "defs", h[x].cwd, h[x].descs, h[x].todo \ {c}, h[x].coll, h[x].def,
                         h[x].before, h[x].result)
           /\ FindRepo(x) =>
                \/ \E r \in RepoRows(req[x].name) :
                     Now(x, "delete defs", h[x].cwd, h[x].descs, h[x].todo, r.id, h[x].def,
                         h[x].before, h[x].result)
                \/ Plain(x, "end", "error")
           /\ SelectColl(x) =>
                \/ \E r \in RepoRows(req[x].repo) :
                     /\ Now(x, "def", h[x].cwd, h[x].descs, h[x].todo, r.id, h[x].def,
                            h[x].before, h[x].result)
                     /\ UNCHANGED server
                \/ Plain(x, "close", "error") /\ UNCHANGED server
                \/ Panic
           /\ SelectDef(x) =>
                \/ \E d \in defs :
                     Now(x, "model", h[x].cwd, h[x].descs, h[x].todo, h[x].coll, d.id,
                         h[x].before, h[x].result)
                \/ Plain(x, "close", "error")
<1>1. /\ h \in HandlerTypes /\ cwd \in Dirs /\ nextId \in Nat
      /\ (\A r \in repos : r.id \in Nat) /\ \A d \in defs : d.id \in Nat
  BY TypeParts DEF Typed
<1>2. {"end", "drop", "chdir", "build chdir", "restore", "defs", "delete defs", "def", "model",
       "close", "recv", "find", "delete"} \subseteq Pcs
  BY DEF Pcs, Unpacked
<1>3. {"ok", "error", "exists", "noclasses"} \subseteq Results
  BY DEF Results
<1> USE <1>1, <1>2, <1>3
<1>4. ASSUME Accept(x) PROVE Accepted(x) \/ Plain(x, "end", "error")
  <2> DEFINE before == IF req[x].op = "releaseRepo" THEN {r.id : r \in RepoRows(req[x].name)}
                       ELSE {}
  <2>1. before \in SUBSET Nat
    BY DEF RepoRows
  <2>2. First[req[x].op] \in Pcs
    <3>1. req[x].op \in {"releaseRepo", "dropRepo", "releaseModel", "releaseLocal", "dropModel"}
      BY <1>4, RequestTypes DEF Accept
    <3>2. QED
      BY <3>1, FirstPlaces
  <2>3. h[x].pc = "idle" /\ h[x] = NewHandler
    BY <1>4 DEF Accept, At, OnItsWay
  <2>4. /\ h[x].cwd = Home /\ h[x].descs = {} /\ h[x].todo = {} /\ h[x].coll = 0
        /\ h[x].def = 0 /\ h[x].result = "none"
    BY <2>3, NewFields
  <2>5. CASE h' = [h EXCEPT ![x].pc = First[req[x].op], ![x].before = before]
    <3> HIDE DEF before
    <3>1. Now(x, First[req[x].op], h[x].cwd, h[x].descs, h[x].todo, h[x].coll, h[x].def, before,
              h[x].result)
      BY <2>1, <2>2, <2>5, AcceptNow
    <3>2. QED
      BY <2>4, <3>1 DEF Accepted, before
  <2>6. QED
    BY <1>4, <2>5, EndNow DEF Accept
<1>5. ASSUME RecvFirst(x)
      PROVE  \/ Plain(x, "drop", h[x].result) /\ UNCHANGED server
             \/ Plain(x, "end", "error") /\ UNCHANGED server
             \/ Panic
  BY <1>5, GotoNow, EndNow DEF RecvFirst
<1>6. ASSUME Getwd(x)
      PROVE  \/ \E pc \in {"chdir", "build chdir"} :
                  /\ h[x].pc = "getwd" <=> pc = "chdir"
                  /\ Now(x, pc, cwd, h[x].descs, h[x].todo, h[x].coll, h[x].def, h[x].before,
                         h[x].result)
             \/ Plain(x, "end", "noclasses") \/ Plain(x, "end", "error")
  <2>1. CASE DirExists(cwd)
    <3> DEFINE pc == IF h[x].pc = "getwd" THEN "chdir" ELSE "build chdir"
    <3>1. h' = [h EXCEPT ![x].cwd = cwd, ![x].pc = pc]
      BY <1>6, <2>1 DEF Getwd
    <3>2. pc \in Pcs /\ pc \in {"chdir", "build chdir"} /\ (h[x].pc = "getwd" <=> pc = "chdir")
      OBVIOUS
    <3> HIDE DEF pc
    <3>3. QED
      BY <3>1, <3>2, GetwdNow
  <2>2. CASE ~DirExists(cwd)
    BY <1>6, <2>2, EndNow DEF Getwd
  <2>3. QED
    BY <2>1, <2>2
<1>7. ASSUME RunPython(x)
      PROVE  \/ /\ cwd \in Handlers /\ DirExists(cwd)
                /\ Now(x, "restore", h[x].cwd, Printed(cwd), h[x].todo, h[x].coll, h[x].def,
                       h[x].before, h[x].result)
             \/ Plain(x, "end", "noclasses")
  <2>1. CASE /\ cwd # Home /\ DirExists(cwd)
             /\ h' = [h EXCEPT ![x].pc = "restore", ![x].descs = Printed(cwd)]
    <3>1. cwd \in Handlers /\ h[cwd].pc \in Unpacked
      BY <2>1 DEF Dirs, DirExists
    <3>2. Printed(cwd) \in SUBSET Entries
      BY <3>1, PlaceOps, RequestTypes, PrintedLines
    <3>3. QED
      BY <2>1, <3>1, <3>2, PythonNow
  <2>2. QED
    BY <1>7, <2>1, EndNow DEF RunPython
<1>8. ASSUME InsertRepo(x)
      PROVE  \/ Now(x, "defs", h[x].cwd, h[x].descs, h[x].descs, nextId, h[x].def, h[x].before,
                    h[x].result)
             \/ Plain(x, "end", "error")
  BY <1>8, InsertedNow, EndNow DEF InsertRepo
<1>9. ASSUME InsertDef(x)
      PROVE  \/ Plain(x, "end", "ok") \/ Plain(x, "end", "error")
             \/ \E c \in h[x].todo :
                  Now(x, "defs", h[x].cwd, h[x].descs, h[x].todo \ {c}, h[x].coll, h[x].def,
                      h[x].before, h[x].result)
  BY <1>9, DefinedNow, EndNow DEF InsertDef, At, Earliest
<1>10. ASSUME FindRepo(x)
       PROVE  \/ \E r \in RepoRows(req[x].name) :
                   Now(x, "delete defs", h[x].cwd, h[x].descs, h[x].todo, r.id, h[x].def,
                       h[x].before, h[x].result)
              \/ Plain(x, "end", "error")
  BY <1>10, FoundNow, EndNow DEF FindRepo, RepoRows
<1>11. ASSUME SelectColl(x)
       PROVE  \/ \E r \in RepoRows(req[x].repo) :
                   /\ Now(x, "def", h[x].cwd, h[x].descs, h[x].todo, r.id, h[x].def,
                          h[x].before, h[x].result)
                   /\ UNCHANGED server
              \/ Plain(x, "close", "error") /\ UNCHANGED server
              \/ Panic
  BY <1>11, FoundNow, ReturnNow DEF SelectColl, RepoRows
<1>12. ASSUME SelectDef(x)
       PROVE  \/ \E d \in defs :
                   Now(x, "model", h[x].cwd, h[x].descs, h[x].todo, h[x].coll, d.id,
                       h[x].before, h[x].result)
              \/ Plain(x, "close", "error")
  BY <1>12, DefFoundNow, ReturnNow DEF SelectDef, DefSelected
<1>13. QED
  BY <1>4, <1>5, <1>6, <1>7, <1>8, <1>9, <1>10, <1>11, <1>12

\* The handler is at pc with this answer; the other handlers stay.
Went(x, pc, result) ==
    /\ h' \in HandlerTypes /\ \A y \in Handlers \ {x} : h'[y] = h[y]
    /\ h'[x].pc = pc /\ h'[x].result = result

\* Every step of a handler takes it to a place of its request.
LEMMA HandlePlaced ==
    ASSUME TypeOK, OnItsWay, NEW x \in Handlers, Handle(x)
    PROVE  h' \in HandlerTypes /\ OnItsWay' /\ UNCHANGED scenario
<1>1. server.pc = "up" /\ UNCHANGED scenario
  BY DEF Handle, Accept, RecvAll, RecvFirst, imageExistsOnRegistry, Unzip, Getwd, Chdir, RunPython,
     Restore, Build, Push, BuildReturn, BuildReturns, SelectRepo, InsertRepo, InsertDef, FindRepo,
     DeleteDefs, DeleteRepo, DropTable, CreateTable, Write, CheckLocalImage, SelectColl, SelectDef,
     DefSelected, InsertModel, Close, DeleteModel, At, FilesOnly, RepoOnly, ModelOnly, HandlerOnly,
     scenario
<1>2. h[x].pc \notin {"build return", "close", "end"} => h[x].result = "none"
  BY DEF OnItsWay
<1>3. CASE Panic
  BY <1>1, <1>3, LostPlaced DEF Panic
<1>4. ASSUME NEW pc, NEW result, Went(x, pc, result), UNCHANGED server,
             pc \in Places[req[x].op] \cup {"end"}, pc # "idle",
             result # "none" => pc \in {"build return", "close", "end"},
             pc = "build return" => result \in {"none", "error"},
             pc = "close" => result \in {"ok", "error"}
      PROVE  h' \in HandlerTypes /\ OnItsWay' /\ UNCHANGED scenario
  BY <1>1, <1>4, StepPlaced DEF Went, Placed
<1>5. CASE Accept(x)
  <2>1. req[x].op \in {"releaseRepo", "dropRepo", "releaseModel", "releaseLocal", "dropModel"}
    BY <1>5, RequestTypes DEF Accept
  <2>2. /\ First[req[x].op] \in Places[req[x].op]
        /\ First[req[x].op] \notin {"idle", "build return", "close"}
    <3>1. "drop" \in Storing
      BY DEF Storing
    <3>2. QED
      BY <2>1, <3>1, FirstPlaces, PlaceSets
  <2>3. Went(x, First[req[x].op], "none") \/ Went(x, "end", "error")
    BY <1>5, OtherFields DEF Accepted, Plain, Now, Went
  <2>4. UNCHANGED server
    BY <1>5 DEF Accept, HandlerOnly
  <2>5. QED
    BY <1>4, <2>2, <2>3, <2>4
<1>6. CASE RecvAll(x)
  <2>1. \/ Went(x, "image", h[x].result)
        \/ Went(x, "end", "error")
        \/ Went(x, "spin", h[x].result)
    BY <1>6, PlainSteps DEF Plain, Now, Went
  <2>2. {"image", "spin"} \subseteq Places[req[x].op]
    BY <1>6, PlaceOps, PlaceSets DEF RecvAll, At, Unpacked, Storing, ModelRelease
  <2>3. UNCHANGED server
    BY <1>6 DEF RecvAll, HandlerOnly, RepoOnly, FilesOnly, ModelOnly
  <2>4. h[x].pc \in {"recv"}
    BY <1>6 DEF RecvAll, At
  <2>5. QED
    BY <1>2, <1>4, <2>1, <2>2, <2>3, <2>4
<1>7. CASE RecvFirst(x)
  <2>1. \/ Panic
        \/ Went(x, "drop", h[x].result) /\ UNCHANGED server
        \/ Went(x, "end", "error") /\ UNCHANGED server
    BY <1>7, OtherFields DEF Plain, Now, Went
  <2>2. {"drop"} \subseteq Places[req[x].op]
    BY <1>7, PlaceOps, PlaceSets DEF RecvFirst, At, Unpacked, Storing, ModelRelease
  <2>3. h[x].pc \in {"recv"}
    BY <1>7 DEF RecvFirst, At
  <2>4. QED
    BY <1>2, <1>3, <1>4, <2>1, <2>2, <2>3
<1>8. CASE imageExistsOnRegistry(x)
  <2>1. \/ Went(x, "end", "exists")
        \/ Went(x, "unzip", h[x].result)
    BY <1>8, PlainSteps DEF Plain, Now, Went
  <2>2. {"unzip"} \subseteq Places[req[x].op]
    BY <1>8, PlaceOps, PlaceSets DEF imageExistsOnRegistry, At, Unpacked, Storing, ModelRelease
  <2>3. UNCHANGED server
    BY <1>8 DEF imageExistsOnRegistry, HandlerOnly, RepoOnly, FilesOnly, ModelOnly
  <2>4. h[x].pc \in {"image"}
    BY <1>8 DEF imageExistsOnRegistry, At
  <2>5. QED
    BY <1>2, <1>4, <2>1, <2>2, <2>3, <2>4
<1>9. CASE Unzip(x)
  <2>1. \/ Went(x, "getwd", h[x].result)
        \/ Went(x, "end", "error")
    BY <1>9, PlainSteps DEF Plain, Now, Went
  <2>2. {"getwd"} \subseteq Places[req[x].op]
    BY <1>9, PlaceOps, PlaceSets DEF Unzip, At, Unpacked, Storing, ModelRelease
  <2>3. UNCHANGED server
    BY <1>9 DEF Unzip, HandlerOnly, RepoOnly, FilesOnly, ModelOnly
  <2>4. h[x].pc \in {"unzip"}
    BY <1>9 DEF Unzip, At
  <2>5. QED
    BY <1>2, <1>4, <2>1, <2>2, <2>3, <2>4
<1>10. CASE Getwd(x)
  <2>1. \/ Went(x, "chdir", h[x].result)
        \/ Went(x, "build chdir", h[x].result)
        \/ Went(x, "end", "noclasses")
        \/ Went(x, "end", "error")
    BY <1>10, OtherFields DEF Plain, Now, Went
  <2>2. {"chdir", "build chdir"} \subseteq Places[req[x].op]
    BY <1>10, PlaceOps, PlaceSets DEF Getwd, At, Unpacked, Storing, ModelRelease
  <2>3. UNCHANGED server
    BY <1>10 DEF Getwd, HandlerOnly, RepoOnly, FilesOnly, ModelOnly
  <2>4. h[x].pc \in {"getwd", "build getwd"}
    BY <1>10 DEF Getwd, At
  <2>5. QED
    BY <1>2, <1>4, <2>1, <2>2, <2>3, <2>4
<1>11. CASE Chdir(x)
  <2>1. \/ Went(x, "python", h[x].result)
        \/ Went(x, "build", h[x].result)
    BY <1>11, PlainSteps DEF Plain, Now, Went
  <2>2. {"python", "build"} \subseteq Places[req[x].op]
    BY <1>11, PlaceOps, PlaceSets DEF Chdir, At, Unpacked, Storing, ModelRelease
  <2>3. UNCHANGED server
    BY <1>11 DEF Chdir, HandlerOnly, RepoOnly, FilesOnly, ModelOnly
  <2>4. h[x].pc \in {"chdir", "build chdir"}
    BY <1>11 DEF Chdir, At
  <2>5. QED
    BY <1>2, <1>4, <2>1, <2>2, <2>3, <2>4
<1>12. CASE RunPython(x)
  <2>1. \/ Went(x, "restore", h[x].result)
        \/ Went(x, "end", "noclasses")
    BY <1>12, OtherFields DEF Plain, Now, Went
  <2>2. {"restore"} \subseteq Places[req[x].op]
    BY <1>12, PlaceOps, PlaceSets DEF RunPython, At, Unpacked, Storing, ModelRelease
  <2>3. UNCHANGED server
    BY <1>12 DEF RunPython, HandlerOnly, RepoOnly, FilesOnly, ModelOnly
  <2>4. h[x].pc \in {"python"}
    BY <1>12 DEF RunPython, At
  <2>5. QED
    BY <1>2, <1>4, <2>1, <2>2, <2>3, <2>4
<1>13. CASE Restore(x)
  <2>1. \/ Went(x, "build getwd", h[x].result)
        \/ Went(x, "end", "noclasses")
    BY <1>13, PlainSteps DEF Plain, Now, Went
  <2>2. {"build getwd"} \subseteq Places[req[x].op]
    BY <1>13, PlaceOps, PlaceSets DEF Restore, At, Unpacked, Storing, ModelRelease
  <2>3. UNCHANGED server
    BY <1>13 DEF Restore, HandlerOnly, RepoOnly, FilesOnly, ModelOnly
  <2>4. h[x].pc \in {"restore"}
    BY <1>13 DEF Restore, At
  <2>5. QED
    BY <1>2, <1>4, <2>1, <2>2, <2>3, <2>4
<1>14. CASE Build(x)
  <2>1. \/ Went(x, "push", h[x].result)
        \/ Went(x, "build return", h[x].result)
        \/ Went(x, "hang", h[x].result)
        \/ Went(x, "build return", "error")
    BY <1>14, PlainSteps DEF Plain, Now, Went
  <2>2. {"push", "build return", "hang", "build return"} \subseteq Places[req[x].op]
    BY <1>14, PlaceOps, PlaceSets DEF Build, At, Unpacked, Storing, ModelRelease
  <2>3. UNCHANGED server
    BY <1>14 DEF Build, HandlerOnly, RepoOnly, FilesOnly, ModelOnly
  <2>4. h[x].pc \in {"build"}
    BY <1>14 DEF Build, At
  <2>5. QED
    BY <1>2, <1>4, <2>1, <2>2, <2>3, <2>4
<1>15. CASE Push(x)
  <2>1. \/ Went(x, "build return", h[x].result)
        \/ Went(x, "build return", "error")
    BY <1>15, PlainSteps DEF Plain, Now, Went
  <2>2. {"build return", "build return"} \subseteq Places[req[x].op]
    BY <1>15, PlaceOps, PlaceSets DEF Push, At, Unpacked, Storing, ModelRelease
  <2>3. UNCHANGED server
    BY <1>15 DEF Push, HandlerOnly, RepoOnly, FilesOnly, ModelOnly
  <2>4. h[x].pc \in {"push"}
    BY <1>15 DEF Push, At
  <2>5. QED
    BY <1>2, <1>4, <2>1, <2>2, <2>3, <2>4
<1>16. CASE BuildReturn(x)
  <2>1. \/ h[x].result = "none" /\ Went(x, "select", h[x].result)
        \/ Went(x, "end", "error")
    BY <1>16, PlainSteps DEF Plain, Now, Went
  <2>2. {"select"} \subseteq Places[req[x].op]
    BY <1>16, PlaceOps, PlaceSets DEF BuildReturn, BuildReturns, At, Unpacked, Storing, ModelRelease
  <2>3. UNCHANGED server
    BY <1>16 DEF BuildReturn, BuildReturns, HandlerOnly, RepoOnly, FilesOnly, ModelOnly
  <2>4. h[x].pc \in {"build return"}
    BY <1>16 DEF BuildReturn, BuildReturns, At
  <2>5. QED
    BY <1>2, <1>4, <2>1, <2>2, <2>3, <2>4
<1>17. CASE SelectRepo(x)
  <2>1. \/ Went(x, "insert", h[x].result)
        \/ Went(x, "end", "error")
        \/ Went(x, "end", "exists")
    BY <1>17, PlainSteps DEF Plain, Now, Went
  <2>2. {"insert"} \subseteq Places[req[x].op]
    BY <1>17, PlaceOps, PlaceSets DEF SelectRepo, At, Unpacked, Storing, ModelRelease
  <2>3. UNCHANGED server
    BY <1>17 DEF SelectRepo, HandlerOnly, RepoOnly, FilesOnly, ModelOnly
  <2>4. h[x].pc \in {"select"}
    BY <1>17 DEF SelectRepo, At
  <2>5. QED
    BY <1>2, <1>4, <2>1, <2>2, <2>3, <2>4
<1>18. CASE InsertRepo(x)
  <2>1. \/ Went(x, "defs", h[x].result)
        \/ Went(x, "end", "error")
    BY <1>18, OtherFields DEF Plain, Now, Went
  <2>2. {"defs"} \subseteq Places[req[x].op]
    BY <1>18, PlaceOps, PlaceSets DEF InsertRepo, At, Unpacked, Storing, ModelRelease
  <2>3. UNCHANGED server
    BY <1>18 DEF InsertRepo, HandlerOnly, RepoOnly, FilesOnly, ModelOnly
  <2>4. h[x].pc \in {"insert"}
    BY <1>18 DEF InsertRepo, At
  <2>5. QED
    BY <1>2, <1>4, <2>1, <2>2, <2>3, <2>4
<1>19. CASE InsertDef(x)
  <2>1. \/ Went(x, "end", "ok")
        \/ Went(x, "end", "error")
        \/ Went(x, "defs", h[x].result)
    BY <1>19, OtherFields DEF Plain, Now, Went
  <2>2. {"defs"} \subseteq Places[req[x].op]
    BY <1>19, PlaceOps, PlaceSets DEF InsertDef, At, Unpacked, Storing, ModelRelease
  <2>3. UNCHANGED server
    BY <1>19 DEF InsertDef, HandlerOnly, RepoOnly, FilesOnly, ModelOnly
  <2>4. h[x].pc \in {"defs"}
    BY <1>19 DEF InsertDef, At
  <2>5. QED
    BY <1>2, <1>4, <2>1, <2>2, <2>3, <2>4
<1>20. CASE FindRepo(x)
  <2>1. \/ Went(x, "delete defs", h[x].result)
        \/ Went(x, "end", "error")
    BY <1>20, OtherFields DEF Plain, Now, Went
  <2>2. {"delete defs"} \subseteq Places[req[x].op]
    BY <1>20, PlaceOps, PlaceSets DEF FindRepo, At, Unpacked, Storing, ModelRelease
  <2>3. UNCHANGED server
    BY <1>20 DEF FindRepo, HandlerOnly, RepoOnly, FilesOnly, ModelOnly
  <2>4. h[x].pc \in {"find"}
    BY <1>20 DEF FindRepo, At
  <2>5. QED
    BY <1>2, <1>4, <2>1, <2>2, <2>3, <2>4
<1>21. CASE DeleteDefs(x)
  <2>1. \/ Went(x, "delete repo", h[x].result)
        \/ Went(x, "end", "error")
    BY <1>21, PlainSteps DEF Plain, Now, Went
  <2>2. {"delete repo"} \subseteq Places[req[x].op]
    BY <1>21, PlaceOps, PlaceSets DEF DeleteDefs, At, Unpacked, Storing, ModelRelease
  <2>3. UNCHANGED server
    BY <1>21 DEF DeleteDefs, HandlerOnly, RepoOnly, FilesOnly, ModelOnly
  <2>4. h[x].pc \in {"delete defs"}
    BY <1>21 DEF DeleteDefs, At
  <2>5. QED
    BY <1>2, <1>4, <2>1, <2>2, <2>3, <2>4
<1>22. CASE DeleteRepo(x)
  <2>1. \/ Went(x, "end", "ok")
        \/ Went(x, "end", "error")
    BY <1>22, PlainSteps DEF Plain, Now, Went
  <2>2. UNCHANGED server
    BY <1>22 DEF DeleteRepo, HandlerOnly, RepoOnly, FilesOnly, ModelOnly
  <2>3. h[x].pc \in {"delete repo"}
    BY <1>22 DEF DeleteRepo, At
  <2>4. QED
    BY <1>2, <1>4, <2>1, <2>2, <2>3
<1>23. CASE DropTable(x)
  <2>1. \/ Went(x, "create", h[x].result)
        \/ Went(x, "end", "error")
    BY <1>23, PlainSteps DEF Plain, Now, Went
  <2>2. {"create"} \subseteq Places[req[x].op]
    BY <1>23, PlaceOps, PlaceSets DEF DropTable, At, Unpacked, Storing, ModelRelease
  <2>3. UNCHANGED server
    BY <1>23 DEF DropTable, HandlerOnly, RepoOnly, FilesOnly, ModelOnly
  <2>4. h[x].pc \in {"drop"}
    BY <1>23 DEF DropTable, At
  <2>5. QED
    BY <1>2, <1>4, <2>1, <2>2, <2>3, <2>4
<1>24. CASE CreateTable(x)
  <2>1. \/ Went(x, "write", h[x].result)
        \/ Went(x, "end", "error")
    BY <1>24, PlainSteps DEF Plain, Now, Went
  <2>2. {"write"} \subseteq Places[req[x].op]
    BY <1>24, PlaceOps, PlaceSets DEF CreateTable, At, Unpacked, Storing, ModelRelease
  <2>3. UNCHANGED server
    BY <1>24 DEF CreateTable, HandlerOnly, RepoOnly, FilesOnly, ModelOnly
  <2>4. h[x].pc \in {"create"}
    BY <1>24 DEF CreateTable, At
  <2>5. QED
    BY <1>2, <1>4, <2>1, <2>2, <2>3, <2>4
<1>25. CASE Write(x)
  <2>1. \/ Went(x, "coll", h[x].result)
        \/ Went(x, "close", "error")
        \/ req[x].op = "releaseLocal" /\ Went(x, "spin", h[x].result)
    BY <1>25, PlainSteps DEF Plain, Now, Went
  <2>2. /\ "coll" \in Places[req[x].op] /\ "close" \in Places[req[x].op]
        /\ req[x].op = "releaseLocal" => "spin" \in Places[req[x].op]
    BY <1>25, PlaceOps, PlaceSets DEF Write, At, Unpacked, Storing, ModelRelease
  <2>3. UNCHANGED server
    BY <1>25 DEF Write, HandlerOnly, RepoOnly, FilesOnly, ModelOnly
  <2>4. h[x].pc \in {"write"}
    BY <1>25 DEF Write, At
  <2>5. QED
    BY <1>2, <1>4, <2>1, <2>2, <2>3, <2>4
<1>26. CASE CheckLocalImage(x)
  <2>1. Went(x, "close", "error")
    BY <1>26, PlainSteps DEF Plain, Now, Went
  <2>2. {"close"} \subseteq Places[req[x].op]
    BY <1>26, PlaceOps, PlaceSets DEF CheckLocalImage, At, Unpacked, Storing, ModelRelease
  <2>3. UNCHANGED server
    BY <1>26 DEF CheckLocalImage, HandlerOnly, RepoOnly, FilesOnly, ModelOnly
  <2>4. h[x].pc \in {"coll"}
    BY <1>26 DEF CheckLocalImage, At
  <2>5. QED
    BY <1>2, <1>4, <2>1, <2>2, <2>3, <2>4
<1>27. CASE SelectColl(x)
  <2>1. \/ Panic
        \/ Went(x, "def", h[x].result) /\ UNCHANGED server
        \/ Went(x, "close", "error") /\ UNCHANGED server
    BY <1>27, OtherFields DEF Plain, Now, Went
  <2>2. {"def", "close"} \subseteq Places[req[x].op]
    BY <1>27, PlaceOps, PlaceSets DEF SelectColl, At, Unpacked, Storing, ModelRelease
  <2>3. h[x].pc \in {"coll"}
    BY <1>27 DEF SelectColl, At
  <2>4. QED
    BY <1>2, <1>3, <1>4, <2>1, <2>2, <2>3
<1>28. CASE SelectDef(x)
  <2>1. \/ Went(x, "model", h[x].result)
        \/ Went(x, "close", "error")
    BY <1>28, OtherFields DEF Plain, Now, Went
  <2>2. {"model", "close"} \subseteq Places[req[x].op]
    BY <1>28, PlaceOps, PlaceSets DEF SelectDef, DefSelected, At, Unpacked, Storing, ModelRelease
  <2>3. UNCHANGED server
    BY <1>28 DEF SelectDef, DefSelected, HandlerOnly, RepoOnly, FilesOnly, ModelOnly
  <2>4. h[x].pc \in {"def"}
    BY <1>28 DEF SelectDef, DefSelected, At
  <2>5. QED
    BY <1>2, <1>4, <2>1, <2>2, <2>3, <2>4
<1>29. CASE InsertModel(x)
  <2>1. \/ Went(x, "close", "ok")
        \/ Went(x, "close", "error")
    BY <1>29, PlainSteps DEF Plain, Now, Went
  <2>2. {"close", "close"} \subseteq Places[req[x].op]
    BY <1>29, PlaceOps, PlaceSets DEF InsertModel, At, Unpacked, Storing, ModelRelease
  <2>3. UNCHANGED server
    BY <1>29 DEF InsertModel, HandlerOnly, RepoOnly, FilesOnly, ModelOnly
  <2>4. h[x].pc \in {"model"}
    BY <1>29 DEF InsertModel, At
  <2>5. QED
    BY <1>2, <1>4, <2>1, <2>2, <2>3, <2>4
<1>30. CASE Close(x)
  <2>1. Went(x, "end", h[x].result)
    BY <1>30, PlainSteps DEF Plain, Now, Went
  <2>2. UNCHANGED server
    BY <1>30 DEF Close, HandlerOnly, RepoOnly, FilesOnly, ModelOnly
  <2>3. h[x].pc \in {"close"}
    BY <1>30 DEF Close, At
  <2>4. QED
    BY <1>2, <1>4, <2>1, <2>2, <2>3
<1>31. CASE DeleteModel(x)
  <2>1. \/ Went(x, "end", "ok")
        \/ Went(x, "end", "error")
    BY <1>31, PlainSteps DEF Plain, Now, Went
  <2>2. UNCHANGED server
    BY <1>31 DEF DeleteModel, HandlerOnly, RepoOnly, FilesOnly, ModelOnly
  <2>3. h[x].pc \in {"delete"}
    BY <1>31 DEF DeleteModel, At
  <2>4. QED
    BY <1>2, <1>4, <2>1, <2>2, <2>3
<1>32. QED
  BY <1>5, <1>6, <1>7, <1>8, <1>9, <1>10, <1>11, <1>12, <1>13, <1>14, <1>15, <1>16, <1>17,
     <1>18, <1>19, <1>20, <1>21, <1>22, <1>23, <1>24, <1>25, <1>26, <1>27, <1>28, <1>29, <1>30, <1>31 DEF Handle

\* The steps that only move a handler.
LEMMA Unshared ==
    ASSUME NEW x \in Handlers,
           \/ Accept(x) \/ RecvAll(x) \/ RecvFirst(x) \/ imageExistsOnRegistry(x) \/ Unzip(x)
           \/ Getwd(x) \/ RunPython(x) \/ SelectRepo(x) \/ FindRepo(x) \/ CheckLocalImage(x)
           \/ SelectDef(x)
    PROVE  UNCHANGED <<cwd, images, database, storage>>
BY DEF Accept, RecvAll, RecvFirst, imageExistsOnRegistry, Unzip, Getwd, RunPython, SelectRepo,
   FindRepo, CheckLocalImage, SelectDef, DefSelected, FilesOnly, RepoOnly, ModelOnly, images,
   database, storage

\* The steps of a handler keep the types of what handlers share.
LEMMA HandleTyped ==
    ASSUME TypeOK, OnItsWay, NEW x \in Handlers, Handle(x)
    PROVE  Typed'
<1> USE DEF FilesOnly, RepoOnly, ModelOnly, images, database, storage
<1>0. Typed /\ h \in HandlerTypes
  BY TypeParts
<1>1. CASE UNCHANGED <<cwd, images, database, storage>>
  BY <1>0, <1>1 DEF Typed
<1>2. CASE Chdir(x) \/ Restore(x) \/ BuildReturn(x)
  <2>1. cwd' \in Dirs /\ UNCHANGED <<images, database, storage>>
    BY <1>0, <1>2, HandlerFields DEF Chdir, Restore, BuildReturn, BuildReturns, Typed, Dirs
  <2>2. QED
    BY <1>0, <2>1 DEF Typed
<1>3. CASE Build(x) \/ Push(x)
  <2>1. req[x].name \in RepoNames
    BY <1>3, PlaceOps, RequestTypes DEF Build, Push, At, Unpacked
  <2>2. /\ registry' \in [RepoNames -> Dirs \cup {NoImage}]
        /\ local' \in [RepoNames -> Handlers \cup {NoImage}]
    <3>1. CASE Build(x)
      <4>1. cwd # Home => cwd \in Handlers
        BY <1>0 DEF Typed, Dirs
      <4>2. \/ UNCHANGED images
            \/ cwd # Home /\ local' = [local EXCEPT ![req[x].name] = cwd] /\ UNCHANGED registry
            \/ registry' = [registry EXCEPT ![req[x].name] = x] /\ UNCHANGED local
        BY <3>1 DEF Build
      <4>3. QED
        BY <1>0, <2>1, <4>1, <4>2 DEF Typed, Dirs
    <3>2. CASE Push(x)
      <4>1. /\ UNCHANGED local
            /\ \/ UNCHANGED registry
               \/ registry' = [registry EXCEPT ![req[x].name] = local[req[x].name]]
        BY <3>2 DEF Push
      <4>2. local[req[x].name] \in Dirs \cup {NoImage}
        BY <1>0, <2>1 DEF Typed, Dirs
      <4>3. QED
        BY <1>0, <2>1, <4>1, <4>2 DEF Typed
    <3>3. QED
      BY <1>3, <3>1, <3>2
  <2>3. UNCHANGED <<cwd, database, storage>>
    BY <1>3 DEF Build, Push
  <2>4. QED
    BY <1>0, <2>2, <2>3 DEF Typed
<1>4. CASE InsertRepo(x)
  <2>1. req[x].name \in RepoNames
    BY <1>4, PlaceOps, RequestTypes DEF InsertRepo, At, Unpacked
  <2>2. /\ UNCHANGED <<cwd, images, defs, models, storage>>
        /\ \/ UNCHANGED <<repos, nextId>>
           \/ /\ repos' = repos \cup {[id |-> nextId, name |-> req[x].name]}
              /\ nextId' = nextId + 1
    BY <1>4 DEF InsertRepo, Inserted, TakeId
  <2>3. QED
    BY <1>0, <2>1, <2>2 DEF Typed
<1>5. CASE InsertDef(x)
  <2>1. h[x].coll \in Nat /\ h[x].todo \subseteq Entries
    BY <1>0, HandlerFields
  <2>2. /\ UNCHANGED <<cwd, images, repos, models, storage>>
        /\ \/ UNCHANGED <<defs, nextId>>
           \/ \E c \in h[x].todo :
                /\ defs' = defs \cup {[id |-> nextId, coll |-> h[x].coll, entry |-> c]}
                /\ nextId' = nextId + 1
    BY <1>5 DEF InsertDef, Inserted, TakeId, DefRow, Earliest
  <2>3. QED
    BY <1>0, <2>1, <2>2 DEF Typed
<1>6. CASE DeleteDefs(x) \/ DeleteRepo(x) \/ DeleteModel(x)
  <2>1. /\ UNCHANGED <<cwd, images, nextId, storage>>
        /\ defs' \subseteq defs /\ repos' \subseteq repos /\ models' \subseteq models
    BY <1>6 DEF DeleteDefs, DeleteRepo, DeleteModel
  <2>2. QED
    BY <1>0, <2>1 DEF Typed
<1>7. CASE InsertModel(x)
  <2>1. req[x].name \in ModelNames /\ h[x].def \in Nat
    BY <1>0, <1>7, HandlerFields, PlaceOps, RequestTypes DEF InsertModel, At, Storing
  <2>2. /\ UNCHANGED <<cwd, images, repos, defs, storage>>
        /\ \/ UNCHANGED <<models, nextId>>
           \/ /\ models' = models \cup {[id |-> nextId, def |-> h[x].def, name |-> req[x].name,
                                         by |-> x]}
              /\ nextId' = nextId + 1
    BY <1>7 DEF InsertModel, Inserted, TakeId
  <2>3. QED
    BY <1>0, <2>1, <2>2 DEF Typed
<1>8. CASE DropTable(x) \/ CreateTable(x) \/ Write(x) \/ SelectColl(x) \/ Close(x)
  <2>1. table(x) \in Tables
    BY <1>8, PlaceOps, RequestTypes
    DEF DropTable, CreateTable, Write, SelectColl, Close, At, Storing
  <2>2. /\ UNCHANGED <<cwd, images, database>>
        /\ tables' \subseteq tables \cup {table(x)}
        /\ \/ blocks' \subseteq blocks
           \/ \E part \in {"head", "tail"} : Flush(x, part)
    BY <1>8 DEF DropTable, CreateTable, Write, SelectColl, Close
  <2>3. blocks' \subseteq blocks
          \cup {[table |-> table(x), by |-> x, part |-> part] : part \in {"head", "tail"}}
    BY <2>2 DEF Flush
  <2>4. QED
    BY <1>0, <2>1, <2>2, <2>3 DEF Typed
<1>9. QED
  BY <1>1, <1>2, <1>3, <1>4, <1>5, <1>6, <1>7, <1>8, Unshared DEF Handle

\* The start of the server and its end keep types and places.
LEMMA BootTyped ==
    ASSUME TypeOK, OnItsWay, Boot \/ Crash \/ Restart
    PROVE  TypeOK' /\ OnItsWay'
<1> USE DEF BootOnly, Fatal, images, database, storage
<1>0. Typed /\ h \in HandlerTypes /\ server \in ServerType /\ DefaultRepo \in RepoNames
      /\ env.starts \in Nat
  <2>1. env \in Environments
    BY ModelZooAssumption DEF TypeOK
  <2>2. env.starts \in Nat
    BY <2>1 DEF Environments
  <2>3. QED
    BY <2>2, TypeParts, ModelZooAssumption
<1>1. UNCHANGED scenario
  BY DEF Boot, BootSelect, BootInsertRepo, BootInsertDef, Crash, Restart, scenario
<1>2. server.pc # "up" \/ Crash
  BY DEF Boot, BootSelect, BootInsertRepo, BootInsertDef, Restart
<1>3. CASE BootSelect
  <2>1. server' \in ServerType
    BY <1>0, <1>3 DEF BootSelect, ServerType
  <2>2. Typed' /\ UNCHANGED h
    BY <1>0, <1>3 DEF BootSelect, Typed
  <2>3. OnItsWay'
    BY <1>1, <1>2, <1>3, <2>2 DEF OnItsWay, BootSelect, Crash, scenario
  <2>4. QED
    BY <1>0, <1>1, <2>1, <2>2, <2>3, TypesKept
<1>4. CASE BootInsertRepo
  <2>1. server' \in ServerType
    <3>1. \/ server' = [pc |-> "defs", coll |-> nextId, todo |-> DefaultEntries,
                        starts |-> server.starts]
          \/ server' = [server EXCEPT !.pc = "down"]
      BY <1>0, <1>4 DEF BootInsertRepo, ServerType
    <3>2. QED
      BY <1>0, <3>1 DEF ServerType, Typed
  <2>2. /\ UNCHANGED <<cwd, images, defs, models, storage, h>>
        /\ \/ UNCHANGED <<repos, nextId>>
           \/ /\ repos' = repos \cup {[id |-> nextId, name |-> DefaultRepo]}
              /\ nextId' = nextId + 1
    BY <1>4 DEF BootInsertRepo, Inserted, TakeId
  <2>3. Typed'
    BY <1>0, <2>2 DEF Typed
  <2>4. OnItsWay'
    BY <1>1, <1>2, <1>4, <2>2 DEF OnItsWay, BootInsertRepo, Crash, scenario
  <2>5. QED
    BY <1>0, <1>1, <2>1, <2>2, <2>3, <2>4, TypesKept
<1>5. CASE BootInsertDef
  <2>1. server' \in ServerType
    BY <1>0, <1>5 DEF BootInsertDef, ServerType
  <2>2. /\ UNCHANGED <<cwd, images, repos, models, storage, h>>
        /\ \/ UNCHANGED <<defs, nextId>>
           \/ \E c \in server.todo :
                /\ defs' = defs \cup {[id |-> nextId, coll |-> server.coll, entry |-> c]}
                /\ nextId' = nextId + 1
    BY <1>5 DEF BootInsertDef, Inserted, TakeId
  <2>3. server.coll \in Nat /\ server.todo \subseteq DefaultEntries
    BY <1>0 DEF ServerType
  <2>4. Typed'
    BY <1>0, <2>2, <2>3 DEF Typed
  <2>5. OnItsWay'
    BY <1>1, <1>2, <1>5, <2>2 DEF OnItsWay, BootInsertDef, Crash, scenario
  <2>6. QED
    BY <1>0, <1>1, <2>1, <2>2, <2>4, <2>5, TypesKept
<1>6. CASE Crash
  <2>1. server' \in ServerType
    BY <1>0, <1>6 DEF Crash, ServerType
  <2>2. Typed'
    BY <1>0, <1>6 DEF Crash, Typed
  <2>3. QED
    BY <1>0, <1>1, <1>6, <2>1, <2>2, LostPlaced, TypesKept DEF Crash
<1>7. CASE Restart
  <2>1. server' \in ServerType
    <3>1. /\ server' = [pc |-> "start", coll |-> 0, todo |-> {}, starts |-> server.starts + 1]
          /\ server.starts < env.starts /\ server.starts \in 1 .. env.starts
      BY <1>0, <1>7 DEF Restart, ServerType
    <3>2. server.starts + 1 \in 1 .. env.starts
      BY <1>0, <3>1
    <3>3. QED
      BY <3>1, <3>2 DEF ServerType
  <2>2. Typed' /\ UNCHANGED h
    BY <1>0, <1>7 DEF Restart, Typed, Dirs
  <2>3. OnItsWay'
    BY <1>1, <1>2, <1>7, <2>2 DEF OnItsWay, Restart, scenario
  <2>4. QED
    BY <1>0, <1>1, <2>1, <2>2, <2>3, TypesKept
<1>8. QED
  BY <1>3, <1>4, <1>5, <1>6, <1>7 DEF Boot

\* Every step keeps types and places.
LEMMA StepTyped ==
    ASSUME TypeOK, OnItsWay, [Next]_vars
    PROVE  TypeOK' /\ OnItsWay'
<1>1. ASSUME NEW x \in Handlers, Handle(x)
      PROVE  TypeOK' /\ OnItsWay'
  <2>1. h' \in HandlerTypes /\ OnItsWay' /\ UNCHANGED scenario
    BY <1>1, HandlePlaced
  <2>2. Typed'
    BY <1>1, HandleTyped
  <2>3. server' \in ServerType
    <3>1. UNCHANGED server \/ server' = [server EXCEPT !.pc = "panicked"]
      BY <1>1 DEF Handle, Accept, RecvAll, RecvFirst, imageExistsOnRegistry, Unzip, Getwd, Chdir,
         RunPython, Restore, Build, Push, BuildReturn, BuildReturns, SelectRepo, InsertRepo,
         InsertDef, FindRepo, DeleteDefs, DeleteRepo, DropTable, CreateTable, Write,
         CheckLocalImage, SelectColl, SelectDef, DefSelected, InsertModel, Close, DeleteModel,
         Panic, FilesOnly, RepoOnly, HandlerOnly
    <3>2. QED
      BY <3>1, TypeParts DEF ServerType
  <2>4. QED
    BY <2>1, <2>2, <2>3, TypesKept
<1>2. CASE UNCHANGED vars
  BY <1>2 DEF vars, scenario, images, database, storage, TypeOK, OnItsWay, ServerType
<1>3. QED
  BY <1>1, <1>2, BootTyped DEF Next

-----------------------------------------------------------------------------
(* Images: what is listed has been pushed. *)

Images == ReposHaveImages /\ ImageFirst

\* The registry, the images and the rows stay, and no handler comes to a
\* place that relies on an image.
ImagesQuiet ==
    /\ UNCHANGED <<registry, local, req>> /\ repos' \subseteq repos
    /\ \A y \in Handlers :
         h'[y].pc \in {"select", "insert", "push", "build return"} =>
             h'[y].pc = h[y].pc /\ h'[y].result = h[y].result

\* Such a step keeps the invariant.
LEMMA QuietImages ==
    ASSUME Images, ImagesQuiet
    PROVE  Images'
BY DEF Images, ImagesQuiet, ReposHaveImages, ImageFirst

\* The death of the process is such a step.
LEMMA PanicImages ==
    ASSUME TypeOK, h' = Lost(h), UNCHANGED <<registry, local, req, repos>>
    PROVE  ImagesQuiet
<1>1. h \in HandlerTypes
  BY TypeParts
<1>2. \A y \in Handlers : LostAs(y)
  BY <1>1, LostNow
<1>3. QED
  BY <1>2 DEF LostAs, ImagesQuiet

\* So is every step that goes to none of these places.
LEMMA WentImages ==
    ASSUME NEW x \in Handlers, NEW pc, NEW result, Went(x, pc, result),
           pc \notin {"select", "insert", "push", "build return"},
           UNCHANGED <<registry, local, req>>, repos' \subseteq repos
    PROVE  ImagesQuiet
BY DEF Went, ImagesQuiet

\* The step of a handler either is the build, the push, the end of the build
\* or a statement on model_repos, or does not matter to the images.
LEMMA OtherImages ==
    ASSUME TypeOK, OnItsWay, NEW x \in Handlers, Handle(x)
    PROVE  \/ ImagesQuiet
           \/ Build(x) \/ Push(x) \/ BuildReturn(x) \/ SelectRepo(x) \/ InsertRepo(x)
<1> USE DEF FilesOnly, RepoOnly, ModelOnly, HandlerOnly, scenario, images, database
<1>1. CASE Accept(x)
  <2>1. req[x].op \in {"releaseRepo", "dropRepo", "releaseModel", "releaseLocal", "dropModel"}
    BY <1>1, RequestTypes DEF Accept
  <2>2. First[req[x].op] \notin {"select", "insert", "push", "build return"}
    BY <2>1, FirstPlaces
  <2>3. Went(x, First[req[x].op], "none") \/ Went(x, "end", "error")
    BY <1>1, OtherFields DEF Accepted, Plain, Now, Went
  <2>4. QED
    BY <1>1, <2>2, <2>3, WentImages DEF Accept
<1>2. CASE RecvAll(x) \/ imageExistsOnRegistry(x) \/ Unzip(x) \/ Chdir(x) \/ Restore(x)
  <2>1. \E pc \in {"image", "end", "spin", "unzip", "getwd", "python", "build", "build getwd"},
           r \in Results \cup {h[x].result} : Went(x, pc, r)
    BY <1>2, PlainSteps DEF Plain, Now, Went, Results
  <2>2. UNCHANGED <<registry, local, req, repos>>
    BY <1>2 DEF RecvAll, imageExistsOnRegistry, Unzip, Chdir, Restore
  <2>3. QED
    BY <2>1, <2>2, WentImages
<1>3. CASE DeleteDefs(x) \/ DeleteRepo(x)
  <2>1. \E pc \in {"delete repo", "end"}, r \in Results \cup {h[x].result} : Went(x, pc, r)
    BY <1>3, PlainSteps DEF Plain, Now, Went, Results
  <2>2. UNCHANGED <<registry, local, req>> /\ repos' \subseteq repos
    BY <1>3 DEF DeleteDefs, DeleteRepo
  <2>3. QED
    BY <2>1, <2>2, WentImages
<1>4. CASE \/ DropTable(x) \/ CreateTable(x) \/ Write(x) \/ CheckLocalImage(x) \/ InsertModel(x)
           \/ Close(x) \/ DeleteModel(x)
  <2>1. \E pc \in {"create", "write", "coll", "close", "end", "spin"},
           r \in Results \cup {h[x].result} : Went(x, pc, r)
    BY <1>4, PlainSteps DEF Plain, Now, Went, Results
  <2>2. UNCHANGED <<registry, local, req, repos>>
    BY <1>4 DEF DropTable, CreateTable, Write, CheckLocalImage, InsertModel, Close, DeleteModel
  <2>3. QED
    BY <2>1, <2>2, WentImages
<1>5. CASE Getwd(x) \/ RunPython(x) \/ InsertDef(x) \/ FindRepo(x)
  <2>1. \E pc \in {"chdir", "build chdir", "restore", "defs", "delete defs", "end"},
           r \in Results \cup {h[x].result} : Went(x, pc, r)
    <3>1. Getwd(x) => \E pc \in {"chdir", "build chdir", "end"},
                         r \in Results \cup {h[x].result} : Went(x, pc, r)
      BY OtherFields DEF Plain, Now, Went, Results
    <3>2. RunPython(x) => \E pc \in {"restore", "end"}, r \in Results \cup {h[x].result} : Went(x, pc, r)
      BY OtherFields DEF Plain, Now, Went, Results
    <3>3. InsertDef(x) => \E pc \in {"defs", "end"}, r \in Results \cup {h[x].result} : Went(x, pc, r)
      BY OtherFields DEF Plain, Now, Went, Results
    <3>4. FindRepo(x) => \E pc \in {"delete defs", "end"},
                            r \in Results \cup {h[x].result} : Went(x, pc, r)
      BY OtherFields DEF Plain, Now, Went, Results
    <3>5. QED
      BY <1>5, <3>1, <3>2, <3>3, <3>4
  <2>2. UNCHANGED <<registry, local, req, repos>>
    BY <1>5 DEF Getwd, RunPython, InsertDef, FindRepo
  <2>3. QED
    BY <2>1, <2>2, WentImages
<1>6. CASE RecvFirst(x) \/ SelectColl(x) \/ SelectDef(x)
  <2>1. \/ Panic
        \/ \E pc \in {"drop", "def", "model", "close", "end"},
              r \in Results \cup {h[x].result} : Went(x, pc, r)
    <3>1. RecvFirst(x) => Panic \/ \E pc \in {"drop", "end"},
                                     r \in Results \cup {h[x].result} : Went(x, pc, r)
      BY OtherFields DEF Plain, Now, Went, Results
    <3>2. SelectColl(x) => Panic \/ \E pc \in {"def", "close"},
                                      r \in Results \cup {h[x].result} : Went(x, pc, r)
      BY OtherFields DEF Plain, Now, Went, Results
    <3>3. SelectDef(x) => \E pc \in {"model", "close"},
                             r \in Results \cup {h[x].result} : Went(x, pc, r)
      BY OtherFields DEF Plain, Now, Went, Results
    <3>4. QED
      BY <1>6, <3>1, <3>2, <3>3
  <2>2. UNCHANGED <<registry, local, req, repos>>
    BY <1>6 DEF RecvFirst, SelectColl, SelectDef, DefSelected
  <2>3. QED
    BY <2>1, <2>2, WentImages, PanicImages DEF Panic
<1>7. QED
  BY <1>1, <1>2, <1>3, <1>4, <1>5, <1>6 DEF Handle

\* Every step keeps the images.
LEMMA StepImages ==
    ASSUME TypeOK, OnItsWay, Images, [Next]_vars
    PROVE  Images'
<1> USE DEF Images, FilesOnly, RepoOnly, HandlerOnly, scenario, images, database
<1>0. /\ h \in HandlerTypes /\ registry \in [RepoNames -> Dirs \cup {NoImage}]
      /\ local \in [RepoNames -> Handlers \cup {NoImage}] /\ cwd \in Dirs
      /\ NoImage \notin Dirs /\ DefaultRepo \in RepoNames
      /\ \A r \in repos : r.name \in RepoNames
  BY TypeParts, ModelZooAssumption DEF Typed, Dirs
<1>1. ASSUME NEW x \in Handlers, Handle(x)
      PROVE  Images'
  <2>0. \A y \in Handlers : h[y].pc \in Unpacked => req[y].name \in RepoNames
    BY PlaceOps, RequestTypes
  <2> USE <2>0 DEF Unpacked
  <2>1. CASE Build(x)
    <3>1. UNCHANGED <<req, repos>> /\ h[x].pc = "build" /\ h[x].result = "none"
      BY <2>1 DEF Build, At, OnItsWay
    <3>2. \/ /\ Went(x, "push", "none") /\ cwd # Home
             /\ local' = [local EXCEPT ![req[x].name] = cwd] /\ UNCHANGED registry
          \/ /\ Went(x, "build return", "none")
             /\ registry' = [registry EXCEPT ![req[x].name] = x] /\ UNCHANGED local
          \/ Went(x, "hang", "none") /\ UNCHANGED images
          \/ Went(x, "build return", "error") /\ UNCHANGED images
      <4>1. "push" \in Pcs /\ "build return" \in Pcs /\ "hang" \in Pcs
        BY DEF Pcs
      <4>2. QED
        BY <1>0, <2>1, <3>1, <4>1, GotoNow, BuildFailsNow DEF Build, Plain, Now, Went
    <3>3. cwd # Home => cwd # NoImage
      BY <1>0
    <3>4. x # NoImage
      BY <1>0 DEF Dirs
    <3>5. QED
      BY <1>0, <3>1, <3>2, <3>3, <3>4, ZenonT(30) DEF Went, ReposHaveImages, ImageFirst
  <2>2. CASE Push(x)
    <3>1. UNCHANGED <<req, repos, local>> /\ h[x].pc = "push" /\ local[req[x].name] # NoImage
      BY <2>2 DEF Push, At, ImageFirst
    <3>2. \/ /\ registry' = [registry EXCEPT ![req[x].name] = local[req[x].name]]
             /\ Went(x, "build return", h[x].result) \/ Went(x, "build return", "error")
          \/ UNCHANGED registry /\ Went(x, "build return", "error")
      <4>1. "build return" \in Pcs
        BY DEF Pcs
      <4>2. QED
        BY <1>0, <2>2, <4>1, GotoNow, BuildFailsNow DEF Push, Plain, Now, Went
    <3>3. QED
      BY <1>0, <3>1, <3>2, ZenonT(30) DEF Went, ReposHaveImages, ImageFirst
  <2>3. CASE BuildReturn(x)
    <3>1. /\ UNCHANGED <<req, repos, registry, local>> /\ h[x].pc = "build return"
          /\ \/ h[x].result = "none" /\ Went(x, "select", h[x].result)
             \/ Went(x, "end", "error")
      BY <2>3, PlainSteps DEF BuildReturn, BuildReturns, At, Plain, Now, Went
    <3>2. QED
      BY <3>1 DEF Went, ReposHaveImages, ImageFirst
  <2>4. CASE SelectRepo(x)
    <3>1. /\ UNCHANGED <<req, repos, registry, local>> /\ h[x].pc = "select"
          /\ \E pc \in {"insert", "end"}, r \in Results \cup {h[x].result} : Went(x, pc, r)
      BY <2>4, PlainSteps DEF SelectRepo, At, Plain, Now, Went, Results
    <3>2. QED
      BY <3>1 DEF Went, ReposHaveImages, ImageFirst
  <2>5. CASE InsertRepo(x)
    <3>1. /\ UNCHANGED <<req, registry, local>> /\ h[x].pc = "insert"
          /\ \A r \in repos' : r \in repos \/ r.name = req[x].name
      <4>1. repos' = repos \/ repos' = repos \cup {[id |-> nextId, name |-> req[x].name]}
        BY <2>5 DEF InsertRepo, Inserted
      <4>2. UNCHANGED <<req, registry, local>> /\ h[x].pc = "insert"
        BY <2>5 DEF InsertRepo, At
      <4>3. ASSUME NEW r \in repos', r \notin repos
            PROVE  r.name = req[x].name
        <5>1. r = [id |-> nextId, name |-> req[x].name]
          BY <4>1, <4>3
        <5>2. QED
          BY <5>1
      <4>4. QED
        BY <4>2, <4>3
    <3>2. Went(x, "defs", h[x].result) \/ Went(x, "end", "error")
      BY <2>5, OtherFields DEF Plain, Now, Went
    <3>3. QED
      BY <3>1, <3>2 DEF Went, ReposHaveImages, ImageFirst
  <2>6. QED
    BY <1>1, <2>1, <2>2, <2>3, <2>4, <2>5, OtherImages, QuietImages
<1>2. CASE Boot \/ Restart \/ UNCHANGED vars
  <2>1. UNCHANGED <<req, h, registry, local>>
    BY <1>2 DEF Boot, BootSelect, BootInsertRepo, BootInsertDef, BootOnly, Restart, vars
  <2>2. \A r \in repos' : r \in repos \/ r.name = DefaultRepo
    BY <1>2 DEF Boot, BootSelect, BootInsertRepo, BootInsertDef, Restart, vars, Inserted
  <2>3. QED
    BY <2>1, <2>2 DEF ReposHaveImages, ImageFirst
<1>3. CASE Crash
  BY <1>3, PanicImages, QuietImages DEF Crash
<1>4. QED
  BY <1>1, <1>2, <1>3 DEF Next

-----------------------------------------------------------------------------
(* Rows: the tables of the zoo and the ids that handlers hold. *)

Rows == IdsHeld /\ OwnRows /\ GoneStaysGone /\ DefaultAbsent /\ DefaultsOnce

\* A class is listed for a repository when there is a definition of it.
LEMMA ClassIn ==
    ASSUME NEW coll, NEW c
    PROVE  c \in EntriesOf(coll) <=> \E d \in defs : d.coll = coll /\ d.entry = c
BY DEF EntriesOf

\* What a step off the tables leaves of a handler: one that goes on to
\* insert its row has found none of its name.
RowsSame(y) ==
    /\ h'[y].coll < nextId' /\ h'[y].before = h[y].before
    /\ req[y].op \in {"releaseRepo", "dropRepo"} => h'[y].coll = h[y].coll
    /\ \/ h'[y].pc \in {"insert", "defs", "find"}
       \/ req[y].op \in {"releaseRepo", "dropRepo"} /\ h'[y].result = "ok"
       => \/ /\ h'[y].pc = h[y].pc /\ h'[y].result = h[y].result /\ h'[y].coll = h[y].coll
             /\ h'[y].todo = h[y].todo /\ h'[y].descs = h[y].descs
          \/ /\ h'[y].pc = "insert" /\ h'[y].result # "ok"
             /\ "cut" \in env.faults \/ \A r \in repos : r.name # req[y].name

RowsQuiet ==
    /\ UNCHANGED <<req, env, repos, defs>> /\ nextId' \in {nextId, nextId + 1}
    /\ \A y \in Handlers : RowsSame(y)
    /\ server'.pc = "defs" => server' = server
    /\ server'.pc = "repo" =>
         server' = server \/ "cut" \in env.faults \/ \A r \in repos : r.name # DefaultRepo

\* Such a step keeps the rows and what is held of them.
LEMMA QuietRows ==
    ASSUME TypeOK, Rows, RowsQuiet
    PROVE  Rows'
<1> USE DEF RowsQuiet, Rows
<1>0. nextId \in Nat /\ nextId' \in Nat /\ nextId <= nextId'
  BY TypeParts DEF Typed
<1>1. IdsHeld'
  <2>1. server'.pc = "defs" => server'.coll \in 1 .. nextId' - 1
    BY <1>0 DEF IdsHeld
  <2>2. ASSUME NEW y \in Handlers
        PROVE  /\ h'[y].coll < nextId' /\ \A i \in h'[y].before : i < nextId'
               /\ h'[y].pc = "find" => h'[y].coll = 0
    <3>1. h[y].before \subseteq Nat
      BY TypeParts, HandlerFields
    <3>2. QED
      BY <1>0, <3>1 DEF IdsHeld, RowsSame
  <2>3. QED
    BY <2>1, <2>2 DEF IdsHeld
<1>2. \A y \in Handlers : Owner(y)' => Owner(y) /\ h'[y].coll = h[y].coll
  BY DEF Owner, RowsSame
<1>3. \A c : UNCHANGED EntriesOf(c) /\ UNCHANGED Droppers(c)
  BY DEF EntriesOf, Droppers, RowsSame
<1>4. OwnersApart'
  BY <1>2 DEF OwnRows, OwnersApart
<1>5. ServerOwns'
  BY <1>2, <1>3 DEF OwnRows, ServerOwns
<1>6. ASSUME NEW y \in Handlers
      PROVE  Owned(y)'
  <2>1. Owned(y) /\ RowsSame(y)
    BY DEF OwnRows
  <2>2. (h'[y].pc = "defs" \/ (req[y].op = "releaseRepo" /\ h'[y].result = "ok")) => Owner(y)'
    BY <2>1 DEF Owned, RowsSame, Owner
  <2>3. ASSUME Listing(y)'
        PROVE  /\ Listing(y) /\ h'[y].pc = h[y].pc /\ h'[y].result = h[y].result
               /\ h'[y].coll = h[y].coll /\ h'[y].todo = h[y].todo /\ h'[y].descs = h[y].descs
    BY <2>1, <2>3 DEF Listing, Owner, RowsSame
  <2>4. ASSUME Listing(y)'
        PROVE  /\ UNCHANGED <<EntriesOf(h[y].coll), Droppers(h[y].coll)>>
               /\ UNCHANGED [id |-> h[y].coll, name |-> req[y].name]
    <3>1. h'[y].coll = h[y].coll
      BY <2>3, <2>4
    <3>2. \A z \in Handlers : req[z].op = "dropRepo" => h'[z].coll = h[z].coll
      BY DEF RowsSame
    <3>3. QED
      BY <3>1, <3>2 DEF EntriesOf, Droppers
  <2>5. QED
    BY <2>1, <2>2, <2>3, <2>4 DEF Owned
<1>7. GoneStaysGone'
  BY DEF GoneStaysGone, RowsSame, RepoExists
<1>8. DefaultAbsent'
  BY DEF DefaultAbsent, RowsSame, ReleasesDefault, OneRelease, RepoRows
<1>9. DefaultsOnce'
  BY DEF DefaultsOnce, ReleasesDefault, OneRelease, RepoRows
<1>10. QED
  BY <1>1, <1>4, <1>5, <1>6, <1>7, <1>8, <1>9 DEF OwnRows

\* Handler x goes to pc with this answer and holds the same ids.
Moved(x, pc, result) ==
    /\ Went(x, pc, result)
    /\ h'[x].coll = h[x].coll /\ h'[x].before = h[x].before

\* A step that neither lists nor looks up a repository is such a step.
LEMMA MovedRows ==
    ASSUME TypeOK, IdsHeld, NEW x \in Handlers, NEW pc, NEW result, Moved(x, pc, result),
           pc \notin {"insert", "defs", "find"},
           req[x].op \in {"releaseRepo", "dropRepo"} => result # "ok",
           UNCHANGED <<req, env, repos, defs, server>>, nextId' \in {nextId, nextId + 1}
    PROVE  RowsQuiet
<1>1. nextId \in Nat /\ h \in HandlerTypes
  BY TypeParts DEF Typed
<1>2. ASSUME NEW y \in Handlers
      PROVE  h'[y].coll < nextId' /\ h'[y].coll = h[y].coll /\ h'[y].before = h[y].before
  <2>1. h[y].coll \in Nat /\ h[y].coll < nextId
    BY <1>1, HandlerFields DEF IdsHeld
  <2>2. h'[y].coll = h[y].coll /\ h'[y].before = h[y].before
    BY DEF Moved, Went
  <2>3. QED
    BY <1>1, <2>1, <2>2
<1>3. \A y \in Handlers : RowsSame(y)
  BY <1>2 DEF RowsSame, Moved, Went
<1>4. QED
  BY <1>3 DEF RowsQuiet

\* The death of the process is such a step.
LEMMA LostRows ==
    ASSUME TypeOK, IdsHeld, h' = Lost(h), UNCHANGED <<req, env, repos, defs, nextId>>,
           server'.pc \notin {"repo", "defs"}
    PROVE  RowsQuiet
<1>1. h \in HandlerTypes
  BY TypeParts
<1>2. \A y \in Handlers : LostAs(y)
  BY <1>1, LostNow
<1>3. ASSUME NEW y \in Handlers
      PROVE  RowsSame(y)
  BY <1>2 DEF LostAs, RowsSame, IdsHeld
<1>4. QED
  BY <1>3 DEF RowsQuiet

\* The step of a handler either is a statement that lists, looks up or drops
\* a repository, or does not matter to the rows.
LEMMA OtherRows ==
    ASSUME TypeOK, OnItsWay, IdsUsed, IdsHeld, NEW x \in Handlers, Handle(x)
    PROVE  \/ RowsQuiet
           \/ Accept(x) \/ InsertRepo(x) \/ InsertDef(x)
           \/ FindRepo(x) \/ DeleteDefs(x) \/ DeleteRepo(x)
<1> USE DEF FilesOnly, RepoOnly, ModelOnly, HandlerOnly, scenario, images, database
<1>0. /\ nextId \in Nat /\ h \in HandlerTypes
      /\ h[x].pc \notin {"build return", "close", "end"} => h[x].result = "none"
      /\ h[x].pc = "build return" => h[x].result \in {"none", "error"}
  BY TypeParts DEF Typed, OnItsWay
<1>1. CASE \/ RecvAll(x) \/ imageExistsOnRegistry(x) \/ Unzip(x) \/ Chdir(x) \/ Restore(x)
           \/ Build(x) \/ Push(x) \/ BuildReturn(x)
  <2>1. \E pc \in {"image", "end", "spin", "unzip", "getwd", "python", "build", "build getwd",
                   "push", "build return", "hang", "select"},
           r \in {"error", "exists", "noclasses", h[x].result} : Moved(x, pc, r)
    BY <1>1, PlainSteps DEF Plain, Now, Went, Moved
  <2>2. UNCHANGED <<req, env, repos, defs, server, nextId>>
    BY <1>1 DEF RecvAll, imageExistsOnRegistry, Unzip, Chdir, Restore, Build, Push, BuildReturn,
       BuildReturns
  <2>3. h[x].pc \notin {"close", "end"}
    BY <1>1 DEF RecvAll, imageExistsOnRegistry, Unzip, Chdir, Restore, Build, Push, BuildReturn,
       BuildReturns, At
  <2>4. h[x].result # "ok"
    BY <1>0, <2>3
  <2>5. QED
    BY <2>1, <2>2, <2>4, MovedRows
<1>2. CASE Getwd(x) \/ RunPython(x)
  <2>1. \E pc \in {"chdir", "build chdir", "restore", "end"},
           r \in {"error", "noclasses", h[x].result} : Moved(x, pc, r)
    <3>1. Getwd(x) => \E pc \in {"chdir", "build chdir", "end"},
                         r \in {"error", "noclasses", h[x].result} : Moved(x, pc, r)
      BY OtherFields DEF Plain, Now, Went, Moved
    <3>2. RunPython(x) => \E pc \in {"restore", "end"},
                             r \in {"error", "noclasses", h[x].result} : Moved(x, pc, r)
      BY OtherFields DEF Plain, Now, Went, Moved
    <3>3. QED
      BY <1>2, <3>1, <3>2
  <2>2. UNCHANGED <<req, env, repos, defs, server, nextId>>
    BY <1>2 DEF Getwd, RunPython
  <2>3. h[x].result # "ok"
    BY <1>0, <1>2 DEF Getwd, RunPython, At
  <2>4. QED
    BY <2>1, <2>2, <2>3, MovedRows
<1>3. CASE \/ DropTable(x) \/ CreateTable(x) \/ Write(x) \/ CheckLocalImage(x) \/ InsertModel(x)
           \/ Close(x) \/ DeleteModel(x)
  <2>1. \E pc \in {"create", "write", "coll", "close", "end", "spin"},
           r \in Results \cup {h[x].result} : Moved(x, pc, r)
    BY <1>3, PlainSteps DEF Plain, Now, Went, Moved, Results
  <2>2. UNCHANGED <<req, env, repos, defs, server>> /\ nextId' \in {nextId, nextId + 1}
    BY <1>3 DEF DropTable, CreateTable, Write, CheckLocalImage, InsertModel, Close, DeleteModel,
       TakeId
  <2>3. h[x].pc \in Storing \cup {"delete"}
    BY <1>3 DEF DropTable, CreateTable, Write, CheckLocalImage, InsertModel, Close, DeleteModel, At,
       Storing
  <2>4. req[x].op \notin {"releaseRepo", "dropRepo"}
    BY <2>3, PlaceOps DEF ModelRelease
  <2>5. QED
    BY <2>1, <2>2, <2>4, MovedRows
<1>4. CASE RecvFirst(x) \/ SelectDef(x)
  <2>1. \/ Panic
        \/ /\ UNCHANGED server
           /\ \E pc \in {"drop", "model", "close", "end"},
                 r \in Results \cup {h[x].result} : Moved(x, pc, r)
    <3>1. RecvFirst(x) => Panic \/ /\ UNCHANGED server
                                   /\ \E pc \in {"drop", "end"},
                                         r \in Results \cup {h[x].result} : Moved(x, pc, r)
      BY OtherFields DEF Plain, Now, Went, Moved, Results
    <3>2. SelectDef(x) => \E pc \in {"model", "close"},
                             r \in Results \cup {h[x].result} : Moved(x, pc, r)
      BY OtherFields DEF Plain, Now, Went, Moved, Results
    <3>3. SelectDef(x) => UNCHANGED server
      BY DEF SelectDef, DefSelected
    <3>4. QED
      BY <1>4, <3>1, <3>2, <3>3
  <2>2. UNCHANGED <<req, env, repos, defs, nextId>>
    BY <1>4 DEF RecvFirst, SelectDef, DefSelected
  <2>3. ModelRelease(x)
    BY <1>4, PlaceOps DEF RecvFirst, SelectDef, DefSelected, At, ModelRelease, Storing
  <2>4. CASE Panic
    BY <2>2, <2>4, LostRows, TypeParts DEF Panic, ServerType
  <2>5. QED
    BY <2>1, <2>2, <2>3, <2>4, MovedRows DEF ModelRelease
<1>5. CASE SelectColl(x)
  <2>1. UNCHANGED <<req, env, repos, defs, nextId>>
    BY <1>5 DEF SelectColl
  <2>2. ModelRelease(x)
    BY <1>5, PlaceOps DEF SelectColl, At, Storing
  <2>3. CASE Panic
    BY <2>1, <2>3, LostRows, TypeParts DEF Panic, ServerType
  <2>4. CASE UNCHANGED server /\ Plain(x, "close", "error")
    <3>1. Moved(x, "close", "error")
      BY <2>4 DEF Plain, Now, Went, Moved
    <3>2. QED
      BY <2>1, <2>4, <3>1, MovedRows
  <2>5. ASSUME NEW r \in RepoRows(req[x].repo), UNCHANGED server,
               Now(x, "def", h[x].cwd, h[x].descs, h[x].todo, r.id, h[x].def, h[x].before,
                   h[x].result)
        PROVE  RowsQuiet
    <3>1. r.id < nextId
      BY DEF RepoRows, IdsUsed
    <3>2. RowsSame(x)
      BY <2>1, <2>2, <2>5, <3>1 DEF RowsSame, Now, ModelRelease
    <3>3. ASSUME NEW y \in Handlers \ {x}
          PROVE  RowsSame(y)
      BY <2>1, <2>5 DEF RowsSame, Now, IdsHeld
    <3>4. QED
      BY <2>1, <2>5, <3>2, <3>3 DEF RowsQuiet
  <2>6. QED
    BY <1>5, <2>3, <2>4, <2>5, OtherFields
<1>6. CASE SelectRepo(x)
  <2>1. /\ UNCHANGED <<req, env, repos, defs, server, nextId>>
        /\ h[x].pc = "select" /\ h[x].result = "none"
    BY <1>0, <1>6 DEF SelectRepo, At
  <2>2. CASE \E r \in {"error", "exists"} : Plain(x, "end", r)
    <3>1. \E r \in {"error", "exists"} : Moved(x, "end", r)
      BY <2>2 DEF Plain, Now, Went, Moved
    <3>2. QED
      BY <2>1, <3>1, MovedRows
  <2>3. CASE /\ Plain(x, "insert", h[x].result)
             /\ RepoRows(req[x].name) = {} \/ Fault("cut")
    <3>1. "cut" \in env.faults \/ \A r \in repos : r.name # req[x].name
      BY <2>3 DEF RepoRows, Fault
    <3>2. RowsSame(x)
      BY <2>1, <2>3, <3>1 DEF RowsSame, Plain, Now, IdsHeld
    <3>3. ASSUME NEW y \in Handlers \ {x}
          PROVE  RowsSame(y)
      BY <2>1, <2>3 DEF RowsSame, Plain, Now, IdsHeld
    <3>4. QED
      BY <2>1, <3>2, <3>3 DEF RowsQuiet
  <2>4. QED
    <3>1. "insert" \in Pcs /\ "end" \in Pcs /\ "error" \in Results /\ "exists" \in Results
      BY DEF Pcs, Results, Unpacked
    <3>2. QED
      BY <1>0, <1>6, <2>2, <2>3, <3>1, GotoNow, EndNow DEF SelectRepo
<1>7. QED
  BY <1>1, <1>2, <1>3, <1>4, <1>5, <1>6 DEF Handle

\* What a step leaves of a repository that a release owns: nobody else adds
\* definitions, and rows go only when somebody is dropping it.
RowsKept(coll) ==
    /\ \A z \in Handlers : req[z].op = "dropRepo" /\ h[z].coll = coll => h'[z].coll = coll
    /\ \A d \in defs' : d.coll = coll => d \in defs
    /\ \/ \E z \in Handlers : req[z].op = "dropRepo" /\ h'[z].coll = coll
       \/ /\ \A d \in defs : d.coll = coll => d \in defs'
          /\ \A r \in repos : r.id = coll => r \in repos'

\* Then the owner still owns it.
LEMMA OwnedKept ==
    ASSUME NEW y \in Handlers, Owned(y), UNCHANGED req, h'[y] = h[y],
           Owner(y) => RowsKept(h[y].coll)
    PROVE  Owned(y)'
<1>1. Owner(y)' = Owner(y) /\ Listing(y)' = Listing(y)
  BY DEF Owner, Listing
<1>2. ASSUME Listing(y)
      PROVE  /\ EntriesOf(h[y].coll)' \subseteq EntriesOf(h[y].coll)
             /\ Droppers(h[y].coll)' = {} =>
                  /\ Droppers(h[y].coll) = {}
                  /\ EntriesOf(h[y].coll)' = EntriesOf(h[y].coll)
                  /\ \A r \in repos : r.id = h[y].coll => r \in repos'
  <2>1. RowsKept(h[y].coll)
    BY <1>2 DEF Listing
  <2>2. QED
    BY <2>1 DEF RowsKept, EntriesOf, Droppers
<1>3. ASSUME Listing(y), Droppers(h[y].coll)' = {}
      PROVE  [id |-> h[y].coll, name |-> req[y].name]' \in repos'
  <2>1. Droppers(h[y].coll) = {} /\ \A r \in repos : r.id = h[y].coll => r \in repos'
    BY <1>2, <1>3
  <2>2. [id |-> h[y].coll, name |-> req[y].name] \in repos
    BY <1>3, <2>1 DEF Owned
  <2>3. QED
    BY <2>1, <2>2
<1>4. QED
  BY <1>1, <1>2, <1>3 DEF Owned

\* A release that lists nothing owns nothing it must answer for.
LEMMA OwnedNot ==
    ASSUME NEW y \in Handlers, UNCHANGED req, h'[y].pc # "defs", h'[y].result # "ok"
    PROVE  Owned(y)'
BY DEF Owned, Listing

\* A request arrives.
LEMMA AcceptRows ==
    ASSUME TypeOK, OnItsWay, IdsUsed, Rows, NEW x \in Handlers, Accept(x)
    PROVE  Rows'
<1> USE DEF Rows
<1> DEFINE before == IF req[x].op = "releaseRepo" THEN {r.id : r \in RepoRows(req[x].name)}
                     ELSE {}
<1>1. /\ server.pc = "up" /\ UNCHANGED <<req, env, server, repos, defs, nextId>>
      /\ nextId \in Nat \ {0}
  BY TypeParts DEF Accept, At, HandlerOnly, database, scenario, Typed
<1>2. h[x].coll = 0 /\ h[x].before = {}
  BY NewFields DEF Accept, At, OnItsWay
<1>3. /\ h' \in HandlerTypes /\ \A y \in Handlers \ {x} : h'[y] = h[y]
      /\ h'[x].coll = 0 /\ h'[x].before \in {{}, before} /\ h'[x].result \in {"none", "error"}
      /\ h'[x].pc \in {"recv", "find", "drop", "delete", "end"}
  <2>1. req[x].op \in {"releaseRepo", "dropRepo", "releaseModel", "releaseLocal", "dropModel"}
    BY RequestTypes DEF Accept
  <2>2. First[req[x].op] \in {"recv", "find", "drop", "delete"}
    BY <2>1, FirstPlaces
  <2>3. CASE Accepted(x)
    BY <2>2, <2>3 DEF Accepted, Now
  <2>4. CASE Plain(x, "end", "error")
    BY <1>2, <2>4 DEF Plain, Now
  <2>5. QED
    BY <2>3, <2>4, OtherFields
<1>4. req[x].op = "releaseRepo" => \A r \in repos : r.id \in before => r.name = req[x].name
  BY DEF RepoRows, IdsUsed
<1>5. \A i \in before : i < nextId
  BY DEF RepoRows, IdsUsed
<1> HIDE DEF before
<1>6. IdsHeld'
  <2>1. h'[x].coll < nextId' /\ \A i \in h'[x].before : i < nextId'
    BY <1>1, <1>3, <1>5
  <2>2. QED
    BY <1>1, <1>3, <2>1 DEF IdsHeld
<1>7. OwnersApart' /\ ServerOwns'
  BY <1>1, <1>2, <1>3 DEF OwnRows, OwnersApart, ServerOwns, Owner
<1>8. ASSUME NEW y \in Handlers
      PROVE  Owned(y)'
  <2>1. Owner(y) => RowsKept(h[y].coll)
    BY <1>1, <1>2, <1>3 DEF RowsKept, Owner
  <2>2. QED
    BY <1>1, <1>3, <2>1, OwnedKept, OwnedNot DEF OwnRows
<1>9. GoneStaysGone'
  BY <1>1, <1>3, <1>4 DEF GoneStaysGone, RepoExists
<1>10. DefaultAbsent' /\ DefaultsOnce'
  BY <1>1, <1>3 DEF DefaultAbsent, DefaultsOnce, ReleasesDefault, OneRelease, RepoRows
<1>11. QED
  BY <1>6, <1>7, <1>8, <1>9, <1>10 DEF OwnRows

\* DropModelRepo finds the repository.
LEMMA FindRows ==
    ASSUME TypeOK, OnItsWay, IdsUsed, Rows, NEW x \in Handlers, FindRepo(x)
    PROVE  Rows'
<1> USE DEF Rows
<1>1. /\ server.pc = "up" /\ UNCHANGED <<req, env, server, repos, defs, nextId>>
      /\ nextId \in Nat \ {0} /\ h[x].pc = "find" /\ h[x].coll = 0 /\ h[x].result = "none"
  BY TypeParts DEF FindRepo, At, FilesOnly, RepoOnly, HandlerOnly, database, scenario, Typed,
     IdsHeld, OnItsWay
<1>2. req[x].op = "dropRepo"
  BY <1>1, PlaceOps
<1> DEFINE Found ==
      /\ \A y \in Handlers \ {x} : h'[y] = h[y]
      /\ h'[x].coll < nextId /\ h'[x].before = h[x].before /\ h'[x].result # "ok"
      /\ h'[x].pc \in {"delete defs", "end"}
<1>3. Found
  <2>1. CASE Plain(x, "end", "error")
    BY <1>1, <2>1 DEF Plain, Now
  <2>2. ASSUME NEW r \in RepoRows(req[x].name),
               Now(x, "delete defs", h[x].cwd, h[x].descs, h[x].todo, r.id, h[x].def,
                   h[x].before, h[x].result)
        PROVE  Found
    BY <1>1, <2>2 DEF Now, RepoRows, IdsUsed
  <2> HIDE DEF Found
  <2>3. QED
    BY <2>1, <2>2, OtherFields
<1>4. IdsHeld'
  BY <1>1, <1>3 DEF IdsHeld
<1>5. OwnersApart' /\ ServerOwns'
  BY <1>1, <1>2, <1>3 DEF OwnRows, OwnersApart, ServerOwns, Owner
<1>6. ASSUME NEW y \in Handlers
      PROVE  Owned(y)'
  <2>1. Owner(y) => RowsKept(h[y].coll)
    BY <1>1, <1>3 DEF RowsKept, Owner
  <2>2. QED
    BY <1>1, <1>3, <2>1, OwnedKept, OwnedNot DEF OwnRows
<1>7. GoneStaysGone'
  BY <1>1, <1>2, <1>3, ZenonT(30) DEF GoneStaysGone, RepoExists
<1>8. DefaultAbsent' /\ DefaultsOnce'
  BY <1>1, <1>3 DEF DefaultAbsent, DefaultsOnce, ReleasesDefault, OneRelease, RepoRows
<1>9. QED
  BY <1>4, <1>5, <1>6, <1>7, <1>8 DEF OwnRows

\* DropModelRepo deletes the definitions, then the repository.
LEMMA DeleteRows ==
    ASSUME TypeOK, OnItsWay, Rows, NEW x \in Handlers, DeleteDefs(x) \/ DeleteRepo(x)
    PROVE  Rows'
<1> USE DEF Rows
<1>1. /\ server.pc = "up" /\ UNCHANGED <<req, env, server, nextId>>
      /\ h[x].pc \in {"delete defs", "delete repo"}
  BY DEF DeleteDefs, DeleteRepo, At, RepoOnly, HandlerOnly, scenario
<1>2. req[x].op = "dropRepo"
  BY <1>1, PlaceOps
<1>3. /\ \A y \in Handlers \ {x} : h'[y] = h[y]
      /\ h'[x].coll = h[x].coll /\ h'[x].before = h[x].before
      /\ h'[x].pc \in {"delete repo", "end"}
  BY PlainSteps DEF Plain, Now
<1>4. /\ repos' \subseteq repos /\ \A r \in repos : r.id # h[x].coll => r \in repos'
      /\ defs' \subseteq defs /\ \A d \in defs : d.coll # h[x].coll => d \in defs'
  BY DEF DeleteDefs, DeleteRepo
<1>5. h'[x].result = "ok" => \A r \in repos' : r.id # h[x].coll
  <2>1. CASE DeleteDefs(x)
    <3>1. h'[x].result # "ok"
      BY <1>1, <2>1, PlainSteps DEF Plain, Now, OnItsWay
    <3>2. QED
      BY <3>1
  <2>2. CASE DeleteRepo(x)
    <3>1. \/ repos' = {r \in repos : r.id # h[x].coll}
          \/ End(x, "error")
      BY <2>2 DEF DeleteRepo
    <3>2. End(x, "error") => h'[x].result = "error"
      BY EndNow, TypeParts DEF Plain, Now, Results
    <3>3. QED
      BY <3>1, <3>2
  <2>3. QED
    BY <2>1, <2>2
<1>6. IdsHeld'
  BY <1>1, <1>3, <1>4 DEF IdsHeld
<1>7. OwnersApart' /\ ServerOwns'
  BY <1>1, <1>2, <1>3 DEF OwnRows, OwnersApart, ServerOwns, Owner
<1>8. ASSUME NEW y \in Handlers
      PROVE  Owned(y)'
  <2>1. CASE y = x
    BY <1>1, <1>2, <1>3, <2>1 DEF Owned, Listing, Owner
  <2>2. CASE y # x
    <3>1. RowsKept(h[y].coll)
      BY <1>1, <1>2, <1>3, <1>4 DEF RowsKept
    <3>2. QED
      BY <1>1, <1>3, <2>2, <3>1, OwnedKept DEF OwnRows
  <2>3. QED
    BY <2>1, <2>2
<1>9. GoneStaysGone'
  BY <1>1, <1>2, <1>3, <1>4, <1>5, ZenonT(30) DEF GoneStaysGone, RepoExists
<1>10. DefaultAbsent' /\ DefaultsOnce'
  BY <1>1, <1>3, <1>4 DEF DefaultAbsent, DefaultsOnce, ReleasesDefault, OneRelease, RepoRows
<1>11. QED
  BY <1>6, <1>7, <1>8, <1>9, <1>10 DEF OwnRows

\* A new row of model_repos: its id has not been used, and nothing refers to
\* it yet.
LEMMA NewRow ==
    ASSUME TypeOK, IdsUsed, ForeignKeys, IdsHeld, NEW name, UNCHANGED defs,
           repos' = Inserted(repos, [id |-> nextId, name |-> name]), nextId' = nextId + 1
    PROVE  /\ nextId \in Nat \ {0} /\ nextId' \in Nat /\ nextId < nextId'
           /\ \A r \in repos : r \in repos' /\ r.id < nextId
           /\ \A r \in repos' : r \in repos \/ (r.id = nextId /\ r.name = name)
           /\ \A r, s \in repos' : r \notin repos /\ s \notin repos => r = s
           /\ EntriesOf(nextId) = {}
           /\ [id |-> nextId, name |-> name] \in repos'
           /\ \A y \in Handlers :
                h[y].coll \in Nat /\ h[y].coll < nextId /\ \A i \in h[y].before : i \in Nat /\ i < nextId
<1>1. nextId \in Nat \ {0} /\ \A r \in repos : r.id \in Nat
  BY TypeParts DEF Typed
<1>2. \A r \in repos : r.id < nextId /\ r.id # nextId
  BY <1>1 DEF IdsUsed
<1>3. EntriesOf(nextId) = {}
  BY <1>2 DEF EntriesOf, ForeignKeys, RepoExists
<1>4. ASSUME NEW r \in repos', r \notin repos
      PROVE  r.id = nextId /\ r.name = name /\ r = [id |-> nextId, name |-> name]
  <2>1. r = [id |-> nextId, name |-> name]
    BY <1>4 DEF Inserted
  <2>2. QED
    BY <2>1
<1>5. ASSUME NEW y \in Handlers
      PROVE  h[y].coll \in Nat /\ h[y].coll < nextId /\ \A i \in h[y].before : i \in Nat /\ i < nextId
  BY TypeParts, HandlerFields DEF IdsHeld
<1>6. QED
  BY <1>1, <1>2, <1>3, <1>4, <1>5 DEF Inserted

\* ReleaseModelRepo inserts its row.
LEMMA InsertRepoRows ==
    ASSUME TypeOK, OnItsWay, IdsUsed, ForeignKeys, Rows, NEW x \in Handlers, InsertRepo(x)
    PROVE  Rows'
<1> USE DEF Rows
<1>1. /\ server.pc = "up" /\ UNCHANGED <<req, env, server, defs>>
      /\ h[x].pc = "insert" /\ h[x].result = "none"
  BY DEF InsertRepo, At, RepoOnly, HandlerOnly, scenario, OnItsWay
<1>2. req[x].op = "releaseRepo"
  BY <1>1, PlaceOps DEF Unpacked
<1>3. CASE Plain(x, "end", "error") /\ UNCHANGED <<repos, nextId>>
  <2>1. Moved(x, "end", "error")
    BY <1>3 DEF Plain, Now, Went, Moved
  <2>2. RowsQuiet
    BY <1>1, <1>3, <2>1, MovedRows
  <2>3. QED
    BY <2>2, QuietRows
<1>4. ASSUME repos' = Inserted(repos, [id |-> nextId, name |-> req[x].name]),
             nextId' = nextId + 1,
             \A y \in Handlers \ {x} : h'[y] = h[y], h'[x].before = h[x].before,
             h'[x].descs = h[x].descs,
             \/ /\ h'[x].pc = "defs" /\ h'[x].coll = nextId /\ h'[x].result = "none"
                /\ h'[x].todo = h[x].descs
             \/ h'[x].pc = "end" /\ h'[x].coll = h[x].coll /\ h'[x].result = "error"
      PROVE  Rows'
  <2>0. /\ nextId \in Nat \ {0} /\ nextId' \in Nat /\ nextId < nextId'
        /\ \A r \in repos : r \in repos' /\ r.id < nextId
        /\ \A r \in repos' : r \in repos \/ (r.id = nextId /\ r.name = req[x].name)
        /\ \A r, s \in repos' : r \notin repos /\ s \notin repos => r = s
        /\ EntriesOf(nextId) = {}
        /\ [id |-> nextId, name |-> req[x].name] \in repos'
        /\ \A y \in Handlers :
             h[y].coll \in Nat /\ h[y].coll < nextId /\ \A i \in h[y].before : i \in Nat /\ i < nextId
    BY <1>1, <1>4, NewRow
  <2>1. IdsHeld'
    <3>1. \A r \in repos' : r.id > 0
      BY <2>0 DEF IdsHeld
    <3>2. ASSUME NEW y \in Handlers
          PROVE  /\ h'[y].coll < nextId' /\ \A i \in h'[y].before : i < nextId'
                 /\ h'[y].pc = "find" => h'[y].coll = 0
      BY <1>4, <2>0 DEF IdsHeld
    <3>3. QED
      BY <1>1, <3>1, <3>2 DEF IdsHeld
  <2>2. OwnersApart' /\ ServerOwns'
    <3>1. \A y \in Handlers \ {x} : h'[y].coll # nextId
      BY <1>4, <2>0
    <3>2. QED
      BY <1>1, <1>4, <3>1 DEF OwnRows, OwnersApart, ServerOwns, Owner
  <2>3. ASSUME NEW y \in Handlers \ {x}
        PROVE  Owned(y)'
    <3>1. RowsKept(h[y].coll)
      BY <1>1, <1>2, <1>4, <2>0 DEF RowsKept
    <3>2. QED
      BY <1>1, <1>4, <3>1, OwnedKept DEF OwnRows
  <2>4. Owned(x)'
    <3>1. CASE h'[x].pc = "end"
      BY <1>1, <1>4, <3>1, OwnedNot
    <3>2. CASE h'[x].pc = "defs"
      <4>1. /\ h'[x].coll = nextId /\ h'[x].result = "none" /\ h'[x].todo = h'[x].descs
            /\ h'[x].coll # 0
        BY <1>4, <2>0, <3>2
      <4>2. EntriesOf(h[x].coll)' = {}
        BY <1>1, <2>0, <4>1 DEF EntriesOf
      <4>3. [id |-> h[x].coll, name |-> req[x].name]' \in repos'
        BY <1>1, <2>0, <4>1
      <4>4. Owner(x)'
        BY <1>1, <1>2, <4>1 DEF Owner
      <4>5. QED
        BY <4>1, <4>2, <4>3, <4>4 DEF Owned
    <3>3. QED
      BY <1>4, <3>1, <3>2
  <2>5. GoneStaysGone'
    <3>1. ASSUME NEW y \in Handlers, req[y].op = "dropRepo", h'[y].result = "ok"
          PROVE  ~RepoExists(h[y].coll)'
      <4>1. y # x /\ h'[y] = h[y] /\ ~RepoExists(h[y].coll)
        BY <1>2, <1>4, <3>1 DEF GoneStaysGone
      <4>2. QED
        BY <2>0, <4>1 DEF RepoExists
    <3>2. ASSUME NEW y \in Handlers, NEW r \in repos', r.id \in h'[y].before
          PROVE  r \in repos /\ r.id \in h[y].before
      BY <1>4, <2>0, <3>2
    <3>3. QED
      BY <1>1, <1>4, <3>1, <3>2 DEF GoneStaysGone
  <2>6. DefaultAbsent' /\ DefaultsOnce'
    <3>1. ASSUME "cut" \notin env.faults, OneRelease
          PROVE  /\ \A r, s \in repos' : r.name = DefaultRepo /\ s.name = DefaultRepo => r = s
                 /\ \A y \in Handlers :
                      ReleasesDefault(y) /\ h'[y].pc = "insert" =>
                          \A r \in repos' : r.name # DefaultRepo
      <4>1. CASE ReleasesDefault(x)
        <5>1. \A r \in repos : r.name # DefaultRepo
          BY <1>1, <3>1, <4>1 DEF DefaultAbsent, RepoRows
        <5>2. \A y \in Handlers : ReleasesDefault(y) => y = x
          BY <3>1, <4>1 DEF OneRelease
        <5>3. QED
          BY <1>4, <2>0, <5>1, <5>2
      <4>2. CASE ~ReleasesDefault(x)
        <5>1. \A r \in repos' : r.name = DefaultRepo => r \in repos
          BY <1>2, <2>0, <4>2 DEF ReleasesDefault
        <5>2. QED
          BY <1>4, <3>1, <5>1 DEF DefaultAbsent, DefaultsOnce, RepoRows
      <4>3. QED
        BY <4>1, <4>2
    <3>2. QED
      BY <1>1, <3>1 DEF DefaultAbsent, DefaultsOnce, ReleasesDefault, OneRelease, RepoRows
  <2>7. QED
    BY <2>1, <2>2, <2>3, <2>4, <2>5, <2>6 DEF OwnRows
<1>5. QED
  <2>1. nextId \in Nat /\ h \in HandlerTypes /\ "error" \in Results
    BY TypeParts DEF Typed, Results
  <2>2. CASE End(x, "error") /\ UNCHANGED <<repos, nextId>>
    BY <1>3, <2>1, <2>2, EndNow
  <2>3. CASE /\ repos' = Inserted(repos, [id |-> nextId, name |-> req[x].name])
             /\ nextId' = nextId + 1
             /\ \/ End(x, "error")
                \/ h' = [h EXCEPT ![x].pc = "defs", ![x].coll = nextId, ![x].todo = h[x].descs]
    <3>1. \/ Plain(x, "end", "error")
          \/ Now(x, "defs", h[x].cwd, h[x].descs, h[x].descs, nextId, h[x].def, h[x].before,
                 h[x].result)
      BY <2>1, <2>3, EndNow, InsertedNow
    <3>2. /\ \A y \in Handlers \ {x} : h'[y] = h[y]
          /\ h'[x].before = h[x].before /\ h'[x].descs = h[x].descs
          /\ \/ /\ h'[x].pc = "defs" /\ h'[x].coll = nextId /\ h'[x].result = "none"
                /\ h'[x].todo = h[x].descs
             \/ h'[x].pc = "end" /\ h'[x].coll = h[x].coll /\ h'[x].result = "error"
      BY <1>1, <3>1 DEF Plain, Now
    <3>3. QED
      BY <1>4, <2>3, <3>2
  <2>4. QED
    BY <2>2, <2>3 DEF InsertRepo, TakeId

\* A new row of model_definitions, for a class that the repository does not
\* list yet.
LEMMA NewDef ==
    ASSUME NEW coll, NEW c, c \notin EntriesOf(coll), UNCHANGED repos,
           \A d, e \in defs : d.coll = e.coll /\ d.entry = e.entry => d = e,
           \A d, e \in defs : d.coll = e.coll /\ d.entry[1] = 0 => e.entry[1] = 0,
           \A e \in EntriesOf(coll) : e[1] = 0 <=> c[1] = 0,
           defs' = Inserted(defs, [id |-> nextId, coll |-> coll, entry |-> c])
    PROVE  /\ \A d \in defs : d \in defs'
           /\ \A d \in defs' : d \in defs \/ (d.coll = coll /\ d.entry = c)
           /\ \E d \in defs' : d.coll = coll /\ d.entry = c
           /\ \A d, e \in defs' : d.coll = e.coll /\ d.entry = e.entry => d = e
           /\ \A d, e \in defs' : d.coll = e.coll /\ d.entry[1] = 0 => e.entry[1] = 0
<1>1. ASSUME NEW d \in defs', d \notin defs
      PROVE  d = [id |-> nextId, coll |-> coll, entry |-> c] /\ d.coll = coll /\ d.entry = c
  <2>1. d = [id |-> nextId, coll |-> coll, entry |-> c]
    BY <1>1 DEF Inserted
  <2>2. QED
    BY <2>1
<1>2. \A d \in defs : ~(d.coll = coll /\ d.entry = c)
  BY DEF EntriesOf
<1>3. [id |-> nextId, coll |-> coll, entry |-> c] \in defs' /\ defs \subseteq defs'
  BY DEF Inserted
<1>4. \A d \in defs : d.coll = coll => (d.entry[1] = 0 <=> c[1] = 0)
  BY DEF EntriesOf
<1>5. \A d, e \in defs' : d.coll = e.coll /\ d.entry[1] = 0 => e.entry[1] = 0
  BY <1>1, <1>4
<1>6. QED
  BY <1>1, <1>2, <1>3, <1>5

\* ReleaseModelRepo inserts its definitions and answers.
LEMMA InsertDefRows ==
    ASSUME TypeOK, OnItsWay, Rows, NEW x \in Handlers, InsertDef(x)
    PROVE  Rows'
<1> USE DEF Rows
<1>1. /\ server.pc = "up" /\ UNCHANGED <<req, env, server, repos>>
      /\ h[x].pc = "defs" /\ h[x].result = "none" /\ nextId \in Nat \ {0}
  BY TypeParts DEF InsertDef, At, RepoOnly, HandlerOnly, scenario, OnItsWay, Typed
<1>2. req[x].op = "releaseRepo" /\ Owner(x) /\ Listing(x)
  BY <1>1, PlaceOps DEF Unpacked, OwnRows, Owned, Listing
<1>3. /\ EntriesOf(h[x].coll) \cap h[x].todo = {} /\ h[x].todo \subseteq h[x].descs
      /\ EntriesOf(h[x].coll) \subseteq h[x].descs
      /\ Droppers(h[x].coll) = {} =>
           /\ [id |-> h[x].coll, name |-> req[x].name] \in repos
           /\ EntriesOf(h[x].coll) = h[x].descs \ h[x].todo
  BY <1>2 DEF OwnRows, Owned
<1>4. CASE Plain(x, "end", "error") /\ UNCHANGED <<defs, nextId>>
  <2>1. Moved(x, "end", "error")
    BY <1>4 DEF Plain, Now, Went, Moved
  <2>2. RowsQuiet
    BY <1>1, <1>4, <2>1, MovedRows
  <2>3. QED
    BY <2>2, QuietRows
<1>5. ASSUME NEW todo,
             \/ UNCHANGED <<defs, nextId>> /\ todo = h[x].todo
             \/ /\ \E c \in h[x].todo : defs' = Inserted(defs, DefRow(x, c)) /\ todo = h[x].todo \ {c}
                /\ nextId' = nextId + 1,
             \A y \in Handlers \ {x} : h'[y] = h[y], h'[x].before = h[x].before,
             h'[x].descs = h[x].descs, h'[x].coll = h[x].coll,
             \/ h'[x].pc = "defs" /\ h'[x].result = "none" /\ h'[x].todo = todo
             \/ h'[x].pc = "end" /\ h'[x].result = "error"
             \/ h'[x].pc = "end" /\ h'[x].result = "ok" /\ todo = {} /\ h'[x].todo = todo
      PROVE  Rows'
  <2> DEFINE Listed ==
        /\ \A d \in defs : d \in defs'
        /\ \A d \in defs' : d \in defs \/ d.coll = h[x].coll
        /\ \A d, e \in defs' : d.coll = e.coll /\ d.entry = e.entry => d = e
        /\ \A d, e \in defs' : d.coll = e.coll /\ d.entry[1] = 0 => e.entry[1] = 0
        /\ \A d \in defs' : d.coll = h[x].coll => d \in defs \/ d.entry \in h[x].todo \ todo
        /\ \A c \in h[x].todo \ todo : \E d \in defs' : d.coll = h[x].coll /\ d.entry = c
        /\ todo \subseteq h[x].todo
  <2>0. Listed
    <3>1. CASE UNCHANGED defs /\ todo = h[x].todo
      BY <3>1 DEF DefaultsOnce
    <3>2. ASSUME NEW c \in h[x].todo, todo = h[x].todo \ {c}, defs' = Inserted(defs, DefRow(x, c))
          PROVE  Listed
      <4>1. c \notin EntriesOf(h[x].coll)
        BY <1>3
      <4>2. /\ \A d \in defs : d \in defs'
            /\ \A d \in defs' : d \in defs \/ (d.coll = h[x].coll /\ d.entry = c)
            /\ \E d \in defs' : d.coll = h[x].coll /\ d.entry = c
            /\ \A d, e \in defs' : d.coll = e.coll /\ d.entry = e.entry => d = e
            /\ \A d, e \in defs' : d.coll = e.coll /\ d.entry[1] = 0 => e.entry[1] = 0
        <5>1. h[x].descs \subseteq Entries
          BY TypeParts, HandlerFields
        <5>2. \A e \in EntriesOf(h[x].coll) : e[1] = 0 <=> c[1] = 0
          BY <1>3, <5>1, LineNumbers
        <5>3. QED
          BY <1>1, <3>2, <4>1, <5>2, NewDef DEF DefRow, DefaultsOnce
      <4>3. h[x].todo \ todo = {c}
        BY <3>2
      <4>4. QED
        BY <3>2, <4>2, <4>3
    <3>3. QED
      BY <1>5, <3>1, <3>2
  <2>1. IdsHeld'
    <3>1. nextId' \in Nat /\ nextId <= nextId'
      BY <1>1, <1>5
    <3>2. ASSUME NEW y \in Handlers
          PROVE  /\ h'[y].coll < nextId' /\ \A i \in h'[y].before : i < nextId'
                 /\ h'[y].pc = "find" => h'[y].coll = 0
      <4>1. h[y].coll \in Nat /\ h[y].before \subseteq Nat
        BY TypeParts, HandlerFields
      <4>2. h[y].coll < nextId /\ \A i \in h[y].before : i < nextId
        BY DEF IdsHeld
      <4>3. h'[y].coll = h[y].coll /\ h'[y].before = h[y].before
        BY <1>5
      <4>4. h'[y].pc = "find" => h'[y].coll = 0
        BY <1>5 DEF IdsHeld
      <4>5. QED
        BY <1>1, <3>1, <4>1, <4>2, <4>3, <4>4
    <3>3. QED
      BY <1>1, <3>2 DEF IdsHeld
  <2>2. OwnersApart' /\ ServerOwns'
    BY <1>1, <1>5 DEF OwnRows, OwnersApart, ServerOwns, Owner
  <2>3. ASSUME NEW y \in Handlers \ {x}
        PROVE  Owned(y)'
    <3>1. Owner(y) => h[y].coll # h[x].coll
      BY <1>2 DEF OwnRows, OwnersApart
    <3>2. Owner(y) => RowsKept(h[y].coll)
      BY <1>1, <1>5, <2>0, <3>1 DEF RowsKept
    <3>3. QED
      BY <1>1, <1>5, <3>2, OwnedKept DEF OwnRows
  <2>4. Owned(x)'
    <3>1. CASE h'[x].result = "error"
      BY <1>1, <1>5, <3>1, OwnedNot
    <3>2. CASE h'[x].result # "error"
      <4>1. h'[x].todo = todo /\ (h'[x].result = "ok" => todo = {})
        BY <1>5, <3>2
      <4>2. Owner(x)'
        BY <1>1, <1>2, <1>5 DEF Owner
      <4>3. EntriesOf(h[x].coll)' = EntriesOf(h[x].coll) \cup (h[x].todo \ todo)
        BY <1>5, <2>0 DEF EntriesOf
      <4>4. Droppers(h[x].coll)' = Droppers(h[x].coll)
        BY <1>1, <1>5 DEF Droppers
      <4>5. [id |-> h[x].coll, name |-> req[x].name]' = [id |-> h[x].coll, name |-> req[x].name]
        BY <1>1, <1>5
      <4>6. EntriesOf(h[x].coll)' \cap todo = {}
        BY <1>3, <2>0, <4>3
      <4>7. Droppers(h[x].coll)' = {} =>
              /\ [id |-> h[x].coll, name |-> req[x].name]' \in repos'
              /\ EntriesOf(h[x].coll)' = h[x].descs \ todo
        BY <1>1, <1>3, <2>0, <4>3, <4>4, <4>5
      <4>8. EntriesOf(h[x].coll)' \subseteq h[x].descs
        BY <1>3, <4>3
      <4>9. QED
        BY <1>3, <1>5, <2>0, <4>1, <4>2, <4>6, <4>7, <4>8 DEF Owned
    <3>3. QED
      BY <3>1, <3>2
  <2>5. GoneStaysGone'
    BY <1>1, <1>2, <1>5 DEF GoneStaysGone, RepoExists
  <2>6. DefaultAbsent' /\ DefaultsOnce'
    BY <1>1, <1>5, <2>0 DEF DefaultAbsent, DefaultsOnce, ReleasesDefault, OneRelease, RepoRows
  <2>7. QED
    BY <2>1, <2>2, <2>3, <2>4, <2>5, <2>6 DEF OwnRows
<1>6. QED
  <2>1. h \in HandlerTypes /\ "error" \in Results /\ "ok" \in Results
    BY TypeParts DEF Results
  <2>2. CASE End(x, "error") /\ UNCHANGED <<defs, nextId>>
    BY <1>4, <2>1, <2>2, EndNow
  <2>3. CASE h[x].todo = {} /\ End(x, "ok") /\ UNCHANGED <<defs, nextId>>
    <3>1. Plain(x, "end", "ok")
      BY <2>1, <2>3, EndNow
    <3>2. QED
      BY <1>5, <2>3, <3>1 DEF Plain, Now
  <2>4. ASSUME NEW c \in h[x].todo, defs' = Inserted(defs, DefRow(x, c)), nextId' = nextId + 1,
               End(x, "error") \/ h' = [h EXCEPT ![x].todo = @ \ {c}]
        PROVE  Rows'
    <3>1. \/ Plain(x, "end", "error")
          \/ Now(x, h[x].pc, h[x].cwd, h[x].descs, h[x].todo \ {c}, h[x].coll, h[x].def,
                 h[x].before, h[x].result)
      BY <2>1, <2>4, EndNow, DefinedNow
    <3>2. /\ \A y \in Handlers \ {x} : h'[y] = h[y]
          /\ h'[x].before = h[x].before /\ h'[x].descs = h[x].descs /\ h'[x].coll = h[x].coll
          /\ \/ h'[x].pc = "defs" /\ h'[x].result = "none" /\ h'[x].todo = h[x].todo \ {c}
             \/ h'[x].pc = "end" /\ h'[x].result = "error"
      BY <1>1, <3>1 DEF Plain, Now
    <3>3. QED
      BY <1>5, <2>4, <3>2
  <2>5. QED
    BY <2>2, <2>3, <2>4 DEF InsertDef, TakeId, Earliest

\* addDefaultModelDefs inserts the default repository: no handler runs yet.
LEMMA BootRepoRows ==
    ASSUME TypeOK, OnItsWay, IdsUsed, ForeignKeys, Rows, BootInsertRepo
    PROVE  Rows'
<1> USE DEF Rows
<1>1. /\ server.pc = "repo" /\ UNCHANGED <<req, env, h, defs>> /\ server \in ServerType
      /\ \A y \in Handlers : h[y].pc \in {"idle", "end"}
  BY TypeParts DEF BootInsertRepo, BootOnly, scenario, OnItsWay
<1>2. /\ server'.pc \in {"defs", "down"}
      /\ server'.pc = "defs" =>
           /\ server'.coll = nextId
           /\ repos' = Inserted(repos, [id |-> nextId, name |-> DefaultRepo]) /\ nextId' = nextId + 1
  BY <1>1 DEF BootInsertRepo, Fatal, ServerType, TakeId
<1>3. CASE UNCHANGED <<repos, nextId>> /\ server'.pc = "down"
  <2>1. \A y \in Handlers : RowsSame(y)
    BY <1>1, <1>3 DEF RowsSame, IdsHeld
  <2>2. RowsQuiet
    BY <1>1, <1>3, <2>1 DEF RowsQuiet
  <2>3. QED
    BY <2>2, QuietRows
<1>4. CASE repos' = Inserted(repos, [id |-> nextId, name |-> DefaultRepo]) /\ nextId' = nextId + 1
  <2>0. /\ nextId \in Nat \ {0} /\ nextId' \in Nat /\ nextId < nextId'
        /\ \A r \in repos : r \in repos' /\ r.id < nextId
        /\ \A r \in repos' : r \in repos \/ (r.id = nextId /\ r.name = DefaultRepo)
        /\ \A r, s \in repos' : r \notin repos /\ s \notin repos => r = s
        /\ EntriesOf(nextId) = {}
        /\ \A y \in Handlers :
             h[y].coll \in Nat /\ h[y].coll < nextId /\ \A i \in h[y].before : i \in Nat /\ i < nextId
    BY <1>1, <1>4, NewRow
  <2>1. IdsHeld'
    <3>1. \A r \in repos' : r.id > 0
      BY <2>0 DEF IdsHeld
    <3>2. ASSUME NEW y \in Handlers
          PROVE  /\ h[y].coll < nextId' /\ \A i \in h[y].before : i < nextId'
                 /\ h[y].pc = "find" => h[y].coll = 0
      BY <2>0 DEF IdsHeld
    <3>3. server'.pc = "defs" => server'.coll \in 1 .. nextId' - 1
      BY <1>2, <1>4, <2>0
    <3>4. QED
      BY <1>1, <3>1, <3>2, <3>3 DEF IdsHeld
  <2>2. OwnersApart'
    BY <1>1 DEF OwnRows, OwnersApart, Owner
  <2>3. ServerOwns'
    <3>1. ASSUME server'.pc = "defs"
          PROVE  EntriesOf(server.coll)' = {} /\ \A y \in Handlers : h[y].coll # server'.coll
      BY <1>1, <1>2, <2>0, <3>1 DEF EntriesOf
    <3>2. QED
      BY <1>1, <3>1 DEF ServerOwns
  <2>4. ASSUME NEW y \in Handlers
        PROVE  Owned(y)'
    <3>1. RowsKept(h[y].coll)
      BY <1>1, <2>0 DEF RowsKept
    <3>2. QED
      BY <1>1, <3>1, OwnedKept DEF OwnRows
  <2>5. GoneStaysGone'
    <3>1. ASSUME NEW y \in Handlers, req[y].op = "dropRepo", h[y].result = "ok"
          PROVE  ~RepoExists(h[y].coll)'
      <4>1. ~RepoExists(h[y].coll)
        BY <3>1 DEF GoneStaysGone
      <4>2. QED
        BY <1>1, <2>0, <4>1 DEF RepoExists
    <3>2. ASSUME NEW y \in Handlers, NEW r \in repos', r.id \in h[y].before
          PROVE  r \in repos
      BY <2>0, <3>2
    <3>3. QED
      BY <1>1, <3>1, <3>2 DEF GoneStaysGone
  <2>6. DefaultAbsent' /\ DefaultsOnce'
    <3>1. ASSUME "cut" \notin env.faults, OneRelease
          PROVE  \A r, s \in repos' : r.name = DefaultRepo /\ s.name = DefaultRepo => r = s
      <4>1. \A r \in repos : r.name # DefaultRepo
        BY <1>1, <3>1 DEF DefaultAbsent, RepoRows
      <4>2. QED
        BY <2>0, <4>1
    <3>2. QED
      BY <1>1, <1>2, <3>1 DEF DefaultAbsent, DefaultsOnce, ReleasesDefault, OneRelease, RepoRows
  <2>7. QED
    BY <2>1, <2>2, <2>3, <2>4, <2>5, <2>6 DEF OwnRows
<1>5. QED
  <2>1. \/ UNCHANGED <<repos, nextId>> /\ server' = [server EXCEPT !.pc = "down"]
        \/ repos' = Inserted(repos, [id |-> nextId, name |-> DefaultRepo]) /\ nextId' = nextId + 1
    BY DEF BootInsertRepo, Fatal, TakeId
  <2>2. QED
    BY <1>1, <1>3, <1>4, <2>1 DEF ServerType

\* addDefaultModelDefs inserts the default definitions.
LEMMA BootDefRows ==
    ASSUME TypeOK, OnItsWay, Rows, BootInsertDef
    PROVE  Rows'
<1> USE DEF Rows
<1>1. /\ server.pc = "defs" /\ UNCHANGED <<req, env, h, repos>> /\ server \in ServerType
      /\ \A y \in Handlers : h[y].pc \in {"idle", "end"}
  BY TypeParts DEF BootInsertDef, BootOnly, scenario, OnItsWay
<1>2. CASE UNCHANGED <<defs, nextId>> /\ server'.pc \in {"up", "down"}
  <2>1. \A y \in Handlers : RowsSame(y)
    BY <1>1, <1>2 DEF RowsSame, IdsHeld
  <2>2. RowsQuiet
    BY <1>1, <1>2, <2>1 DEF RowsQuiet
  <2>3. QED
    BY <2>2, QuietRows
<1>3. ASSUME NEW c \in server.todo,
             defs' = Inserted(defs, [id |-> nextId, coll |-> server.coll, entry |-> c]),
             nextId' = nextId + 1, server'.coll = server.coll,
             server'.pc = "down" \/ (server'.pc = "defs" /\ server'.todo = server.todo \ {c})
      PROVE  Rows'
  <2>0. /\ \A d \in defs : d \in defs'
        /\ \A d \in defs' : d \in defs \/ (d.coll = server.coll /\ d.entry = c)
        /\ \E d \in defs' : d.coll = server.coll /\ d.entry = c
        /\ \A d, e \in defs' : d.coll = e.coll /\ d.entry = e.entry => d = e
        /\ \A d, e \in defs' : d.coll = e.coll /\ d.entry[1] = 0 => e.entry[1] = 0
    <3>1. c \notin EntriesOf(server.coll)
      BY <1>1 DEF OwnRows, ServerOwns
    <3>2. \A e \in EntriesOf(server.coll) : e[1] = 0 <=> c[1] = 0
      BY <1>1, <1>3, LineNumbers DEF OwnRows, ServerOwns, ServerType
    <3>3. QED
      BY <1>1, <1>3, <3>1, <3>2, NewDef DEF DefaultsOnce
  <2>1. IdsHeld'
    <3>1. nextId \in Nat /\ nextId' \in Nat /\ nextId < nextId'
      BY <1>3, TypeParts DEF Typed
    <3>2. ASSUME NEW y \in Handlers
          PROVE  /\ h[y].coll < nextId' /\ \A i \in h[y].before : i < nextId'
                 /\ h[y].pc = "find" => h[y].coll = 0
      <4>1. h[y].coll \in Nat /\ h[y].before \subseteq Nat
        BY TypeParts, HandlerFields
      <4>2. h[y].coll < nextId /\ \A i \in h[y].before : i < nextId
        BY DEF IdsHeld
      <4>3. QED
        BY <1>1, <3>1, <4>1, <4>2
    <3>3. server'.coll \in 1 .. nextId' - 1
      BY <1>1, <1>3, <3>1 DEF IdsHeld
    <3>4. QED
      BY <1>1, <3>2, <3>3 DEF IdsHeld
  <2>2. OwnersApart'
    BY <1>1 DEF OwnRows, OwnersApart, Owner
  <2>3. ServerOwns'
    <3>1. ASSUME server'.pc = "defs"
          PROVE  /\ EntriesOf(server.coll)' \cap server'.todo = {}
                 /\ EntriesOf(server.coll)' \subseteq DefaultEntries
      <4>1. /\ EntriesOf(server.coll) \cap server.todo = {}
            /\ EntriesOf(server.coll) \subseteq DefaultEntries /\ c \in DefaultEntries
        BY <1>1, <1>3 DEF OwnRows, ServerOwns, ServerType
      <4>2. EntriesOf(server.coll)' \subseteq EntriesOf(server.coll) \cup {c}
        BY <1>3, <2>0 DEF EntriesOf
      <4>3. QED
        BY <1>3, <3>1, <4>1, <4>2
    <3>2. QED
      BY <1>1, <1>3, <3>1 DEF OwnRows, ServerOwns, Owner
  <2>4. ASSUME NEW y \in Handlers
        PROVE  Owned(y)'
    <3>1. Owner(y) => h[y].coll # server.coll
      BY <1>1 DEF OwnRows, ServerOwns
    <3>2. Owner(y) => RowsKept(h[y].coll)
      BY <1>1, <2>0, <3>1 DEF RowsKept
    <3>3. QED
      BY <1>1, <3>2, OwnedKept DEF OwnRows
  <2>5. GoneStaysGone'
    BY <1>1 DEF GoneStaysGone, RepoExists
  <2>6. DefaultAbsent' /\ DefaultsOnce'
    BY <1>1, <1>3, <2>0 DEF DefaultAbsent, DefaultsOnce, ReleasesDefault, OneRelease, RepoRows
  <2>7. QED
    BY <2>1, <2>2, <2>3, <2>4, <2>5, <2>6 DEF OwnRows
<1>4. QED
  <2>1. CASE UNCHANGED <<defs, nextId>>
    <3>1. server'.pc \in {"up", "down"}
      <4>1. \/ server' = [server EXCEPT !.pc = "up"]
            \/ Fatal
            \/ \E c \in server.todo :
                 defs' = Inserted(defs, [id |-> nextId, coll |-> server.coll, entry |-> c])
                 /\ nextId' = nextId + 1
        BY DEF BootInsertDef, TakeId
      <4>2. nextId' # nextId + 1
        BY <2>1, TypeParts DEF Typed
      <4>3. QED
        BY <1>1, <4>1, <4>2 DEF Fatal, ServerType
    <3>2. QED
      BY <1>2, <2>1, <3>1
  <2>2. ASSUME NEW c \in server.todo,
               defs' = Inserted(defs, [id |-> nextId, coll |-> server.coll, entry |-> c]),
               nextId' = nextId + 1,
               Fatal \/ server' = [server EXCEPT !.todo = @ \ {c}]
        PROVE  Rows'
    <3>1. /\ server'.coll = server.coll
          /\ server'.pc = "down" \/ (server'.pc = "defs" /\ server'.todo = server.todo \ {c})
      BY <1>1, <2>2 DEF Fatal, ServerType
    <3>2. QED
      BY <1>3, <2>2, <3>1
  <2>3. QED
    BY <2>1, <2>2 DEF BootInsertDef, TakeId

\* Every step keeps the rows.
LEMMA StepRows ==
    ASSUME TypeOK, OnItsWay, IdsUsed, ForeignKeys, Rows, [Next]_vars
    PROVE  Rows'
<1>1. ASSUME NEW x \in Handlers, Handle(x)
      PROVE  Rows'
  <2>1. IdsHeld
    BY DEF Rows
  <2>2. QED
    BY <1>1, <2>1, OtherRows, QuietRows, AcceptRows, InsertRepoRows, InsertDefRows, FindRows,
       DeleteRows
<1>2. CASE BootSelect \/ Restart \/ UNCHANGED vars
  <2>1. UNCHANGED <<req, env, h, repos, defs, nextId>>
    BY <1>2 DEF BootSelect, BootOnly, Restart, vars, scenario, database
  <2>2. /\ server'.pc = "defs" => server' = server
        /\ server'.pc = "repo" =>
             server' = server \/ "cut" \in env.faults \/ \A r \in repos : r.name # DefaultRepo
    BY <1>2, TypeParts DEF BootSelect, Fatal, Restart, vars, ServerType, RepoRows, Fault
  <2>3. \A y \in Handlers : RowsSame(y)
    BY <2>1 DEF RowsSame, Rows, IdsHeld
  <2>4. RowsQuiet
    BY <2>1, <2>2, <2>3 DEF RowsQuiet
  <2>5. QED
    BY <2>4, QuietRows
<1>3. CASE Crash
  <2>1. server'.pc = "down"
    BY <1>3, TypeParts DEF Crash, Fatal, ServerType
  <2>2. RowsQuiet
    BY <1>3, <2>1, LostRows DEF Crash, Rows, database, scenario
  <2>3. QED
    BY <2>2, QuietRows
<1>4. QED
  BY <1>1, <1>2, <1>3, BootRepoRows, BootDefRows DEF Next, Boot

-----------------------------------------------------------------------------
(* The tables of the models: what a release has stored. *)

\* A step of one handler leaves the others as they are, or all of them are
\* lost; the one that moved has started.
LEMMA OneMoves ==
    ASSUME TypeOK, OnItsWay, NEW x \in Handlers, Handle(x)
    PROVE  /\ h[x].pc # "end" /\ h'[x].pc # "idle"
           /\ \A y \in Handlers \ {x} : h'[y] = h[y] \/ (Panic /\ LostAs(y))
<1>0. h \in HandlerTypes
  BY TypeParts
<1>1. h[x].pc # "end"
  BY DEF Handle, Accept, RecvAll, RecvFirst, imageExistsOnRegistry, Unzip, Getwd, Chdir, RunPython,
     Restore, Build, Push, BuildReturn, BuildReturns, SelectRepo, InsertRepo, InsertDef, FindRepo,
     DeleteDefs, DeleteRepo, DropTable, CreateTable, Write, CheckLocalImage, SelectColl, SelectDef,
     DefSelected, InsertModel, Close, DeleteModel, At
<1>2. CASE Panic /\ h[x].pc # "idle"
  <2>1. \A y \in Handlers : LostAs(y)
    BY <1>0, <1>2, LostNow DEF Panic
  <2>2. h'[x].pc = "end"
    BY <1>1, <1>2, <2>1 DEF LostAs
  <2>3. QED
    BY <1>1, <1>2, <2>1, <2>2
<1>3. ASSUME NEW pc, NEW result, Went(x, pc, result), pc # "idle"
      PROVE  /\ h[x].pc # "end" /\ h'[x].pc # "idle"
             /\ \A y \in Handlers \ {x} : h'[y] = h[y] \/ (Panic /\ LostAs(y))
  BY <1>1, <1>3 DEF Went
<1> DEFINE Onward == \E pc \in Pcs \ {"idle"}, r \in Results \cup {h[x].result} : Went(x, pc, r)
<1>4. {"image", "end", "spin", "unzip", "getwd", "python", "build", "build getwd", "push",
       "build return", "hang", "select", "insert", "delete repo", "create", "write", "coll",
       "close", "drop", "chdir", "build chdir", "restore", "defs", "delete defs", "def", "model",
       "recv", "find", "delete"} \subseteq Pcs \ {"idle"}
  BY DEF Pcs, Unpacked
<1>5. {"ok", "error", "exists", "noclasses", "none"} \subseteq Results
  BY DEF Results
<1>6. CASE \/ RecvAll(x) \/ imageExistsOnRegistry(x) \/ Unzip(x) \/ Chdir(x) \/ Restore(x)
           \/ Build(x) \/ Push(x) \/ BuildReturn(x) \/ SelectRepo(x) \/ DeleteDefs(x)
           \/ DeleteRepo(x) \/ DropTable(x) \/ CreateTable(x) \/ Write(x) \/ CheckLocalImage(x)
           \/ InsertModel(x) \/ Close(x) \/ DeleteModel(x)
  <2>1. \E pc \in Pcs \ {"idle"}, r \in Results \cup {h[x].result} : Plain(x, pc, r)
    BY <1>4, <1>5, <1>6, PlainSteps
  <2>2. Onward
    BY <2>1 DEF Plain, Now, Went
  <2>3. QED
    BY <1>3, <2>2
<1>7. CASE Accept(x)
  <2>1. req[x].op \in {"releaseRepo", "dropRepo", "releaseModel", "releaseLocal", "dropModel"}
    BY <1>7, RequestTypes DEF Accept
  <2>2. First[req[x].op] # "idle"
    BY <2>1, FirstPlaces
  <2>3. Went(x, First[req[x].op], "none") \/ Went(x, "end", "error")
    BY <1>7, OtherFields DEF Accepted, Plain, Now, Went
  <2>4. QED
    BY <1>3, <2>2, <2>3
<1>8. CASE Getwd(x) \/ RunPython(x) \/ InsertRepo(x) \/ InsertDef(x) \/ FindRepo(x) \/ SelectDef(x)
  <2>1. Getwd(x) => \E pc \in {"chdir", "build chdir", "end"},
                       r \in Results \cup {h[x].result} : Went(x, pc, r)
    BY OtherFields DEF Plain, Now, Went, Results
  <2>2. RunPython(x) => \E pc \in {"restore", "end"},
                           r \in Results \cup {h[x].result} : Went(x, pc, r)
    BY OtherFields DEF Plain, Now, Went, Results
  <2>3. InsertRepo(x) \/ InsertDef(x) =>
          \E pc \in {"defs", "end"}, r \in Results \cup {h[x].result} : Went(x, pc, r)
    BY OtherFields DEF Plain, Now, Went, Results
  <2>4. FindRepo(x) => \E pc \in {"delete defs", "end"},
                          r \in Results \cup {h[x].result} : Went(x, pc, r)
    BY OtherFields DEF Plain, Now, Went, Results
  <2>5. SelectDef(x) => \E pc \in {"model", "close"},
                           r \in Results \cup {h[x].result} : Went(x, pc, r)
    BY OtherFields DEF Plain, Now, Went, Results
  <2>6. Onward
    BY <1>4, <1>8, <2>1, <2>2, <2>3, <2>4, <2>5
  <2>7. QED
    BY <1>3, <2>6
<1>9. CASE RecvFirst(x) \/ SelectColl(x)
  <2>1. h[x].pc # "idle"
    BY <1>9 DEF RecvFirst, SelectColl, At
  <2>2. RecvFirst(x) => Panic \/ \E pc \in {"drop", "end"},
                                    r \in Results \cup {h[x].result} : Went(x, pc, r)
    BY OtherFields DEF Plain, Now, Went, Results
  <2>3. SelectColl(x) => Panic \/ \E pc \in {"def", "close"},
                                     r \in Results \cup {h[x].result} : Went(x, pc, r)
    BY OtherFields DEF Plain, Now, Went, Results
  <2>4. Panic \/ Onward
    BY <1>4, <1>9, <2>2, <2>3
  <2>5. QED
    BY <1>2, <1>3, <2>1, <2>4
<1>10. QED
  BY <1>6, <1>7, <1>8, <1>9 DEF Handle

\* Storage, for one release.
StoredBy(x) ==
    AloneWithTable(x) =>
        /\ h[x].pc \in {"create", "write"} => StoredSoFar(x) = {}
        /\ h[x].pc \in Storing \ {"drop", "create"} => table(x) \in tables
        /\ h[x].pc \in {"coll", "def", "model"} \/ (h[x].pc = "close" /\ h[x].result = "ok") =>
             StoredSoFar(x) = {Block(x, "head")}
        /\ h[x].pc = "end" /\ h[x].result = "ok" =>
             StoredSoFar(x) = {Block(x, "head"), Block(x, "tail")}

\* No table other than that of x changes, and that only if x releases a model.
OwnTable(x) ==
    \/ UNCHANGED <<tables, blocks>>
    \/ /\ ModelRelease(x)
       /\ \A t : t # table(x) => (t \in tables' <=> t \in tables)
       /\ \A b : b.table # table(x) => (b \in blocks' <=> b \in blocks)

\* Then the other releases have stored what they had.
LEMMA OthersStored ==
    ASSUME NEW x \in Handlers, NEW y \in Handlers \ {x}, StoredBy(y), UNCHANGED <<req, env>>,
           h'[y] = h[y] \/ (h'[y].pc = "end" /\ h'[y].result = "lost"),
           \A z \in Handlers : h'[z].pc = "idle" => h[z].pc = "idle", h'[x].pc # "idle",
           OwnTable(x)
    PROVE  StoredBy(y)'
<1> SUFFICES ASSUME AloneWithTable(y)'
             PROVE  StoredBy(y)'
  BY DEF StoredBy
<1>1. AloneWithTable(y)
  BY DEF AloneWithTable, ModelRelease, Fault, table
<1>2. ModelRelease(x) => table(x) # table(y)
  BY DEF AloneWithTable, ModelRelease, table
<1>3. /\ table(y)' = table(y) /\ StoredSoFar(y)' = StoredSoFar(y)
      /\ table(y) \in tables' <=> table(y) \in tables
      /\ Block(y, "head")' = Block(y, "head") /\ Block(y, "tail")' = Block(y, "tail")
  BY <1>2 DEF OwnTable, StoredSoFar, Block, table
<1>4. CASE h'[y] = h[y]
  BY <1>1, <1>3, <1>4 DEF StoredBy
<1>5. CASE h'[y].pc = "end" /\ h'[y].result = "lost"
  BY <1>5 DEF StoredBy, Storing
<1>6. QED
  BY <1>4, <1>5

\* A step writes to no table but that of its own model.
LEMMA OnlyOwnTable ==
    ASSUME TypeOK, OnItsWay, NEW x \in Handlers, Handle(x)
    PROVE  OwnTable(x) /\ UNCHANGED <<req, env>>
<1>1. UNCHANGED <<req, env>>
  BY HandlePlaced DEF scenario
<1>2. \/ UNCHANGED <<tables, blocks>>
      \/ DropTable(x) \/ CreateTable(x) \/ Write(x) \/ SelectColl(x) \/ Close(x)
  BY DEF Handle, Accept, RecvAll, RecvFirst, imageExistsOnRegistry, Unzip, Getwd, Chdir, RunPython,
     Restore, Build, Push, BuildReturn, BuildReturns, SelectRepo, InsertRepo, InsertDef, FindRepo,
     DeleteDefs, DeleteRepo, CheckLocalImage, SelectDef, DefSelected, InsertModel, DeleteModel,
     FilesOnly, RepoOnly, storage
<1>3. CASE DropTable(x) \/ CreateTable(x) \/ Write(x) \/ SelectColl(x) \/ Close(x)
  <2>1. ModelRelease(x)
    BY <1>3, PlaceOps DEF DropTable, CreateTable, Write, SelectColl, Close, At, Storing
  <2>2. \/ UNCHANGED blocks
        \/ blocks' = {b \in blocks : b.table # table(x)}
        \/ \E part \in {"head", "tail"} : blocks' = blocks \cup {Block(x, part)}
    BY <1>3 DEF DropTable, CreateTable, Write, SelectColl, Close, Flush, Block, storage
  <2>3. \A b : b.table # table(x) => (b \in blocks' <=> b \in blocks)
    BY <2>2 DEF Block
  <2>4. \A t : t # table(x) => (t \in tables' <=> t \in tables)
    BY <1>3 DEF DropTable, CreateTable, Write, SelectColl, Close, storage
  <2>5. QED
    BY <1>1, <2>1, <2>3, <2>4 DEF OwnTable
<1>4. QED
  BY <1>1, <1>2, <1>3 DEF OwnTable

\* What has been stored of the model of x after its table was dropped, or a
\* block of it written.
LEMMA BlocksOf ==
    ASSUME NEW x \in Handlers, UNCHANGED req
    PROVE  /\ UNCHANGED blocks => StoredSoFar(x)' = StoredSoFar(x)
           /\ blocks' = {b \in blocks : b.table # table(x)} => StoredSoFar(x)' = {}
           /\ \A part : Flush(x, part) => StoredSoFar(x)' = StoredSoFar(x) \cup {Block(x, part)}
           /\ table(x)' = table(x)
           /\ Block(x, "head")' = Block(x, "head") /\ Block(x, "tail")' = Block(x, "tail")
<1>1. ASSUME NEW part, Flush(x, part)
      PROVE  StoredSoFar(x)' = StoredSoFar(x) \cup {Block(x, part)}
  <2>1. blocks' = blocks \cup {Block(x, part)} /\ Block(x, part).table = table(x)
    BY <1>1 DEF Flush, Block
  <2>2. table(x)' = table(x)
    BY DEF table
  <2>3. QED
    BY <2>1, <2>2 DEF StoredSoFar
<1>2. QED
  BY <1>1 DEF StoredSoFar, Block, table

\* The release that moves has stored what its place says.
LEMMA SelfStored ==
    ASSUME TypeOK, OnItsWay, Storage, NEW x \in Handlers, Handle(x)
    PROVE  StoredBy(x)'
<1>0. UNCHANGED <<req, env>> /\ \A z \in Handlers : h'[z].pc = "idle" => h[z].pc = "idle"
  BY OneMoves, OnlyOwnTable DEF LostAs
<1> SUFFICES ASSUME AloneWithTable(x)'
             PROVE  StoredBy(x)'
  BY DEF StoredBy
<1>1. /\ AloneWithTable(x) /\ StoredBy(x) /\ ModelRelease(x) /\ "exec" \notin env.faults
      /\ h \in HandlerTypes
  BY <1>0, TypeParts DEF AloneWithTable, ModelRelease, Fault, table, Storage, StoredBy
<1>2. ASSUME h'[x].pc \notin Storing \ {"drop"}, h'[x].result # "ok"
      PROVE  StoredBy(x)'
  BY <1>2 DEF StoredBy, Storing
<1>3. CASE Accept(x)
  <2>1. req[x].op \in {"releaseModel", "releaseLocal"}
    BY <1>1 DEF ModelRelease
  <2>2. h'[x].pc \in {"drop", "recv", "end"} /\ h'[x].result # "ok"
    BY <1>3, <2>1, OtherFields, FirstPlaces DEF Accepted, Plain, Now
  <2>3. QED
    BY <1>2, <2>2 DEF Storing
<1>4. ASSUME Panic, h[x].pc \in {"recv", "coll"}
      PROVE  StoredBy(x)'
  <2>1. LostAs(x)
    BY <1>1, <1>4, LostNow DEF Panic
  <2>2. h'[x].pc = "end" /\ h'[x].result = "lost"
    BY <1>4, <2>1 DEF LostAs
  <2>3. QED
    BY <1>2, <2>2 DEF Storing
<1>5. CASE RecvFirst(x)
  <2>1. h[x].pc = "recv" /\ h[x].result = "none"
    BY <1>5 DEF RecvFirst, At, OnItsWay
  <2>2. Panic \/ (h'[x].pc \in {"drop", "end"} /\ h'[x].result # "ok")
    BY <1>5, <2>1, OtherFields DEF Plain, Now
  <2>3. QED
    BY <1>2, <1>4, <2>1, <2>2 DEF Storing
<1>6. CASE DropTable(x)
  <2>1. h'[x].pc = "create" /\ blocks' = {b \in blocks : b.table # table(x)}
    <3>1. Goto(x, "create") /\ blocks' = {b \in blocks : b.table # table(x)}
      BY <1>1, <1>6 DEF DropTable, Fault
    <3>2. "create" \in Pcs
      BY DEF Pcs
    <3>3. QED
      BY <1>1, <3>1, <3>2, GotoNow DEF Plain, Now
  <2>2. QED
    BY <1>0, <2>1, BlocksOf DEF StoredBy, Storing
<1>7. CASE CreateTable(x)
  <2>1. /\ h[x].pc = "create" /\ h'[x].pc = "write" /\ UNCHANGED blocks
        /\ tables' = tables \cup {table(x)}
    <3>1. /\ Goto(x, "write") /\ h[x].pc = "create" /\ UNCHANGED blocks
          /\ tables' = tables \cup {table(x)}
      BY <1>1, <1>7 DEF CreateTable, Fault, At
    <3>2. "write" \in Pcs
      BY DEF Pcs
    <3>3. QED
      BY <1>1, <3>1, <3>2, GotoNow DEF Plain, Now
  <2>2. QED
    BY <1>0, <1>1, <2>1, BlocksOf DEF StoredBy, Storing
<1>8. CASE Write(x)
  <2>1. h[x].pc = "write" /\ UNCHANGED tables /\ h[x].result = "none"
    BY <1>8 DEF Write, At, OnItsWay
  <2>2. \/ Flush(x, "head") /\ h'[x].pc = "coll"
        \/ h'[x].pc = "close" /\ h'[x].result = "error"
        \/ h'[x].pc = "spin" /\ h'[x].result = "none"
    <3>1. {"coll", "spin"} \subseteq Pcs /\ "error" \in Results
      BY DEF Pcs, Results
    <3>2. QED
      BY <1>1, <1>8, <2>1, <3>1, GotoNow, ReturnNow DEF Write, Plain, Now
  <2>3. StoredSoFar(x) = {} /\ table(x) \in tables
    BY <1>1, <2>1 DEF StoredBy, Storing
  <2>4. QED
    BY <1>0, <2>1, <2>2, <2>3, BlocksOf DEF StoredBy, Storing
<1>9. CASE CheckLocalImage(x)
  <2>1. h[x].pc = "coll" /\ UNCHANGED tables /\ h'[x].pc = "close" /\ h'[x].result = "error"
    BY <1>9, PlainSteps DEF CheckLocalImage, At, Plain, Now, storage
  <2>2. QED
    BY <1>0, <1>1, <2>1, BlocksOf DEF StoredBy, Storing
<1>10. CASE SelectColl(x) \/ SelectDef(x) \/ InsertModel(x)
  <2>1. h[x].pc \in {"coll", "def", "model"} /\ UNCHANGED tables /\ h[x].result = "none"
    BY <1>10 DEF SelectColl, SelectDef, DefSelected, InsertModel, At, storage, OnItsWay
  <2>2. SelectColl(x) =>
          \/ Panic
          \/ /\ UNCHANGED blocks
             /\ \/ h'[x].pc = "def" /\ h'[x].result = "none"
                \/ h'[x].pc = "close" /\ h'[x].result = "error"
    <3>1. ASSUME SelectColl(x)
          PROVE  \/ Panic
                 \/ h'[x].pc = "def" /\ h'[x].result = "none"
                 \/ h'[x].pc = "close" /\ h'[x].result = "error"
      BY <2>1, <3>1, OtherFields DEF Plain, Now
    <3>2. SelectColl(x) => Panic \/ UNCHANGED blocks
      BY DEF SelectColl
    <3>3. QED
      BY <3>1, <3>2
  <2>3. SelectDef(x) =>
          /\ UNCHANGED blocks
          /\ \/ h'[x].pc = "model" /\ h'[x].result = "none"
             \/ h'[x].pc = "close" /\ h'[x].result = "error"
    <3>1. ASSUME SelectDef(x)
          PROVE  \/ h'[x].pc = "model" /\ h'[x].result = "none"
                 \/ h'[x].pc = "close" /\ h'[x].result = "error"
      BY <2>1, <3>1, OtherFields DEF Plain, Now
    <3>2. SelectDef(x) => UNCHANGED blocks
      BY DEF SelectDef, DefSelected, storage
    <3>3. QED
      BY <3>1, <3>2
  <2>4. InsertModel(x) => UNCHANGED blocks /\ h'[x].pc = "close"
    BY PlainSteps DEF InsertModel, storage, Plain, Now
  <2>5. CASE Panic /\ SelectColl(x)
    BY <1>4, <2>5 DEF SelectColl, At
  <2>6. CASE UNCHANGED blocks /\ h'[x].pc \in {"def", "model", "close"}
    BY <1>0, <1>1, <2>1, <2>6, BlocksOf DEF StoredBy, Storing
  <2>7. QED
    BY <1>10, <2>2, <2>3, <2>4, <2>5, <2>6
<1>11. CASE Close(x)
  <2>1. /\ h[x].pc = "close" /\ h'[x].pc = "end" /\ h'[x].result = h[x].result /\ UNCHANGED tables
        /\ Flush(x, "tail") \/ (CannotFlush(x, "tail") /\ UNCHANGED blocks)
    BY <1>11, PlainSteps DEF Close, At, Plain, Now
  <2>2. CASE h[x].result = "ok"
    <3>1. StoredSoFar(x) = {Block(x, "head")} /\ table(x) \in tables
      BY <1>1, <2>1, <2>2 DEF StoredBy, Storing
    <3>2. ~CannotFlush(x, "tail")
      <4>1. ASSUME NEW b \in blocks, b.table = table(x)
            PROVE  b.part = "head"
        <5>1. b = Block(x, "head")
          BY <3>1, <4>1 DEF StoredSoFar
        <5>2. QED
          BY <5>1 DEF Block
      <4>2. QED
        BY <1>1, <3>1, <4>1 DEF CannotFlush, Fault
    <3>3. StoredSoFar(x)' = {Block(x, "head"), Block(x, "tail")}
      BY <1>0, <2>1, <3>1, <3>2, BlocksOf
    <3>4. QED
      BY <1>0, <2>1, <3>3, BlocksOf DEF StoredBy, Storing
  <2>3. CASE h[x].result # "ok"
    BY <1>2, <2>1, <2>3 DEF Storing
  <2>4. QED
    BY <2>2, <2>3
<1>12. QED
  <2>1. \/ h[x].pc \in {"idle", "drop", "create", "write", "coll", "def", "model", "close"}
        \/ (h[x].pc \in {"recv", "spin"} /\ req[x].op = "releaseLocal") \/ h[x].pc = "end"
    <3>1. h[x].pc \in Places[req[x].op] \cup {"idle", "end"}
      BY DEF OnItsWay
    <3>2. QED
      BY <1>1, <3>1, PlaceSets DEF ModelRelease, Storing
  <2>2. \/ Accept(x) \/ RecvFirst(x) \/ DropTable(x) \/ CreateTable(x) \/ Write(x)
        \/ CheckLocalImage(x) \/ SelectColl(x) \/ SelectDef(x) \/ InsertModel(x) \/ Close(x)
    BY <2>1 DEF Handle, RecvAll, imageExistsOnRegistry, Unzip, Getwd, Chdir, RunPython, Restore,
       Build, Push, BuildReturn, BuildReturns, SelectRepo, InsertRepo, InsertDef, FindRepo,
       DeleteDefs, DeleteRepo, DeleteModel, At
  <2>3. QED
    BY <2>2, <1>3, <1>5, <1>6, <1>7, <1>8, <1>9, <1>10, <1>11

\* Every step keeps what is stored.
LEMMA StepStorage ==
    ASSUME TypeOK, OnItsWay, Storage, [Next]_vars
    PROVE  Storage'
<1>0. \A y \in Handlers : StoredBy(y)
  BY DEF Storage, StoredBy
<1>1. ASSUME NEW x \in Handlers, Handle(x), NEW y \in Handlers
      PROVE  StoredBy(y)'
  <2>1. /\ h'[x].pc # "idle" /\ OwnTable(x) /\ UNCHANGED <<req, env>>
        /\ \A z \in Handlers : h'[z].pc = "idle" => h[z].pc = "idle"
    BY <1>1, OneMoves, OnlyOwnTable DEF LostAs
  <2>2. CASE y # x
    <3>1. h'[y] = h[y] \/ (h'[y].pc = "end" /\ h'[y].result = "lost")
      BY <1>1, <2>2, OneMoves DEF LostAs
    <3>2. QED
      BY <1>0, <2>1, <2>2, <3>1, OthersStored
  <2>3. QED
    BY <1>1, <2>2, SelfStored
<1>2. CASE Boot \/ Crash \/ Restart \/ UNCHANGED vars
  <2>1. UNCHANGED <<req, env, tables, blocks>>
    BY <1>2 DEF Boot, BootSelect, BootInsertRepo, BootInsertDef, BootOnly, Crash, Restart, vars,
       scenario, storage
  <2>2. \A y \in Handlers :
          h'[y] = h[y] \/ (h[y].pc # "idle" /\ h'[y].pc = "end" /\ h'[y].result = "lost")
    <3>1. UNCHANGED h \/ h' = Lost(h)
      BY <1>2 DEF Boot, BootSelect, BootInsertRepo, BootInsertDef, BootOnly, Crash, Restart, vars
    <3>2. QED
      BY <3>1, LostNow, TypeParts DEF LostAs
  <2>3. ASSUME NEW y \in Handlers
        PROVE  StoredBy(y)'
    <3>1. AloneWithTable(y)' => AloneWithTable(y)
      BY <2>1, <2>2 DEF AloneWithTable, ModelRelease, Fault, table
    <3>2. StoredSoFar(y)' = StoredSoFar(y) /\ table(y)' = table(y)
          /\ Block(y, "head")' = Block(y, "head") /\ Block(y, "tail")' = Block(y, "tail")
      BY <2>1, BlocksOf
    <3>3. CASE h'[y] = h[y]
      BY <1>0, <2>1, <3>1, <3>2, <3>3 DEF StoredBy
    <3>4. CASE h'[y].pc = "end" /\ h'[y].result = "lost"
      BY <3>4 DEF StoredBy, Storing
    <3>5. QED
      BY <2>2, <3>3, <3>4
  <2>4. QED
    BY <2>3 DEF Storage, StoredBy
<1>3. QED
  <2>1. (\A y \in Handlers : StoredBy(y)') => Storage'
    BY DEF Storage, StoredBy
  <2>2. QED
    BY <1>1, <1>2, <2>1 DEF Next

-----------------------------------------------------------------------------
(* The working directory of the process. *)

\* WorkingDirectory, for one release.
DirectoryOf(x) ==
    AloneInProcess(x) =>
        /\ h[x].pc \in {"idle", "recv", "image", "unzip", "getwd", "chdir"} => cwd = Home
        /\ h[x].pc \in {"python", "restore"} => cwd = x
        /\ h[x].pc \in {"chdir", "python", "restore"} => h[x].cwd = Home
        /\ h[x].pc = "restore" => h[x].descs = Printed(x)
        /\ h[x].result = "noclasses" => req[x].classes = <<>>

\* Only releases of repositories change directory.
LEMMA OnlyReleasesMove ==
    ASSUME TypeOK, OnItsWay, NEW x \in Handlers, Handle(x), req[x].op # "releaseRepo"
    PROVE  UNCHANGED cwd
<1>1. h[x].pc \notin Unpacked \cup {"image", "unzip"}
  BY PlaceOps
<1>2. QED
  BY <1>1 DEF Handle, Accept, RecvAll, RecvFirst, imageExistsOnRegistry, Unzip, Getwd, Chdir,
     RunPython, Restore, Build, Push, BuildReturn, BuildReturns, SelectRepo, InsertRepo, InsertDef,
     FindRepo, DeleteDefs, DeleteRepo, DropTable, CreateTable, Write, CheckLocalImage, SelectColl,
     SelectDef, DefSelected, InsertModel, Close, DeleteModel, At, FilesOnly, ModelOnly, Unpacked

\* Alone in the process, the release that moves is in the directory its
\* place says, and is refused only for want of classes.
LEMMA SelfDirectory ==
    ASSUME TypeOK, OnItsWay, WorkingDirectory, NEW x \in Handlers, Handle(x)
    PROVE  DirectoryOf(x)'
<1>0. UNCHANGED <<req, env>> /\ \A z \in Handlers : h'[z].pc = "idle" => h[z].pc = "idle"
  BY OneMoves, OnlyOwnTable DEF LostAs
<1> SUFFICES ASSUME AloneInProcess(x)'
             PROVE  DirectoryOf(x)'
  BY DEF DirectoryOf
<1>1. /\ AloneInProcess(x) /\ DirectoryOf(x) /\ req[x].op = "releaseRepo"
      /\ "exec" \notin env.faults /\ h \in HandlerTypes
  BY <1>0, TypeParts DEF AloneInProcess, Fault, WorkingDirectory, DirectoryOf
<1>2. Home \notin Handlers /\ DirExists(Home) /\ {"chdir", "restore", "end", "build getwd",
        "python", "build", "build chdir"} \subseteq Pcs /\ {"error", "noclasses"} \subseteq Results
  BY ModelZooAssumption DEF DirExists, Pcs, Unpacked, Results
<1>3. ASSUME h'[x].pc \notin {"idle", "recv", "image", "unzip", "getwd", "chdir", "python",
                             "restore"},
             h'[x].result # "noclasses"
      PROVE  DirectoryOf(x)'
  BY <1>3 DEF DirectoryOf
<1>4. h[x].pc \notin {"build return", "close", "end"} => h[x].result = "none"
  BY DEF OnItsWay
<1>5. CASE Accept(x)
  <2>1. h[x].pc = "idle" /\ UNCHANGED cwd /\ cwd = Home
    BY <1>1, <1>5 DEF Accept, At, DirectoryOf
  <2>2. h'[x].pc \in {"recv", "end"} /\ h'[x].result \in {"none", "error"}
    BY <1>1, <1>5, OtherFields, FirstPlaces DEF Accepted, Plain, Now
  <2>3. QED
    BY <2>1, <2>2 DEF DirectoryOf
<1>6. CASE RecvAll(x) \/ imageExistsOnRegistry(x) \/ Unzip(x)
  <2>1. h[x].pc \in {"recv", "image", "unzip"} /\ UNCHANGED cwd /\ cwd = Home
    BY <1>1, <1>6 DEF RecvAll, imageExistsOnRegistry, Unzip, At, DirectoryOf, FilesOnly
  <2>2. h'[x].pc \in {"image", "end", "spin", "unzip", "getwd"} /\ h'[x].result # "noclasses"
    BY <1>4, <1>6, <2>1, PlainSteps DEF Plain, Now
  <2>3. QED
    BY <2>1, <2>2 DEF DirectoryOf
<1>7. CASE Getwd(x)
  <2>1. UNCHANGED cwd /\ h[x].pc \in {"getwd", "build getwd"} /\ h[x].result = "none"
    BY <1>4, <1>7 DEF Getwd, At, FilesOnly
  <2>2. CASE h[x].pc = "getwd"
    <3>1. cwd = Home
      BY <1>1, <2>2 DEF DirectoryOf
    <3>2. h' = [h EXCEPT ![x].cwd = Home, ![x].pc = "chdir"]
      BY <1>2, <1>7, <2>2, <3>1 DEF Getwd
    <3>3. Now(x, "chdir", Home, h[x].descs, h[x].todo, h[x].coll, h[x].def, h[x].before,
              h[x].result)
      BY <1>1, <1>2, <3>2, GetwdNow DEF Dirs
    <3>4. QED
      BY <2>1, <3>1, <3>3 DEF Now, DirectoryOf
  <2>3. CASE h[x].pc = "build getwd"
    <3>1. \/ h'[x].pc = "build chdir" /\ h'[x].result = "none"
          \/ h'[x].pc = "end" /\ h'[x].result = "error"
      <4>1. CASE DirExists(cwd)
        <5>1. h' = [h EXCEPT ![x].cwd = cwd, ![x].pc = "build chdir"]
          BY <1>7, <2>3, <4>1 DEF Getwd
        <5>2. cwd \in Dirs
          BY TypeParts DEF Typed
        <5>3. Now(x, "build chdir", cwd, h[x].descs, h[x].todo, h[x].coll, h[x].def, h[x].before,
                  h[x].result)
          BY <1>1, <1>2, <5>1, <5>2, GetwdNow
        <5>4. QED
          BY <2>1, <5>3 DEF Now
      <4>2. CASE ~DirExists(cwd)
        <5>1. End(x, "error")
          BY <1>7, <2>3, <4>2 DEF Getwd
        <5>2. QED
          BY <1>1, <1>2, <5>1, EndNow DEF Plain, Now
      <4>3. QED
        BY <4>1, <4>2
    <3>2. QED
      BY <1>3, <3>1
  <2>4. QED
    BY <2>1, <2>2, <2>3
<1>8. CASE Chdir(x)
  <2>1. /\ cwd' = x /\ h[x].result = "none"
        /\ \/ h[x].pc = "chdir" /\ Goto(x, "python")
           \/ h[x].pc = "build chdir" /\ Goto(x, "build")
    BY <1>4, <1>8 DEF Chdir, At
  <2>2. /\ h'[x].cwd = h[x].cwd /\ h'[x].result = "none"
        /\ \/ h[x].pc = "chdir" /\ h'[x].pc = "python"
           \/ h'[x].pc = "build"
    BY <1>1, <1>2, <2>1, GotoNow DEF Plain, Now
  <2>3. QED
    BY <1>1, <2>1, <2>2 DEF DirectoryOf
<1>9. CASE RunPython(x)
  <2>1. cwd = x /\ UNCHANGED cwd /\ h[x].pc = "python" /\ h[x].cwd = Home /\ h[x].result = "none"
    BY <1>1, <1>4, <1>9 DEF RunPython, At, DirectoryOf, FilesOnly
  <2>2. CASE h' = [h EXCEPT ![x].pc = "restore", ![x].descs = Printed(x)]
    <3>1. Now(x, "restore", h[x].cwd, Printed(x), h[x].todo, h[x].coll, h[x].def,
              h[x].before, h[x].result)
      BY <1>1, <2>2, PythonNow, RequestTypes, PrintedLines
    <3>2. Printed(x)' = Printed(x)
      BY <1>0 DEF Printed
    <3>3. QED
      BY <1>0, <2>1, <3>1, <3>2 DEF Now, DirectoryOf
  <2>3. CASE req[x].classes = <<>> /\ End(x, "noclasses")
    <3>1. h'[x].pc = "end"
      BY <1>1, <1>2, <2>3, EndNow DEF Plain, Now
    <3>2. QED
      BY <1>0, <2>3, <3>1 DEF DirectoryOf
  <2>4. QED
    BY <1>1, <1>9, <2>1, <2>2, <2>3 DEF RunPython, Fault
<1>10. CASE Restore(x)
  <2>1. h[x].pc = "restore" /\ h[x].cwd = Home /\ h[x].descs = Printed(x) /\ h[x].result = "none"
    BY <1>1, <1>4, <1>10 DEF Restore, At, DirectoryOf
  <2>2. CASE h[x].descs # {}
    <3>1. Goto(x, "build getwd")
      BY <1>2, <1>10, <2>1, <2>2 DEF Restore
    <3>2. h'[x].pc = "build getwd" /\ h'[x].result = "none"
      BY <1>1, <1>2, <2>1, <3>1, GotoNow DEF Plain, Now
    <3>3. QED
      BY <1>3, <3>2
  <2>3. CASE h[x].descs = {}
    <3>1. h'[x].pc \in {"build getwd", "end"}
      BY <1>10, PlainSteps DEF Plain, Now
    <3>2. req[x].classes = <<>>
      BY <1>1, <2>1, <2>3, RequestTypes, PrintedLines
    <3>3. QED
      BY <1>0, <3>1, <3>2 DEF DirectoryOf
  <2>4. QED
    BY <2>2, <2>3
<1>11. CASE Build(x) \/ Push(x) \/ BuildReturn(x) \/ SelectRepo(x)
  <2>1. h[x].pc \in {"build", "push", "build return", "select"} /\ h[x].result \in {"none", "error"}
    BY <1>4, <1>11 DEF Build, Push, BuildReturn, BuildReturns, SelectRepo, At, OnItsWay
  <2>2. /\ h'[x].pc \in {"push", "build return", "hang", "select", "insert", "end"}
        /\ h'[x].result # "noclasses"
    BY <1>11, <2>1, PlainSteps DEF Plain, Now
  <2>3. QED
    BY <1>3, <2>2
<1>12. CASE InsertRepo(x) \/ InsertDef(x)
  <2>1. h[x].result = "none"
    BY <1>4, <1>12 DEF InsertRepo, InsertDef, At
  <2>2. h'[x].pc \in {"defs", "end"} /\ h'[x].result # "noclasses"
    BY <1>12, <2>1, OtherFields DEF Plain, Now
  <2>3. QED
    BY <1>3, <2>2
<1>13. QED
  <2>1. h[x].pc \in {"idle", "end", "recv", "spin", "image", "unzip"} \cup Unpacked
    BY <1>1, PlaceSets DEF OnItsWay
  <2>2. \/ Accept(x) \/ RecvAll(x) \/ imageExistsOnRegistry(x) \/ Unzip(x) \/ Getwd(x) \/ Chdir(x)
        \/ RunPython(x) \/ Restore(x) \/ Build(x) \/ Push(x) \/ BuildReturn(x) \/ SelectRepo(x)
        \/ InsertRepo(x) \/ InsertDef(x)
    BY <1>1, <2>1 DEF Handle, RecvFirst, FindRepo, DeleteDefs, DeleteRepo, DropTable, CreateTable,
       Write, CheckLocalImage, SelectColl, SelectDef, DefSelected, InsertModel, Close, DeleteModel,
       At, Unpacked
  <2>3. QED
    BY <2>2, <1>5, <1>6, <1>7, <1>8, <1>9, <1>10, <1>11, <1>12

\* "no model classes detected" is said only to releases of repositories.
LEMMA OnlyReposRefused ==
    ASSUME TypeOK, OnItsWay, NEW x \in Handlers, Handle(x), h'[x].result = "noclasses"
    PROVE  req[x].op = "releaseRepo"
<1> SUFFICES ASSUME req[x].op # "releaseRepo"
             PROVE  FALSE
  OBVIOUS
<1>1. /\ h[x].pc \notin Unpacked \cup {"image", "unzip"}
      /\ h[x].pc \notin {"build return", "close", "end"} => h[x].result = "none"
      /\ h[x].pc = "close" => h[x].result \in {"ok", "error"}
  BY PlaceOps DEF OnItsWay
<1>2. \/ Accept(x) \/ RecvFirst(x) \/ FindRepo(x) \/ SelectColl(x) \/ SelectDef(x)
      \/ DeleteDefs(x) \/ DeleteRepo(x) \/ DropTable(x) \/ CreateTable(x) \/ Write(x)
      \/ CheckLocalImage(x) \/ InsertModel(x) \/ Close(x) \/ DeleteModel(x)
  BY <1>1 DEF Handle, RecvAll, imageExistsOnRegistry, Unzip, Getwd, Chdir, RunPython, Restore,
     Build, Push, BuildReturn, BuildReturns, SelectRepo, InsertRepo, InsertDef, At, Unpacked
<1>3. h[x].pc \notin {"build return", "end"}
  BY <1>1, <1>2 DEF Accept, RecvFirst, FindRepo, SelectColl, SelectDef, DefSelected, DeleteDefs,
     DeleteRepo, DropTable, CreateTable, Write, CheckLocalImage, InsertModel, Close, DeleteModel, At
<1>4. h[x].result # "noclasses"
  BY <1>1, <1>3
<1>5. CASE \/ DeleteDefs(x) \/ DeleteRepo(x) \/ DropTable(x) \/ CreateTable(x) \/ Write(x)
           \/ CheckLocalImage(x) \/ InsertModel(x) \/ Close(x) \/ DeleteModel(x)
  BY <1>4, <1>5, PlainSteps DEF Plain, Now
<1>6. CASE Accept(x) \/ FindRepo(x) \/ SelectDef(x)
  BY <1>4, <1>6, OtherFields DEF Accepted, Plain, Now
<1>7. CASE RecvFirst(x) \/ SelectColl(x)
  <2>1. Panic
    BY <1>4, <1>7, OtherFields DEF Plain, Now
  <2>2. h \in HandlerTypes
    BY TypeParts
  <2>3. LostAs(x)
    BY <2>1, <2>2, LostNow DEF Panic
  <2>4. QED
    BY <1>4, <2>3 DEF LostAs
<1>8. QED
  BY <1>2, <1>5, <1>6, <1>7

\* Every step keeps the working directory where a release alone expects it.
LEMMA StepDirectory ==
    ASSUME TypeOK, OnItsWay, WorkingDirectory, [Next]_vars
    PROVE  WorkingDirectory'
<1>0. \A y \in Handlers : DirectoryOf(y)
  BY DEF WorkingDirectory, DirectoryOf
<1> DEFINE Same(y) ==
      \/ h'[y] = h[y] /\ (cwd' = cwd \/ (cwd' = Home /\ h[y].pc \in {"idle", "end"}))
      \/ h'[y].pc = "end" /\ h'[y].result = "lost"
<1>1. ASSUME NEW y \in Handlers, UNCHANGED <<req, env>>, Same(y),
             \A z \in Handlers : h'[z].pc = "idle" => h[z].pc = "idle"
      PROVE  DirectoryOf(y)'
  <2>1. AloneInProcess(y)' => AloneInProcess(y)
    BY <1>1 DEF AloneInProcess, Fault
  <2>2. Printed(y)' = Printed(y)
    BY <1>1 DEF Printed
  <2>3. QED
    BY <1>0, <1>1, <2>1, <2>2 DEF DirectoryOf
<1>2. ASSUME NEW x \in Handlers, Handle(x), NEW y \in Handlers
      PROVE  DirectoryOf(y)'
  <2>1. /\ h'[x].pc # "idle" /\ UNCHANGED <<req, env>>
        /\ \A z \in Handlers : h'[z].pc = "idle" => h[z].pc = "idle"
    BY <1>2, OneMoves, OnlyOwnTable DEF LostAs
  <2>2. CASE y # x /\ req[x].op = "releaseRepo"
    BY <2>1, <2>2 DEF DirectoryOf, AloneInProcess
  <2>3. CASE y # x /\ req[x].op # "releaseRepo"
    <3>1. UNCHANGED cwd
      BY <1>2, <2>3, OnlyReleasesMove
    <3>2. h'[y] = h[y] \/ (h'[y].pc = "end" /\ h'[y].result = "lost")
      BY <1>2, <2>3, OneMoves DEF LostAs
    <3>3. Same(y)
      BY <3>1, <3>2
    <3> HIDE DEF Same
    <3>4. QED
      BY <1>1, <2>1, <3>3
  <2>4. QED
    BY <1>2, <2>2, <2>3, SelfDirectory
<1>3. CASE Boot \/ Crash \/ Restart \/ UNCHANGED vars
  <2>1. UNCHANGED <<req, env>>
    BY <1>3 DEF Boot, BootSelect, BootInsertRepo, BootInsertDef, BootOnly, Crash, Restart, vars,
       scenario
  <2>2. \A y \in Handlers :
          h'[y] = h[y] \/ (h[y].pc # "idle" /\ h'[y].pc = "end" /\ h'[y].result = "lost")
    <3>1. UNCHANGED h \/ h' = Lost(h)
      BY <1>3 DEF Boot, BootSelect, BootInsertRepo, BootInsertDef, BootOnly, Crash, Restart, vars
    <3>2. QED
      BY <3>1, LostNow, TypeParts DEF LostAs
  <2>3. UNCHANGED cwd \/ (cwd' = Home /\ \A y \in Handlers : h[y].pc \in {"idle", "end"})
    BY <1>3 DEF Boot, BootSelect, BootInsertRepo, BootInsertDef, BootOnly, Crash, Restart, vars,
       OnItsWay
  <2>4. QED
    <3>1. ASSUME NEW y \in Handlers
          PROVE  DirectoryOf(y)'
      <4>1. Same(y) /\ \A z \in Handlers : h'[z].pc = "idle" => h[z].pc = "idle"
        BY <2>2, <2>3
      <4> HIDE DEF Same
      <4>2. QED
        BY <1>1, <2>1, <4>1
    <3>2. \A y \in Handlers : h'[y].result = "noclasses" => req'[y].op = "releaseRepo"
      BY <2>1, <2>2 DEF WorkingDirectory
    <3>3. QED
      BY <3>1, <3>2 DEF WorkingDirectory, DirectoryOf
<1>4. ASSUME NEW x \in Handlers, Handle(x)
      PROVE  WorkingDirectory'
  <2>1. ASSUME NEW y \in Handlers, h'[y].result = "noclasses"
        PROVE  req'[y].op = "releaseRepo"
    <3>1. UNCHANGED req
      BY <1>4, OnlyOwnTable
    <3>2. CASE y = x
      BY <1>4, <2>1, <3>1, <3>2, OnlyReposRefused
    <3>3. CASE y # x
      <4>1. h[y].result = "noclasses"
        BY <1>4, <2>1, <3>3, OneMoves DEF LostAs
      <4>2. QED
        BY <3>1, <4>1 DEF WorkingDirectory
    <3>4. QED
      BY <3>2, <3>3
  <2>2. QED
    BY <1>2, <1>4, <2>1 DEF WorkingDirectory, DirectoryOf
<1>5. QED
  BY <1>3, <1>4 DEF Next

-----------------------------------------------------------------------------
(* The theorems. *)

\* The inductive invariant: where the requests are, the images, the rows, what
\* is stored and the working directory.
ZooInv == TypeOK /\ OnItsWay /\ Images /\ Rows /\ Storage /\ WorkingDirectory

\* It holds when the server is first started.
LEMMA InitZoo == Init => ZooInv
<1> SUFFICES ASSUME Init PROVE ZooInv
  OBVIOUS
<1>0. \A x \in Handlers :
        /\ h[x] = NewHandler /\ h[x].pc = "idle" /\ h[x].cwd = Home /\ h[x].descs = {}
        /\ h[x].todo = {} /\ h[x].coll = 0 /\ h[x].def = 0 /\ h[x].before = {}
        /\ h[x].result = "none"
  BY NewFields DEF Init
<1>1. [req |-> req, env |-> env] \in Scenarios /\ env.starts \in Nat \ {0}
  <2>1. PICK s \in Scenarios : req = s.req /\ env = s.env
    BY DEF Init
  <2>2. s = [req |-> s.req, env |-> s.env] /\ s.env \in Environments
    BY ModelZooAssumption
  <2>3. s.env.starts \in Nat \ {0}
    BY <2>2 DEF Environments
  <2>4. QED
    BY <2>1, <2>2, <2>3
<1>2. TypeOK
  <2>1. NewHandler \in HandlerType
    BY DEF NewHandler, HandlerType, Pcs, Dirs, Results
  <2>2. h \in HandlerTypes
    BY <2>1 DEF Init, HandlerTypes
  <2>3. server \in ServerType
    BY <1>1 DEF Init, ServerType
  <2>4. Typed
    BY ModelZooAssumption DEF Init, Typed, Dirs
  <2>5. QED
    BY <1>1, <2>2, <2>3, <2>4, TypeParts
<1>3. OnItsWay
  BY <1>0 DEF OnItsWay
<1>4. Images
  <2>1. registry[DefaultRepo] = Home /\ Home # NoImage /\ repos = {}
    BY ModelZooAssumption DEF Init
  <2>2. QED
    BY <1>0, <2>1 DEF Images, ReposHaveImages, ImageFirst
<1>5. Rows
  <2>1. server.pc = "start" /\ repos = {} /\ defs = {} /\ nextId = 1
    BY DEF Init
  <2>2. IdsHeld
    BY <1>0, <2>1 DEF IdsHeld
  <2>3. OwnRows
    BY <1>0, <2>1 DEF OwnRows, OwnersApart, ServerOwns, Owned, Owner, Listing
  <2>4. GoneStaysGone
    BY <1>0, <2>1 DEF GoneStaysGone
  <2>5. DefaultAbsent /\ DefaultsOnce
    BY <1>0, <2>1 DEF DefaultAbsent, DefaultsOnce, RepoRows
  <2>6. QED
    BY <2>2, <2>3, <2>4, <2>5 DEF Rows
<1>6. Storage
  BY <1>0 DEF Storage, Storing
<1>7. WorkingDirectory
  BY <1>0 DEF WorkingDirectory, Init
<1>8. QED
  BY <1>2, <1>3, <1>4, <1>5, <1>6, <1>7 DEF ZooInv

\* It always holds, whatever requests run together, whatever fails and however
\* often the server is killed.
THEOREM ZooInvariant == Spec => []ZooInv
<1>1. ZooInv /\ AttributionInv /\ [Next]_vars => ZooInv'
  BY StepTyped, StepImages, StepRows, StepStorage, StepDirectory DEF ZooInv, AttributionInv
<1>2. QED
  BY <1>1, InitZoo, Attribution, PTL DEF Spec

\* What users can see is consistent at any time: every repository that is
\* listed has an image, and the default one is listed once.
THEOREM CatalogueStaysConsistent == Spec => []CatalogueConsistent
<1>1. ZooInv => CatalogueConsistent
  BY DEF ZooInv, Images, Rows, CatalogueConsistent
<1>2. QED
  BY <1>1, ZooInvariant, PTL

\* The answers of the server are true: a release that succeeded is listed or
\* stored, a repository that was dropped is gone, a taken name is refused, and
\* a release is refused for want of classes only when it has none.
THEOREM AnswersStayTrue == Spec => []AnswersAreTrue
<1>1. ZooInv /\ AttributionInv => AnswersAreTrue
  <2> SUFFICES ASSUME ZooInv, AttributionInv PROVE AnswersAreTrue
    OBVIOUS
  <2> USE DEF ZooInv, Rows, AttributionInv
  <2>1. ReleaseOkMeansListed
    <3>1. ASSUME NEW x \in Handlers, req[x].op = "releaseRepo", h[x].result = "ok",
                 Droppers(h[x].coll) = {}
          PROVE  /\ [id |-> h[x].coll, name |-> req[x].name] \in repos
                 /\ EntriesOf(h[x].coll) = h[x].descs
      <4>1. Owned(x)
        BY DEF OwnRows
      <4>2. Listing(x)
        BY <3>1, <4>1 DEF Owned, Listing
      <4>3. h[x].todo = {} /\ EntriesOf(h[x].coll) = h[x].descs \ h[x].todo
            /\ [id |-> h[x].coll, name |-> req[x].name] \in repos
        BY <3>1, <4>1, <4>2 DEF Owned
      <4>4. QED
        BY <4>3
    <3>2. QED
      BY <3>1 DEF ReleaseOkMeansListed, EntriesOf
  <2>2. SuccessMeansStored
    <3>1. ASSUME NEW x \in Handlers, h[x].pc = "end", h[x].result = "ok", AloneWithTable(x)
          PROVE  {b.part : b \in {c \in blocks : c.table = table(x) /\ c.by = x}} = {"head", "tail"}
      <4>1. StoredSoFar(x) = {Block(x, "head"), Block(x, "tail")}
        BY <3>1 DEF Storage
      <4>2. /\ Block(x, "head").part = "head" /\ Block(x, "tail").part = "tail"
            /\ Block(x, "head").by = x /\ Block(x, "tail").by = x
        BY DEF Block
      <4>3. {c \in blocks : c.table = table(x) /\ c.by = x} = {Block(x, "head"), Block(x, "tail")}
        BY <4>1, <4>2 DEF StoredSoFar
      <4>4. QED
        BY <4>2, <4>3
    <3>2. QED
      BY <3>1 DEF SuccessMeansStored, AloneWithTable
  <2>3. DropOkMeansGone
    BY DEF DropOkMeansGone, GoneStaysGone, ForeignKeys, RepoExists
  <2>4. ExistingRefused
    BY DEF ExistingRefused, GoneStaysGone
  <2>5. RefusalIsTrue
    BY DEF RefusalIsTrue, WorkingDirectory, AloneInProcess
  <2>6. QED
    BY <2>1, <2>2, <2>3, <2>4, <2>5 DEF AnswersAreTrue
<1>2. QED
  BY <1>1, ZooInvariant, Attribution, PTL

=============================================================================
