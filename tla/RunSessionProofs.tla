-------------------------- MODULE RunSessionProofs --------------------------
(***************************************************************************)
(* Proofs about RunSession, for any set of programs and any number of      *)
(* outputs: the inductive invariant of a call, what OK means, and that a   *)
(* call implements ResultStream.                                           *)
(***************************************************************************)
EXTENDS RunSession, TLAPS

-----------------------------------------------------------------------------
(* How the runner moves, field by field. *)

RunType == [pc : RunnerPC, stmt : Nat, phase : Nat, cnt : Nat, err : Errors]

\* The runner is at pc afterwards, with this error, in the same statement.
Moved(pc, phase, e) ==
    /\ run' \in RunType
    /\ run'.pc = pc /\ run'.stmt = run.stmt /\ run'.phase = phase /\ run'.err = e

\* Going on to another program counter leaves the rest alone.
LEMMA GotoMoves ==
    ASSUME run \in RunType, NEW pc \in RunnerPC, Goto(pc)
    PROVE  Moved(pc, run.phase, run.err)
BY DEF RunType, Goto, Moved

\* Failing sets the error as well.
LEMMA FailToMoves ==
    ASSUME run \in RunType, NEW pc \in RunnerPC, NEW e \in Errors, FailTo(pc, e)
    PROVE  Moved(pc, run.phase, e)
BY DEF RunType, FailTo, Moved

\* The next phase of a statement starts with no output.
LEMMA NextPhaseMoves ==
    ASSUME run \in RunType, NEW pc \in RunnerPC, NextPhase(pc)
    PROVE  Moved(pc, run.phase + 1, run.err)
<1>1. run' = [pc |-> pc, stmt |-> run.stmt, phase |-> run.phase + 1, cnt |-> 0, err |-> run.err]
  BY DEF RunType, NextPhase
<1>2. run.phase + 1 \in Nat /\ run.stmt \in Nat /\ run.err \in Errors
  BY DEF RunType
<1>3. QED
  BY <1>1, <1>2 DEF RunType, Moved

\* One more output of the same phase.
LEMMA CountMoves ==
    ASSUME run \in RunType, NEW pc \in RunnerPC,
           run' = [run EXCEPT !.pc = pc, !.cnt = @ + 1]
    PROVE  Moved(pc, run.phase, run.err)
<1>1. run' = [pc |-> pc, stmt |-> run.stmt, phase |-> run.phase, cnt |-> run.cnt + 1,
              err |-> run.err]
  BY DEF RunType
<1>2. run.cnt + 1 \in Nat /\ run.phase \in Nat /\ run.stmt \in Nat /\ run.err \in Errors
  BY DEF RunType
<1>3. QED
  BY <1>1, <1>2 DEF RunType, Moved

\* The loop of runSQLProgram goes on.
LEMMA StatementMoves ==
    ASSUME run \in RunType,
           run' = [run EXCEPT !.pc = "stmt", !.stmt = @ + 1, !.phase = 1, !.cnt = 0]
    PROVE  /\ run' \in RunType
           /\ run'.pc = "stmt" /\ run'.stmt = run.stmt + 1 /\ run'.phase = 1
           /\ run'.err = run.err
<1>1. run' = [pc |-> "stmt", stmt |-> run.stmt + 1, phase |-> 1, cnt |-> 0, err |-> run.err]
  BY DEF RunType
<1>2. run.stmt + 1 \in Nat /\ run.err \in Errors /\ 0 \in Nat /\ 1 \in Nat
  BY DEF RunType
<1>3. "stmt" \in RunnerPC
  BY DEF RunnerPC
<1>4. run' \in RunType
  BY <1>1, <1>2, <1>3 DEF RunType
<1>5. QED
  BY <1>1, <1>4

\* A Write: the runner waits with an item of this kind in hand, and the
\* channel was open and nothing was being written before.
LEMMA WriteItemWaits ==
    ASSUME P!PipeTypeOK, results \in Seq(Outputs),
           NEW kind \in OutputKinds \cup {"error", "eoe"}, WriteItem(kind)
    PROVE  /\ P!PipeTypeOK'
           /\ Returned /\ ~Returned' /\ wr'["runner"].item.kind = kind
           /\ UNCHANGED <<wrClosed, done, rd>> /\ ~wrClosed
           /\ UNCHANGED <<prog, mode, hinted, results, connected, sent, nilSend, status>>
BY DEF P!PipeTypeOK, P!WriterPC, P!ReaderPC, WriteItem, P!WriteCall, Items, Returned,
       request, history, server

\* What the proofs need of the types.
LEMMA TypesUsed ==
    ASSUME TypeOK
    PROVE  /\ run \in RunType /\ P!PipeTypeOK /\ results \in Seq(Outputs)
           /\ run.stmt \in Nat /\ run.phase \in Nat /\ run.err \in Errors /\ run.pc \in RunnerPC
BY DEF TypeOK, RunType

\* A step off the pipe keeps the types when its world does.
LEMMA QuietTypes ==
    ASSUME TypeOK, run' \in RunType, OffPipe,
           dbOpen' \in BOOLEAN, cwd' \in {"none", "there", "stuck"}, submitted' \in BOOLEAN,
           target' \in [DOMAIN prog -> {"old", "dropped", "partial", "full"}]
    PROVE  TypeOK'
BY DEF TypeOK, RunType, OffPipe, pvars, request, history, server, P!PipeTypeOK

\* The phases that change what the statement leaves in the database.
TargetTypes == [DOMAIN prog -> {"old", "dropped", "partial", "full"}]

\* The phases that write the target write one of its values.
LEMMA TargetPhases ==
    ASSUME TypeOK, TablePhase \/ EffectPhase \/ ChildExit
    PROVE  target' \in TargetTypes
<1>1. target \in TargetTypes
  BY DEF TypeOK, TargetTypes
<1>2. CASE TablePhase
  BY <1>1, <1>2 DEF TablePhase, TargetTypes
<1>3. CASE EffectPhase
  BY <1>1, <1>3 DEF EffectPhase, TargetTypes
<1>4. CASE ChildExit
  BY <1>1, <1>4 DEF ChildExit, TargetTypes
<1>5. QED
  BY <1>2, <1>3, <1>4

\* A Write keeps the types.
LEMMA WriteTypes ==
    ASSUME TypeOK, run' \in RunType, UNCHANGED world,
           NEW kind \in OutputKinds \cup {"error", "eoe"}, WriteItem(kind)
    PROVE  TypeOK'
<1>1. P!PipeTypeOK'
  BY WriteItemWaits DEF TypeOK
<1>2. QED
  BY <1>1 DEF TypeOK, RunType, WriteItem, request, history, server, world

-----------------------------------------------------------------------------
(* Control: where the runner, the pipe and the handler are. *)

Control ==
    /\ PipeEnds /\ RunnerWaits /\ Delivery /\ ErrorOnItsWay /\ RunnerPlace
    /\ CleanedUp /\ OneJob

\* Every step of the runner keeps the types and the control.
LEMMA RunnerControl ==
    ASSUME TypeOK, Control, RunnerStep
    PROVE  (TypeOK /\ Control)'
<1> USE TypesUsed DEF RunnerPC, Errors, OutputKinds, OffPipe, pvars, request, history, server, world
<1> USE DEF Control, PipeEnds, RunnerWaits, Delivery, ErrorOnItsWay, RunnerPlace, CleanedUp,
            OneJob, Returned, InHand, Item, InStatement, Executing, InPhase
<1>1. CASE OpenDB
  <2>2. \/ Moved("parse", run.phase, run.err)
        \/ Moved("report", run.phase, "open")
    BY <1>1, GotoMoves, FailToMoves, NextPhaseMoves, CountMoves DEF OpenDB
  <2>3. TypeOK'
    BY <1>1, <2>2, QuietTypes DEF OpenDB, Moved, TypeOK
  <2>4. Control'
    BY <1>1, <2>2, SMTT(30) DEF OpenDB, Moved
  <2>5. QED
    BY <2>3, <2>4
<1>2. CASE ParseProgram
  <2>2. \/ Moved("stmt", run.phase, run.err)
        \/ Moved("report", run.phase, "parse")
    BY <1>2, GotoMoves, FailToMoves, NextPhaseMoves, CountMoves DEF ParseProgram
  <2>3. TypeOK'
    BY <1>2, <2>2, QuietTypes DEF ParseProgram, Moved, TypeOK
  <2>4. Control'
    BY <1>2, <2>2, SMTT(30) DEF ParseProgram, Moved
  <2>5. QED
    BY <2>3, <2>4
<1>3. CASE StartStatement
  <2>2. \/ Moved("ir", run.phase, run.err)
        \/ Moved("eoe", run.phase, "tempdir") /\ cwd' = cwd
    BY <1>3, GotoMoves, FailToMoves, NextPhaseMoves, CountMoves DEF StartStatement
  <2>3. TypeOK'
    BY <1>3, <2>2, QuietTypes DEF StartStatement, Moved, TypeOK
  <2>4. Control'
    BY <1>3, <2>2, SMTT(30) DEF StartStatement, Moved
  <2>5. QED
    BY <2>3, <2>4
<1>4. CASE GenerateIR
  <2>2. \/ Moved("exec", run.phase, run.err)
        \/ Moved("cleanup", run.phase, "ir")
    BY <1>4, GotoMoves, FailToMoves, NextPhaseMoves, CountMoves DEF GenerateIR
  <2>3. TypeOK'
    BY <1>4, <2>2, QuietTypes DEF GenerateIR, Moved, TypeOK
  <2>4. Control'
    BY <1>4, <2>2, SMTT(30) DEF GenerateIR, Moved
  <2>5. QED
    BY <2>3, <2>4
<1>5. CASE RemoveCwd
  <2>2. \/ cwd' = "none" /\ Moved("eoe", run.phase, run.err)
        \/ cwd' = "stuck" /\ Moved("eoe", run.phase, "removeall")
    BY <1>5, GotoMoves, FailToMoves, NextPhaseMoves, CountMoves DEF RemoveCwd
  <2>3. TypeOK'
    BY <1>5, <2>2, QuietTypes DEF RemoveCwd, Moved, TypeOK
  <2>4. Control'
    BY <1>5, <2>2, SMTT(30) DEF RemoveCwd, Moved
  <2>5. QED
    BY <2>3, <2>4
<1>6. CASE WriteEOE
  <2>1. WriteItem("eoe")
    BY <1>6 DEF WriteEOE
  <2>2. Moved("report", run.phase, run.err)
    BY <1>6, GotoMoves, FailToMoves, NextPhaseMoves, CountMoves DEF WriteEOE
  <2>3. TypeOK'
    BY <1>6, <2>1, <2>2, WriteTypes DEF WriteEOE, Moved
  <2>4. Control'
    BY <1>6, <2>1, <2>2, WriteItemWaits, SMTT(30) DEF WriteEOE, Moved
  <2>5. QED
    BY <2>3, <2>4
<1>7. CASE StatementDone
  <2>1. /\ run' \in RunType /\ run'.pc = "stmt" /\ run'.stmt = run.stmt + 1
        /\ run'.phase = 1 /\ run'.err = run.err
    BY <1>7, StatementMoves DEF StatementDone
  <2>2. TypeOK'
    BY <1>7, <2>1, QuietTypes DEF StatementDone, TypeOK
  <2>3. Control'
    BY <1>7, <2>1, SMTT(30) DEF StatementDone, TypeOK
  <2>4. QED
    BY <2>2, <2>3
<1>8. CASE ProgramDone
  <2>2. Moved("close", run.phase, run.err)
    BY <1>8, GotoMoves, FailToMoves, NextPhaseMoves, CountMoves DEF ProgramDone
  <2>3. TypeOK'
    BY <1>8, <2>2, QuietTypes DEF ProgramDone, Moved, TypeOK
  <2>4. Control'
    BY <1>8, <2>2, SMTT(30) DEF ProgramDone, Moved
  <2>5. QED
    BY <2>3, <2>4
<1>9. CASE WriteError
  <2>1. WriteItem("error")
    BY <1>9 DEF WriteError
  <2>2. Moved("close", run.phase, run.err)
    BY <1>9, GotoMoves, FailToMoves, NextPhaseMoves, CountMoves DEF WriteError
  <2>3. TypeOK'
    BY <1>9, <2>1, <2>2, WriteTypes DEF WriteError, Moved
  <2>4. Control'
    BY <1>9, <2>1, <2>2, WriteItemWaits, SMTT(30) DEF WriteError, Moved
  <2>5. QED
    BY <2>3, <2>4
<1>10. CASE RunnerClose
  <2>1. /\ Moved("ended", run.phase, run.err) /\ Returned
        /\ wrClosed' = TRUE /\ dbOpen' = FALSE /\ UNCHANGED <<done, wr, rd>>
    BY <1>10, GotoMoves DEF RunnerClose, P!WriterClose
  <2>2. TypeOK'
    BY <1>10, <2>1 DEF RunnerClose, Moved, TypeOK, RunType, P!PipeTypeOK
  <2>3. Control'
    BY <1>10, <2>1, SMTT(30) DEF RunnerClose, Moved, TypeOK
  <2>4. QED
    BY <2>2, <2>3
<1>11. CASE Compile
  <2>2. \/ Moved("submit", run.phase, run.err)
        \/ Moved("report", run.phase, "compile")
    BY <1>11, GotoMoves, FailToMoves, NextPhaseMoves, CountMoves DEF Compile
  <2>3. TypeOK'
    BY <1>11, <2>2, QuietTypes DEF Compile, Moved, TypeOK
  <2>4. Control'
    BY <1>11, <2>2, SMTT(30) DEF Compile, Moved
  <2>5. QED
    BY <2>3, <2>4
<1>12. CASE Submit
  <2>2. \/ Moved("job", run.phase, run.err) /\ submitted' = TRUE
        \/ Moved("report", run.phase, "submit")
    BY <1>12, GotoMoves, FailToMoves, NextPhaseMoves, CountMoves DEF Submit
  <2>3. TypeOK'
    BY <1>12, <2>2, QuietTypes DEF Submit, Moved, TypeOK
  <2>4. Control'
    BY <1>12, <2>2, SMTT(30) DEF Submit, Moved
  <2>5. QED
    BY <2>3, <2>4
<1>13. CASE WriteJob
  <2>1. WriteItem("job")
    BY <1>13 DEF WriteJob
  <2>2. Moved("close", run.phase, run.err)
    BY <1>13, GotoMoves, FailToMoves, NextPhaseMoves, CountMoves DEF WriteJob
  <2>3. TypeOK'
    BY <1>13, <2>1, <2>2, WriteTypes DEF WriteJob, Moved
  <2>4. Control'
    BY <1>13, <2>1, <2>2, WriteItemWaits, SMTT(30) DEF WriteJob, Moved
  <2>5. QED
    BY <2>3, <2>4
<1>14. CASE CallPhase
  <2>2. \/ Moved("exec", run.phase + 1, run.err)
        \/ Moved("cleanup", run.phase, "exec")
    BY <1>14, GotoMoves, FailToMoves, NextPhaseMoves, CountMoves DEF CallPhase
  <2>3. TypeOK'
    BY <1>14, <2>2, QuietTypes DEF CallPhase, Moved, TypeOK
  <2>4. Control'
    BY <1>14, <2>2, SMTT(20) DEF CallPhase, Moved
  <2>5. QED
    BY <2>3, <2>4
<1>15. CASE TablePhase
  <2>2. \/ Moved("exec", run.phase + 1, run.err)
        \/ Moved("cleanup", run.phase, "exec")
    BY <1>15, GotoMoves, FailToMoves, NextPhaseMoves, CountMoves DEF TablePhase
  <2>3. TypeOK'
    BY <1>15, <2>2, QuietTypes, TargetPhases DEF TablePhase, Moved, TypeOK, TargetTypes
  <2>4. Control'
    BY <1>15, <2>2, SMTT(20) DEF TablePhase, Moved
  <2>5. QED
    BY <2>3, <2>4
<1>16. CASE EffectPhase
  <2>2. \/ Moved("exec", run.phase + 1, run.err)
        \/ Moved("cleanup", run.phase, "exec")
    BY <1>16, GotoMoves, FailToMoves, NextPhaseMoves, CountMoves DEF EffectPhase
  <2>3. TypeOK'
    BY <1>16, <2>2, QuietTypes, TargetPhases DEF EffectPhase, Moved, TypeOK, TargetTypes
  <2>4. Control'
    BY <1>16, <2>2, SMTT(20) DEF EffectPhase, Moved
  <2>5. QED
    BY <2>3, <2>4
<1>17. CASE WritePhase
  <2>1. PICK kind \in {"head", "string"} : WriteItem(kind)
    BY <1>17 DEF WritePhase
  <2>2. Moved("checked", run.phase + 1, run.err)
    BY <1>17, GotoMoves, FailToMoves, NextPhaseMoves, CountMoves DEF WritePhase
  <2>3. TypeOK'
    BY <1>17, <2>1, <2>2, WriteTypes DEF WritePhase, Moved
  <2>4. Control'
    BY <1>17, <2>1, <2>2, WriteItemWaits, SMTT(20) DEF WritePhase, Moved
  <2>5. QED
    BY <2>3, <2>4
<1>18. CASE UncheckedWritePhase
  <2>1. PICK kind \in {"head", "row", "figures"} : WriteItem(kind)
    BY <1>18 DEF UncheckedWritePhase
  <2>2. Moved("unchecked", run.phase + 1, run.err)
    BY <1>18, GotoMoves, FailToMoves, NextPhaseMoves, CountMoves DEF UncheckedWritePhase
  <2>3. TypeOK'
    BY <1>18, <2>1, <2>2, WriteTypes DEF UncheckedWritePhase, Moved
  <2>4. Control'
    BY <1>18, <2>1, <2>2, WriteItemWaits, SMTT(30) DEF UncheckedWritePhase, Moved
  <2>5. QED
    BY <2>3, <2>4
<1>19. CASE RowsPhase
  <2>1. CASE WriteItem("row") /\ Moved("checked", run.phase, run.err)
    <3>1. TypeOK'
      BY <1>19, <2>1, WriteTypes DEF RowsPhase, Moved
    <3>2. Control'
      BY <1>19, <2>1, WriteItemWaits, SMTT(30) DEF RowsPhase, Moved
    <3>3. QED
      BY <3>1, <3>2
  <2>2. CASE /\ OffPipe
             /\ \/ Moved("exec", run.phase + 1, run.err)
                \/ Moved("cleanup", run.phase, "exec")
    <3>1. TypeOK'
      BY <1>19, <2>2, QuietTypes DEF RowsPhase, Moved, TypeOK
    <3>2. Control'
      <4>1. CASE Moved("exec", run.phase + 1, run.err)
        BY <1>19, <2>2, <4>1, SMTT(30) DEF RowsPhase, Moved
      <4>2. CASE Moved("cleanup", run.phase, "exec")
        BY <1>19, <2>2, <4>2, SMTT(30) DEF RowsPhase, Moved
      <4>3. QED
        BY <2>2, <4>1, <4>2
    <3>3. QED
      BY <3>1, <3>2
  <2>3. QED
    BY <1>19, <2>1, <2>2, CountMoves, NextPhaseMoves, FailToMoves DEF RowsPhase
<1>20. CASE LoadPhase
  <2>1. CASE WriteItem("string") /\ Moved("settle", run.phase, "exec")
    <3>1. TypeOK'
      BY <1>20, <2>1, WriteTypes DEF LoadPhase, Moved
    <3>2. Control'
      BY <1>20, <2>1, WriteItemWaits, SMTT(30) DEF LoadPhase, Moved
    <3>3. QED
      BY <3>1, <3>2
  <2>2. CASE OffPipe /\ Moved("exec", run.phase + 1, run.err)
    <3>1. TypeOK'
      BY <1>20, <2>2, QuietTypes DEF LoadPhase, Moved, TypeOK
    <3>2. Control'
      BY <1>20, <2>2, SMTT(30) DEF LoadPhase, Moved
    <3>3. QED
      BY <3>1, <3>2
  <2>3. QED
    BY <1>20, <2>1, <2>2, NextPhaseMoves, FailToMoves DEF LoadPhase
<1>21. CASE WriteReturned
  <2>2. \/ Moved("exec", run.phase, run.err)
        \/ Moved("cleanup", run.phase, "pipe")
    BY <1>21, GotoMoves, FailToMoves, NextPhaseMoves, CountMoves DEF WriteReturned
  <2>3. TypeOK'
    BY <1>21, <2>2, QuietTypes DEF WriteReturned, Moved, TypeOK
  <2>4. Control'
    BY <1>21, <2>2, SMTT(30) DEF WriteReturned, Moved
  <2>5. QED
    BY <2>3, <2>4
<1>22. CASE ChildLine
  <2>1. WriteItem("string")
    BY <1>22 DEF ChildLine
  <2>2. Moved("line", run.phase, run.err)
    BY <1>22, GotoMoves, FailToMoves, NextPhaseMoves, CountMoves DEF ChildLine
  <2>3. TypeOK'
    BY <1>22, <2>1, <2>2, WriteTypes DEF ChildLine, Moved
  <2>4. Control'
    BY <1>22, <2>1, <2>2, WriteItemWaits, SMTT(30) DEF ChildLine, Moved
  <2>5. QED
    BY <2>3, <2>4
<1>23. CASE LineReturned
  <2>2. \/ Moved("exec", run.phase, run.err)
        \/ Moved("flush", run.phase, "pipe")
    BY <1>23, GotoMoves, FailToMoves, NextPhaseMoves, CountMoves DEF LineReturned
  <2>3. TypeOK'
    BY <1>23, <2>2, QuietTypes DEF LineReturned, Moved, TypeOK
  <2>4. Control'
    BY <1>23, <2>2, SMTT(30) DEF LineReturned, Moved
  <2>5. QED
    BY <2>3, <2>4
<1>24. CASE ChildExit
  <2>2. \/ Moved("flush", run.phase, run.err)
        \/ Moved("flush", run.phase, "exec")
    BY <1>24, GotoMoves, FailToMoves, NextPhaseMoves, CountMoves DEF ChildExit
  <2>3. TypeOK'
    BY <1>24, <2>2, QuietTypes, TargetPhases DEF ChildExit, Moved, TypeOK, TargetTypes
  <2>4. Control'
    BY <1>24, <2>2, SMTT(30) DEF ChildExit, Moved
  <2>5. QED
    BY <2>3, <2>4
<1>25. CASE FlushPartialLine
  <2>2. \/ WriteItem("string") /\ Moved("settle", run.phase, run.err)
        \/ OffPipe /\ Moved("settle", run.phase, run.err)
    BY <1>25, GotoMoves, FailToMoves, NextPhaseMoves, CountMoves DEF FlushPartialLine
  <2>3. TypeOK'
    BY <1>25, <2>2, WriteTypes, QuietTypes DEF FlushPartialLine, Moved, TypeOK
  <2>4. Control'
    BY <1>25, <2>2, WriteItemWaits, SMTT(30) DEF FlushPartialLine, Moved
  <2>5. QED
    BY <2>3, <2>4
<1>26. CASE ChildSettled
  <2>2. \/ OffPipe /\ Moved("exec", run.phase + 1, run.err) /\ run.err = "none"
        \/ WriteItem("string") /\ Moved("failed", run.phase, run.err) /\ run.err # "none"
        \/ OffPipe /\ Moved("failed", run.phase, run.err) /\ run.err # "none"
    BY <1>26, GotoMoves, FailToMoves, NextPhaseMoves, CountMoves DEF ChildSettled
  <2>3. TypeOK'
    BY <1>26, <2>2, WriteTypes, QuietTypes DEF ChildSettled, Moved, TypeOK
  <2>4. Control'
    BY <1>26, <2>2, WriteItemWaits, SMTT(20) DEF ChildSettled, Moved
  <2>5. QED
    BY <2>3, <2>4
<1>27. CASE ExecFailed
  <2>2. Moved("cleanup", run.phase, run.err)
    BY <1>27, GotoMoves, FailToMoves, NextPhaseMoves, CountMoves DEF ExecFailed
  <2>3. TypeOK'
    BY <1>27, <2>2, QuietTypes DEF ExecFailed, Moved, TypeOK
  <2>4. Control'
    BY <1>27, <2>2, SMTT(30) DEF ExecFailed, Moved
  <2>5. QED
    BY <2>3, <2>4
<1>28. CASE ExecDone
  <2>2. Moved("cleanup", run.phase, run.err)
    BY <1>28, GotoMoves, FailToMoves, NextPhaseMoves, CountMoves DEF ExecDone
  <2>3. TypeOK'
    BY <1>28, <2>2, QuietTypes DEF ExecDone, Moved, TypeOK
  <2>4. Control'
    BY <1>28, <2>2, SMTT(30) DEF ExecDone, Moved
  <2>5. QED
    BY <2>3, <2>4
<1>29. QED
  BY <1>1, <1>2, <1>3, <1>4, <1>5, <1>6, <1>7, <1>8, <1>9, <1>10, <1>11, <1>12, <1>13, <1>14,
     <1>15, <1>16, <1>17, <1>18, <1>19, <1>20, <1>21, <1>22, <1>23, <1>24, <1>25, <1>26, <1>27,
     <1>28 DEF RunnerStep

\* The steps of the pipe keep its types, whatever the items are.
LEMMA PipeTypes ==
    ASSUME P!PipeTypeOK,
           \/ P!WriteSend("runner") \/ P!WriteDone("runner")
           \/ P!BodyNext \/ P!BodyLeave \/ P!ReadEnd \/ P!ReaderClose
    PROVE  P!PipeTypeOK'
<1> USE DEF P!PipeTypeOK, P!WriterPC, P!ReaderPC
<1>1. CASE P!WriteSend("runner")
  <2>1. wr'["runner"] = [pc |-> "nil", item |-> wr["runner"].item]
    BY <1>1 DEF P!WriteSend
  <2>2. QED
    BY <1>1, <2>1 DEF P!WriteSend
<1>2. CASE P!WriteDone("runner")
  BY <1>2 DEF P!WriteDone
<1>3. CASE P!BodyNext \/ P!BodyLeave \/ P!ReadEnd \/ P!ReaderClose
  BY <1>3 DEF P!BodyNext, P!BodyLeave, P!ReadEnd, P!ReaderClose
<1>4. QED
  BY <1>1, <1>2, <1>3

\* Every step of the pipe and of the handler keeps the types, and so does a
\* client that goes.
LEMMA ServerTypes ==
    ASSUME TypeOK, PipeEnds, RunnerWaits, PipeStep \/ ServerStep \/ ClientGone
    PROVE  TypeOK'
<1> USE DEF TypeOK, Statuses, pvars, request, history, server, world, ServerOnly
<1>1. CASE PipeSend
  <2> DEFINE item == wr["runner"].item
  <2>1. P!PipeTypeOK'
    BY <1>1, PipeTypes DEF PipeSend
  <2>2. item \in Items
    BY <1>1 DEF PipeSend, P!WriteSend, P!PipeTypeOK, RunnerWaits, Returned, NoItem, OutputKinds
  <2>3. results' \in Seq(Outputs)
    <3>1. CASE item.kind \in OutputKinds
      <4>1. item \in Outputs
        BY <2>2, <3>1 DEF Items, Outputs
      <4>2. QED
        BY <1>1, <3>1, <4>1 DEF PipeSend
    <3>2. CASE item.kind \notin OutputKinds
      BY <1>1, <3>2 DEF PipeSend
    <3>3. QED
      BY <3>1, <3>2
  <2>4. QED
    BY <1>1, <2>1, <2>3 DEF PipeSend
<1>2. CASE PipeClosed
  BY <1>2, PipeTypes DEF PipeClosed
<1>3. CASE SendOutput
  <2>1. P!PipeTypeOK'
    BY <1>3, PipeTypes DEF SendOutput, Return
  <2>2. Item \in Outputs
    BY <1>3 DEF SendOutput, P!PipeTypeOK, Item, Items, Outputs, NoItem, OutputKinds
  <2>3. sent' \in Seq(Outputs)
    <3>1. sent' \in {sent, Append(sent, Item)}
      BY <1>3 DEF SendOutput, Return
    <3>2. Append(sent, Item) \in Seq(Outputs)
      BY <2>2
    <3>3. QED
      BY <3>1, <3>2
  <2>4. QED
    BY <1>3, <2>1, <2>3 DEF SendOutput, Return
<1>4. CASE ReturnProgramError
  BY <1>4, PipeTypes DEF ReturnProgramError, Return
<1>5. CASE ServeEOE
  <2>1. P!PipeTypeOK'
    <3>1. P!BodyNext \/ P!BodyLeave \/ UNCHANGED pvars
      BY <1>5 DEF ServeEOE, Return
    <3>2. CASE UNCHANGED pvars
      BY <3>2 DEF P!PipeTypeOK
    <3>3. QED
      BY <3>1, <3>2, PipeTypes
  <2>2. QED
    BY <1>5, <2>1, ZenonT(30) DEF ServeEOE, Return
<1>6. CASE SendNil
  BY <1>6, PipeTypes DEF SendNil, Return
<1>7. CASE PipeDrained
  BY <1>7, PipeTypes DEF PipeDrained
<1>8. CASE ServerClose
  BY <1>8, PipeTypes DEF ServerClose
<1>9. CASE ClientGone
  BY <1>9, ZenonT(30) DEF ClientGone, P!PipeTypeOK
<1>10. QED
  BY <1>1, <1>2, <1>3, <1>4, <1>5, <1>6, <1>7, <1>8, <1>9 DEF PipeStep, ServerStep

\* They keep the control as well.
LEMMA ServerControl ==
    ASSUME TypeOK, Control, PipeStep \/ ServerStep \/ ClientGone
    PROVE  Control'
<1> USE DEF OutputKinds, pvars, request, history, server, world, ServerOnly
<1> USE DEF Control, PipeEnds, RunnerWaits, Delivery, ErrorOnItsWay, RunnerPlace, CleanedUp,
            OneJob, Returned, InHand, Item, InStatement, Executing
<1>0. rd \in [pc : P!ReaderPC, item : Items \cup {NoItem}]
  BY DEF TypeOK, P!PipeTypeOK
<1>1. CASE PipeSend
  <2> DEFINE item == wr["runner"].item
  <2>1. /\ rd.pc = "range" /\ ~Returned /\ Returned' /\ ~wrClosed
        /\ rd'.pc = "body" /\ rd'.item = item
        /\ UNCHANGED <<wrClosed, done>>
        /\ UNCHANGED <<request, run, world, server>>
    BY <1>1 DEF PipeSend, P!WriteSend, TypeOK, P!PipeTypeOK
  <2>2. item # NoItem /\ results = sent
    BY <2>1 DEF NoItem
  <2>3. CASE item.kind \in OutputKinds
    <3>1. results' = Append(results, item)
      BY <1>1, <2>3 DEF PipeSend
    <3>2. results = <<>> => Len(results') = 1
      BY <3>1
    <3>3. PipeEnds' /\ RunnerWaits' /\ Delivery' /\ CleanedUp'
      BY <2>1, <2>2, <2>3, <3>1
    <3>4. ErrorOnItsWay' /\ RunnerPlace'
      BY <2>1, <2>2, <2>3, <3>1
    <3>5. OneJob'
      BY <2>1, <2>3, <3>1, <3>2
    <3>6. QED
      BY <3>3, <3>4, <3>5
  <2>4. CASE item.kind \notin OutputKinds
    <3>1. UNCHANGED results
      BY <1>1, <2>4 DEF PipeSend
    <3>2. QED
      BY <2>1, <2>2, <2>4, <3>1
  <2>5. QED
    BY <2>3, <2>4
<1>2. CASE PipeClosed
  <2>1. /\ ~Returned /\ Returned' /\ done
        /\ UNCHANGED <<wrClosed, done, rd, request, run, world, history, server>>
    BY <1>2 DEF PipeClosed, P!WriteDone, TypeOK, P!PipeTypeOK
  <2>2. QED
    BY <2>1
<1>3. CASE SendOutput
  <2>1. CASE P!BodyNext /\ sent' = Append(sent, Item) /\ UNCHANGED status
    BY <1>0, <1>3, <2>1 DEF SendOutput, P!BodyNext
  <2>2. ASSUME NEW e \in {"sendError", "encodeError"}, Return(e)
        PROVE  Control'
    BY <1>0, <1>3, <2>2 DEF SendOutput, Return, P!BodyLeave
  <2>3. QED
    BY <1>3, <2>1, <2>2 DEF SendOutput
<1>4. CASE ReturnProgramError
  BY <1>0, <1>4 DEF ReturnProgramError, Return, P!BodyLeave
<1>5. CASE ServeEOE
  <2>1. CASE P!BodyNext /\ UNCHANGED <<sent, nilSend, status>>
    BY <1>0, <1>5, <2>1 DEF ServeEOE, P!BodyNext
  <2>2. CASE nilSend' = TRUE /\ UNCHANGED <<pvars, sent, status>>
    BY <1>5, <2>2 DEF ServeEOE
  <2>3. ASSUME NEW e \in {"parseError", "sendError"}, Return(e), UNCHANGED nilSend
        PROVE  Control'
    BY <1>0, <1>5, <2>3 DEF ServeEOE, Return, P!BodyLeave
  <2>4. QED
    BY <1>5, <2>1, <2>2, <2>3 DEF ServeEOE
<1>6. CASE SendNil
  BY <1>0, <1>6 DEF SendNil, Return, P!BodyLeave
<1>7. CASE PipeDrained
  BY <1>0, <1>7 DEF PipeDrained, P!ReadEnd
<1>8. CASE ServerClose
  BY <1>0, <1>8 DEF ServerClose, P!ReaderClose
<1>9. CASE ClientGone
  BY <1>9 DEF ClientGone
<1>10. QED
  BY <1>1, <1>2, <1>3, <1>4, <1>5, <1>6, <1>7, <1>8, <1>9 DEF PipeStep, ServerStep

-----------------------------------------------------------------------------
(* The work: what the statements leave behind. *)

Work == FailStop /\ Progress

\* Where the plan of a statement that leaves something behind makes its table
\* and where it completes its table or model.
LEMMA PlanWork ==
    ASSUME TypeOK, mode # "workflow", run.stmt \in 1 .. Len(prog),
           prog[run.stmt] \in Producing, run.phase >= 1
    PROVE  LET kind == prog[run.stmt]
               made == mode = "local" /\ kind \in WithTable
           IN /\ CompleteAt(kind) \in 1 .. Len(CurrentPlan)
              /\ made => MadeAt(kind) \in 1 .. CompleteAt(kind) - 1
              /\ run.phase <= Len(CurrentPlan) =>
                   LET phase == CurrentPlan[run.phase] IN
                     /\ phase = "table" <=> made /\ run.phase = MadeAt(kind)
                     /\ phase = "effect" => ~made /\ run.phase = CompleteAt(kind)
                     /\ phase = "program" =>
                          \/ (made \/ mode = "experimental") /\ run.phase = CompleteAt(kind)
                          \/ ~made /\ run.phase < CompleteAt(kind)
                     /\ phase \notin {"effect", "program"} => run.phase # CompleteAt(kind)
                     /\ phase \notin {"rows", "load", "run"}
<1> DEFINE kind == prog[run.stmt]
<1>0. run.phase \in Nat
  BY TypesUsed
<1>1. CASE mode = "experimental"
  <2>1. CurrentPlan = <<"call", "program">> /\ CompleteAt(kind) = 2
    BY <1>1 DEF CurrentPlan, ExperimentalPlan, CompleteAt
  <2>2. QED
    BY <1>0, <1>1, <2>1
<1>2. CASE mode = "local"
  <2> USE DEF CurrentPlan, Plan, CompleteAt, MadeAt, WithTable, Producing
  <2>1. CASE kind = "exec"
    <3>1. CurrentPlan = <<"effect", "string">>
      BY <1>2, <2>1
    <3>2. QED
      BY <1>0, <1>2, <2>1, <3>1
  <2>2. CASE kind = "train"
    <3>1. CurrentPlan = <<"call", "program", "effect">>
      BY <1>2, <2>2
    <3>2. QED
      BY <1>0, <1>2, <2>2, <3>1
  <2>3. CASE kind = "predict"
    <3>1. CurrentPlan = <<"table", "call", "program">>
      BY <1>2, <2>3
    <3>2. QED
      BY <1>0, <1>2, <2>3, <3>1
  <2>4. CASE kind = "evaluateInto"
    <3>1. CurrentPlan = <<"call", "table", "program">>
      BY <1>2, <2>4
    <3>2. QED
      BY <1>0, <1>2, <2>4, <3>1
  <2>5. CASE kind \in {"explainInto", "optimize"}
    <3>1. CurrentPlan = <<"call", "table", "call", "program">>
      BY <1>2, <2>5
    <3>2. CompleteAt(kind) = 4 /\ MadeAt(kind) = 2 /\ kind \in WithTable
      BY <1>2, <2>5
    <3> HIDE DEF CurrentPlan, Plan, CompleteAt, MadeAt, WithTable, Producing, kind
    <3>3. /\ Len(CurrentPlan) = 4 /\ CurrentPlan[1] = "call" /\ CurrentPlan[2] = "table"
          /\ CurrentPlan[3] = "call" /\ CurrentPlan[4] = "program"
      BY <3>1
    <3>4. run.phase <= 4 => run.phase \in {1, 2, 3, 4}
      BY <1>0
    <3>5. QED
      BY <1>2, <3>2, <3>3, <3>4 DEF kind
  <2>6. QED
    BY <2>1, <2>2, <2>3, <2>4, <2>5
<1>3. QED
  BY <1>1, <1>2 DEF TypeOK

\* A step that at most changes the target of the running statement keeps
\* FailStop.
LEMMA FailStopKept ==
    ASSUME TypeOK, FailStop, UNCHANGED <<prog, mode>>, run'.stmt = run.stmt,
           \A s \in DOMAIN prog : s # run.stmt => target'[s] = target[s]
    PROVE  FailStop'
BY DEF FailStop, TypeOK

\* A failing step stops the work of its statement.
LEMMA FailedProgress ==
    ASSUME NEW pc \in RunnerPC \ {"open", "parse", "stmt", "ir"}, NEW e \in Errors \ {"none"},
           Moved(pc, run.phase, e)
    PROVE  Progress'
BY DEF Progress, Moved

\* A phase that is done, and that neither makes nor completes the target.
LEMMA NextPhaseProgress ==
    ASSUME TypeOK, Control, Progress, UNCHANGED <<prog, mode, target>>,
           run.pc = "exec", NEW pc \in Executing, Moved(pc, run.phase + 1, run.err),
           run.phase <= Len(CurrentPlan),
           CurrentPlan[run.phase] \notin {"table", "effect", "program"}
    PROVE  Progress'
<1> DEFINE kind == prog[run.stmt]
           filling == mode = "local" /\ kind \in WithTable
<1>0. pc \notin {"open", "parse", "stmt", "ir", "flush", "settle", "cleanup", "eoe"}
  BY DEF Executing
<1>1. CASE kind \in Producing
  <2>1. /\ mode # "workflow" /\ run.stmt \in 1 .. Len(prog) /\ run.phase >= 1
        /\ run.phase \in Nat
    BY TypesUsed DEF Control, RunnerPlace, InStatement, Executing, TypeOK
  <2>2. /\ CompleteAt(kind) \in Nat /\ run.phase # CompleteAt(kind)
        /\ filling => run.phase # MadeAt(kind) /\ MadeAt(kind) \in Nat
    BY <1>1, <2>1, PlanWork
  <2>3. /\ UNCHANGED CompleteAt(kind)
        /\ prog'[run'.stmt] = kind /\ target'[run'.stmt] = target[run.stmt]
    BY DEF Moved, CompleteAt
  <2>4. QED
    BY <1>0, <1>1, <2>1, <2>2, <2>3 DEF Progress, Moved, Executing, CompleteAt, MadeAt
<1>2. CASE kind \notin Producing
  BY <1>0, <1>2 DEF Progress, Moved
<1>3. QED
  BY <1>1, <1>2

\* The runner keeps the work: the statements before this one are complete, the
\* ones after it untouched, and this one is as far as its phase says.
LEMMA RunnerWork ==
    ASSUME TypeOK, Control, Work, RunnerStep
    PROVE  Work'
<1> USE TypesUsed DEF RunnerPC, Errors, OffPipe, request, world
<1> DEFINE kind == prog[run.stmt]
<1>0. run.stmt \in 1 .. Len(prog) + 1 /\ run.phase >= 1 /\ Len(prog) \in Nat
  BY DEF Control, RunnerPlace, TypeOK
<1>b. CASE TablePhase \/ EffectPhase \/ ChildExit
  <2>1. /\ run.pc = "exec" /\ run.err = "none" /\ run.phase <= Len(CurrentPlan)
        /\ CurrentPlan[run.phase] \in {"table", "effect", "program", "run"}
        /\ mode # "workflow" /\ run.stmt \in 1 .. Len(prog)
        /\ UNCHANGED <<prog, mode>>
    BY <1>0, <1>b
    DEF TablePhase, EffectPhase, ChildExit, InPhase, Control, RunnerPlace, ErrorOnItsWay,
        InStatement, Executing
  <2>2. /\ \E pc \in {"exec", "cleanup", "flush"}, phase \in Nat, e \in Errors :
             Moved(pc, phase, e)
        /\ \A s \in DOMAIN prog : s # run.stmt => target'[s] = target[s]
    <3>1. TablePhase => Moved("exec", run.phase + 1, run.err) \/ Moved("cleanup", run.phase, "exec")
      BY NextPhaseMoves, FailToMoves DEF TablePhase
    <3>2. EffectPhase => Moved("exec", run.phase + 1, run.err) \/ Moved("cleanup", run.phase, "exec")
      BY NextPhaseMoves, FailToMoves DEF EffectPhase
    <3>3. ChildExit => Moved("flush", run.phase, run.err) \/ Moved("flush", run.phase, "exec")
      BY GotoMoves, FailToMoves DEF ChildExit
    <3>4. \A s \in DOMAIN prog : s # run.stmt => target'[s] = target[s]
      BY <1>b DEF TablePhase, EffectPhase, ChildExit, TypeOK
    <3>5. QED
      BY <1>b, <3>1, <3>2, <3>3, <3>4
  <2>3. FailStop'
    BY <2>1, <2>2, FailStopKept DEF Work, Moved
  <2>4. CASE kind \notin Producing \/ run'.err # "none"
    <3>1. Progress'
      BY <2>1, <2>2, <2>4 DEF Moved, Progress
    <3>2. QED
      BY <2>3, <3>1 DEF Work
  <2>5. CASE kind \in Producing /\ run'.err = "none"
    <3>0. run.stmt \in DOMAIN target /\ prog'[run.stmt] = kind
      BY <2>1 DEF TypeOK
    <3>1. CASE TablePhase
      <4>1. Moved("exec", run.phase + 1, run.err) /\ target'[run.stmt] = "partial"
        BY <2>5, <3>0, <3>1, NextPhaseMoves, FailToMoves DEF TablePhase, Moved
      <4>2. CompleteAt(kind) \in Nat /\ run.phase + 1 <= CompleteAt(kind)
        BY <1>0, <2>1, <2>5, <3>1, PlanWork DEF TablePhase, InPhase, CompleteAt
      <4>3. Progress'
        BY <2>1, <2>5, <3>0, <4>1, <4>2 DEF Moved, Progress, Executing, CompleteAt
      <4>4. QED
        BY <2>3, <4>3 DEF Work
    <3>2. CASE EffectPhase
      <4>1. Moved("exec", run.phase + 1, run.err) /\ target'[run.stmt] = "full"
        BY <2>5, <3>0, <3>2, NextPhaseMoves, FailToMoves DEF EffectPhase, Moved
      <4>2. ~(mode = "local" /\ kind \in WithTable)
        BY <1>0, <2>1, <2>5, <3>2, PlanWork DEF EffectPhase, InPhase
      <4>3. Progress'
        BY <2>1, <2>5, <3>0, <4>1, <4>2 DEF Moved, Progress, Executing
      <4>4. QED
        BY <2>3, <4>3 DEF Work
    <3>3. CASE ChildExit
      <4>1. /\ Moved("flush", run.phase, run.err)
            /\ target'[run.stmt] = IF Fills THEN "full" ELSE target[run.stmt]
        BY <2>5, <3>0, <3>3, GotoMoves, FailToMoves DEF ChildExit, Moved
      <4>2. /\ CurrentPlan[run.phase] = "program" /\ CompleteAt(kind) \in Nat
            /\ mode = "local" /\ kind \in WithTable =>
                 run.phase = CompleteAt(kind) /\ run.phase > MadeAt(kind)
            /\ mode # "experimental" /\ ~(mode = "local" /\ kind \in WithTable) =>
                 run.phase < CompleteAt(kind)
        BY <1>0, <2>1, <2>5, <3>3, PlanWork DEF ChildExit, InPhase, CompleteAt
      <4>3. mode = "local" /\ kind \in WithTable => target[run.stmt] = "partial"
        BY <2>1, <2>5, <4>2 DEF Work, Progress, Executing, MadeAt
      <4>4. run.phase >= CompleteAt(kind) => target'[run.stmt] = "full"
        BY <2>1, <4>1, <4>2, <4>3 DEF Fills, TypeOK
      <4>5. Progress'
        BY <2>1, <2>5, <3>0, <4>1, <4>2, <4>4 DEF Moved, Progress, Executing, CompleteAt
      <4>6. QED
        BY <2>3, <4>5 DEF Work
    <3>4. QED
      BY <1>b, <3>1, <3>2, <3>3
  <2>6. QED
    BY <2>4, <2>5
<1>c. CASE StatementDone
  <2>1. /\ run' \in RunType /\ run'.pc = "stmt" /\ run'.stmt = run.stmt + 1
        /\ run'.phase = 1 /\ run'.err = run.err
        /\ run.pc = "eoe" /\ run.err = "none" /\ UNCHANGED <<prog, mode, target>>
    BY <1>c, StatementMoves DEF StatementDone
  <2>2. run.stmt \in DOMAIN prog /\ (kind \in Producing => target[run.stmt] = "full")
    BY <1>0, <2>1 DEF Work, Progress, Control, RunnerPlace, TypeOK
  <2>3. FailStop'
    BY <1>0, <2>1, <2>2 DEF Work, FailStop, TypeOK
  <2>4. Progress'
    BY <2>1 DEF Progress, Executing
  <2>5. QED
    BY <2>3, <2>4 DEF Work
<1>a. CASE UNCHANGED <<prog, mode, target>> /\ run'.stmt = run.stmt
  <2>0. FailStop'
    BY <1>a, FailStopKept DEF Work
  <2>1. CASE OpenDB
    <3>1. \/ Moved("parse", run.phase, run.err)
          \/ Moved("report", run.phase, "open")
      BY <2>1, GotoMoves, FailToMoves, NextPhaseMoves, CountMoves DEF OpenDB
    <3>2. Progress'
      BY <1>0, <1>a, <2>1, <3>1
      DEF OpenDB, Moved, Work, Progress, Executing, InPhase, CompleteAt,
          MadeAt, Control, ErrorOnItsWay, RunnerPlace
    <3>3. QED
      BY <2>0, <3>2 DEF Work
  <2>2. CASE ParseProgram
    <3>1. \/ Moved("stmt", run.phase, run.err)
          \/ Moved("report", run.phase, "parse")
      BY <2>2, GotoMoves, FailToMoves, NextPhaseMoves, CountMoves DEF ParseProgram
    <3>2. Progress'
      BY <1>0, <1>a, <2>2, <3>1
      DEF ParseProgram, Moved, Work, Progress, Executing, InPhase, CompleteAt,
          MadeAt, Control, ErrorOnItsWay, RunnerPlace
    <3>3. QED
      BY <2>0, <3>2 DEF Work
  <2>3. CASE StartStatement
    <3>1. \/ Moved("ir", run.phase, run.err)
          \/ Moved("eoe", run.phase, "tempdir")
      BY <2>3, GotoMoves, FailToMoves, NextPhaseMoves, CountMoves DEF StartStatement
    <3>2. Progress'
      BY <1>0, <1>a, <2>3, <3>1
      DEF StartStatement, Moved, Work, Progress, Executing, InPhase, CompleteAt,
          MadeAt, Control, ErrorOnItsWay, RunnerPlace
    <3>3. QED
      BY <2>0, <3>2 DEF Work
  <2>4. CASE GenerateIR
    <3>1. \/ Moved("exec", run.phase, run.err)
          \/ Moved("cleanup", run.phase, "ir")
      BY <2>4, GotoMoves, FailToMoves, NextPhaseMoves, CountMoves DEF GenerateIR
    <3>2. Progress'
      BY <1>0, <1>a, <2>4, <3>1
      DEF GenerateIR, Moved, Work, Progress, Executing, InPhase, CompleteAt,
          MadeAt, Control, ErrorOnItsWay, RunnerPlace
    <3>3. QED
      BY <2>0, <3>2 DEF Work
  <2>5. CASE RemoveCwd
    <3>1. \/ Moved("eoe", run.phase, run.err)
          \/ Moved("eoe", run.phase, "removeall")
      BY <2>5, GotoMoves, FailToMoves, NextPhaseMoves, CountMoves DEF RemoveCwd
    <3>2. Progress'
      BY <1>0, <1>a, <2>5, <3>1
      DEF RemoveCwd, Moved, Work, Progress, Executing, InPhase, CompleteAt,
          MadeAt, Control, ErrorOnItsWay, RunnerPlace
    <3>3. QED
      BY <2>0, <3>2 DEF Work
  <2>6. CASE WriteEOE
    <3>1. Moved("report", run.phase, run.err)
      BY <2>6, GotoMoves, FailToMoves, NextPhaseMoves, CountMoves DEF WriteEOE
    <3>2. Progress'
      BY <1>0, <1>a, <2>6, <3>1
      DEF WriteEOE, Moved, Work, Progress, Executing, InPhase, CompleteAt,
          MadeAt, Control, ErrorOnItsWay, RunnerPlace
    <3>3. QED
      BY <2>0, <3>2 DEF Work
  <2>7. CASE ProgramDone
    <3>1. Moved("close", run.phase, run.err)
      BY <2>7, GotoMoves, FailToMoves, NextPhaseMoves, CountMoves DEF ProgramDone
    <3>2. Progress'
      BY <1>0, <1>a, <2>7, <3>1
      DEF ProgramDone, Moved, Work, Progress, Executing, InPhase, CompleteAt,
          MadeAt, Control, ErrorOnItsWay, RunnerPlace
    <3>3. QED
      BY <2>0, <3>2 DEF Work
  <2>8. CASE WriteError
    <3>1. Moved("close", run.phase, run.err)
      BY <2>8, GotoMoves, FailToMoves, NextPhaseMoves, CountMoves DEF WriteError
    <3>2. Progress'
      BY <1>0, <1>a, <2>8, <3>1
      DEF WriteError, Moved, Work, Progress, Executing, InPhase, CompleteAt,
          MadeAt, Control, ErrorOnItsWay, RunnerPlace
    <3>3. QED
      BY <2>0, <3>2 DEF Work
  <2>9. CASE RunnerClose
    <3>1. Moved("ended", run.phase, run.err)
      BY <2>9, GotoMoves, FailToMoves, NextPhaseMoves, CountMoves DEF RunnerClose
    <3>2. Progress'
      BY <1>0, <1>a, <2>9, <3>1
      DEF RunnerClose, Moved, Work, Progress, Executing, InPhase, CompleteAt,
          MadeAt, Control, ErrorOnItsWay, RunnerPlace
    <3>3. QED
      BY <2>0, <3>2 DEF Work
  <2>10. CASE Compile
    <3>1. \/ Moved("submit", run.phase, run.err)
          \/ Moved("report", run.phase, "compile")
      BY <2>10, GotoMoves, FailToMoves, NextPhaseMoves, CountMoves DEF Compile
    <3>2. Progress'
      BY <1>0, <1>a, <2>10, <3>1
      DEF Compile, Moved, Work, Progress, Executing, InPhase, CompleteAt,
          MadeAt, Control, ErrorOnItsWay, RunnerPlace
    <3>3. QED
      BY <2>0, <3>2 DEF Work
  <2>11. CASE Submit
    <3>1. \/ Moved("job", run.phase, run.err)
          \/ Moved("report", run.phase, "submit")
      BY <2>11, GotoMoves, FailToMoves, NextPhaseMoves, CountMoves DEF Submit
    <3>2. Progress'
      BY <1>0, <1>a, <2>11, <3>1
      DEF Submit, Moved, Work, Progress, Executing, InPhase, CompleteAt,
          MadeAt, Control, ErrorOnItsWay, RunnerPlace
    <3>3. QED
      BY <2>0, <3>2 DEF Work
  <2>12. CASE WriteJob
    <3>1. Moved("close", run.phase, run.err)
      BY <2>12, GotoMoves, FailToMoves, NextPhaseMoves, CountMoves DEF WriteJob
    <3>2. Progress'
      BY <1>0, <1>a, <2>12, <3>1
      DEF WriteJob, Moved, Work, Progress, Executing, InPhase, CompleteAt,
          MadeAt, Control, ErrorOnItsWay, RunnerPlace
    <3>3. QED
      BY <2>0, <3>2 DEF Work
  <2>13. CASE CallPhase
    <3>1. \/ Moved("exec", run.phase + 1, run.err)
          \/ Moved("cleanup", run.phase, "exec")
      BY <2>13, GotoMoves, FailToMoves, NextPhaseMoves, CountMoves DEF CallPhase
    <3>2. /\ run.pc = "exec" /\ run.phase <= Len(CurrentPlan)
          /\ CurrentPlan[run.phase] \notin {"table", "effect", "program"}
      BY <2>13 DEF CallPhase, InPhase
    <3>3. Progress'
      BY <1>a, <3>1, <3>2, NextPhaseProgress, FailedProgress DEF Work, Executing
    <3>4. QED
      BY <2>0, <3>3 DEF Work
  <2>14. CASE WritePhase
    <3>1. Moved("checked", run.phase + 1, run.err)
      BY <2>14, GotoMoves, FailToMoves, NextPhaseMoves, CountMoves DEF WritePhase
    <3>2. /\ run.pc = "exec" /\ run.phase <= Len(CurrentPlan)
          /\ CurrentPlan[run.phase] \notin {"table", "effect", "program"}
      BY <2>14 DEF WritePhase, InPhase
    <3>3. Progress'
      BY <1>a, <3>1, <3>2, NextPhaseProgress, FailedProgress DEF Work, Executing
    <3>4. QED
      BY <2>0, <3>3 DEF Work
  <2>15. CASE UncheckedWritePhase
    <3>1. Moved("unchecked", run.phase + 1, run.err)
      BY <2>15, GotoMoves, FailToMoves, NextPhaseMoves, CountMoves DEF UncheckedWritePhase
    <3>2. /\ run.pc = "exec" /\ run.phase <= Len(CurrentPlan)
          /\ CurrentPlan[run.phase] \notin {"table", "effect", "program"}
      BY <2>15 DEF UncheckedWritePhase, InPhase
    <3>3. Progress'
      BY <1>a, <3>1, <3>2, NextPhaseProgress, FailedProgress DEF Work, Executing
    <3>4. QED
      BY <2>0, <3>3 DEF Work
  <2>16. CASE RowsPhase
    <3>1. \/ Moved("checked", run.phase, run.err)
          \/ Moved("exec", run.phase + 1, run.err)
          \/ Moved("cleanup", run.phase, "exec")
      BY <2>16, GotoMoves, FailToMoves, NextPhaseMoves, CountMoves DEF RowsPhase
    <3>2. /\ run.pc = "exec" /\ run.phase <= Len(CurrentPlan)
          /\ CurrentPlan[run.phase] \notin {"table", "effect", "program"}
      BY <2>16 DEF RowsPhase, InPhase
    <3>3. Progress'
      <4>1. CASE Moved("checked", run.phase, run.err)
        BY <1>a, <3>2, <4>1 DEF Moved, Work, Progress, Executing, CompleteAt, MadeAt
      <4>2. QED
        BY <1>a, <3>1, <3>2, <4>1, NextPhaseProgress, FailedProgress DEF Work, Executing
    <3>4. QED
      BY <2>0, <3>3 DEF Work
  <2>17. CASE LoadPhase
    <3>1. \/ Moved("exec", run.phase + 1, run.err)
          \/ Moved("settle", run.phase, "exec")
      BY <2>17, GotoMoves, FailToMoves, NextPhaseMoves, CountMoves DEF LoadPhase
    <3>2. /\ run.pc = "exec" /\ run.phase <= Len(CurrentPlan)
          /\ CurrentPlan[run.phase] \notin {"table", "effect", "program"}
      BY <2>17 DEF LoadPhase, InPhase
    <3>3. Progress'
      BY <1>a, <3>1, <3>2, NextPhaseProgress, FailedProgress DEF Work, Executing
    <3>4. QED
      BY <2>0, <3>3 DEF Work
  <2>18. CASE WriteReturned
    <3>1. \/ Moved("exec", run.phase, run.err)
          \/ Moved("cleanup", run.phase, "pipe")
      BY <2>18, GotoMoves, FailToMoves, NextPhaseMoves, CountMoves DEF WriteReturned
    <3>2. Progress'
      BY <1>0, <1>a, <2>18, <3>1
      DEF WriteReturned, Moved, Work, Progress, Executing, InPhase, CompleteAt,
          MadeAt, Control, ErrorOnItsWay, RunnerPlace
    <3>3. QED
      BY <2>0, <3>2 DEF Work
  <2>19. CASE ChildLine
    <3>1. Moved("line", run.phase, run.err)
      BY <2>19, GotoMoves, FailToMoves, NextPhaseMoves, CountMoves DEF ChildLine
    <3>2. Progress'
      BY <1>0, <1>a, <2>19, <3>1
      DEF ChildLine, Moved, Work, Progress, Executing, InPhase, CompleteAt,
          MadeAt, Control, ErrorOnItsWay, RunnerPlace
    <3>3. QED
      BY <2>0, <3>2 DEF Work
  <2>20. CASE LineReturned
    <3>1. \/ Moved("exec", run.phase, run.err)
          \/ Moved("flush", run.phase, "pipe")
      BY <2>20, GotoMoves, FailToMoves, NextPhaseMoves, CountMoves DEF LineReturned
    <3>2. Progress'
      BY <1>0, <1>a, <2>20, <3>1
      DEF LineReturned, Moved, Work, Progress, Executing, InPhase, CompleteAt,
          MadeAt, Control, ErrorOnItsWay, RunnerPlace
    <3>3. QED
      BY <2>0, <3>2 DEF Work
  <2>21. CASE FlushPartialLine
    <3>1. Moved("settle", run.phase, run.err)
      BY <2>21, GotoMoves, FailToMoves, NextPhaseMoves, CountMoves DEF FlushPartialLine
    <3>2. Progress'
      BY <1>0, <1>a, <2>21, <3>1
      DEF FlushPartialLine, Moved, Work, Progress, Executing, InPhase, CompleteAt,
          MadeAt, Control, ErrorOnItsWay, RunnerPlace
    <3>3. QED
      BY <2>0, <3>2 DEF Work
  <2>22. CASE ChildSettled
    <3>1. \/ Moved("exec", run.phase + 1, run.err) /\ run.err = "none"
          \/ Moved("failed", run.phase, run.err) /\ run.err # "none"
      BY <2>22, GotoMoves, FailToMoves, NextPhaseMoves, CountMoves DEF ChildSettled
    <3>2. CASE Moved("exec", run.phase + 1, run.err) /\ run.err = "none"
      <4>1. CASE kind \notin Producing
        BY <1>a, <2>0, <3>2, <4>1 DEF Moved, Progress, Work
      <4>2. CASE kind \in Producing
        <5>1. mode # "workflow" /\ run.stmt \in 1 .. Len(prog) /\ run.pc = "settle"
          BY <1>0, <2>22 DEF ChildSettled, Control, RunnerPlace, InStatement
        <5>2. /\ CompleteAt(kind) \in Nat
              /\ mode = "local" /\ kind \in WithTable => MadeAt(kind) < CompleteAt(kind)
          BY <1>0, <4>2, <5>1, PlanWork DEF CompleteAt
        <5>3. prog'[run'.stmt] = kind /\ target'[run'.stmt] = target[run.stmt]
          BY <1>a
        <5>4. Progress'
          BY <1>0, <1>a, <3>2, <4>2, <5>1, <5>2, <5>3
          DEF Moved, Work, Progress, Executing, CompleteAt, MadeAt
        <5>5. QED
          BY <2>0, <5>4 DEF Work
      <4>3. QED
        BY <4>1, <4>2
    <3>3. CASE Moved("failed", run.phase, run.err) /\ run.err # "none"
      BY <2>0, <3>3, FailedProgress DEF Work
    <3>4. QED
      BY <2>0, <3>1, <3>2, <3>3 DEF Work
  <2>23. CASE ExecFailed
    <3>1. Moved("cleanup", run.phase, run.err)
      BY <2>23, GotoMoves, FailToMoves, NextPhaseMoves, CountMoves DEF ExecFailed
    <3>2. Progress'
      BY <1>0, <1>a, <2>23, <3>1
      DEF ExecFailed, Moved, Work, Progress, Executing, InPhase, CompleteAt,
          MadeAt, Control, ErrorOnItsWay, RunnerPlace
    <3>3. QED
      BY <2>0, <3>2 DEF Work
  <2>24. CASE ExecDone
    <3>1. Moved("cleanup", run.phase, run.err)
      BY <2>24, GotoMoves, FailToMoves, NextPhaseMoves, CountMoves DEF ExecDone
    <3>2. CASE kind \notin Producing
      BY <1>a, <3>1, <3>2, <2>0 DEF Moved, Progress, Work
    <3>3. CASE kind \in Producing
      <4>1. mode # "workflow" /\ run.stmt \in 1 .. Len(prog) /\ run.pc = "exec"
        BY <1>0, <2>24 DEF ExecDone, Control, RunnerPlace, InStatement, Executing
      <4>2. CompleteAt(kind) \in Nat /\ run.phase > CompleteAt(kind)
        BY <1>0, <2>24, <3>3, <4>1, PlanWork DEF ExecDone
      <4>3. run.err = "none" => target[run.stmt] = "full"
        BY <3>3, <4>1, <4>2 DEF Work, Progress, Executing
      <4>4. Progress'
        BY <1>a, <3>1, <4>3 DEF Moved, Progress, Executing
      <4>5. QED
        BY <2>0, <4>4 DEF Work
    <3>4. QED
      BY <3>2, <3>3
  <2>25. CASE TablePhase \/ EffectPhase \/ ChildExit \/ StatementDone
    BY <2>25, <1>b, <1>c
  <2>26. QED
    BY <2>1, <2>2, <2>3, <2>4, <2>5, <2>6, <2>7, <2>8, <2>9, <2>10, <2>11, <2>12, <2>13, <2>14,
       <2>15, <2>16, <2>17, <2>18, <2>19, <2>20, <2>21, <2>22, <2>23, <2>24, <2>25 DEF RunnerStep
<1>d. RunnerStep =>
        \/ UNCHANGED <<prog, mode, target>> /\ run'.stmt = run.stmt
        \/ TablePhase \/ EffectPhase \/ ChildExit \/ StatementDone
  <2> USE GotoMoves, FailToMoves, NextPhaseMoves, CountMoves DEF Moved, WriteItem
  <2>1. OpenDB => UNCHANGED <<prog, mode, target>> /\ run'.stmt = run.stmt
    BY DEF OpenDB
  <2>2. ParseProgram => UNCHANGED <<prog, mode, target>> /\ run'.stmt = run.stmt
    BY DEF ParseProgram
  <2>3. StartStatement => UNCHANGED <<prog, mode, target>> /\ run'.stmt = run.stmt
    BY DEF StartStatement
  <2>4. GenerateIR => UNCHANGED <<prog, mode, target>> /\ run'.stmt = run.stmt
    BY DEF GenerateIR
  <2>5. RemoveCwd => UNCHANGED <<prog, mode, target>> /\ run'.stmt = run.stmt
    BY DEF RemoveCwd
  <2>6. WriteEOE => UNCHANGED <<prog, mode, target>> /\ run'.stmt = run.stmt
    BY DEF WriteEOE
  <2>7. ProgramDone => UNCHANGED <<prog, mode, target>> /\ run'.stmt = run.stmt
    BY DEF ProgramDone
  <2>8. WriteError => UNCHANGED <<prog, mode, target>> /\ run'.stmt = run.stmt
    BY DEF WriteError
  <2>9. RunnerClose => UNCHANGED <<prog, mode, target>> /\ run'.stmt = run.stmt
    BY DEF RunnerClose
  <2>10. Compile => UNCHANGED <<prog, mode, target>> /\ run'.stmt = run.stmt
    BY DEF Compile
  <2>11. Submit => UNCHANGED <<prog, mode, target>> /\ run'.stmt = run.stmt
    BY DEF Submit
  <2>12. WriteJob => UNCHANGED <<prog, mode, target>> /\ run'.stmt = run.stmt
    BY DEF WriteJob
  <2>13. CallPhase => UNCHANGED <<prog, mode, target>> /\ run'.stmt = run.stmt
    BY DEF CallPhase
  <2>14. WritePhase => UNCHANGED <<prog, mode, target>> /\ run'.stmt = run.stmt
    BY DEF WritePhase
  <2>15. UncheckedWritePhase => UNCHANGED <<prog, mode, target>> /\ run'.stmt = run.stmt
    BY DEF UncheckedWritePhase
  <2>16. RowsPhase => UNCHANGED <<prog, mode, target>> /\ run'.stmt = run.stmt
    BY DEF RowsPhase
  <2>17. LoadPhase => UNCHANGED <<prog, mode, target>> /\ run'.stmt = run.stmt
    BY DEF LoadPhase
  <2>18. WriteReturned => UNCHANGED <<prog, mode, target>> /\ run'.stmt = run.stmt
    BY DEF WriteReturned
  <2>19. ChildLine => UNCHANGED <<prog, mode, target>> /\ run'.stmt = run.stmt
    BY DEF ChildLine
  <2>20. LineReturned => UNCHANGED <<prog, mode, target>> /\ run'.stmt = run.stmt
    BY DEF LineReturned
  <2>21. FlushPartialLine => UNCHANGED <<prog, mode, target>> /\ run'.stmt = run.stmt
    BY DEF FlushPartialLine
  <2>22. ChildSettled => UNCHANGED <<prog, mode, target>> /\ run'.stmt = run.stmt
    BY DEF ChildSettled
  <2>23. ExecFailed => UNCHANGED <<prog, mode, target>> /\ run'.stmt = run.stmt
    BY DEF ExecFailed
  <2>24. ExecDone => UNCHANGED <<prog, mode, target>> /\ run'.stmt = run.stmt
    BY DEF ExecDone
  <2>25. QED
    BY <2>1, <2>2, <2>3, <2>4, <2>5, <2>6, <2>7, <2>8, <2>9, <2>10, <2>11, <2>12, <2>13, <2>14,
       <2>15, <2>16, <2>17, <2>18, <2>19, <2>20, <2>21, <2>22, <2>23, <2>24 DEF RunnerStep
<1>e. QED
  BY <1>a, <1>b, <1>c, <1>d

-----------------------------------------------------------------------------
(* The invariant and what follows from it. *)

\* A step of the pipe, of the handler or of the client changes nothing of the
\* work.
LEMMA ServerWork ==
    ASSUME Work, PipeStep \/ ServerStep \/ ClientGone
    PROVE  Work'
<1>1. UNCHANGED <<prog, mode, run, target>>
  BY DEF PipeStep, PipeSend, PipeClosed, ServerStep, SendOutput, ReturnProgramError, ServeEOE,
         SendNil, PipeDrained, ServerClose, ClientGone, ServerOnly, request, world
<1>2. QED
  BY <1>1 DEF Work, FailStop, Progress, CompleteAt, MadeAt

\* A step that changes none of the variables keeps everything.
LEMMA StutterSession ==
    ASSUME TypeOK, Control, Work, UNCHANGED vars
    PROVE  (TypeOK /\ Control /\ Work)'
<1> USE DEF vars, pvars, request, world, history, server
<1>1. TypeOK'
  BY DEF TypeOK, P!PipeTypeOK
<1>2. Control'
  BY DEF Control, PipeEnds, RunnerWaits, Delivery, ErrorOnItsWay, RunnerPlace, CleanedUp,
         OneJob, Returned, InHand, Item
<1>3. Work'
  BY DEF Work, FailStop, Progress, CompleteAt, MadeAt
<1>4. QED
  BY <1>1, <1>2, <1>3

\* The program is at most one output ahead because what is not sent yet is
\* the one output in hand.
LEMMA OneAhead ==
    ASSUME TypeOK, Control
    PROVE  OneOutputAhead
<1>1. sent \in Seq(Outputs) /\ results \in Seq(Outputs)
  BY DEF TypeOK
<1>2. results = sent \/ results = Append(sent, Item)
  BY DEF Control, Delivery
<1>3. QED
  BY <1>1, <1>2 DEF OneOutputAhead

\* The invariant is the three parts proved above.
LEMMA SessionParts == SessionInv <=> TypeOK /\ Control /\ Work
BY OneAhead DEF SessionInv, Control, Work

\* A call starts in the invariant.
LEMMA SessionStart ==
    ASSUME Init
    PROVE  TypeOK /\ Control /\ Work
<1>1. TypeOK
  <2>1. prog \in Seq(StatementKinds)
    BY ProgramsAssumption DEF Init
  <2>2. P!PipeTypeOK
    BY DEF Init, P!PipeInit, P!PipeTypeOK, P!WriterPC, P!ReaderPC
  <2>3. run \in [pc : RunnerPC, stmt : Nat, phase : Nat, cnt : Nat, err : Errors]
    BY DEF Init, RunnerPC, Errors
  <2>4. target \in [DOMAIN prog -> {"old", "dropped", "partial", "full"}]
    BY DEF Init
  <2>5. results \in Seq(Outputs) /\ sent \in Seq(Outputs)
    BY DEF Init
  <2>6. QED
    BY <2>1, <2>2, <2>3, <2>4, <2>5 DEF Init, TypeOK, Statuses
<1>2. Control
  <2>1. Len(prog) \in Nat
    BY <1>1 DEF TypeOK
  <2>2. QED
    BY <2>1
    DEF Init, P!PipeInit, Control, PipeEnds, RunnerWaits, Delivery, ErrorOnItsWay, RunnerPlace,
        CleanedUp, OneJob, Returned, InHand, Item, InStatement, Executing, NoItem
<1>3. Work
  BY <1>1 DEF Init, Work, FailStop, Progress, Executing, TypeOK
<1>4. QED
  BY <1>1, <1>2, <1>3

\* Every step keeps the invariant.
LEMMA SessionStep ==
    ASSUME TypeOK, Control, Work, [Next]_vars
    PROVE  (TypeOK /\ Control /\ Work)'
<1>1. CASE RunnerStep
  BY <1>1, RunnerControl, RunnerWork
<1>2. CASE PipeStep \/ ServerStep \/ ClientGone
  BY <1>2, ServerTypes, ServerControl, ServerWork DEF Control
<1>3. CASE UNCHANGED vars
  BY <1>3, StutterSession
<1>4. QED
  BY <1>1, <1>2, <1>3 DEF Next

\* Whatever fails and whenever the client goes away: runSQLProgram stops at the
\* first failing statement, the statements before it are complete and those
\* after it untouched, the handler is at most one output behind, and the
\* goroutine leaves nothing behind.
THEOREM SessionInvariant == Spec => []SessionInv
<1>1. Init => TypeOK /\ Control /\ Work
  BY SessionStart
<1>2. (TypeOK /\ Control /\ Work) /\ [Next]_vars => (TypeOK /\ Control /\ Work)'
  BY SessionStep
<1>3. TypeOK /\ Control /\ Work => SessionInv
  BY SessionParts
<1>4. QED
  BY <1>1, <1>2, <1>3, PTL DEF Spec

\* Server.Run returns nil only when everything was done and sent.
THEOREM SessionOk == Spec => []OkMeansComplete
<1>1. SessionInv => OkMeansComplete
  <2> SUFFICES ASSUME SessionInv, status = "OK"
               PROVE  /\ run.pc = "ended" /\ run.err = "none" /\ sent = results
                      /\ mode = "workflow" => submitted /\ Len(sent) = 1
                      /\ mode # "workflow" =>
                           /\ run.stmt = Len(prog) + 1
                           /\ \A s \in DOMAIN prog : prog[s] \in Producing => target[s] = "full"
    BY DEF OkMeansComplete
  <2>1. TypeOK /\ Control /\ FailStop
    BY DEF SessionInv, Control
  <2>2. run.pc = "ended" /\ Returned /\ rd.pc # "body"
    BY <2>1 DEF Control, PipeEnds
  <2>3. run.err = "none"
    BY <2>1, <2>2 DEF Control, ErrorOnItsWay
  <2>4. sent = results
    BY <2>1 DEF Control, Delivery, InHand
  <2>5. mode = "workflow" => submitted /\ Len(sent) = 1
    BY <2>1, <2>2, <2>3, <2>4 DEF Control, OneJob
  <2>6. mode # "workflow" => run.stmt = Len(prog) + 1
    BY <2>1, <2>2, <2>3 DEF Control, RunnerPlace
  <2>7. mode # "workflow" =>
          \A s \in DOMAIN prog : prog[s] \in Producing => target[s] = "full"
    BY <2>1, <2>6 DEF FailStop, TypeOK
  <2>8. QED
    BY <2>2, <2>3, <2>4, <2>5, <2>6, <2>7
<1>2. QED
  BY <1>1, SessionInvariant, PTL

-----------------------------------------------------------------------------
(* The abstract stream of results. *)

\* A runner step is a step of the stream only in that the program may fail or
\* its goroutine end.
LEMMA RunnerStreams ==
    ASSUME TypeOK, Control, RunnerStep
    PROVE  /\ UNCHANGED <<results, sent, status>>
           /\ run.err # "none" => run'.err # "none"
           /\ wrClosed' \in BOOLEAN /\ ~wrClosed
<1> USE TypesUsed, GotoMoves, FailToMoves, NextPhaseMoves, CountMoves, StatementMoves
    DEF RunnerPC, Errors, OffPipe, pvars, history, server, Moved
<1>1. ~wrClosed
  <2>1. run.pc # "ended"
    BY DEF RunnerStep, OpenDB, ParseProgram, StartStatement, GenerateIR, RemoveCwd, WriteEOE,
       StatementDone, ProgramDone, WriteError, RunnerClose, Compile, Submit, WriteJob, CallPhase,
       TablePhase, EffectPhase, WritePhase, UncheckedWritePhase, RowsPhase, LoadPhase,
       WriteReturned, ChildLine, LineReturned, ChildExit, FlushPartialLine, ChildSettled,
       ExecFailed, ExecDone, InPhase
  <2>2. QED
    BY <2>1 DEF Control, PipeEnds
<1>2. UNCHANGED <<results, sent, status>>
  BY DEF RunnerStep, OpenDB, ParseProgram, StartStatement, GenerateIR, RemoveCwd, WriteEOE,
     StatementDone, ProgramDone, WriteError, RunnerClose, Compile, Submit, WriteJob, CallPhase,
     TablePhase, EffectPhase, WritePhase, UncheckedWritePhase, RowsPhase, LoadPhase,
     WriteReturned, ChildLine, LineReturned, ChildExit, FlushPartialLine, ChildSettled,
     ExecFailed, ExecDone, WriteItem
<1>3. run.err # "none" => run'.err # "none"
  <2>1. OpenDB \/ ParseProgram \/ StartStatement \/ GenerateIR \/ RemoveCwd =>
          (run.err # "none" => run'.err # "none")
    BY DEF OpenDB, ParseProgram, StartStatement, GenerateIR, RemoveCwd
  <2>2. WriteEOE \/ StatementDone \/ ProgramDone \/ WriteError \/ RunnerClose =>
          (run.err # "none" => run'.err # "none")
    BY DEF WriteEOE, StatementDone, ProgramDone, WriteError, RunnerClose
  <2>3. Compile \/ Submit \/ WriteJob \/ CallPhase \/ TablePhase \/ EffectPhase =>
          (run.err # "none" => run'.err # "none")
    BY DEF Compile, Submit, WriteJob, CallPhase, TablePhase, EffectPhase
  <2>4. WritePhase \/ UncheckedWritePhase \/ RowsPhase \/ LoadPhase \/ WriteReturned =>
          (run.err # "none" => run'.err # "none")
    BY DEF WritePhase, UncheckedWritePhase, RowsPhase, LoadPhase, WriteReturned
  <2>5. ChildLine \/ LineReturned \/ ChildExit \/ FlushPartialLine \/ ChildSettled =>
          (run.err # "none" => run'.err # "none")
    BY DEF ChildLine, LineReturned, ChildExit, FlushPartialLine, ChildSettled
  <2>6. ExecFailed \/ ExecDone =>
          (run.err # "none" => run'.err # "none")
    BY DEF ExecFailed, ExecDone
  <2>7. QED
    BY <2>1, <2>2, <2>3, <2>4, <2>5, <2>6 DEF RunnerStep
<1>4. wrClosed' \in BOOLEAN
  BY RunnerControl DEF TypeOK, P!PipeTypeOK
<1>5. QED
  BY <1>1, <1>2, <1>3, <1>4

\* Every step of a session is one of the stream of results, or no step of it.
LEMMA StreamStep ==
    ASSUME TypeOK, Control, [Next]_vars
    PROVE  [R!StreamNext]_(R!streamVars)
<1> USE DEF R!streamVars, pvars, request, world, history, server, ServerOnly
<1>0. /\ rd \in [pc : P!ReaderPC, item : Items \cup {NoItem}]
      /\ results \in Seq(Outputs) /\ sent \in Seq(Outputs)
  BY DEF TypeOK, P!PipeTypeOK
<1>1. CASE RunnerStep
  BY <1>1, RunnerStreams DEF R!StreamNext, R!FailOrEnd
<1>2. CASE PipeSend
  <2> DEFINE item == wr["runner"].item
  <2>1. CASE item.kind \in OutputKinds
    <3>1. /\ results' = Append(results, item) /\ ~wrClosed
          /\ UNCHANGED <<sent, run, wrClosed, status>>
      BY <1>2, <2>1 DEF PipeSend, P!WriteSend, Control, PipeEnds, Returned
    <3>2. item \in Outputs
      BY <1>2, <2>1
      DEF PipeSend, P!WriteSend, TypeOK, P!PipeTypeOK, Items, Outputs, NoItem, OutputKinds
    <3>3. /\ Len(results') = Len(results) + 1 /\ results'[Len(results')] = item
          /\ SubSeq(results', 1, Len(results)) = results
      BY <1>0, <3>1, <3>2
    <3>4. R!Produce
      BY <3>1, <3>2, <3>3 DEF R!Produce
    <3>5. QED
      BY <3>4 DEF R!StreamNext
  <2>2. CASE item.kind \notin OutputKinds
    BY <1>2, <2>2 DEF PipeSend, P!WriteSend
  <2>3. QED
    BY <2>1, <2>2
<1>3. CASE PipeClosed
  BY <1>3 DEF PipeClosed, P!WriteDone
<1>4. status = "none" <=> rd.pc \in {"range", "body"}
  BY DEF Control, PipeEnds
<1>5. ASSUME NEW e \in Statuses \ {"none", "OK"}, Return(e), ServerOnly
      PROVE  R!ReturnError
  <2>1. status = "none" /\ status' = e /\ UNCHANGED <<results, sent, run, wrClosed>>
    BY <1>4, <1>5 DEF Return, P!BodyLeave
  <2>2. QED
    BY <2>1 DEF R!ReturnError, Statuses
<1>6. CASE SendOutput
  <2>1. CASE P!BodyNext /\ sent' = Append(sent, Item) /\ UNCHANGED status
    <3>1. rd.pc = "body" /\ Item.kind \in OutputKinds /\ UNCHANGED <<results, run, wrClosed>>
      BY <1>6, <2>1 DEF SendOutput, P!BodyNext
    <3>2. Item \in Outputs
      BY <1>0, <3>1 DEF Item, Items, Outputs, NoItem, OutputKinds
    <3>3. results = Append(sent, Item) /\ status = "none"
      BY <1>4, <3>1 DEF Control, Delivery, InHand
    <3>4. Len(sent) < Len(results) /\ results[Len(sent) + 1] = Item
      BY <1>0, <3>2, <3>3
    <3>5. R!Deliver
      BY <2>1, <3>1, <3>3, <3>4 DEF R!Deliver
    <3>6. QED
      BY <3>5 DEF R!StreamNext
  <2>2. CASE Return("sendError") \/ Return("encodeError")
    BY <1>5, <1>6, <2>2 DEF SendOutput, Statuses, R!StreamNext
  <2>3. QED
    BY <1>6, <2>1, <2>2 DEF SendOutput
<1>7. CASE ReturnProgramError
  BY <1>5, <1>7 DEF ReturnProgramError, Statuses, R!StreamNext
<1>8. CASE ServeEOE
  <2>1. CASE Return("parseError") \/ Return("sendError")
    BY <1>5, <1>8, <2>1 DEF ServeEOE, Statuses, R!StreamNext
  <2>2. CASE UNCHANGED <<sent, status>> /\ (P!BodyNext \/ UNCHANGED pvars)
    BY <1>8, <2>2 DEF ServeEOE, P!BodyNext
  <2>3. QED
    BY <1>8, <2>1, <2>2 DEF ServeEOE
<1>9. CASE SendNil
  BY <1>5, <1>9 DEF SendNil, Statuses, R!StreamNext
<1>10. CASE PipeDrained
  <2>1. /\ status = "none" /\ status' = "OK" /\ wrClosed /\ rd.pc = "range"
        /\ UNCHANGED <<results, sent, run, wrClosed>>
    BY <1>4, <1>10 DEF PipeDrained, P!ReadEnd
  <2>2. run.err = "none"
    BY <2>1 DEF Control, PipeEnds, ErrorOnItsWay
  <2>3. sent = results
    BY <2>1 DEF Control, Delivery, InHand
  <2>4. R!ReturnOK
    BY <2>1, <2>2, <2>3 DEF R!ReturnOK
  <2>5. QED
    BY <2>4 DEF R!StreamNext
<1>11. CASE ServerClose \/ ClientGone \/ UNCHANGED vars
  BY <1>11 DEF ServerClose, P!ReaderClose, ClientGone, vars
<1>12. QED
  BY <1>1, <1>2, <1>3, <1>6, <1>7, <1>8, <1>9, <1>10, <1>11 DEF Next, PipeStep, ServerStep

\* A call is a stream of results: in order, and OK only after the last one of
\* a program that did not fail.
THEOREM SessionImplementsStream == Spec => ImplementsStream
<1>1. Init => R!StreamInit
  BY DEF Init, P!PipeInit, R!StreamInit
<1>2. SessionInv /\ [Next]_vars => [R!StreamNext]_(R!streamVars)
  BY SessionParts, StreamStep
<1>3. QED
  BY <1>1, <1>2, SessionInvariant, PTL DEF Spec, ImplementsStream, R!StreamSpec

=============================================================================
