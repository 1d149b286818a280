-------------------------------- MODULE Pipe --------------------------------
(***************************************************************************)
(* go/pipe/pipe.go: the in-memory pipe between the goroutine that runs a   *)
(* SQL program (the writer half) and the RPC handler that streams its      *)
(* results (the reader half).  A pipe is two Go channels: wrCh carries the *)
(* items and is closed by Writer.Close; done carries nothing and is closed *)
(* by Reader.Close.                                                        *)
(*                                                                         *)
(* Go semantics used: a send on an unbuffered channel completes together   *)
(* with a receive; a select takes any ready case; a send on a closed       *)
(* channel panics, also in a select that was already waiting; a receive    *)
(* from a closed channel ends a range loop.                                *)
(***************************************************************************)
CONSTANTS
    Writers,         \* the goroutines that share the writer half
    Items,           \* what they write
    NoItem,          \* the value of an item variable before its first use
    CloseInParallel  \* TRUE: Writer.Close may be called during a Write

ASSUME PipeAssumption == CloseInParallel \in BOOLEAN

VARIABLES
    wrClosed,  \* wrCh is closed
    done,      \* done is closed
    wr,        \* [Writers -> [pc, item]]: the Write call of a goroutine
    rd         \* [pc, item]: the reader's range loop and its loop variable

pipeVars == <<wrClosed, done, wr, rd>>

-----------------------------------------------------------------------------
(***************************************************************************)
(* idle: no Write yet; select: in the select of Write; nil, ErrClosedPipe: *)
(* what the last Write returned; panic: the send met a closed channel.     *)
(***************************************************************************)
WriterPC == {"idle", "select", "nil", "ErrClosedPipe", "panic"}

(***************************************************************************)
(* range: waiting in `for r := range rd.ReadAll()'; body: in the loop      *)
(* body; drained: the loop ended because wrCh was closed; left: the body   *)
(* returned early; closed: Reader.Close was called.                        *)
(***************************************************************************)
ReaderPC == {"range", "body", "drained", "left", "closed"}

PipeTypeOK ==
    /\ wrClosed \in BOOLEAN
    /\ done \in BOOLEAN
    /\ wr \in [Writers -> [pc : WriterPC, item : Items \cup {NoItem}]]
    /\ rd \in [pc : ReaderPC, item : Items \cup {NoItem}]

\* Pipe(): two open channels.
PipeInit ==
    /\ wrClosed = FALSE
    /\ done = FALSE
    /\ wr = [w \in Writers |-> [pc |-> "idle", item |-> NoItem]]
    /\ rd = [pc |-> "range", item |-> NoItem]

-----------------------------------------------------------------------------
(* The writer half. *)

InWrite == {w \in Writers : wr[w].pc = "select"}

\* Writer.Write(item): the call reaches the select.
WriteCall(w, item) ==
    /\ wr[w].pc \in {"idle", "nil", "ErrClosedPipe"}
    /\ CloseInParallel \/ ~wrClosed
    /\ wr' = [wr EXCEPT ![w] = [pc |-> "select", item |-> item]]
    /\ UNCHANGED <<wrClosed, done, rd>>

\* case w.p.wrCh <- item: the waiting reader takes the item.
WriteSend(w) ==
    /\ wr[w].pc = "select"
    /\ ~wrClosed
    /\ rd.pc = "range"
    /\ rd' = [pc |-> "body", item |-> wr[w].item]
    /\ wr' = [wr EXCEPT ![w].pc = "nil"]
    /\ UNCHANGED <<wrClosed, done>>

\* Mutant: Write has no done case.
WriteDoneDropped(w) == FALSE /\ UNCHANGED <<pipeVars, w>>

\* case <-w.p.done: return ErrClosedPipe.
WriteDone(w) ==
    /\ wr[w].pc = "select"
    /\ done
    /\ wr' = [wr EXCEPT ![w].pc = "ErrClosedPipe"]
    /\ UNCHANGED <<wrClosed, done, rd>>

\* The send case of the select meets a closed channel.
WritePanic(w) ==
    /\ wr[w].pc = "select"
    /\ wrClosed
    /\ wr' = [wr EXCEPT ![w].pc = "panic"]
    /\ UNCHANGED <<wrClosed, done, rd>>

(***************************************************************************)
(* Writer.Close: close(wrCh).  Every caller in the repository defers it in *)
(* the goroutine that writes, so no Write is in progress then; with        *)
(* CloseInParallel another goroutine may call it at any time.              *)
(***************************************************************************)
WriterClose ==
    /\ ~wrClosed
    /\ CloseInParallel \/ InWrite = {}
    /\ wrClosed' = TRUE
    /\ UNCHANGED <<done, wr, rd>>

-----------------------------------------------------------------------------
(* The reader half. *)

\* Mutant: the loop tests done instead of wrCh.
ReadEndOnDone ==
    /\ rd.pc = "range"
    /\ done
    /\ rd' = [rd EXCEPT !.pc = "drained"]
    /\ UNCHANGED <<wrClosed, done, wr>>

\* ReadAll: the channel is closed, the range loop ends.
ReadEnd ==
    /\ rd.pc = "range"
    /\ wrClosed
    /\ rd' = [rd EXCEPT !.pc = "drained"]
    /\ UNCHANGED <<wrClosed, done, wr>>

\* The loop body ends normally: back to the receive.
BodyNext ==
    /\ rd.pc = "body"
    /\ rd' = [rd EXCEPT !.pc = "range"]
    /\ UNCHANGED <<wrClosed, done, wr>>

\* The loop body returns early.
BodyLeave ==
    /\ rd.pc = "body"
    /\ rd' = [rd EXCEPT !.pc = "left"]
    /\ UNCHANGED <<wrClosed, done, wr>>

\* Reader.Close: close(done), deferred by the function that ranges.
ReaderClose ==
    /\ rd.pc \in {"drained", "left"}
    /\ done' = TRUE
    /\ rd' = [rd EXCEPT !.pc = "closed"]
    /\ UNCHANGED <<wrClosed, wr>>

-----------------------------------------------------------------------------
PipeWriter(w) ==
    WriteSend(w) \/ WriteDone(w) \/ WritePanic(w)

PipeReader ==
    ReadEnd \/ BodyNext \/ BodyLeave \/ ReaderClose

PipeNext ==
    \/ \E w \in Writers : (\E i \in Items : WriteCall(w, i)) \/ PipeWriter(w)
    \/ WriterClose
    \/ PipeReader

(***************************************************************************)
(* A blocked select proceeds when one of its cases stays ready, and the    *)
(* reader's goroutine keeps running.  Whether a writer calls Write or      *)
(* Close again is its own business, so WriteCall and WriterClose have no   *)
(* fairness.                                                               *)
(***************************************************************************)
PipeFairness ==
    /\ \A w \in Writers : WF_pipeVars(WriteDone(w) \/ WritePanic(w))
    /\ \A w \in Writers : SF_pipeVars(WriteSend(w))
    /\ WF_pipeVars(PipeReader)

PipeSpec == PipeInit /\ [][PipeNext]_pipeVars /\ PipeFairness

-----------------------------------------------------------------------------
(* Properties. *)

\* No call of Write sends on the closed data channel and panics, which
\* would end the whole server process.
NoPanic == \A w \in Writers : wr[w].pc # "panic"

\* What makes NoPanic inductive: no Write is in progress once the data
\* channel is closed.
CloseAfterWrites == wrClosed => InWrite = {}

\* A Write that has been called does not block for ever: the reader takes
\* the item, or it leaves, closes its half, and Write returns ErrClosedPipe
\* (or the writer half is closed under it, and it panics).
WriteReturns ==
    \A w \in Writers : (wr[w].pc = "select") ~> (wr[w].pc # "select")

\* Once the writer half is closed the reader's loop ends and the reader
\* closes its half: no RPC handler waits on a finished program.
ReaderLearnsEnd == wrClosed ~> (rd.pc = "closed")

=============================================================================
