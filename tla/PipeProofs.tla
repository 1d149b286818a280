----------------------------- MODULE PipeProofs -----------------------------
(***************************************************************************)
(* Proofs about Pipe, for any set of writers and any set of items.         *)
(***************************************************************************)
EXTENDS Pipe, TLAPS

\* The pipe's variables keep their types: the channels' flags, the state of
\* every Write call and the reader's loop.
THEOREM PipeTyping == PipeSpec => []PipeTypeOK
<1>1. PipeInit => PipeTypeOK
  <2> SUFFICES ASSUME PipeInit PROVE PipeTypeOK
    OBVIOUS
  <2>1. wrClosed \in BOOLEAN /\ done \in BOOLEAN
    BY DEF PipeInit
  <2>2. wr \in [Writers -> [pc : WriterPC, item : Items \cup {NoItem}]]
    BY SMT DEF PipeInit, WriterPC
  <2>3. rd \in [pc : ReaderPC, item : Items \cup {NoItem}]
    BY SMT DEF PipeInit, ReaderPC
  <2>4. QED
    BY <2>1, <2>2, <2>3 DEF PipeTypeOK
<1>2. PipeTypeOK /\ [PipeNext]_pipeVars => PipeTypeOK'
  <2> SUFFICES ASSUME PipeTypeOK, [PipeNext]_pipeVars
               PROVE  PipeTypeOK'
    OBVIOUS
  <2> USE DEF PipeTypeOK, WriterPC, ReaderPC
  <2>1. ASSUME NEW w \in Writers, NEW i \in Items, WriteCall(w, i)
        PROVE  PipeTypeOK'
    BY <2>1 DEF WriteCall
  <2>2. ASSUME NEW w \in Writers, PipeWriter(w)
        PROVE  PipeTypeOK'
    BY <2>2 DEF PipeWriter, WriteSend, WriteDone, WritePanic
  <2>3. CASE WriterClose
    BY <2>3 DEF WriterClose
  <2>4. CASE PipeReader
    BY <2>4 DEF PipeReader, ReadEnd, BodyNext, BodyLeave, ReaderClose
  <2>5. CASE UNCHANGED pipeVars
    BY <2>5 DEF pipeVars
  <2>6. QED
    BY <2>1, <2>2, <2>3, <2>4, <2>5 DEF PipeNext
<1>3. QED
  BY <1>1, <1>2, PTL DEF PipeSpec

\* When Writer.Close is deferred in the goroutine that writes, as every
\* caller in the repository does, no Write ever sends on a closed channel.
THEOREM PipeNeverPanics ==
    ASSUME ~CloseInParallel
    PROVE  PipeSpec => []NoPanic
<1>1. PipeInit => CloseAfterWrites /\ NoPanic
  BY DEF PipeInit, CloseAfterWrites, NoPanic
<1>2. PipeTypeOK /\ CloseAfterWrites /\ NoPanic /\ [PipeNext]_pipeVars
        => (CloseAfterWrites /\ NoPanic)'
  <2> SUFFICES ASSUME PipeTypeOK, CloseAfterWrites, NoPanic, [PipeNext]_pipeVars
               PROVE  (CloseAfterWrites /\ NoPanic)'
    OBVIOUS
  <2> USE DEF PipeTypeOK, CloseAfterWrites, NoPanic, InWrite
  <2>1. ASSUME NEW w \in Writers, NEW i \in Items, WriteCall(w, i)
        PROVE  (CloseAfterWrites /\ NoPanic)'
    BY <2>1 DEF WriteCall
  <2>2. ASSUME NEW w \in Writers, PipeWriter(w)
        PROVE  (CloseAfterWrites /\ NoPanic)'
    BY <2>2 DEF PipeWriter, WriteSend, WriteDone, WritePanic
  <2>3. CASE WriterClose
    BY <2>3 DEF WriterClose
  <2>4. CASE PipeReader
    BY <2>4 DEF PipeReader, ReadEnd, BodyNext, BodyLeave, ReaderClose
  <2>5. CASE UNCHANGED pipeVars
    BY <2>5 DEF pipeVars
  <2>6. QED
    BY <2>1, <2>2, <2>3, <2>4, <2>5 DEF PipeNext
<1>3. QED
  BY <1>1, <1>2, PipeTyping, PTL DEF PipeSpec
=============================================================================
