---------------------------- MODULE SqlFSProofs -----------------------------
(***************************************************************************)
(* Proofs about SqlFS, for every length of the file, every size of the     *)
(* buffers and every number of saves: a save that returned nil has stored  *)
(* the whole file, and a reader returns a beginning of one version of it.  *)
(***************************************************************************)
EXTENDS SqlFS, FiniteSetTheorems, SequenceTheorems, TLAPS

SaveInv ==
    /\ TypeOK /\ WriterCounts /\ SaveProgress /\ SavedStays /\ RowsClean
    /\ SaveOkMeansStored

StageInv == UploadProgress /\ Staging

-----------------------------------------------------------------------------
(* Operators. *)

\* The offsets of blocks are one buffer apart.
LEMMA OffNext ==
    /\ Off(0) = 0
    /\ \A k \in Nat : Off(k) \in Nat /\ Off(k + 1) = Off(k) + BufSize
<1>1. Off(0) = 0
  BY SqlFSAssumption DEF Off
<1>2. ASSUME NEW k \in Nat
      PROVE  Off(k) \in Nat /\ Off(k + 1) = Off(k) + BufSize
  BY SqlFSAssumption DEF Off
<1> QED  BY <1>1, <1>2

\* Min of two numbers.
LEMMA MinPair ==
    ASSUME NEW a \in Nat, NEW b \in Nat
    PROVE  Min({a, b}) = IF a <= b THEN a ELSE b
<1>1. CASE a <= b
  BY <1>1 DEF Min
<1>2. CASE b < a
  BY <1>2 DEF Min
<1> QED  BY <1>1, <1>2

\* Bytes that move from one place to the next.
LEMMA Moved ==
    \A a, b, m \in Nat : (a + m) + (b - m) = a + b
  OBVIOUS

LEMMA Shifted ==
    ASSUME NEW a \in Nat, NEW b \in Nat, NEW m \in Nat, NEW i \in 1 .. b - m
    PROVE  m + i \in 1 .. b /\ a + (m + i) = (a + m) + i
  OBVIOUS

\* A prefix of the file is given by its length and its bytes.
LEMMA Beginning ==
    ASSUME NEW v \in 1 .. Saves, NEW s \in Seq(Bytes), Len(s) <= FileLen,
           \A i \in 1 .. Len(s) : s[i] = <<v, i>>
    PROVE  /\ IsPrefix(s, File(v))
           /\ Len(s) = FileLen => s = File(v)
<1>1. FileLen \in Nat /\ Len(s) \in Nat /\ v \in Nat
  BY SqlFSAssumption
<1>2. File(v) \in Seq(Bytes) /\ Len(File(v)) = FileLen
      /\ \A i \in 1 .. FileLen : File(v)[i] = <<v, i>>
  BY <1>1 DEF File, Bytes
<1>3. /\ SubSeq(s, 1, Len(s)) \in Seq(Bytes) /\ Len(SubSeq(s, 1, Len(s))) = Len(s)
      /\ \A i \in 1 .. Len(s) : SubSeq(s, 1, Len(s))[i] = s[i]
  BY <1>1
<1>4. /\ SubSeq(File(v), 1, Len(s)) \in Seq(Bytes) /\ Len(SubSeq(File(v), 1, Len(s))) = Len(s)
      /\ \A i \in 1 .. Len(s) : SubSeq(File(v), 1, Len(s))[i] = File(v)[i]
  BY <1>1, <1>2
<1>5. SubSeq(s, 1, Len(s)) = SubSeq(File(v), 1, Len(s))
  <2>1. \A i \in 1 .. Len(s) : SubSeq(s, 1, Len(s))[i] = SubSeq(File(v), 1, Len(s))[i]
    <3>1. ASSUME NEW i \in 1 .. Len(s)
          PROVE  SubSeq(s, 1, Len(s))[i] = SubSeq(File(v), 1, Len(s))[i]
      <4>1. i \in 1 .. FileLen
        BY <1>1
      <4>2. SubSeq(s, 1, Len(s))[i] = s[i] /\ SubSeq(File(v), 1, Len(s))[i] = File(v)[i]
        BY <1>3, <1>4
      <4>3. s[i] = <<v, i>> /\ File(v)[i] = <<v, i>>
        BY <1>2, <4>1
      <4> QED  BY <4>2, <4>3
    <3> QED  BY <3>1
  <2> QED  BY <2>1, <1>3, <1>4, SeqEqual, Zenon
<1>6. ASSUME Len(s) = FileLen
      PROVE  s = File(v)
  <2>1. \A i \in 1 .. Len(s) : s[i] = File(v)[i]
    BY <1>2, <1>6
  <2> QED  BY <2>1, <1>2, <1>6, SeqEqual, Zenon
<1> QED  BY <1>2, <1>5, <1>6 DEF IsPrefix

\* Constants and lengths are numbers.
LEMMA Sizes ==
    /\ FileLen \in Nat /\ BufSize \in Nat /\ BufSize > 0
    /\ RowBufSize \in Nat /\ RowBufSize > 0 /\ Saves \in Nat /\ Saves > 0
  BY SqlFSAssumption

\* The fields of the writer, one by one.
LEMMA WriterTypes ==
    ASSUME TypeOK
    PROVE  /\ w.version \in 1 .. Saves /\ w.version \in Nat /\ w.version > 0
           /\ w.row \in Nat /\ w.row <= FileLen /\ w.pos \in Nat /\ w.pos <= FileLen
           /\ w.buf \in Seq(Bytes) /\ Len(w.buf) \in Nat /\ Len(w.buf) <= BufSize
           /\ w.p \in Seq(Bytes) /\ Len(w.p) \in Nat
           /\ table \in Seq(Rows) /\ Len(table) \in Nat /\ DOMAIN table = 1 .. Len(table)
           /\ csv \in Seq(Rows) /\ Len(csv) \in Nat /\ hdfs \in Seq(Rows) /\ Len(hdfs) \in Nat
           /\ w.older \in Nat
           /\ Off(w.row) \in Nat
<1>1. /\ w.version \in 1 .. Saves /\ w.row \in 0 .. FileLen /\ w.pos \in 0 .. FileLen
      /\ w.buf \in Seq(Bytes) /\ w.p \in Seq(Bytes) /\ Len(w.buf) <= BufSize
      /\ table \in Seq(Rows) /\ csv \in Seq(Rows) /\ hdfs \in Seq(Rows) /\ w.older \in Nat
  BY DEF TypeOK
<1>2. w.row \in Nat
  BY <1>1, Sizes
<1>3. Off(w.row) \in Nat
  BY <1>2, OffNext
<1>4. Len(w.buf) \in Nat /\ Len(w.p) \in Nat /\ Len(csv) \in Nat /\ Len(hdfs) \in Nat
  BY <1>1
<1>5. Len(table) \in Nat /\ DOMAIN table = 1 .. Len(table)
  BY <1>1
<1>6. /\ w.version \in Nat /\ w.version > 0 /\ w.row <= FileLen
      /\ w.pos \in Nat /\ w.pos <= FileLen
  BY <1>1, Sizes
<1> QED  BY <1>1, <1>2, <1>3, <1>4, <1>5, <1>6

\* The rows of the table.
LEMMA RowTypes ==
    ASSUME TypeOK, NEW i \in DOMAIN table
    PROVE  /\ table[i] \in Rows /\ table[i].id \in Nat /\ table[i].id <= FileLen
           /\ table[i].block \in Seq(Bytes) /\ Len(table[i].block) \in Nat
<1>1. table[i] \in Rows
  BY DEF TypeOK
<1>2. table[i].id \in 0 .. FileLen /\ table[i].block \in Seq(Bytes)
  BY <1>1 DEF Rows
<1> QED  BY <1>1, <1>2, Sizes

\* No table, and a table that holds something.
LEMMA NoTableRow ==
    /\ NoTable \in Seq(Rows) /\ Len(NoTable) = 1 /\ NoTable[1].block = <<>> /\ Len(<<>>) = 0
<1>1. 0 \in 0 .. FileLen /\ <<>> \in Seq(Bytes)
  BY Sizes
<1>2. [id |-> 0, block |-> <<>>] \in Rows
  BY <1>1 DEF Rows
<1> QED  BY <1>2 DEF NoTable

\* The blocks of a file are not the rows that stand for no table, and none
\* of them is half a line.
LEMMA BlocksAreReal ==
    ASSUME NEW v \in 1 .. Saves, NEW rows \in Seq(Rows), AreBlocks(v, rows)
    PROVE  /\ rows # NoTable
           /\ rows # <<>> => Last(rows).block # Garbled
<1>1. Len(rows) \in Nat /\ BufSize \in Nat /\ v \in Nat /\ v > 0
  BY SqlFSAssumption
<1>2. \A i \in 1 .. Len(rows) : Len(rows[i].block) \in 1 .. BufSize /\ rows[i].block[1] = <<v, Off(i - 1) + 1>>
  BY <1>1 DEF AreBlocks, IsBlock, IsPiece
<1>3. rows # NoTable
  BY <1>1, <1>2, NoTableRow
<1>4. ASSUME rows # <<>>
      PROVE  Last(rows).block # Garbled
  <2>1. Len(rows) \in 1 .. Len(rows)
    BY <1>1, <1>4
  <2>2. rows[Len(rows)].block[1] = <<v, Off(Len(rows) - 1) + 1>>
    BY <1>2, <2>1
  <2>3. Garbled[1] = <<0, 0>>
    BY DEF Garbled
  <2> QED  BY <1>1, <2>2, <2>3 DEF Last
<1> QED  BY <1>3, <1>4

\* A whole file is a clean table.
LEMMA WholeIsClean ==
    ASSUME TypeOK, NEW v \in 1 .. Saves, IsWhole(v, table)
    PROVE  TableOf(v)
<1>1. Len(table) \in Nat /\ DOMAIN table = 1 .. Len(table) /\ BufSize \in Nat /\ FileLen \in Nat
  BY SqlFSAssumption DEF TypeOK
<1>2. ASSUME NEW i \in 1 .. Len(table)
      PROVE  /\ table[i].id = i - 1 /\ i - 1 \in Nat /\ Off(i - 1) \in Nat
             /\ IsPiece(v, table[i].id, table[i].block)
             /\ Len(table[i].block) \in 1 .. BufSize
             /\ Off(i - 1) + Len(table[i].block) <= FileLen
             /\ Len(table[i].block) = BufSize \/ Off(i - 1) + Len(table[i].block) = FileLen
  <2>1. table[i].id = i - 1 /\ IsBlock(v, i - 1, table[i].block)
    BY DEF IsWhole, AreBlocks
  <2>2. i - 1 \in Nat
    BY <1>1
  <2>3. Off(i - 1) \in Nat
    BY <2>2, OffNext
  <2> QED  BY <2>1, <2>2, <2>3 DEF IsBlock, IsPiece
<1>3. ASSUME NEW i \in 1 .. Len(table), NEW k \in 1 .. Len(table), table[i].id < table[k].id
      PROVE  Len(table[i].block) = BufSize
  <2>1. i + 1 \in 1 .. Len(table) /\ (i + 1) - 1 = (i - 1) + 1
    BY <1>1, <1>2, <1>3
  <2>2. Off((i - 1) + 1) = Off(i - 1) + BufSize
    BY <1>2, OffNext
  <2>3. /\ Len(table[i + 1].block) \in 1 .. BufSize
        /\ Off((i - 1) + 1) + Len(table[i + 1].block) <= FileLen
    BY <1>2, <2>1
  <2>4. /\ Off(i - 1) \in Nat /\ Len(table[i].block) \in 1 .. BufSize
        /\ Len(table[i].block) = BufSize \/ Off(i - 1) + Len(table[i].block) = FileLen
    BY <1>2
  <2>5. PICK a \in Nat, b \in 1 .. BufSize, c \in 1 .. BufSize :
          a = Off(i - 1) /\ b = Len(table[i].block) /\ c = Len(table[i + 1].block)
    BY <2>3, <2>4
  <2>6. a + BufSize + c <= FileLen /\ (b = BufSize \/ a + b = FileLen)
    BY <2>2, <2>3, <2>4, <2>5
  <2>7. b = BufSize
    BY <2>6, Sizes
  <2> QED  BY <2>5, <2>7
<1> QED  BY <1>1, <1>2, <1>3 DEF TableOf

-----------------------------------------------------------------------------
(* The writer. *)

\* The first save of a table that is not there.
LEMMA InitSaves == Init => SaveInv
<1> SUFFICES ASSUME Init PROVE SaveInv
  OBVIOUS
<1>1. PICK head \in {0, Metadata} :
        w = [pc |-> "drop", version |-> 1, head |-> head, pos |-> 0, p |-> <<>>, buf |-> <<>>,
             row |-> 0, result |-> "none", missed |-> FALSE, loaded |-> FALSE, older |-> 0, left |-> FALSE]
  BY DEF Init, NewWriters
<1>2. FileLen \in Nat /\ head \in 0 .. FileLen /\ 1 \in 1 .. Saves /\ RowBufSize \in Nat
  BY SqlFSAssumption
<1>3. w.pc = "drop" /\ w.result = "none" /\ w.row = 0 /\ w.pos = 0 /\ w.buf = <<>> /\ w.p = <<>>
  BY <1>1
<1>4. TypeOK
  <2>1. NoTable \in Seq(Rows)
    BY <1>2 DEF NoTable, Rows
  <2>2. Len(w.buf) <= BufSize /\ Len(NoReader.fragments) <= RowBufSize
    BY <1>2, <1>3, SqlFSAssumption DEF NoReader
  <2>3. NoReader \in [pc : {"none", "open", "copy", "block", "eof", "error"},
              buf : Seq(Bytes), fragments : Seq(Rows), fragmentIdx : 0 .. RowBufSize,
              rowIdx : 0 .. FileLen + 1, room : 0 .. FileLen + 1, n : Nat,
              got : Seq(Bytes), cut : BOOLEAN]
    BY <1>2 DEF NoReader
  <2> QED  BY <1>1, <1>2, <2>1, <2>2, <2>3 DEF Init, TypeOK
<1>5. RowsClean
  BY <1>3 DEF Init, RowsClean
<1> QED  BY <1>3, <1>4, <1>5 DEF SaveInv, WriterCounts, SaveProgress, SavedStays, SaveOkMeansStored

\* DROP TABLE.
LEMMA DropSaves == SaveInv /\ dropTableIfExists => SaveInv'
<1> SUFFICES ASSUME SaveInv, dropTableIfExists PROVE SaveInv'
  OBVIOUS
<1>1. /\ w.pc = "drop" /\ driver' = driver /\ csv' = csv /\ hdfs' = hdfs /\ r' = r /\ table' \in {table, NoTable}
      /\ \/ w' = [w EXCEPT !.pc = "create"]
         \/ w' = [w EXCEPT !.pc = "ended", !.result = "error"]
  BY DEF dropTableIfExists, OutsideHdfs, WriterOnly, WriterEnds
<1>2. /\ w'.pc \in {"create", "ended"} /\ w'.pos = w.pos /\ w'.row = w.row /\ w'.buf = w.buf
      /\ w'.p = w.p /\ w'.version = w.version /\ w'.missed = w.missed
      /\ w'.result \in {"none", "error"} /\ (w'.pc = "create" => w'.result = "none")
  <2>1. w.result = "none"
    BY <1>1 DEF SaveInv, WriterCounts
  <2>2. CASE w' = [w EXCEPT !.pc = "create"]
    BY <2>1, <2>2 DEF SaveInv, TypeOK
  <2>3. CASE w' = [w EXCEPT !.pc = "ended", !.result = "error"]
    BY <2>3 DEF SaveInv, TypeOK
  <2> QED  BY <1>1, <2>2, <2>3
<1>3. TypeOK'
  <2>1. table' \in Seq(Rows)
    BY <1>1, NoTableRow DEF SaveInv, TypeOK
  <2>2. CASE w' = [w EXCEPT !.pc = "create"]
    BY <1>1, <2>1, <2>2 DEF SaveInv, TypeOK
  <2>3. CASE w' = [w EXCEPT !.pc = "ended", !.result = "error"]
    BY <1>1, <2>1, <2>3 DEF SaveInv, TypeOK
  <2> QED  BY <1>1, <2>2, <2>3
<1>4. WriterCounts'
  BY <1>1, <1>2 DEF SaveInv, WriterCounts
<1>5. RowsClean'
  BY <1>1, <1>2 DEF SaveInv, RowsClean, TableOf
<1> QED  BY <1>2, <1>3, <1>4, <1>5 DEF SaveInv, SaveProgress, SavedStays, SaveOkMeansStored

\* CREATE TABLE: the rows of the new version begin.
LEMMA CreateSaves == SaveInv /\ createTable => SaveInv'
<1> SUFFICES ASSUME SaveInv, createTable PROVE SaveInv'
  OBVIOUS
<1>1. /\ w.pc = "create" /\ driver' = driver /\ hdfs' = hdfs /\ r' = r /\ table' \in {<<>>, NoTable}
      /\ csv' = IF driver = "hive" /\ w'.pc = "tar" THEN <<>> ELSE NoTable
      /\ \/ w' = [w EXCEPT !.pc = "tar"] /\ table' = <<>>
         \/ w' = [w EXCEPT !.pc = "ended", !.result = "error"]
  BY DEF createTable, OutsideHdfs, WriterOnly, WriterEnds
<1>2. /\ w'.pc \in {"tar", "ended"} /\ w'.pos = 0 /\ w'.row = 0 /\ w'.buf = <<>>
      /\ w'.p = <<>> /\ w'.version = w.version /\ w'.missed = w.missed
      /\ w'.result \in {"none", "error"}
      /\ w'.pc = "tar" => w'.result = "none" /\ table' = <<>>
  <2>1. w.pos = 0 /\ w.result = "none" /\ w.row = 0 /\ Len(w.buf) = 0 /\ Len(w.p) = 0
    <3>1. w.pos = 0 /\ w.result = "none" /\ w.row + Len(w.buf) + Len(w.p) <= w.pos
      BY <1>1 DEF SaveInv, WriterCounts
    <3>2. PICK a \in Nat, b \in Nat : a = Len(w.buf) /\ b = Len(w.p)
      BY WriterTypes DEF SaveInv
    <3>3. w.row + a + b <= 0 /\ w.row \in Nat
      BY <3>1, <3>2, WriterTypes DEF SaveInv
    <3>4. w.row = 0 /\ a = 0 /\ b = 0
      BY <3>3
    <3> QED  BY <3>1, <3>2, <3>4
  <2>2. w.buf = <<>> /\ w.p = <<>>
    BY <2>1 DEF SaveInv, TypeOK
  <2> QED  BY <1>1, <2>1, <2>2 DEF SaveInv, TypeOK
<1>3. TypeOK'
  <2>1. table' \in Seq(Rows) /\ csv' \in Seq(Rows)
    <3>1. <<>> \in Seq(Rows) /\ NoTable \in Seq(Rows)
      BY NoTableRow
    <3>2. table' \in {<<>>, NoTable} /\ csv' \in {<<>>, NoTable}
      BY <1>1, Zenon
    <3> QED  BY <3>1, <3>2, Zenon
  <2>2. CASE w' = [w EXCEPT !.pc = "tar"]
    BY <1>1, <2>1, <2>2 DEF SaveInv, TypeOK
  <2>3. CASE w' = [w EXCEPT !.pc = "ended", !.result = "error"]
    BY <1>1, <2>1, <2>3 DEF SaveInv, TypeOK
  <2> QED  BY <1>1, <2>2, <2>3
<1>4. WriterCounts'
  BY <1>2 DEF WriterCounts
<1>5. SaveProgress'
  <2> SUFFICES ASSUME w'.pc = "tar" PROVE SaveProgress'
    BY <1>2 DEF SaveProgress
  <2>1. Target' = <<>> /\ Len(Target') = 0
    BY <1>1, <1>2 DEF Target
  <2>2. AreBlocks(w.version, Target)'
    BY <2>1 DEF AreBlocks
  <2>3. Off(w'.row) = 0
    BY <1>2, OffNext
  <2>4. w'.pos = Off(w'.row) + Len(w'.buf) + Len(w'.p)
    BY <1>2, <2>3
  <2> QED  BY <1>2, <2>1, <2>2, <2>4 DEF SaveProgress
<1>6. RowsClean'
  <2>1. ASSUME table' = <<>> PROVE TableOf(w.version)'
    BY <2>1 DEF TableOf
  <2>2. w'.version \in 1 .. w'.version
    BY <1>2 DEF SaveInv, TypeOK
  <2> QED  BY <1>1, <1>2, <2>1, <2>2 DEF RowsClean
<1> QED  BY <1>2, <1>3, <1>4, <1>5, <1>6 DEF SaveInv, SavedStays, SaveOkMeansStored

\* The process dies.
LEMMA CrashSaves == SaveInv /\ Crash => SaveInv'
<1> SUFFICES ASSUME SaveInv, Crash PROVE SaveInv'
  OBVIOUS
<1>1. /\ driver' = driver /\ hdfs' = hdfs /\ r' = r /\ table' = table /\ csv' = NoTable
      /\ w' = [w EXCEPT !.pc = "ended", !.result = "crashed", !.left = w'.left] /\ w'.left \in BOOLEAN
  <2>1. w' = [w EXCEPT !.pc = "ended", !.result = "crashed",
                       !.left = @ \/ w.pc \in {"load", "lastLoad", "rm", "lastRm"}]
    BY DEF Crash
  <2>2. w'.left = (w.left \/ w.pc \in {"load", "lastLoad", "rm", "lastRm"}) /\ w.left \in BOOLEAN
    BY <2>1 DEF SaveInv, TypeOK
  <2>3. w'.left \in BOOLEAN
    BY <2>2, Zenon
  <2> QED  BY <2>1, <2>2, <2>3 DEF Crash, OutsideHdfs, WriterOnly
<1>2. /\ w'.pc = "ended" /\ w'.pos = w.pos /\ w'.row = w.row /\ w'.buf = w.buf
      /\ w'.p = w.p /\ w'.version = w.version /\ w'.missed = w.missed /\ w'.result = "crashed"
  BY <1>1 DEF SaveInv, TypeOK
<1>3. TypeOK'
  <2>1. NoTable \in Seq(Rows)
    BY SqlFSAssumption DEF NoTable, Rows
  <2> QED  BY <1>1, <2>1 DEF SaveInv, TypeOK
<1>4. WriterCounts'
  BY <1>1, <1>2 DEF SaveInv, WriterCounts
<1>5. RowsClean'
  BY <1>1, <1>2 DEF SaveInv, RowsClean, TableOf
<1> QED  BY <1>2, <1>3, <1>4, <1>5 DEF SaveInv, SaveProgress, SavedStays, SaveOkMeansStored

\* The next save: what is in the table is an earlier version.
LEMMA AgainSaves == SaveInv /\ SaveAgain => SaveInv'
<1> SUFFICES ASSUME SaveInv, SaveAgain PROVE SaveInv'
  OBVIOUS
<1>1. PICK head \in {0, Metadata} :
        w' = [pc |-> "drop", version |-> w.version + 1, head |-> head, pos |-> 0, p |-> <<>>,
              buf |-> <<>>, row |-> 0, result |-> "none", missed |-> w.missed, loaded |-> FALSE,
              older |-> 0, left |-> w.left]
  BY DEF SaveAgain, NewWriters
<1>2. /\ w'.pc = "drop" /\ w'.pos = 0 /\ w'.row = 0 /\ w'.buf = <<>> /\ w'.p = <<>>
      /\ w'.version = w.version + 1 /\ w'.missed = w.missed /\ w'.result = "none"
  BY <1>1
<1>3. /\ driver' = driver /\ table' = table /\ csv' = NoTable /\ hdfs' = hdfs /\ r' = NoReader
      /\ w.version + 1 \in 1 .. Saves /\ w.version \in Nat
  <2>1. w.version \in 1 .. Saves
    BY DEF SaveInv, TypeOK
  <2>2. w.version < Saves /\ driver' = driver /\ table' = table /\ csv' = NoTable /\ hdfs' = hdfs /\ r' = NoReader
    BY DEF SaveAgain
  <2> QED  BY <2>1, <2>2, SqlFSAssumption
<1>4. TypeOK'
  <2>1. NoTable \in Seq(Rows)
    BY SqlFSAssumption DEF NoTable, Rows
  <2>2. FileLen \in Nat /\ head \in 0 .. FileLen /\ RowBufSize \in Nat /\ BufSize \in Nat
    BY SqlFSAssumption
  <2>3. NoReader \in [pc : {"none", "open", "copy", "block", "eof", "error"},
              buf : Seq(Bytes), fragments : Seq(Rows), fragmentIdx : 0 .. RowBufSize,
              rowIdx : 0 .. FileLen + 1, room : 0 .. FileLen + 1, n : Nat,
              got : Seq(Bytes), cut : BOOLEAN]
    BY <2>2 DEF NoReader
  <2>4. Len(w'.buf) <= BufSize /\ Len(NoReader.fragments) <= RowBufSize
    BY <1>2, <2>2 DEF NoReader
  <2> QED  BY <1>1, <1>3, <2>1, <2>2, <2>3, <2>4 DEF SaveInv, TypeOK
<1>5. RowsClean'
  <2>1. \A v \in 1 .. w.version : v \in 1 .. w'.version
    BY <1>2, <1>3
  <2> QED  BY <1>2, <1>3, <2>1 DEF SaveInv, RowsClean, TableOf
<1> QED  BY <1>2, <1>4, <1>5 DEF SaveInv, WriterCounts, SaveProgress, SavedStays, SaveOkMeansStored

\* tar calls Write: p are the bytes after those it has written.
LEMMA WriteSaves == SaveInv /\ Write => SaveInv'
<1> SUFFICES ASSUME SaveInv, Write PROVE SaveInv'
  OBVIOUS
<1>1. PICK k \in 1 .. (FileLen - w.pos) :
        w' = [w EXCEPT !.pc = "fill", !.pos = @ + k,
                       !.p = SubSeq(File(w.version), w.pos + 1, w.pos + k)]
  BY DEF Write
<1>2. w.pc = "tar" /\ driver' = driver /\ hdfs' = hdfs /\ r' = r /\ table' = table /\ csv' = csv
  BY DEF Write, OutsideHdfs, WriterOnly
<1>3. /\ w'.pc = "fill" /\ w'.pos = w.pos + k /\ w'.row = w.row /\ w'.buf = w.buf
      /\ w'.p = SubSeq(File(w.version), w.pos + 1, w.pos + k)
      /\ w'.version = w.version /\ w'.missed = w.missed /\ w'.result = w.result
      /\ w'.head = w.head
  BY <1>1 DEF SaveInv, TypeOK
<1>4. /\ FileLen \in Nat /\ w.pos \in Nat /\ k \in Nat /\ w.pos + k <= FileLen /\ w.version \in 1 .. Saves
      /\ w.row \in Nat /\ Len(w.buf) \in Nat /\ w.p = <<>>
  <2>1. TypeOK /\ w.p = <<>>
    BY <1>2 DEF SaveInv, WriterCounts
  <2> QED  BY <2>1, WriterTypes, Sizes
<1>5. /\ w'.p \in Seq(Bytes) /\ Len(w'.p) = k
      /\ \A i \in 1 .. k : w'.p[i] = <<w.version, w.pos + i>>
  <2>1. \A i \in w.pos + 1 .. w.pos + k : File(w.version)[i] = <<w.version, i>> /\ <<w.version, i>> \in Bytes
    BY <1>4 DEF File, Bytes
  <2>2. /\ w'.p \in Seq(Bytes) /\ Len(w'.p) = k
        /\ \A i \in 1 .. k : w'.p[i] = File(w.version)[w.pos + i]
    <3>1. \A i \in w.pos + 1 .. w.pos + k : File(w.version)[i] \in Bytes
      BY <2>1
    <3>2. w.pos + 1 \in Int /\ w.pos + k \in Int /\ w.pos + 1 <= w.pos + k
      BY <1>4
    <3> DEFINE q == SubSeq(File(w.version), w.pos + 1, w.pos + k)
    <3>3. /\ q \in Seq(Bytes)
          /\ Len(q) = (w.pos + k) - (w.pos + 1) + 1
          /\ \A i \in 1 .. (w.pos + k) - (w.pos + 1) + 1 : q[i] = File(w.version)[w.pos + 1 + i - 1]
      BY <3>1, <3>2, SubSeqProperties
    <3> HIDE DEF q
    <3>4. (w.pos + k) - (w.pos + 1) + 1 = k /\ \A i \in 1 .. k : w.pos + 1 + i - 1 = w.pos + i
      BY <1>4
    <3>5. w'.p = q
      BY <1>3 DEF q
    <3> QED  BY <3>3, <3>4, <3>5
  <2>3. \A i \in 1 .. k : w.pos + i \in w.pos + 1 .. w.pos + k
    BY <1>4
  <2> QED  BY <2>1, <2>2, <2>3
<1>6. TypeOK'
  <2>1. w.pos + k \in 0 .. FileLen
    BY <1>4
  <2>2. w' = [w EXCEPT !.pc = "fill", !.pos = w.pos + k, !.p = w'.p]
    BY <1>1, <1>3
  <2> QED  BY <1>2, <1>3, <1>5, <2>1, <2>2 DEF SaveInv, TypeOK
<1>7. WriterCounts'
  <2>1. w.row + Len(w.buf) <= w.pos
    BY <1>4 DEF SaveInv, WriterCounts
  <2>2. w'.row + Len(w'.buf) + Len(w'.p) <= w'.pos
    <3>1. w'.row = w.row /\ w'.buf = w.buf /\ w'.pos = w.pos + k /\ Len(w'.p) = k
      BY <1>3, <1>5
    <3> QED  BY <3>1, <1>4, <2>1
  <2> QED  BY <1>3, <2>2 DEF WriterCounts
<1>8. SaveProgress'
  <2> SUFFICES ASSUME ~w'.missed PROVE SaveProgress'
    BY DEF SaveProgress
  <2>1. Target' = Target
    BY <1>2 DEF Target
  <2>2. /\ w.result = "none" /\ AreBlocks(w.version, Target)
        /\ Len(Target) = w.row
        /\ \A i \in 1 .. Len(Target) : Len(Target[i].block) = BufSize
        /\ w.pos = Off(w.row) + Len(w.buf) + Len(w.p)
        /\ \A i \in 1 .. Len(w.buf) : w.buf[i] = <<w.version, Off(w.row) + i>>
    BY <1>2, <1>3 DEF SaveInv, SaveProgress
  <2>3. w.pos = Off(w.row) + Len(w.buf) /\ Off(w.row) \in Nat
    <3>1. Off(w.row) \in Nat
      BY <1>4, OffNext
    <3>2. Len(w.p) = 0
      BY <1>4
    <3> QED  BY <2>2, <3>1, <3>2, <1>4
  <2>4. AreBlocks(w.version, Target)'
    BY <1>3, <2>1, <2>2 DEF AreBlocks
  <2>5. w'.pos = Off(w.row) + Len(w.buf) + Len(w'.p)
    BY <1>3, <1>4, <1>5, <2>3
  <2>6. \A i \in 1 .. Len(w'.p) : w'.p[i] = <<w.version, Off(w.row) + Len(w.buf) + i>>
    BY <1>4, <1>5, <2>3
  <2> QED  BY <1>3, <2>1, <2>2, <2>4, <2>5, <2>6 DEF SaveProgress
<1>9. RowsClean'
  BY <1>2, <1>3 DEF SaveInv, RowsClean, TableOf
<1>10. w.result # "ok"
  BY <1>2 DEF SaveInv, SavedStays
<1> QED  BY <1>3, <1>6, <1>7, <1>8, <1>9, <1>10 DEF SaveInv, SavedStays, SaveOkMeansStored

\* One turn of the loop of Write: bytes go from p to the buffer.
LEMMA FillSaves == SaveInv /\ Fill => SaveInv'
<1> SUFFICES ASSUME SaveInv, Fill PROVE SaveInv'
  OBVIOUS
<1> DEFINE fill == Min({BufSize - Len(w.buf), Len(w.p)})
           buf == w.buf \o SubSeq(w.p, 1, fill)
           p == SubSeq(w.p, fill + 1, Len(w.p))
<1>1. w' = [w EXCEPT !.pc = IF Len(buf) >= BufSize THEN "flush" ELSE "tar", !.buf = buf, !.p = p]
  BY DEF Fill
<1>2. w.pc = "fill" /\ driver' = driver /\ hdfs' = hdfs /\ r' = r /\ table' = table /\ csv' = csv
  BY DEF Fill, OutsideHdfs, WriterOnly
<1>3. /\ w'.pc = (IF Len(buf) >= BufSize THEN "flush" ELSE "tar") /\ w'.pos = w.pos /\ w'.row = w.row
      /\ w'.buf = buf /\ w'.p = p
      /\ w'.version = w.version /\ w'.missed = w.missed /\ w'.result = w.result
      /\ w'.head = w.head
  BY <1>1 DEF SaveInv, TypeOK
<1>4. /\ BufSize \in Nat /\ BufSize > 0 /\ w.buf \in Seq(Bytes) /\ w.p \in Seq(Bytes)
      /\ Len(w.buf) \in Nat /\ Len(w.p) \in Nat /\ Len(w.buf) <= BufSize
      /\ w.row \in Nat /\ w.pos \in Nat
      /\ w.row + Len(w.buf) + Len(w.p) <= w.pos
  <2>1. TypeOK /\ w.row + Len(w.buf) + Len(w.p) <= w.pos
    BY DEF SaveInv, WriterCounts
  <2> QED  BY <2>1, WriterTypes, Sizes
<1>5. /\ fill \in Nat /\ fill <= Len(w.p) /\ fill <= BufSize - Len(w.buf)
      /\ fill = Len(w.p) \/ fill = BufSize - Len(w.buf)
  <2>1. BufSize - Len(w.buf) \in Nat
    BY <1>4
  <2>2. fill = IF BufSize - Len(w.buf) <= Len(w.p) THEN BufSize - Len(w.buf) ELSE Len(w.p)
    BY <1>4, <2>1, MinPair
  <2> HIDE DEF fill
  <2>3. CASE BufSize - Len(w.buf) <= Len(w.p)
    <3>1. fill = BufSize - Len(w.buf)
      BY <2>2, <2>3
    <3> QED  BY <2>1, <2>3, <3>1
  <2>4. CASE ~(BufSize - Len(w.buf) <= Len(w.p))
    <3>1. fill = Len(w.p) /\ Len(w.p) \in Nat
      BY <1>4, <2>2, <2>4
    <3> QED  BY <2>1, <2>4, <3>1
  <2> QED  BY <2>3, <2>4
<1> HIDE DEF fill
<1>6. /\ SubSeq(w.p, 1, fill) \in Seq(Bytes) /\ Len(SubSeq(w.p, 1, fill)) = fill
      /\ \A i \in 1 .. fill : SubSeq(w.p, 1, fill)[i] = w.p[i]
  BY <1>4, <1>5
<1>7. /\ p \in Seq(Bytes) /\ Len(p) = Len(w.p) - fill
      /\ \A i \in 1 .. Len(w.p) - fill : p[i] = w.p[fill + i]
  BY <1>4, <1>5
<1>8. /\ buf \in Seq(Bytes) /\ Len(buf) = Len(w.buf) + fill
      /\ \A i \in 1 .. Len(w.buf) : buf[i] = w.buf[i]
      /\ \A i \in 1 .. fill : buf[Len(w.buf) + i] = w.p[i]
  <2>1. /\ buf \in Seq(Bytes) /\ Len(buf) = Len(w.buf) + fill
        /\ \A i \in 1 .. Len(w.buf) + fill :
             buf[i] = IF i <= Len(w.buf) THEN w.buf[i] ELSE SubSeq(w.p, 1, fill)[i - Len(w.buf)]
    <3>1. PICK q : q = SubSeq(w.p, 1, fill)
      OBVIOUS
    <3>2. w.buf \in Seq(Bytes) /\ q \in Seq(Bytes) /\ Len(q) = fill
      BY <1>4, <1>6, <3>1
    <3>3. /\ w.buf \o q \in Seq(Bytes) /\ Len(w.buf \o q) = Len(w.buf) + Len(q)
          /\ \A i \in 1 .. Len(w.buf) + Len(q) :
               (w.buf \o q)[i] = IF i <= Len(w.buf) THEN w.buf[i] ELSE q[i - Len(w.buf)]
      BY <3>2, ConcatProperties, Zenon
    <3> QED  BY <3>1, <3>2, <3>3, Zenon
  <2> HIDE DEF buf
  <2>2. \A i \in 1 .. Len(w.buf) : i \in 1 .. Len(w.buf) + fill /\ i <= Len(w.buf)
    BY <1>4, <1>5
  <2>3. \A i \in 1 .. fill : Len(w.buf) + i \in 1 .. Len(w.buf) + fill /\ ~(Len(w.buf) + i <= Len(w.buf))
                             /\ (Len(w.buf) + i) - Len(w.buf) = i
    BY <1>4, <1>5
  <2> QED  BY <1>6, <2>1, <2>2, <2>3
<1> HIDE DEF buf, p
<1>9. /\ w'.pc \in {"flush", "tar"} /\ (w'.pc = "flush" => Len(buf) = BufSize)
      /\ w'.pc = "tar" => p = <<>>
  <2>1. Len(buf) <= BufSize
    BY <1>4, <1>5, <1>8
  <2>2. ~(Len(buf) >= BufSize) => Len(p) = 0
    BY <1>4, <1>5, <1>7, <1>8
  <2>3. Len(p) = 0 => p = <<>>
    BY <1>7
  <2> QED  BY <1>3, <1>4, <1>5, <1>8, <2>1, <2>2, <2>3
<1>10. TypeOK'
  <2>1. Len(buf) <= BufSize
    BY <1>4, <1>5, <1>8
  <2> QED  BY <1>1, <1>2, <1>3, <1>7, <1>8, <2>1 DEF SaveInv, TypeOK
<1>11. WriterCounts'
  <2>1. PICK a \in Nat, b \in Nat : a = Len(w.buf) /\ b = Len(w.p)
    BY <1>4
  <2>2. /\ w.row + a + b <= w.pos /\ fill \in Nat /\ w.row \in Nat /\ w.pos \in Nat
        /\ Len(buf) = a + fill /\ Len(p) = b - fill
    BY <1>4, <1>5, <1>7, <1>8, <2>1
  <2>3. w.row + (a + fill) + (b - fill) <= w.pos
    BY <2>2
  <2>4. w'.row + Len(w'.buf) + Len(w'.p) <= w'.pos
    BY <1>3, <2>2, <2>3
  <2> QED  BY <1>3, <1>9, <2>4 DEF WriterCounts
<1>12. SaveProgress'
  <2> SUFFICES ASSUME ~w'.missed PROVE SaveProgress'
    BY DEF SaveProgress
  <2>1. Target' = Target
    BY <1>2 DEF Target
  <2>2. /\ w.result = "none" /\ AreBlocks(w.version, Target)
        /\ Len(Target) = w.row
        /\ \A i \in 1 .. Len(Target) : Len(Target[i].block) = BufSize
        /\ w.pos = Off(w.row) + Len(w.buf) + Len(w.p)
        /\ \A i \in 1 .. Len(w.buf) : w.buf[i] = <<w.version, Off(w.row) + i>>
        /\ \A i \in 1 .. Len(w.p) : w.p[i] = <<w.version, Off(w.row) + Len(w.buf) + i>>
    BY <1>2, <1>3 DEF SaveInv, SaveProgress
  <2>3. Off(w.row) \in Nat
    BY <1>4, OffNext
  <2>4. AreBlocks(w.version, Target)'
    BY <1>3, <2>1, <2>2 DEF AreBlocks
  <2>5. w.pos = Off(w.row) + Len(buf) + Len(p)
    <3>1. PICK a \in Nat, b \in Nat, o \in Nat : a = Len(w.buf) /\ b = Len(w.p) /\ o = Off(w.row)
      BY <1>4, <2>3
    <3>2. o + (a + fill) + (b - fill) = o + a + b
      BY <1>5
    <3> QED  BY <1>7, <1>8, <2>2, <3>1, <3>2
  <2>6. ASSUME NEW i \in 1 .. Len(buf) PROVE buf[i] = <<w.version, Off(w.row) + i>>
    <3>1. CASE i \in 1 .. Len(w.buf)
      BY <3>1, <1>8, <2>2
    <3>2. CASE i \notin 1 .. Len(w.buf)
      <4> DEFINE j == i - Len(w.buf)
      <4>1. j \in 1 .. fill /\ j \in 1 .. Len(w.p) /\ i = Len(w.buf) + j
        BY <3>2, <1>4, <1>5, <1>8
      <4> HIDE DEF j
      <4>2. buf[i] = w.p[j] /\ w.p[j] = <<w.version, Off(w.row) + Len(w.buf) + j>>
        BY <4>1, <1>8, <2>2
      <4> QED  BY <4>1, <4>2, <1>4, <2>3
    <3> QED  BY <3>1, <3>2
  <2>7. ASSUME NEW i \in 1 .. Len(p) PROVE p[i] = <<w.version, Off(w.row) + Len(buf) + i>>
    <3>1. fill + i \in 1 .. Len(w.p) /\ i \in 1 .. Len(w.p) - fill
      BY <1>4, <1>5, <1>7
    <3>2. p[i] = <<w.version, Off(w.row) + Len(w.buf) + (fill + i)>>
      BY <3>1, <1>7, <2>2
    <3>3. Off(w.row) + Len(w.buf) + (fill + i) = Off(w.row) + Len(buf) + i
      BY <3>1, <1>4, <1>5, <1>8, <2>3
    <3> QED  BY <3>2, <3>3
  <2> QED  BY <1>3, <1>9, <2>1, <2>2, <2>4, <2>5, <2>6, <2>7 DEF SaveProgress
<1>13. RowsClean'
  BY <1>2, <1>3, <1>9 DEF SaveInv, RowsClean, TableOf
<1>14. w.result # "ok"
  BY <1>2 DEF SaveInv, SavedStays
<1> QED  BY <1>3, <1>10, <1>11, <1>12, <1>13, <1>14 DEF SaveInv, SavedStays, SaveOkMeansStored

\* In the middle of a save whose Writes have been good, the rows are pieces
\* of its version, all of them full, and the buffer is the next one.
LEMMA GoodSoFar ==
    ASSUME SaveInv, w.pc \in {"tar", "fill", "flush", "close"}, ~w.missed, driver # "hive"
    PROVE  /\ TableOf(w.version)
           /\ w.buf # <<>> => IsPiece(w.version, w.row, w.buf)
           /\ \A i \in DOMAIN table : table[i].id < w.row /\ Len(table[i].block) = BufSize
<1>1. Target = table
  BY DEF Target
<1>2. /\ AreBlocks(w.version, table) /\ Len(table) = w.row
      /\ \A i \in 1 .. Len(table) : Len(table[i].block) = BufSize
      /\ w.pos = Off(w.row) + Len(w.buf) + Len(w.p)
      /\ \A i \in 1 .. Len(w.buf) : w.buf[i] = <<w.version, Off(w.row) + i>>
  BY <1>1 DEF SaveInv, SaveProgress
<1>3. /\ Len(table) \in Nat /\ DOMAIN table = 1 .. Len(table) /\ w.row \in Nat /\ w.pos \in 0 .. FileLen
      /\ w.buf \in Seq(Bytes) /\ Len(w.p) \in Nat /\ Len(w.buf) \in Nat /\ Len(w.buf) <= BufSize
      /\ FileLen \in Nat /\ Off(w.row) \in Nat
  BY WriterTypes, Sizes DEF SaveInv
<1>4. \A i \in DOMAIN table : table[i].id = i - 1 /\ IsPiece(w.version, table[i].id, table[i].block)
  BY <1>2, <1>3 DEF AreBlocks, IsBlock
<1>5. TableOf(w.version)
  BY <1>2, <1>3, <1>4 DEF TableOf
<1>6. ASSUME w.buf # <<>> PROVE IsPiece(w.version, w.row, w.buf)
  <2>1. Len(w.buf) \in 1 .. BufSize /\ BufSize \in Nat
    BY <1>3, <1>6, SqlFSAssumption
  <2> QED  BY <1>2, <1>3, <2>1 DEF IsPiece
<1>7. \A i \in DOMAIN table : table[i].id < w.row
  BY <1>2, <1>3, <1>4
<1> QED  BY <1>2, <1>3, <1>5, <1>6, <1>7

\* tar has failed, or has written everything.
LEMMA TarSaves == SaveInv /\ TarExit => SaveInv'
<1> SUFFICES ASSUME SaveInv, TarExit PROVE SaveInv'
  OBVIOUS
<1>1. /\ w.pc = "tar" /\ driver' = driver /\ hdfs' = hdfs /\ r' = r /\ table' = table /\ csv' = csv
      /\ \/ w' = [w EXCEPT !.pc = "deferred", !.result = "error"]
         \/ w.pos = FileLen /\ w' = [w EXCEPT !.pc = "close"]
  BY DEF TarExit, OutsideHdfs, WriterOnly
<1>2. /\ w'.pos = w.pos /\ w'.row = w.row /\ w'.buf = w.buf /\ w'.p = w.p
      /\ w'.version = w.version /\ w'.missed = w.missed
      /\ \/ w'.pc = "deferred" /\ w'.result = "error"
         \/ w'.pc = "close" /\ w'.result = w.result /\ w.pos = FileLen
  BY <1>1 DEF SaveInv, TypeOK
<1>3. TypeOK'
  <2>1. CASE w' = [w EXCEPT !.pc = "deferred", !.result = "error"]
    BY <1>1, <2>1 DEF SaveInv, TypeOK
  <2>2. CASE w' = [w EXCEPT !.pc = "close"]
    BY <1>1, <2>2 DEF SaveInv, TypeOK
  <2> QED  BY <1>1, <2>1, <2>2
<1>4. WriterCounts'
  BY <1>1, <1>2 DEF SaveInv, WriterCounts
<1>5. SaveProgress'
  <2>1. Target' = Target
    BY <1>1 DEF Target
  <2>2. AreBlocks(w.version, Target) => AreBlocks(w.version, Target)'
    BY <1>2, <2>1 DEF AreBlocks
  <2> QED  BY <1>1, <1>2, <2>1, <2>2 DEF SaveInv, SaveProgress
<1>6. RowsClean'
  <2> SUFFICES ASSUME ~w.missed, driver # "hive" PROVE RowsClean'
    BY <1>1, <1>2 DEF RowsClean
  <2>1. /\ TableOf(w.version)
        /\ w.buf # <<>> => IsPiece(w.version, w.row, w.buf)
        /\ \A i \in DOMAIN table : table[i].id < w.row /\ Len(table[i].block) = BufSize
    BY <1>1, GoodSoFar
  <2>2. \A i \in DOMAIN table : table[i].id <= w.row
    <3>1. \A i \in DOMAIN table : table[i].id \in Nat /\ w.row \in Nat
      BY RowTypes, WriterTypes DEF SaveInv
    <3> QED  BY <2>1, <3>1
  <2>3. TableOf(w.version)' /\ (w.buf # <<>> => IsPiece(w.version, w.row, w.buf)')
    BY <1>1, <1>2, <2>1 DEF TableOf, IsPiece
  <2>4. w'.version \in 1 .. w'.version
    BY <1>2 DEF SaveInv, TypeOK
  <2> QED  BY <1>1, <1>2, <2>1, <2>2, <2>3, <2>4 DEF RowsClean
<1>7. w.result # "ok"
  BY <1>1 DEF SaveInv, SavedStays
<1> QED  BY <1>2, <1>3, <1>4, <1>5, <1>6, <1>7 DEF SaveInv, SavedStays, SaveOkMeansStored

\* What a flush may change.
LEMMA FlushEffect ==
    ASSUME TypeOK, Flushed \/ FlushFailed
    PROVE  /\ table' \in Seq(Rows) /\ csv' \in Seq(Rows)
           /\ table' \in {table, Append(table, NewRow)}
           /\ driver # "hive" => csv' = csv
           /\ driver = "hive" => table' = table
<1>1. /\ table' \in {table, Append(table, NewRow)}
      /\ csv' \in {csv, Append(csv, NewRow), Append(csv, [id |-> w.row, block |-> Garbled])}
      /\ driver # "hive" => csv' = csv
      /\ driver = "hive" => table' = table
  BY DEF Flushed, FlushFailed
<1>2. w.row \in 0 .. FileLen /\ w.buf \in Seq(Bytes) /\ Garbled \in Seq(Bytes)
  BY DEF TypeOK, Garbled, Bytes
<1>3. NewRow \in Rows /\ [id |-> w.row, block |-> Garbled] \in Rows
  BY <1>2 DEF NewRow, Rows
<1>4. /\ Append(table, NewRow) \in Seq(Rows) /\ Append(csv, NewRow) \in Seq(Rows)
      /\ Append(csv, [id |-> w.row, block |-> Garbled]) \in Seq(Rows)
  BY <1>3 DEF TypeOK
<1> QED  BY <1>1, <1>4 DEF TypeOK

\* The rows and the buffer before a flush that is to go into a table.
LEMMA BeforeFlush ==
    ASSUME SaveInv, w.pc \in {"flush", "close", "deferred"}, w.buf # <<>>, ~w.missed, driver # "hive"
    PROVE  /\ TableOf(w.version) /\ IsPiece(w.version, w.row, w.buf)
           /\ \A i \in DOMAIN table :
                table[i].id <= w.row /\ (table[i].id < w.row => Len(table[i].block) = BufSize)
<1>1. CASE w.pc = "deferred"
  BY <1>1 DEF SaveInv, RowsClean
<1>2. CASE w.pc \in {"flush", "close"}
  <2>1. /\ TableOf(w.version) /\ IsPiece(w.version, w.row, w.buf)
        /\ \A i \in DOMAIN table : table[i].id < w.row /\ Len(table[i].block) = BufSize
    BY <1>2, GoodSoFar
  <2>2. \A i \in DOMAIN table : table[i].id \in Nat /\ w.row \in Nat
    BY RowTypes, WriterTypes DEF SaveInv
  <2>3. \A i \in DOMAIN table : table[i].id <= w.row
    BY <2>1, <2>2
  <2> QED  BY <2>1, <2>3
<1> QED  BY <1>1, <1>2

\* A row that is inserted once, twice or not at all leaves the table clean.
LEMMA AfterFlush ==
    ASSUME SaveInv, w.pc \in {"flush", "close", "deferred"}, w.buf # <<>>, ~w.missed, driver # "hive",
           Flushed \/ FlushFailed, w'.version = w.version
    PROVE  /\ TableOf(w.version)'
           /\ \A i \in DOMAIN table' :
                table'[i].id <= w.row /\ (table'[i].id < w.row => Len(table'[i].block) = BufSize)
<1> DEFINE v == w.version
<1>1. /\ TableOf(v) /\ IsPiece(v, w.row, w.buf)
      /\ \A i \in DOMAIN table :
           table[i].id <= w.row /\ (table[i].id < w.row => Len(table[i].block) = BufSize)
  BY BeforeFlush
<1>2. table' \in {table, Append(table, NewRow)}
  BY FlushEffect DEF SaveInv
<1>3. Len(table) \in Nat /\ DOMAIN table = 1 .. Len(table) /\ w.row \in Nat
  BY WriterTypes DEF SaveInv
<1>4. ASSUME NEW i \in DOMAIN table'
      PROVE  \/ i \in DOMAIN table /\ table'[i] = table[i]
             \/ table'[i].id = w.row /\ table'[i].block = w.buf
  <2>1. CASE table' = table
    BY <2>1
  <2>2. CASE table' = Append(table, NewRow)
    <3>1. /\ DOMAIN table' = 1 .. Len(table) + 1
          /\ \A j \in 1 .. Len(table) : table'[j] = table[j]
          /\ table'[Len(table) + 1] = NewRow
      BY <2>2, <1>3 DEF SaveInv, TypeOK
    <3>2. i \in 1 .. Len(table) \/ i = Len(table) + 1
      BY <3>1, <1>3
    <3> QED  BY <3>1, <3>2, <1>3 DEF NewRow
  <2> QED  BY <1>2, <2>1, <2>2
<1>5. \A i \in DOMAIN table : table[i].id \in Nat
  BY RowTypes DEF SaveInv
<1>6. ASSUME NEW i \in DOMAIN table'
      PROVE  /\ table'[i].id <= w.row /\ (table'[i].id < w.row => Len(table'[i].block) = BufSize)
             /\ IsPiece(v, table'[i].id, table'[i].block) /\ table'[i].id \in Nat
  BY <1>1, <1>3, <1>4, <1>5 DEF TableOf
<1>7. ASSUME NEW i \in DOMAIN table', NEW k \in DOMAIN table', table'[i].id < table'[k].id
      PROVE  Len(table'[i].block) = BufSize
  BY <1>3, <1>6, <1>7
<1>8. \A i \in DOMAIN table' : IsPiece(v, table'[i].id, table'[i].block)
  BY <1>6
<1>9. TableOf(w.version)'
  BY <1>7, <1>8 DEF TableOf, IsPiece
<1> QED  BY <1>6, <1>9

\* A flush of a save that has been good puts the next block behind the
\* others: a full one, or the last one.
LEMMA NextBlockStored ==
    ASSUME SaveInv, w.pc \in {"flush", "close"}, ~w.missed, w.buf # <<>>, Flushed, driver' = driver
    PROVE  /\ AreBlocks(w.version, Target') /\ Len(Target') = w.row + 1
           /\ \A i \in 1 .. Len(Target') : Len(Target'[i].block) = BufSize \/ Target'[i].block = w.buf
<1> DEFINE v == w.version
           T == Target
<1>1. /\ AreBlocks(v, T) /\ Len(T) = w.row
      /\ \A i \in 1 .. Len(T) : Len(T[i].block) = BufSize
      /\ w.pos = Off(w.row) + Len(w.buf) + Len(w.p)
      /\ \A i \in 1 .. Len(w.buf) : w.buf[i] = <<v, Off(w.row) + i>>
      /\ w.pc = "close" => w.pos = FileLen
  BY DEF SaveInv, SaveProgress
<1>2. /\ T \in Seq(Rows) /\ Len(T) \in Nat /\ w.row \in Nat /\ v \in 1 .. Saves
      /\ Len(w.buf) \in 1 .. BufSize /\ Len(w.p) \in Nat /\ w.pos \in Nat /\ w.pos <= FileLen
      /\ Off(w.row) \in Nat /\ FileLen \in Nat /\ BufSize \in Nat
  <2>1. T \in Seq(Rows)
    BY WriterTypes DEF SaveInv, Target
  <2>2. w.buf \in Seq(Bytes) /\ Len(w.buf) <= BufSize /\ BufSize \in Nat
    BY WriterTypes, Sizes DEF SaveInv
  <2>3. Len(w.buf) \in 1 .. BufSize
    BY <2>2
  <2> QED  BY <2>1, <2>3, WriterTypes, Sizes DEF SaveInv
<1>3. T # NoTable /\ (T # <<>> => Last(T).block # Garbled)
  BY <1>1, <1>2, BlocksAreReal
<1>4. Target' = Append(T, NewRow)
  BY <1>3 DEF Flushed, Target, HalfLine
<1> HIDE DEF T
<1>5. /\ Len(Target') = w.row + 1
      /\ \A j \in 1 .. w.row : Target'[j] = T[j]
      /\ Target'[w.row + 1] = NewRow
  BY <1>1, <1>2, <1>4, SMTT(20)
<1>6. IsBlock(v, w.row, w.buf)
  <2>1. Off(w.row) + Len(w.buf) <= FileLen
    BY <1>1, <1>2
  <2>2. IsPiece(v, w.row, w.buf)
    BY <1>1, <1>2, <2>1 DEF IsPiece
  <2>3. CASE w.pc = "flush"
    BY <2>2, <2>3 DEF SaveInv, WriterCounts, IsBlock
  <2>4. CASE w.pc = "close"
    <3>1. w.p = <<>> /\ Len(w.p) = 0
      BY <2>4 DEF SaveInv, WriterCounts
    <3> QED  BY <1>1, <1>2, <2>2, <2>4, <3>1 DEF IsBlock
  <2> QED  BY <2>3, <2>4
<1>7. ASSUME NEW i \in 1 .. Len(Target')
      PROVE  /\ Target'[i].id = i - 1 /\ IsBlock(v, i - 1, Target'[i].block)
             /\ Len(Target'[i].block) = BufSize \/ Target'[i].block = w.buf
  <2>1. CASE i \in 1 .. w.row
    BY <2>1, <1>1, <1>5 DEF AreBlocks
  <2>2. CASE i = w.row + 1
    <3>1. i - 1 = w.row
      BY <2>2, <1>2
    <3> QED  BY <2>2, <3>1, <1>5, <1>6 DEF NewRow
  <2> QED  BY <1>2, <1>5, <2>1, <2>2
<1> QED  BY <1>5, <1>7 DEF AreBlocks

\* The flush in Write.
LEMMA FlushSaves == SaveInv /\ FlushInWrite => SaveInv'
<1> SUFFICES ASSUME SaveInv, FlushInWrite PROVE SaveInv'
  OBVIOUS
<1>1. w.pc = "flush" /\ driver' = driver /\ hdfs' = hdfs /\ r' = r
  BY DEF FlushInWrite, OutsideHdfs, WriterOnly
<1>2. /\ Len(w.buf) = BufSize /\ BufSize \in Nat /\ BufSize > 0 /\ w.buf \in Seq(Bytes) /\ w.buf # <<>>
      /\ w.p \in Seq(Bytes) /\ Len(w.p) \in Nat /\ w.row \in Nat /\ w.pos \in Nat /\ w.pos <= FileLen
      /\ FileLen \in Nat /\ w.version \in 1 .. Saves /\ Off(w.row) \in Nat
      /\ w.row + Len(w.buf) + Len(w.p) <= w.pos
  <2>1. /\ TypeOK /\ Len(w.buf) = BufSize
        /\ w.row + Len(w.buf) + Len(w.p) <= w.pos
    BY <1>1 DEF SaveInv, WriterCounts
  <2>2. w.buf # <<>>
    BY <2>1, Sizes
  <2> QED  BY <2>1, <2>2, WriterTypes, Sizes
<1>3. w.result # "ok"
  BY <1>1 DEF SaveInv, SavedStays
<1>4. CASE /\ Flushed
           /\ w' = [w EXCEPT !.pc = IF w.p = <<>> THEN "tar" ELSE "fill",
                             !.buf = <<>>, !.row = @ + 1]
  <2>1. /\ w'.pc = (IF w.p = <<>> THEN "tar" ELSE "fill") /\ w'.pos = w.pos /\ w'.row = w.row + 1
        /\ w'.buf = <<>> /\ w'.p = w.p /\ w'.version = w.version /\ w'.missed = w.missed
        /\ w'.result = w.result
    BY <1>4 DEF SaveInv, TypeOK
  <2>2. TypeOK'
    <3>1. w.row + 1 \in 0 .. FileLen /\ <<>> \in Seq(Bytes) /\ Len(<<>>) <= BufSize
      BY <1>2
    <3>2. table' \in Seq(Rows) /\ csv' \in Seq(Rows)
      BY <1>4, FlushEffect DEF SaveInv
    <3>3. w' = [w EXCEPT !.pc = w'.pc, !.buf = <<>>, !.row = w.row + 1]
      BY <1>4, <2>1
    <3>4. w'.pc \in {"tar", "fill"}
      BY <2>1
    <3> QED  BY <1>1, <2>1, <3>1, <3>2, <3>3, <3>4 DEF SaveInv, TypeOK
  <2>3. WriterCounts'
    <3>1. w'.row + Len(w'.buf) + Len(w'.p) <= w'.pos
      <4>1. w'.row = w.row + 1 /\ Len(w'.buf) = 0 /\ w'.p = w.p /\ w'.pos = w.pos
        BY <2>1
      <4> QED  BY <1>2, <4>1
    <3> QED  BY <2>1, <3>1 DEF WriterCounts
  <2>4. SaveProgress'
    <3> SUFFICES ASSUME ~w.missed PROVE SaveProgress'
      BY <2>1 DEF SaveProgress
    <3>1. /\ AreBlocks(w.version, Target') /\ Len(Target') = w.row + 1
          /\ \A i \in 1 .. Len(Target') : Len(Target'[i].block) = BufSize \/ Target'[i].block = w.buf
      BY <1>1, <1>2, <1>4, NextBlockStored
    <3>2. /\ w.result = "none" /\ w.pos = Off(w.row) + Len(w.buf) + Len(w.p)
          /\ \A i \in 1 .. Len(w.p) : w.p[i] = <<w.version, Off(w.row) + Len(w.buf) + i>>
      BY <1>1 DEF SaveInv, SaveProgress
    <3>3. Off(w.row + 1) = Off(w.row) + BufSize
      BY <1>2, OffNext
    <3>4. Len(w'.buf) = 0
      BY <2>1
    <3>5. w'.pos = Off(w'.row) + Len(w'.buf) + Len(w'.p)
      <4>1. w'.pos = w.pos /\ w'.p = w.p /\ Off(w'.row) = Off(w.row) + BufSize
        BY <2>1, <3>3
      <4> QED  BY <1>2, <3>2, <3>4, <4>1
    <3>6. ASSUME NEW i \in 1 .. Len(w.p)
          PROVE  w.p[i] = <<w.version, Off(w'.row) + Len(w'.buf) + i>>
      <4>1. Off(w'.row) = Off(w.row) + BufSize
        BY <2>1, <3>3
      <4>2. Off(w'.row) + Len(w'.buf) + i = Off(w.row) + Len(w.buf) + i
        BY <1>2, <3>4, <4>1
      <4> QED  BY <3>2, <4>2
    <3>7. \A i \in 1 .. Len(Target') : Len(Target'[i].block) = BufSize
      BY <1>2, <3>1
    <3>8. AreBlocks(w.version, Target)'
      BY <2>1, <3>1 DEF AreBlocks
    <3> QED  BY <2>1, <3>1, <3>2, <3>4, <3>5, <3>6, <3>7, <3>8 DEF SaveProgress
  <2>5. RowsClean'
    <3> SUFFICES ASSUME ~w.missed, driver # "hive" PROVE RowsClean'
      BY <1>1, <2>1 DEF RowsClean
    <3>1. TableOf(w.version)'
      BY <1>1, <1>2, <1>4, <2>1, AfterFlush
    <3>2. w'.version \in 1 .. w'.version /\ w'.pc # "deferred"
      BY <1>2, <2>1, Sizes
    <3> QED  BY <3>1, <3>2 DEF RowsClean
  <2> QED  BY <1>3, <2>1, <2>2, <2>3, <2>4, <2>5 DEF SaveInv, SavedStays, SaveOkMeansStored
<1>5. CASE FlushFailed /\ w' = WriteFailed
  <2>1. /\ w'.pos = w.pos /\ w'.row = w.row /\ w'.buf = w.buf /\ w'.p = <<>> /\ w'.version = w.version
        /\ \/ w'.pc = "tar" /\ w'.missed = TRUE /\ w'.result = w.result
           \/ w'.pc = "deferred" /\ w'.missed = w.missed /\ w'.result = "error"
    BY <1>5 DEF SaveInv, TypeOK, WriteFailed
  <2>2. TypeOK'
    <3>1. <<>> \in Seq(Bytes)
      OBVIOUS
    <3>2. table' \in Seq(Rows) /\ csv' \in Seq(Rows)
      BY <1>5, FlushEffect DEF SaveInv
    <3> QED  BY <1>1, <1>5, <3>1, <3>2 DEF SaveInv, TypeOK, WriteFailed
  <2>3. WriterCounts'
    <3>1. w'.row + Len(w'.buf) + Len(w'.p) <= w'.pos
      <4>1. w'.row = w.row /\ w'.buf = w.buf /\ Len(w'.p) = 0 /\ w'.pos = w.pos
        BY <2>1
      <4> QED  BY <1>2, <4>1
    <3> QED  BY <2>1, <3>1 DEF WriterCounts
  <2>4. SaveProgress'
    BY <2>1 DEF SaveProgress
  <2>5. RowsClean'
    <3> SUFFICES ASSUME ~w'.missed, driver # "hive" PROVE RowsClean'
      BY <1>1 DEF RowsClean
    <3>1. w'.pc = "deferred" /\ w'.missed = w.missed
      BY <2>1
    <3>2. /\ TableOf(w.version)'
          /\ \A i \in DOMAIN table' :
               table'[i].id <= w.row /\ (table'[i].id < w.row => Len(table'[i].block) = BufSize)
      BY <1>1, <1>2, <1>5, <2>1, <3>1, AfterFlush
    <3>3. IsPiece(w.version, w.row, w.buf)
      BY <1>1, <1>2, <2>1, <3>1, BeforeFlush
    <3>4. IsPiece(w.version, w.row, w.buf)'
      BY <2>1, <3>3 DEF IsPiece
    <3>5. w'.version \in 1 .. w'.version
      BY <1>2, <2>1, Sizes
    <3> QED  BY <2>1, <3>2, <3>4, <3>5 DEF RowsClean
  <2> QED  BY <1>3, <2>1, <2>2, <2>3, <2>4, <2>5 DEF SaveInv, SavedStays, SaveOkMeansStored
<1> QED  BY <1>4, <1>5 DEF FlushInWrite

\* The flush in Close, of the last block or of what is left after an error.
LEMMA CloseSaves == SaveInv /\ CloseFlush => SaveInv'
<1> SUFFICES ASSUME SaveInv, CloseFlush PROVE SaveInv'
  OBVIOUS
<1> DEFINE go == IF w.pc = "close" THEN "wrapup" ELSE "lastWrapup"
<1>1. w.pc \in {"close", "deferred"} /\ driver' = driver /\ hdfs' = hdfs /\ r' = r
  BY DEF CloseFlush, OutsideHdfs, WriterOnly
<1>2. /\ BufSize \in Nat /\ BufSize > 0 /\ w.buf \in Seq(Bytes) /\ Len(w.buf) \in Nat /\ Len(w.buf) <= BufSize
      /\ w.p \in Seq(Bytes) /\ Len(w.p) \in Nat /\ w.row \in Nat /\ w.pos \in Nat /\ w.pos <= FileLen
      /\ FileLen \in Nat /\ w.version \in 1 .. Saves /\ Off(w.row) \in Nat
      /\ w.row + Len(w.buf) + Len(w.p) <= w.pos
      /\ w.pc = "close" => w.p = <<>>
  <2>1. /\ TypeOK /\ w.row + Len(w.buf) + Len(w.p) <= w.pos
        /\ w.pc = "close" => w.p = <<>>
    BY <1>1 DEF SaveInv, WriterCounts
  <2> QED  BY <2>1, WriterTypes, Sizes
<1>3. /\ w.result = "ok" => w.pc = "deferred" /\ (~w.missed => w.buf = <<>>)
      /\ w.result = "ok" /\ driver = "hive" => csv = NoTable
  BY <1>1 DEF SaveInv, SavedStays
<1>4. ASSUME w.pc = "close", ~w.missed
      PROVE  /\ w.result = "none" /\ AreBlocks(w.version, Target) /\ Len(Target) = w.row
             /\ FileLen = Off(w.row) + Len(w.buf)
  <2>1. /\ w.result = "none" /\ AreBlocks(w.version, Target) /\ Len(Target) = w.row
        /\ w.pos = Off(w.row) + Len(w.buf) + Len(w.p) /\ w.pos = FileLen
    BY <1>4 DEF SaveInv, SaveProgress
  <2>2. Len(w.p) = 0
    BY <1>2, <1>4
  <2> QED  BY <1>2, <2>1, <2>2
<1>5. CASE w.buf = <<>> /\ w' = [w EXCEPT !.pc = go] /\ UNCHANGED <<table, csv>>
  <2>1. /\ w'.pc = go /\ w'.pos = w.pos /\ w'.row = w.row /\ w'.buf = w.buf
        /\ w'.p = w.p /\ w'.version = w.version /\ w'.missed = w.missed /\ w'.result = w.result
        /\ w'.older = w.older /\ w'.left = w.left
    BY <1>5 DEF SaveInv, TypeOK
  <2>2. TypeOK'
    BY <1>1, <1>5 DEF SaveInv, TypeOK
  <2>3. WriterCounts'
    BY <1>1, <2>1 DEF SaveInv, WriterCounts
  <2>4. SaveProgress'
    <3> SUFFICES ASSUME ~w.missed, w.pc = "close" PROVE SaveProgress'
      BY <2>1 DEF SaveProgress
    <3>1. Target' = Target
      BY <1>1, <1>5 DEF Target
    <3>2. w.result = "none" /\ AreBlocks(w.version, Target) /\ Off(Len(Target)) = FileLen
      BY <1>2, <1>4, <1>5
    <3>3. Off(Len(Target)) \in FileLen .. (FileLen + BufSize - 1)
      BY <1>2, <3>2
    <3>4. IsWhole(w.version, Target)'
      BY <2>1, <3>1, <3>2, <3>3 DEF IsWhole, AreBlocks
    <3> QED  BY <1>5, <2>1, <3>2, <3>4 DEF SaveProgress, IsWhole
  <2>5. RowsClean'
    BY <1>1, <1>5, <2>1 DEF SaveInv, RowsClean, TableOf
  <2>6. SavedStays' /\ SaveOkMeansStored'
    <3>1. w.result = "ok" /\ ~w.missed => IsWhole(w.version, Newer(table))' /\ (w'.older > 0 => w'.left)
      BY <1>5, <2>1 DEF SaveInv, SaveOkMeansStored, IsWhole, AreBlocks, Newer
    <3> QED  BY <1>1, <1>3, <1>5, <2>1, <3>1 DEF SavedStays, SaveOkMeansStored
  <2> QED  BY <2>2, <2>3, <2>4, <2>5, <2>6 DEF SaveInv
<1>6. CASE w.buf # <<>> /\ Flushed /\ w' = [w EXCEPT !.pc = go, !.buf = <<>>, !.row = @ + 1]
  <2>1. /\ w'.pc = go /\ w'.pos = w.pos /\ w'.row = w.row + 1 /\ w'.buf = <<>>
        /\ w'.p = w.p /\ w'.version = w.version /\ w'.missed = w.missed /\ w'.result = w.result
    BY <1>6 DEF SaveInv, TypeOK
  <2>2. Len(w.buf) \in 1 .. BufSize
    BY <1>2, <1>6
  <2>a. PICK a \in Nat, b \in Nat : a = Len(w.buf) /\ b = Len(w.p)
    BY <1>2
  <2>b. /\ a >= 1 /\ w.row + a + b <= w.pos /\ w.pos <= FileLen
        /\ w.row \in Nat /\ w.pos \in Nat /\ FileLen \in Nat
    BY <1>2, <2>2, <2>a
  <2>c. w.row + 1 \in 0 .. FileLen /\ (w.row + 1) + 0 + b <= w.pos
    BY <2>b
  <2>3. TypeOK'
    <3>1. w.row + 1 \in 0 .. FileLen /\ <<>> \in Seq(Bytes) /\ Len(<<>>) <= BufSize
      BY <2>c, Sizes
    <3>2. table' \in Seq(Rows) /\ csv' \in Seq(Rows)
      BY <1>6, FlushEffect DEF SaveInv
    <3>3. w' = [w EXCEPT !.pc = w'.pc, !.buf = <<>>, !.row = w.row + 1]
      BY <1>6, <2>1
    <3>4. w'.pc \in {"wrapup", "lastWrapup"}
      BY <2>1
    <3> QED  BY <1>1, <2>1, <3>1, <3>2, <3>3, <3>4 DEF SaveInv, TypeOK
  <2>4. WriterCounts'
    <3>1. w'.row + Len(w'.buf) + Len(w'.p) <= w'.pos
      <4>1. w'.row = w.row + 1 /\ Len(w'.buf) = 0 /\ Len(w'.p) = b /\ w'.pos = w.pos
        BY <2>1, <2>a
      <4> QED  BY <2>c, <4>1
    <3> QED  BY <2>1, <3>1 DEF WriterCounts
  <2>5. SaveProgress'
    <3> SUFFICES ASSUME ~w.missed, w.pc = "close" PROVE SaveProgress'
      BY <2>1 DEF SaveProgress
    <3>1. AreBlocks(w.version, Target') /\ Len(Target') = w.row + 1
      BY <1>1, <1>6, NextBlockStored
    <3>2. w.result = "none" /\ FileLen = Off(w.row) + Len(w.buf)
      BY <1>4
    <3>3. Off(w.row + 1) = Off(w.row) + BufSize
      BY <1>2, OffNext
    <3>4. Off(w.row + 1) \in FileLen .. (FileLen + BufSize - 1)
      <4>1. PICK o \in Nat : o = Off(w.row)
        BY <1>2
      <4>2. FileLen = o + a /\ a \in 1 .. BufSize
        BY <2>2, <2>a, <3>2, <4>1
      <4>3. o + BufSize \in FileLen .. (FileLen + BufSize - 1)
        BY <4>2, Sizes
      <4> QED  BY <3>3, <4>1, <4>3
    <3>5. IsWhole(w.version, Target)'
      BY <2>1, <3>1, <3>4 DEF IsWhole, AreBlocks
    <3> QED  BY <2>1, <3>2, <3>5 DEF SaveProgress, IsWhole
  <2>6. RowsClean'
    <3> SUFFICES ASSUME ~w.missed, driver # "hive" PROVE RowsClean'
      BY <1>1, <2>1 DEF RowsClean
    <3>1. TableOf(w.version)'
      BY <1>1, <1>6, <2>1, AfterFlush
    <3>2. w'.version \in 1 .. w'.version /\ w'.pc # "deferred"
      BY <1>2, <2>1, Sizes
    <3> QED  BY <3>1, <3>2 DEF RowsClean
  <2>7. w'.result = "ok" => w'.missed /\ w'.pc = "lastWrapup" /\ driver' # "hive"
    BY <1>1, <1>3, <1>6, <2>1 DEF Flushed
  <2> QED  BY <2>3, <2>4, <2>5, <2>6, <2>7 DEF SaveInv, SavedStays, SaveOkMeansStored
<1>7. CASE w.buf # <<>> /\ FlushFailed /\ w' = Closed(FALSE)
  <2>1. /\ w'.pos = w.pos /\ w'.row = w.row /\ w'.buf = w.buf
        /\ w'.p = w.p /\ w'.version = w.version /\ w'.missed = w.missed
        /\ \/ w.pc = "close" /\ w'.pc = "deferred" /\ w'.result = "error"
           \/ w.pc = "deferred" /\ w'.pc = "ended" /\ w'.result = w.result
    BY <1>1, <1>7 DEF SaveInv, TypeOK, Closed
  <2>2. TypeOK'
    <3>1. table' \in Seq(Rows) /\ csv' \in Seq(Rows)
      BY <1>7, FlushEffect DEF SaveInv
    <3> QED  BY <1>1, <1>7, <3>1 DEF SaveInv, TypeOK, Closed
  <2>3. WriterCounts'
    BY <1>2, <2>1 DEF WriterCounts
  <2>4. SaveProgress'
    BY <2>1 DEF SaveProgress
  <2>5. RowsClean'
    <3> SUFFICES ASSUME ~w.missed, driver # "hive" PROVE RowsClean'
      BY <1>1, <2>1 DEF RowsClean
    <3>1. /\ TableOf(w.version)'
          /\ \A i \in DOMAIN table' :
               table'[i].id <= w.row /\ (table'[i].id < w.row => Len(table'[i].block) = BufSize)
      BY <1>1, <1>7, <2>1, AfterFlush
    <3>2. IsPiece(w.version, w.row, w.buf)
      BY <1>1, <1>7, BeforeFlush
    <3>3. IsPiece(w.version, w.row, w.buf)'
      BY <2>1, <3>2 DEF IsPiece
    <3>4. w'.version \in 1 .. w'.version
      BY <1>2, <2>1, Sizes
    <3> QED  BY <2>1, <3>1, <3>3, <3>4 DEF RowsClean
  <2>6. w'.result = "ok" => w'.missed /\ w'.pc = "ended" /\ (driver' = "hive" => csv' = NoTable)
    BY <1>1, <1>3, <1>7, <2>1 DEF FlushFailed
  <2> QED  BY <2>2, <2>3, <2>4, <2>5, <2>6 DEF SaveInv, SavedStays, SaveOkMeansStored
<1> QED  BY <1>5, <1>6, <1>7 DEF CloseFlush

\* Fields after a Close has returned, from a step of the upload.
ClosedSo(ok) ==
    /\ w'.pos = w.pos /\ w'.row = w.row /\ w'.buf = w.buf /\ w'.p = w.p /\ w'.version = w.version
    /\ w'.missed = w.missed /\ w'.older = w.older /\ w'.head = w.head /\ w'.loaded = w.loaded
    /\ w'.left \in BOOLEAN /\ (w.left => w'.left)
    /\ \/ w.pc \in {"wrapup", "rm"} /\ w'.pc = "deferred" /\ w'.result = IF ok THEN "ok" ELSE "error"
       \/ w.pc \in {"lastWrapup", "lastRm"} /\ w'.pc = "ended" /\ w'.result = w.result

\* Closed is that.
LEMMA ClosedIs ==
    ASSUME TypeOK, w.pc \in {"wrapup", "lastWrapup", "rm", "lastRm"}, NEW ok \in BOOLEAN,
           w' = Closed(ok) \/ w' = [Closed(ok) EXCEPT !.left = TRUE],
           driver' = driver, r' = r, table' \in Seq(Rows), csv' \in Seq(Rows), hdfs' \in Seq(Rows)
    PROVE  TypeOK' /\ ClosedSo(ok)
<1>1. PICK pc \in {"deferred", "ended"}, res \in {"none", "ok", "error", "crashed"}, left \in BOOLEAN :
        /\ w' = [w EXCEPT !.pc = pc, !.result = res, !.left = left]
        /\ w.left => left
        /\ \/ w.pc \in {"wrapup", "rm"} /\ pc = "deferred" /\ res = IF ok THEN "ok" ELSE "error"
           \/ w.pc \in {"lastWrapup", "lastRm"} /\ pc = "ended" /\ res = w.result
  <2> DEFINE res == IF ok THEN "ok" ELSE "error"
  <2>1. w.left \in BOOLEAN /\ w.result \in {"none", "ok", "error", "crashed"} /\ res \in {"ok", "error"}
        /\ w = [w EXCEPT !.left = w.left]
    BY DEF TypeOK
  <2>2. CASE w.pc \in {"wrapup", "rm"}
    <3>1. Closed(ok) = [w EXCEPT !.pc = "deferred", !.result = res]
      BY <2>2 DEF Closed
    <3>2. CASE w' = Closed(ok)
      <4>1. w' = [w EXCEPT !.pc = "deferred", !.result = res, !.left = w.left]
        BY <3>1, <3>2, <2>1 DEF TypeOK
      <4> QED  BY <2>1, <2>2, <4>1
    <3>3. CASE w' = [Closed(ok) EXCEPT !.left = TRUE]
      <4>1. w' = [w EXCEPT !.pc = "deferred", !.result = res, !.left = TRUE]
        BY <3>1, <3>3
      <4> QED  BY <2>1, <2>2, <4>1
    <3> QED  BY <3>2, <3>3
  <2>3. CASE w.pc \in {"lastWrapup", "lastRm"}
    <3>1. Closed(ok) = [w EXCEPT !.pc = "ended"]
      BY <2>3 DEF Closed
    <3>2. CASE w' = Closed(ok)
      <4>1. w' = [w EXCEPT !.pc = "ended", !.result = w.result, !.left = w.left]
        BY <3>1, <3>2, <2>1 DEF TypeOK
      <4> QED  BY <2>1, <2>3, <4>1
    <3>3. CASE w' = [Closed(ok) EXCEPT !.left = TRUE]
      <4>1. w' = [w EXCEPT !.pc = "ended", !.result = w.result, !.left = TRUE]
        BY <3>1, <3>3, <2>1 DEF TypeOK
      <4> QED  BY <2>1, <2>3, <4>1
    <3> QED  BY <3>2, <3>3
  <2> QED  BY <2>2, <2>3
<1>2. TypeOK'
  BY <1>1 DEF TypeOK
<1>3. /\ w'.pos = w.pos /\ w'.row = w.row /\ w'.buf = w.buf /\ w'.p = w.p /\ w'.version = w.version
      /\ w'.missed = w.missed /\ w'.older = w.older /\ w'.head = w.head /\ w'.loaded = w.loaded
      /\ w'.left = left /\ w'.pc = pc /\ w'.result = res
  BY <1>1 DEF TypeOK
<1> QED  BY <1>1, <1>2, <1>3 DEF ClosedSo

\* Close returns at the end of the upload, or where there is none.
LEMMA CloseReturns ==
    ASSUME SaveInv, TypeOK', NEW ok \in BOOLEAN, ClosedSo(ok), driver' = driver, table' = table,
           ok /\ ~w.missed /\ w.pc \in {"wrapup", "rm"} =>
               w.buf = <<>> /\ IsWhole(w.version, Newer(table)) /\ (w.older > 0 => w.left),
           driver # "hive" /\ ~w.missed /\ w.pc \in {"wrapup", "rm"} => w.buf = <<>>,
           driver = "hive" => csv' = NoTable
    PROVE  SaveInv'
<1>1. WriterCounts' /\ SaveProgress'
  BY DEF SaveInv, WriterCounts, SaveProgress, ClosedSo
<1>2. Newer(table)' = Newer(table)
  BY DEF Newer, ClosedSo
<1>3. IsWhole(w.version, Newer(table)) => IsWhole(w.version, Newer(table))'
  BY <1>2 DEF IsWhole, AreBlocks, ClosedSo
<1>4. SaveOkMeansStored'
  <2> SUFFICES ASSUME w'.result = "ok", ~w'.missed
               PROVE  IsWhole(w.version, Newer(table))' /\ (w'.older > 0 => w'.left)
    BY DEF SaveOkMeansStored
  <2>1. CASE w.pc \in {"wrapup", "rm"}
    BY <1>3, <2>1 DEF ClosedSo
  <2>2. CASE w.pc \in {"lastWrapup", "lastRm"}
    <3>1. IsWhole(w.version, Newer(table)) /\ (w.older > 0 => w.left)
      BY <2>2 DEF SaveInv, SaveOkMeansStored, ClosedSo
    <3> QED  BY <1>3, <3>1 DEF ClosedSo
  <2> QED  BY <2>1, <2>2 DEF ClosedSo
<1>5. SavedStays'
  <2> SUFFICES ASSUME w'.result = "ok" PROVE SavedStays'
    BY DEF SavedStays
  <2>1. CASE w.pc \in {"wrapup", "rm"}
    BY <2>1 DEF SavedStays, ClosedSo
  <2>2. CASE w.pc \in {"lastWrapup", "lastRm"}
    BY <2>2 DEF SaveInv, SavedStays, ClosedSo
  <2> QED  BY <2>1, <2>2 DEF ClosedSo
<1>6. RowsClean'
  <2> SUFFICES ASSUME ~w.missed, driver # "hive" PROVE RowsClean'
    BY DEF RowsClean, ClosedSo
  <2>1. w'.pc = "deferred" => w'.buf = <<>>
    BY DEF ClosedSo
  <2>2. w'.version = w.version
    BY DEF ClosedSo
  <2> QED  BY <2>1, <2>2 DEF SaveInv, RowsClean, TableOf
<1> QED  BY <1>1, <1>4, <1>5, <1>6 DEF SaveInv

\* What is stored with nothing older before it.
LEMMA NewerIsAll ==
    ASSUME NEW v, NEW rows \in Seq(Rows), w.older = 0
    PROVE  IsWhole(v, Newer(rows)) <=> IsWhole(v, rows)
<1>1. SubSeq(rows, 1, Len(rows)) = rows
  BY SubSeqFull
<1>2. Newer(rows) = rows
  BY <1>1 DEF Newer
<1> QED  BY <1>2

\* The table after a save that went well, when nothing older was loaded.
LEMMA StoredWhole ==
    ASSUME SaveInv, w.result = "ok", ~w.missed, w.older = 0
    PROVE  IsWhole(w.version, table)
<1>1. IsWhole(w.version, Newer(table)) /\ table \in Seq(Rows)
  BY WriterTypes DEF SaveInv, SaveOkMeansStored
<1> QED  BY <1>1, NewerIsAll

\* Nothing is uploaded but for hive.
LEMMA NoopSaves == SaveInv /\ StageInv /\ noopWrapUp => SaveInv'
<1> SUFFICES ASSUME SaveInv, StageInv, noopWrapUp PROVE SaveInv'
  OBVIOUS
<1>1. /\ w.pc \in {"wrapup", "lastWrapup"} /\ driver # "hive" /\ w' = Closed(TRUE)
      /\ driver' = driver /\ r' = r /\ table' = table /\ csv' = csv /\ hdfs' = hdfs
  BY DEF noopWrapUp, OutsideHdfs, WriterOnly
<1>2. TypeOK /\ table \in Seq(Rows) /\ csv \in Seq(Rows) /\ hdfs \in Seq(Rows)
  BY DEF SaveInv, TypeOK
<1>3. TypeOK' /\ ClosedSo(TRUE)
  BY <1>1, <1>2, ClosedIs
<1>4. w.older = 0
  BY <1>1 DEF StageInv, Staging
<1>5. ASSUME w.pc = "wrapup", ~w.missed PROVE w.buf = <<>> /\ IsWhole(w.version, Newer(table))
  <2>1. w.buf = <<>> /\ IsWhole(w.version, Target) /\ Target = table
    BY <1>1, <1>5 DEF SaveInv, SaveProgress, Target
  <2> QED  BY <1>2, <1>4, <2>1, NewerIsAll
<1>6. /\ TRUE /\ ~w.missed /\ w.pc \in {"wrapup", "rm"} =>
           w.buf = <<>> /\ IsWhole(w.version, Newer(table)) /\ (w.older > 0 => w.left)
      /\ driver # "hive" /\ ~w.missed /\ w.pc \in {"wrapup", "rm"} => w.buf = <<>>
      /\ driver = "hive" => csv' = NoTable
  BY <1>1, <1>4, <1>5
<1> QED  BY <1>1, <1>3, <1>6, CloseReturns

\* Fields after a step of the upload.
UploadSo(pc) ==
    /\ w'.pc = pc /\ w'.pos = w.pos /\ w'.row = w.row /\ w'.buf = w.buf /\ w'.p = w.p
    /\ w'.version = w.version /\ w'.missed = w.missed /\ w'.left = w.left /\ w'.result = w.result

\* A step of the upload to hive that is not the last one.
LEMMA UploadSaves ==
    ASSUME SaveInv, TypeOK', driver = "hive", driver' = driver, NEW pc, UploadSo(pc),
           pc \in {"load", "rm", "lastCopy", "lastLoad", "lastRm"},
           w.result = "ok" => pc # "lastLoad" /\ w.pc \in {"lastWrapup", "lastCopy"} /\ pc \in {"lastCopy", "lastRm"}
                              /\ table' = table /\ csv' = csv /\ w'.older = w.older
    PROVE  SaveInv'
<1>1. WriterCounts' /\ SaveProgress' /\ RowsClean'
  BY DEF SaveInv, WriterCounts, SaveProgress, RowsClean, UploadSo
<1>2. SavedStays'
  BY DEF SaveInv, SavedStays, UploadSo
<1>3. SaveOkMeansStored'
  BY DEF SaveInv, SaveOkMeansStored, UploadSo, IsWhole, AreBlocks, Newer
<1> QED  BY <1>1, <1>2, <1>3 DEF SaveInv

\* hdfs dfs -mkdir.
LEMMA MkdirSaves == SaveInv /\ Mkdir => SaveInv'
<1> SUFFICES ASSUME SaveInv, Mkdir PROVE SaveInv'
  OBVIOUS
<1>1. /\ w.pc \in {"wrapup", "lastWrapup"} /\ driver = "hive"
      /\ driver' = driver /\ r' = r /\ table' = table /\ hdfs' = hdfs
  BY DEF Mkdir, OutsideHdfs, WriterOnly
<1>2. TypeOK /\ table \in Seq(Rows) /\ csv \in Seq(Rows) /\ hdfs \in Seq(Rows) /\ NoTable \in Seq(Rows)
  BY NoTableRow DEF SaveInv, TypeOK
<1>3. CASE w' = Closed(FALSE) /\ csv' = NoTable
  <2>1. TypeOK' /\ ClosedSo(FALSE)
    BY <1>1, <1>2, <1>3, ClosedIs
  <2> QED  BY <1>1, <1>3, <2>1, CloseReturns
<1>4. CASE w' = [w EXCEPT !.pc = IF w.pc = "wrapup" THEN "copy" ELSE "lastCopy"] /\ csv' = csv
  <2>1. TypeOK'
    BY <1>1, <1>4 DEF SaveInv, TypeOK
  <2>2. UploadSo(IF w.pc = "wrapup" THEN "copy" ELSE "lastCopy") /\ w'.older = w.older
    BY <1>4 DEF SaveInv, TypeOK, UploadSo
  <2>3. CASE w.pc = "lastWrapup"
    BY <1>1, <1>4, <2>1, <2>2, <2>3, UploadSaves
  <2>4. CASE w.pc = "wrapup"
    <3>1. w.result # "ok"
      BY <2>4 DEF SaveInv, SavedStays
    <3>2. WriterCounts' /\ RowsClean' /\ SavedStays' /\ SaveOkMeansStored'
      BY <1>1, <2>2, <2>4, <3>1 DEF SaveInv, WriterCounts, RowsClean, SavedStays, SaveOkMeansStored, UploadSo
    <3>3. Target' = Target
      BY <1>1, <1>4 DEF Target
    <3>4. SaveProgress'
      BY <2>2, <2>4, <3>3 DEF SaveInv, SaveProgress, UploadSo, IsWhole, AreBlocks
    <3> QED  BY <2>1, <3>2, <3>4 DEF SaveInv
  <2> QED  BY <1>1, <2>3, <2>4
<1> QED  BY <1>3, <1>4 DEF Mkdir

\* hdfs dfs -copyFromLocal.
LEMMA CopySaves == SaveInv /\ StageInv /\ CopyFromLocal => SaveInv'
<1> SUFFICES ASSUME SaveInv, StageInv, CopyFromLocal PROVE SaveInv'
  OBVIOUS
<1>1. /\ w.pc \in {"copy", "lastCopy"} /\ driver' = driver /\ r' = r /\ table' = table /\ csv' = csv
  BY DEF CopyFromLocal, WriterOnly
<1>2. driver = "hive"
  BY <1>1 DEF StageInv, Staging
<1>3. /\ TypeOK /\ table \in Seq(Rows) /\ csv \in Seq(Rows) /\ hdfs \in Seq(Rows) /\ Len(hdfs) \in Nat
      /\ Len(csv) \in Nat
  BY WriterTypes DEF SaveInv
<1>4. w.result = "ok" => w.pc = "lastCopy" /\ csv = NoTable
  BY <1>1, <1>2 DEF SaveInv, SavedStays
<1>5. CASE /\ csv # NoTable /\ hdfs' = hdfs \o csv
           /\ w' = [w EXCEPT !.pc = IF w.pc = "copy" THEN "load" ELSE "lastLoad", !.older = Len(hdfs)]
  <2>1. hdfs' \in Seq(Rows)
    BY <1>3, <1>5
  <2>2. TypeOK'
    BY <1>1, <1>3, <1>5, <2>1 DEF TypeOK
  <2>3. UploadSo(IF w.pc = "copy" THEN "load" ELSE "lastLoad")
    BY <1>3, <1>5 DEF TypeOK, UploadSo
  <2> QED  BY <1>1, <1>2, <1>4, <1>5, <2>2, <2>3, UploadSaves
<1>6. CASE /\ hdfs' \in {hdfs} \cup {hdfs \o SubSeq(csv, 1, k) : k \in {k \in 1 .. Len(csv) : csv # NoTable}}
           /\ w' = [w EXCEPT !.pc = IF w.pc = "copy" THEN "rm" ELSE "lastRm", !.loaded = FALSE]
  <2>1. hdfs' \in Seq(Rows)
    <3>1. \A k \in 1 .. Len(csv) : SubSeq(csv, 1, k) \in Seq(Rows)
      BY <1>3
    <3>2. \A k \in 1 .. Len(csv) : hdfs \o SubSeq(csv, 1, k) \in Seq(Rows)
      BY <1>3, <3>1
    <3> QED  BY <1>3, <1>6, <3>2
  <2>2. TypeOK'
    BY <1>1, <1>3, <1>6, <2>1 DEF TypeOK
  <2>3. UploadSo(IF w.pc = "copy" THEN "rm" ELSE "lastRm") /\ w'.older = w.older
    BY <1>3, <1>6 DEF TypeOK, UploadSo
  <2> QED  BY <1>1, <1>2, <1>4, <1>6, <2>2, <2>3, UploadSaves
<1> QED  BY <1>5, <1>6 DEF CopyFromLocal

\* LOAD DATA.
LEMMA LoadSaves == SaveInv /\ StageInv /\ LoadData => SaveInv'
<1> SUFFICES ASSUME SaveInv, StageInv, LoadData PROVE SaveInv'
  OBVIOUS
<1>1. /\ w.pc \in {"load", "lastLoad"} /\ driver' = driver /\ r' = r /\ csv' = csv
  BY DEF LoadData, WriterOnly
<1>2. PICK ok \in BOOLEAN :
        /\ w' = [w EXCEPT !.pc = IF w.pc = "load" THEN "rm" ELSE "lastRm", !.loaded = ok]
        /\ (table' = hdfs /\ hdfs' = <<>>) \/ (table' = table /\ hdfs' = hdfs)
  BY DEF LoadData
<1>3. driver = "hive" /\ w.result # "ok"
  BY <1>1 DEF StageInv, Staging, SaveInv, SavedStays
<1>4. TypeOK'
  <2>1. PICK pc \in {"rm", "lastRm"} : w' = [w EXCEPT !.pc = pc, !.loaded = ok]
    BY <1>2
  <2>2. <<>> \in Seq(Rows) /\ hdfs \in Seq(Rows) /\ table \in Seq(Rows)
    BY DEF SaveInv, TypeOK
  <2>3. table' \in Seq(Rows) /\ hdfs' \in Seq(Rows)
    BY <1>2, <2>2
  <2> QED  BY <1>1, <2>1, <2>3 DEF SaveInv, TypeOK
<1>5. UploadSo(IF w.pc = "load" THEN "rm" ELSE "lastRm")
  BY <1>2 DEF SaveInv, TypeOK, UploadSo
<1> QED  BY <1>1, <1>3, <1>4, <1>5, UploadSaves

\* The deferred functions of the upload.
LEMMA RmSaves == SaveInv /\ StageInv /\ RmStaging => SaveInv'
<1> SUFFICES ASSUME SaveInv, StageInv, RmStaging PROVE SaveInv'
  OBVIOUS
<1>1. /\ w.pc \in {"rm", "lastRm"} /\ driver' = driver /\ r' = r /\ table' = table /\ csv' = NoTable
      /\ hdfs' \in {<<>>, hdfs}
      /\ w' = Closed(w.loaded) \/ w' = [Closed(w.loaded) EXCEPT !.left = TRUE]
  BY DEF RmStaging, WriterOnly
<1>2. /\ TypeOK /\ w.loaded \in BOOLEAN
      /\ table' \in Seq(Rows) /\ csv' \in Seq(Rows) /\ hdfs' \in Seq(Rows)
  <2>1. /\ TypeOK /\ w.loaded \in BOOLEAN /\ table \in Seq(Rows) /\ hdfs \in Seq(Rows)
        /\ <<>> \in Seq(Rows)
    BY DEF SaveInv, TypeOK
  <2>2. hdfs' \in Seq(Rows)
    BY <1>1, <2>1
  <2>3. table' \in Seq(Rows) /\ csv' \in Seq(Rows)
    BY <1>1, <2>1, NoTableRow
  <2> QED  BY <2>1, <2>2, <2>3, Zenon
<1>3. TypeOK' /\ ClosedSo(w.loaded)
  BY <1>1, <1>2, ClosedIs
<1>4. driver = "hive"
  BY <1>1 DEF StageInv, Staging
<1>5. w.loaded /\ ~w.missed /\ w.pc \in {"wrapup", "rm"} =>
        w.buf = <<>> /\ IsWhole(w.version, Newer(table)) /\ (w.older > 0 => w.left)
  <2>1. w.older > 0 => w.left
    BY DEF StageInv, Staging
  <2> QED  BY <1>1, <2>1 DEF StageInv, UploadProgress
<1> QED  BY <1>1, <1>2, <1>3, <1>4, <1>5, CloseReturns

\* What was appended is behind what was there.
LEMMA TailOfConcat ==
    ASSUME NEW s \in Seq(Rows), NEW u \in Seq(Rows)
    PROVE  SubSeq(s \o u, Len(s) + 1, Len(s \o u)) = u
<1>1. /\ s \o u \in Seq(Rows) /\ Len(s) \in Nat /\ Len(u) \in Nat /\ Len(s \o u) = Len(s) + Len(u)
      /\ \A i \in 1 .. Len(u) : (s \o u)[Len(s) + i] = u[i]
  <2>1. /\ s \o u \in Seq(Rows) /\ Len(s \o u) = Len(s) + Len(u)
        /\ \A i \in 1 .. Len(s) + Len(u) : (s \o u)[i] = IF i <= Len(s) THEN s[i] ELSE u[i - Len(s)]
    BY ConcatProperties
  <2>2. Len(s) \in Nat /\ Len(u) \in Nat
    OBVIOUS
  <2>3. ASSUME NEW i \in 1 .. Len(u) PROVE (s \o u)[Len(s) + i] = u[i]
    <3>1. /\ Len(s) + i \in 1 .. Len(s) + Len(u) /\ ~(Len(s) + i <= Len(s))
          /\ (Len(s) + i) - Len(s) = i
      BY <2>2
    <3> QED  BY <2>1, <3>1
  <2> QED  BY <2>1, <2>2, <2>3
<1>2. PICK x \in Seq(Rows), n \in Nat, m \in Nat : x = s \o u /\ n = Len(s) /\ m = Len(u)
  BY <1>1
<1>3. /\ x \in Seq(Rows) /\ Len(x) = n + m /\ \A i \in 1 .. m : x[n + i] = u[i]
  BY <1>1, <1>2
<1>4. /\ SubSeq(x, n + 1, n + m) \in Seq(Rows) /\ Len(SubSeq(x, n + 1, n + m)) = m
      /\ \A i \in 1 .. m : SubSeq(x, n + 1, n + m)[i] = x[n + i]
  BY <1>3
<1>5. \A i \in 1 .. Len(u) : SubSeq(x, n + 1, n + m)[i] = u[i]
  BY <1>2, <1>3, <1>4
<1>6. SubSeq(x, n + 1, n + m) = u
  BY <1>2, <1>4, <1>5, SeqEqual, Zenon
<1> QED  BY <1>2, <1>3, <1>6

-----------------------------------------------------------------------------
(* The staging directory. *)

\* The steps outside of the upload leave the directory as it is.
LEMMA StagePlain ==
    ASSUME SaveInv, StageInv, driver' = driver, hdfs' = hdfs, w'.older \in {w.older, 0}, w.older \in Nat,
           w'.left \/ (~w.left /\ w.pc \notin {"load", "rm", "lastLoad", "lastRm"}),
           w'.pc \notin {"copy", "load", "rm", "lastCopy", "lastLoad", "lastRm"},
           w'.result = "ok" => driver # "hive" \/ (w.result = "ok" /\ table' = table /\ w'.older = w.older),
           Len(table') \in Nat,
           driver = "hive" /\ csv' = <<>> => w'.row = 0,
           csv' # <<>> => csv'[1].id = 0
    PROVE  StageInv'
<1>1. UploadProgress'
  BY DEF UploadProgress
<1>2. driver' # "hive" => hdfs' = <<>> /\ w'.older = 0
  BY DEF StageInv, Staging
<1>3. ~w'.left => hdfs' = <<>> /\ w'.older = 0
  BY DEF StageInv, Staging
<1>4. w'.result = "ok" => w'.older <= Len(table') /\ (w'.older > 0 => table'[1].id = 0)
  <2>1. CASE driver # "hive"
    BY <1>2, <2>1
  <2>2. CASE w.result = "ok" /\ table' = table /\ w'.older = w.older
    BY <2>2 DEF StageInv, Staging
  <2> QED  BY <2>1, <2>2
<1>5. hdfs' # <<>> => hdfs'[1].id = 0
  BY DEF StageInv, Staging
<1>6. Staging'
  BY <1>2, <1>3, <1>4, <1>5 DEF Staging
<1> QED  BY <1>1, <1>6 DEF StageInv

\* The temporary file begins with row 0.
LEMMA FirstRow ==
    ASSUME SaveInv, StageInv, Flushed \/ FlushFailed, w'.row \in {w.row, w.row + 1}, Flushed \/ w'.row = w.row
    PROVE  /\ driver = "hive" /\ csv' = <<>> => w'.row = 0
           /\ csv' # <<>> => csv'[1].id = 0
<1>1. /\ csv \in Seq(Rows) /\ w.row \in 0 .. FileLen /\ NewRow \in Rows
      /\ [id |-> w.row, block |-> Garbled] \in Rows
  <2>1. w.row \in 0 .. FileLen /\ w.buf \in Seq(Bytes) /\ Garbled \in Seq(Bytes) /\ csv \in Seq(Rows)
    BY DEF SaveInv, TypeOK, Garbled, Bytes
  <2> QED  BY <2>1 DEF NewRow, Rows
<1>2. /\ driver = "hive" /\ csv = <<>> => w.row = 0
      /\ csv # <<>> => csv[1].id = 0
  BY DEF StageInv, Staging
<1>3. NewRow.id = w.row /\ [id |-> w.row, block |-> Garbled].id = w.row
  BY DEF NewRow
<1>4. PICK x \in Rows : /\ x.id = w.row
                        /\ csv' = csv \/ (driver = "hive" /\ csv' = Append(csv, x))
                        /\ csv' = csv /\ driver = "hive" /\ csv = <<>> => w'.row = w.row
  <2>1. CASE Flushed /\ driver = "hive" /\ csv' = Append(csv, NewRow)
    <3>1. csv' # csv
      BY <1>1, <2>1
    <3> QED  BY <1>1, <1>3, <2>1, <3>1
  <2>2. CASE Flushed /\ driver = "hive" /\ HalfLine /\ csv' = csv
    BY <1>1, <1>3, <2>2 DEF HalfLine
  <2>3. CASE driver # "hive" /\ csv' = csv
    BY <1>1, <1>3, <2>3
  <2>4. CASE FlushFailed /\ driver = "hive" /\ w'.row = w.row
    <3>1. csv' \in {csv, Append(csv, [id |-> w.row, block |-> Garbled])}
      BY <2>4 DEF FlushFailed
    <3> QED  BY <1>1, <1>3, <2>4, <3>1
  <2> QED  BY <2>1, <2>2, <2>3, <2>4 DEF Flushed, FlushFailed
<1>5. CASE csv' = csv
  BY <1>2, <1>4, <1>5
<1>6. CASE driver = "hive" /\ csv' = Append(csv, x)
  <2>1. csv' # <<>> /\ csv'[1] = IF csv = <<>> THEN x ELSE csv[1]
    BY <1>1, <1>4, <1>6
  <2> QED  BY <1>2, <1>4, <1>6, <2>1
<1> QED  BY <1>4, <1>5, <1>6

\* The staging directory is empty at first.
LEMMA InitStages == Init => StageInv
<1> SUFFICES ASSUME Init PROVE StageInv
  OBVIOUS
<1>1. /\ w.pc = "drop" /\ w.result = "none" /\ w.older = 0 /\ w.row = 0 /\ hdfs = <<>> /\ csv = NoTable
  BY DEF Init, NewWriters
<1>2. csv # <<>> /\ csv[1].id = 0
  BY <1>1 DEF NoTable
<1> QED  BY <1>1, <1>2 DEF StageInv, UploadProgress, Staging

\* What every step outside of the upload does to the staging directory.
LEMMA OthersStage ==
    ASSUME SaveInv, StageInv, SaveInv',
           dropTableIfExists \/ createTable \/ Write \/ Fill \/ FlushInWrite \/ TarExit \/ CloseFlush
             \/ noopWrapUp \/ Crash \/ SaveAgain
    PROVE  StageInv'
<1>0. /\ w.older \in Nat /\ Len(table') \in Nat /\ w.left \in BOOLEAN
      /\ NoTable # <<>> /\ NoTable[1].id = 0
  <2>1. table' \in Seq(Rows) /\ w.left \in BOOLEAN
    BY DEF SaveInv, TypeOK
  <2>2. NoTable # <<>> /\ NoTable[1].id = 0
    BY DEF NoTable
  <2> QED  BY <2>1, <2>2, WriterTypes DEF SaveInv
<1>a. /\ driver = "hive" /\ csv = <<>> => w.row = 0
      /\ csv # <<>> => csv[1].id = 0
  BY DEF StageInv, Staging
<1>1. CASE dropTableIfExists
  <2>1. /\ w.pc = "drop" /\ driver' = driver /\ hdfs' = hdfs /\ csv' = csv
        /\ w'.pc \in {"create", "ended"} /\ w'.older = w.older /\ w'.left = w.left /\ w'.row = w.row
        /\ w'.result # "ok"
    <3>1. w.result = "none"
      BY <1>1 DEF SaveInv, WriterCounts, dropTableIfExists
    <3> QED  BY <1>1, <3>1 DEF dropTableIfExists, OutsideHdfs, WriterOnly, WriterEnds, SaveInv, TypeOK
  <2> QED  BY <1>0, <1>a, <2>1, StagePlain
<1>2. CASE createTable
  <2>1. /\ w.pc = "create" /\ driver' = driver /\ hdfs' = hdfs /\ csv' \in {<<>>, NoTable}
        /\ w'.pc \in {"tar", "ended"} /\ w'.older = w.older /\ w'.left = w.left /\ w'.row = w.row
        /\ w'.result # "ok" /\ w.pos = 0
    <3>1. w.result = "none" /\ w.pos = 0
      BY <1>2 DEF SaveInv, WriterCounts, createTable
    <3> QED  BY <1>2, <3>1 DEF createTable, OutsideHdfs, WriterOnly, WriterEnds, SaveInv, TypeOK
  <2>2. w.row = 0
    <3>1. w.row + Len(w.buf) + Len(w.p) <= 0 /\ w.row \in Nat /\ Len(w.buf) \in Nat /\ Len(w.p) \in Nat
      BY <2>1, WriterTypes DEF SaveInv, WriterCounts
    <3> QED  BY <3>1
  <2> QED  BY <1>0, <2>1, <2>2, StagePlain
<1>3. CASE Write \/ Fill \/ TarExit
  <2>1. /\ w.pc \in {"tar", "fill"} /\ driver' = driver /\ hdfs' = hdfs /\ csv' = csv
        /\ w'.pc \in {"tar", "fill", "flush", "close", "deferred"}
        /\ w'.older = w.older /\ w'.left = w.left /\ w'.row = w.row
        /\ w'.result \in {w.result, "error"}
    <3>1. CASE Write
      BY <3>1 DEF Write, OutsideHdfs, WriterOnly, SaveInv, TypeOK
    <3>2. CASE Fill
      BY <3>2 DEF Fill, OutsideHdfs, WriterOnly, SaveInv, TypeOK
    <3>3. CASE TarExit
      BY <3>3 DEF TarExit, OutsideHdfs, WriterOnly, SaveInv, TypeOK
    <3> QED  BY <1>3, <3>1, <3>2, <3>3
  <2>2. w'.result # "ok"
    BY <2>1 DEF SaveInv, SavedStays
  <2> QED  BY <1>0, <1>a, <2>1, <2>2, StagePlain
<1>4. CASE FlushInWrite
  <2>1. /\ w.pc = "flush" /\ driver' = driver /\ hdfs' = hdfs
        /\ w'.pc \in {"tar", "fill", "deferred"}
        /\ w'.older = w.older /\ w'.left = w.left
        /\ w'.result \in {w.result, "error"}
        /\ (Flushed /\ w'.row = w.row + 1) \/ (FlushFailed /\ w'.row = w.row)
    <3>1. w.pc = "flush" /\ driver' = driver /\ hdfs' = hdfs
      BY <1>4 DEF FlushInWrite, OutsideHdfs, WriterOnly
    <3>2. CASE Flushed /\ w' = [w EXCEPT !.pc = IF w.p = <<>> THEN "tar" ELSE "fill", !.buf = <<>>, !.row = @ + 1]
      BY <3>1, <3>2 DEF SaveInv, TypeOK
    <3>3. CASE FlushFailed /\ w' = WriteFailed
      BY <3>1, <3>3 DEF SaveInv, TypeOK, WriteFailed
    <3> QED  BY <1>4, <3>2, <3>3 DEF FlushInWrite
  <2>2. w'.result # "ok"
    BY <2>1 DEF SaveInv, SavedStays
  <2>3. /\ driver = "hive" /\ csv' = <<>> => w'.row = 0
        /\ csv' # <<>> => csv'[1].id = 0
    BY <2>1, FirstRow
  <2> QED  BY <1>0, <2>1, <2>2, <2>3, StagePlain
<1>5. CASE CloseFlush
  <2>1. /\ w.pc \in {"close", "deferred"} /\ driver' = driver /\ hdfs' = hdfs
        /\ w'.pc \in {"wrapup", "lastWrapup", "deferred", "ended"}
        /\ w'.older = w.older /\ w'.left = w.left
        /\ w'.result \in {w.result, "error"}
        /\ \/ csv' = csv /\ table' = table /\ w'.row = w.row
           \/ Flushed /\ w'.row = w.row + 1
           \/ FlushFailed /\ w'.row = w.row
    <3>1. w.pc \in {"close", "deferred"} /\ driver' = driver /\ hdfs' = hdfs
      BY <1>5 DEF CloseFlush, OutsideHdfs, WriterOnly
    <3> DEFINE go == IF w.pc = "close" THEN "wrapup" ELSE "lastWrapup"
    <3>2. CASE w.buf = <<>> /\ w' = [w EXCEPT !.pc = go] /\ UNCHANGED <<table, csv>>
      BY <3>1, <3>2 DEF SaveInv, TypeOK
    <3>3. CASE Flushed /\ w' = [w EXCEPT !.pc = go, !.buf = <<>>, !.row = @ + 1]
      BY <3>1, <3>3 DEF SaveInv, TypeOK
    <3>4. CASE FlushFailed /\ w' = Closed(FALSE)
      BY <3>1, <3>4 DEF SaveInv, TypeOK, Closed
    <3> QED  BY <1>5, <3>2, <3>3, <3>4 DEF CloseFlush
  <2>2. /\ driver = "hive" /\ csv' = <<>> => w'.row = 0
        /\ csv' # <<>> => csv'[1].id = 0
    BY <1>a, <2>1, FirstRow
  <2>3. driver = "hive" => table' = table
    BY <2>1 DEF Flushed, FlushFailed
  <2> QED  BY <1>0, <2>1, <2>2, <2>3, StagePlain
<1>6. CASE noopWrapUp
  <2>1. /\ w.pc \in {"wrapup", "lastWrapup"} /\ driver # "hive" /\ w' = Closed(TRUE)
        /\ driver' = driver /\ r' = r /\ csv' = csv /\ hdfs' = hdfs
    BY <1>6 DEF noopWrapUp, OutsideHdfs, WriterOnly
  <2>2. w'.pc \in {"deferred", "ended"} /\ w'.older = w.older /\ w'.left = w.left /\ w'.row = w.row
    BY <2>1 DEF Closed, SaveInv, TypeOK
  <2> QED  BY <1>0, <1>a, <2>1, <2>2, StagePlain
<1>7. CASE Crash
  <2>1. /\ driver' = driver /\ hdfs' = hdfs /\ csv' = NoTable
        /\ w'.pc = "ended" /\ w'.result = "crashed" /\ w'.older = w.older
        /\ w'.left = (w.left \/ w.pc \in {"load", "lastLoad", "rm", "lastRm"})
    BY <1>7 DEF Crash, OutsideHdfs, WriterOnly, SaveInv, TypeOK
  <2>2. w'.left \/ (~w.left /\ w.pc \notin {"load", "rm", "lastLoad", "lastRm"})
    BY <1>0, <2>1
  <2> QED  BY <1>0, <2>1, <2>2, StagePlain
<1>8. CASE SaveAgain
  <2>1. /\ w.pc = "ended" /\ driver' = driver /\ hdfs' = hdfs /\ csv' = NoTable
        /\ w'.pc = "drop" /\ w'.result = "none" /\ w'.older = 0 /\ w'.left = w.left
    BY <1>8 DEF SaveAgain, NewWriters
  <2> QED  BY <1>0, <2>1, StagePlain
<1> QED  BY <1>1, <1>2, <1>3, <1>4, <1>5, <1>6, <1>7, <1>8

\* What the upload itself does to it.
LEMMA UploadStages ==
    ASSUME SaveInv, StageInv, SaveInv', Mkdir \/ CopyFromLocal \/ LoadData \/ RmStaging
    PROVE  StageInv'
<1>0. /\ w.older \in Nat /\ Len(table') \in Nat /\ Len(table) \in Nat /\ w.left \in BOOLEAN
      /\ hdfs \in Seq(Rows) /\ csv \in Seq(Rows) /\ Len(hdfs) \in Nat /\ w.loaded \in BOOLEAN
      /\ NoTable # <<>> /\ NoTable[1].id = 0
  <2>1. table' \in Seq(Rows) /\ w.left \in BOOLEAN /\ w.loaded \in BOOLEAN
    BY DEF SaveInv, TypeOK
  <2>2. NoTable # <<>> /\ NoTable[1].id = 0
    BY DEF NoTable
  <2> QED  BY <2>1, <2>2, WriterTypes DEF SaveInv
<1>a. /\ driver = "hive" /\ csv = <<>> => w.row = 0
      /\ csv # <<>> => csv[1].id = 0
      /\ hdfs # <<>> => hdfs[1].id = 0
      /\ ~w.left => w.older = 0
  BY DEF StageInv, Staging
<1>1. CASE Mkdir
  <2>1. /\ w.pc \in {"wrapup", "lastWrapup"} /\ driver = "hive" /\ driver' = driver /\ table' = table /\ hdfs' = hdfs
    BY <1>1 DEF Mkdir, OutsideHdfs, WriterOnly
  <2>2. CASE w' = Closed(FALSE) /\ csv' = NoTable
    <3>1. /\ w'.pc \in {"deferred", "ended"} /\ w'.older = w.older /\ w'.left = w.left
          /\ w'.result = "ok" => w.result = "ok"
      BY <2>1, <2>2 DEF Closed, SaveInv, TypeOK
    <3> QED  BY <1>0, <2>1, <2>2, <3>1, StagePlain
  <2>3. CASE w' = [w EXCEPT !.pc = IF w.pc = "wrapup" THEN "copy" ELSE "lastCopy"] /\ csv' = csv
    <3>1. /\ w'.pc \in {"copy", "lastCopy"} /\ w'.older = w.older /\ w'.left = w.left /\ w'.row = w.row
          /\ w'.result = w.result
      BY <2>3 DEF SaveInv, TypeOK
    <3>2. UploadProgress'
      BY <3>1 DEF UploadProgress
    <3>3. Staging'
      BY <2>1, <2>3, <3>1 DEF StageInv, Staging
    <3> QED  BY <3>2, <3>3 DEF StageInv
  <2> QED  BY <1>1, <2>2, <2>3 DEF Mkdir
<1>2. CASE CopyFromLocal
  <2>1. /\ w.pc \in {"copy", "lastCopy"} /\ driver' = driver /\ table' = table /\ csv' = csv
    BY <1>2 DEF CopyFromLocal, WriterOnly
  <2>2. driver = "hive" /\ (~w.left => hdfs = <<>>)
    BY <2>1 DEF StageInv, Staging
  <2>3. CASE /\ csv # NoTable /\ hdfs' = hdfs \o csv
             /\ w' = [w EXCEPT !.pc = IF w.pc = "copy" THEN "load" ELSE "lastLoad", !.older = Len(hdfs)]
    <3>1. /\ w'.pc = (IF w.pc = "copy" THEN "load" ELSE "lastLoad") /\ w'.older = Len(hdfs) /\ w'.left = w.left
          /\ w'.row = w.row /\ w'.result = w.result /\ w'.missed = w.missed /\ w'.version = w.version
          /\ w'.buf = w.buf
      BY <2>3 DEF SaveInv, TypeOK
    <3>2. w.result # "ok"
      BY <2>2, <2>3 DEF SaveInv, SavedStays
    <3>3. hdfs' # <<>> => hdfs'[1].id = 0
      <4>1. CASE hdfs = <<>>
        BY <1>0, <1>a, <2>3, <4>1
      <4>2. CASE hdfs # <<>>
        <5>1. hdfs'[1] = hdfs[1]
          BY <1>0, <2>3, <4>2
        <5> QED  BY <1>a, <4>2, <5>1
      <4> QED  BY <4>1, <4>2
    <3>4. Len(hdfs) <= Len(hdfs') /\ (hdfs = <<>> => Len(hdfs) = 0)
      <4>1. Len(hdfs') = Len(hdfs) + Len(csv) /\ Len(csv) \in Nat
        BY <1>0, <2>3
      <4> QED  BY <1>0, <4>1
    <3>5. Staging'
      BY <1>a, <2>1, <2>2, <3>1, <3>2, <3>3, <3>4 DEF Staging
    <3>6. UploadProgress'
      <4> SUFFICES ASSUME w.pc = "copy", ~w.missed PROVE UploadProgress'
        BY <2>1, <3>1 DEF UploadProgress
      <4>1. w.result = "none" /\ (~w.missed => w.buf = <<>> /\ IsWhole(w.version, csv))
        <5>1. Target = csv
          BY <2>2 DEF Target
        <5> QED  BY <5>1 DEF SaveInv, SaveProgress, WriterCounts
      <4>2. Newer(hdfs)' = csv
        <5>1. Newer(hdfs)' = SubSeq(hdfs', Len(hdfs) + 1, Len(hdfs'))
          BY <3>1 DEF Newer
        <5> QED  BY <1>0, <2>3, <5>1, TailOfConcat
      <4>3. ~w.missed => IsWhole(w.version, Newer(hdfs))'
        BY <3>1, <4>1, <4>2 DEF IsWhole, AreBlocks
      <4> QED  BY <3>1, <4>1, <4>3 DEF UploadProgress
    <3> QED  BY <3>5, <3>6 DEF StageInv
  <2>4. CASE /\ hdfs' \in {hdfs} \cup {hdfs \o SubSeq(csv, 1, k) : k \in {k \in 1 .. Len(csv) : csv # NoTable}}
             /\ w' = [w EXCEPT !.pc = IF w.pc = "copy" THEN "rm" ELSE "lastRm", !.loaded = FALSE]
    <3>1. /\ w'.pc = (IF w.pc = "copy" THEN "rm" ELSE "lastRm") /\ w'.older = w.older /\ w'.left = w.left
          /\ w'.row = w.row /\ w'.result = w.result /\ w'.missed = w.missed /\ w'.loaded = FALSE
          /\ w'.buf = w.buf
      BY <2>4 DEF SaveInv, TypeOK
    <3>2. hdfs' # <<>> => hdfs'[1].id = 0
      <4>1. CASE hdfs' = hdfs
        BY <1>a, <4>1
      <4>2. ASSUME NEW k \in 1 .. Len(csv), hdfs' = hdfs \o SubSeq(csv, 1, k) PROVE hdfs'[1].id = 0
        <5>1. PICK s : s = SubSeq(csv, 1, k)
          OBVIOUS
        <5>2. s \in Seq(Rows) /\ Len(s) = k /\ s[1] = csv[1] /\ csv # <<>> /\ k >= 1
          BY <1>0, <5>1
        <5>3. hdfs' = hdfs \o s
          BY <4>2, <5>1
        <5>4. hdfs'[1] = IF hdfs = <<>> THEN s[1] ELSE hdfs[1]
          BY <1>0, <5>2, <5>3
        <5> QED  BY <1>a, <5>2, <5>4
      <4> QED  BY <2>4, <4>1, <4>2
    <3>3. Staging'
      BY <1>a, <2>1, <2>2, <3>1, <3>2 DEF StageInv, Staging
    <3>4. UploadProgress'
      <4> SUFFICES ASSUME w.pc = "copy", ~w.missed PROVE UploadProgress'
        BY <2>1, <3>1 DEF UploadProgress
      <4>1. w.result = "none" /\ (~w.missed => w.buf = <<>>)
        BY DEF SaveInv, SaveProgress, WriterCounts
      <4> QED  BY <3>1, <4>1 DEF UploadProgress
    <3> QED  BY <3>3, <3>4 DEF StageInv
  <2> QED  BY <1>2, <2>3, <2>4 DEF CopyFromLocal
<1>3. CASE LoadData
  <2>1. /\ w.pc \in {"load", "lastLoad"} /\ driver' = driver /\ csv' = csv
    BY <1>3 DEF LoadData, WriterOnly
  <2>2. PICK ok \in BOOLEAN :
          /\ w' = [w EXCEPT !.pc = IF w.pc = "load" THEN "rm" ELSE "lastRm", !.loaded = ok]
          /\ (table' = hdfs /\ hdfs' = <<>>) \/ (~ok /\ table' = table /\ hdfs' = hdfs)
    BY <1>3 DEF LoadData
  <2>3. /\ w'.pc = (IF w.pc = "load" THEN "rm" ELSE "lastRm") /\ w'.older = w.older /\ w'.left = w.left
        /\ w'.row = w.row /\ w'.result = w.result /\ w'.missed = w.missed /\ w'.loaded = ok
        /\ w'.buf = w.buf /\ w'.version = w.version
    BY <2>2 DEF SaveInv, TypeOK
  <2>4. driver = "hive" /\ w.result # "ok" /\ w.older <= Len(hdfs)
    BY <2>1 DEF StageInv, Staging, SaveInv, SavedStays
  <2>5. hdfs' # <<>> => hdfs'[1].id = 0
    BY <1>a, <2>2
  <2>6. ok => w.older <= Len(table') /\ (w.older > 0 => table'[1].id = 0)
    <3> SUFFICES ASSUME ok PROVE w.older <= Len(table') /\ (w.older > 0 => table'[1].id = 0)
      OBVIOUS
    <3>1. table' = hdfs
      BY <2>2
    <3>2. w.older > 0 => hdfs # <<>>
      BY <1>0, <2>4
    <3> QED  BY <1>a, <2>4, <3>1, <3>2
  <2>7. Staging'
    BY <1>a, <2>1, <2>3, <2>4, <2>5, <2>6 DEF Staging
  <2>8. UploadProgress'
    <3> SUFFICES ASSUME w.pc = "load", ~w.missed PROVE UploadProgress'
      BY <2>1, <2>3 DEF UploadProgress
    <3>1. /\ w.result = "none" /\ (~w.missed => w.buf = <<>>)
          /\ ~w.missed => IsWhole(w.version, Newer(hdfs))
      BY DEF StageInv, UploadProgress
    <3>2. ok => Newer(table)' = Newer(hdfs)
      BY <2>2, <2>3 DEF Newer
    <3>3. ok /\ ~w.missed => IsWhole(w.version, Newer(table))'
      BY <2>3, <3>1, <3>2 DEF IsWhole, AreBlocks
    <3> QED  BY <2>3, <3>1, <3>3 DEF UploadProgress
  <2> QED  BY <2>7, <2>8 DEF StageInv
<1>4. CASE RmStaging
  <2>1. /\ w.pc \in {"rm", "lastRm"} /\ driver' = driver /\ table' = table /\ csv' = NoTable
    BY <1>4 DEF RmStaging, WriterOnly
  <2>2. driver = "hive"
    BY <2>1 DEF StageInv, Staging
  <2>3. /\ w'.pc \in {"deferred", "ended"} /\ w'.older = w.older /\ w'.row = w.row
        /\ w'.left \/ (w'.left = w.left /\ hdfs' = <<>>)
        /\ w'.result = "ok" => w.result = "ok" \/ (w.pc = "rm" /\ w.loaded)
    <3>1. CASE hdfs' = <<>> /\ w' = Closed(w.loaded)
      BY <2>1, <3>1 DEF Closed, SaveInv, TypeOK
    <3>2. CASE hdfs' = hdfs /\ w' = [Closed(w.loaded) EXCEPT !.left = TRUE]
      <4>1. CASE w.pc = "rm"
        <5>1. PICK res \in {"ok", "error"} : /\ w' = [w EXCEPT !.pc = "deferred", !.result = res, !.left = TRUE]
                                             /\ res = "ok" => w.loaded
          BY <3>2, <4>1 DEF Closed
        <5> QED  BY <4>1, <5>1 DEF SaveInv, TypeOK
      <4>2. CASE w.pc = "lastRm"
        <5>1. w' = [w EXCEPT !.pc = "ended", !.left = TRUE]
          BY <3>2, <4>2 DEF Closed
        <5> QED  BY <5>1 DEF SaveInv, TypeOK
      <4> QED  BY <2>1, <4>1, <4>2
    <3> QED  BY <1>4, <3>1, <3>2 DEF RmStaging
  <2>4. hdfs' \in {<<>>, hdfs}
    BY <1>4 DEF RmStaging
  <2>5. ~w'.left => hdfs' = <<>> /\ w'.older = 0
    BY <1>a, <2>3
  <2>6. w'.result = "ok" => w'.older <= Len(table') /\ (w'.older > 0 => table'[1].id = 0)
    BY <2>1, <2>3 DEF StageInv, Staging
  <2>7. Staging'
    BY <1>0, <1>a, <2>1, <2>2, <2>3, <2>4, <2>5, <2>6 DEF Staging
  <2>8. UploadProgress'
    BY <2>3 DEF UploadProgress
  <2> QED  BY <2>7, <2>8 DEF StageInv
<1> QED  BY <1>1, <1>2, <1>3, <1>4

\* The reader does nothing to it.
LEMMA ReaderStages ==
    ASSUME StageInv, ReaderOnly
    PROVE  StageInv'
<1>1. driver' = driver /\ table' = table /\ csv' = csv /\ hdfs' = hdfs /\ w' = w
  BY DEF ReaderOnly
<1>2. Staging'
  BY <1>1 DEF StageInv, Staging
<1>3. UploadProgress'
  BY <1>1 DEF StageInv, UploadProgress, IsWhole, AreBlocks, Newer
<1> QED  BY <1>2, <1>3 DEF StageInv

-----------------------------------------------------------------------------
(* The reader. *)

ReaderInv == ReaderPlace /\ ReaderProgress

\* The fields of the reader, one by one.
LEMMA ReaderTypes ==
    ASSUME TypeOK
    PROVE  /\ r.got \in Seq(Bytes) /\ Len(r.got) \in Nat /\ r.buf \in Seq(Bytes) /\ Len(r.buf) \in Nat
           /\ r.fragments \in Seq(Rows) /\ Len(r.fragments) \in Nat /\ Len(r.fragments) <= RowBufSize
           /\ r.rowIdx \in Nat /\ r.rowIdx <= FileLen + 1 /\ r.fragmentIdx \in Nat
           /\ r.room \in Nat /\ r.room <= FileLen + 1 /\ r.n \in Nat /\ r.cut \in BOOLEAN
<1>1. /\ r.got \in Seq(Bytes) /\ r.buf \in Seq(Bytes) /\ r.fragments \in Seq(Rows)
      /\ r.rowIdx \in 0 .. FileLen + 1 /\ r.fragmentIdx \in 0 .. RowBufSize
      /\ r.room \in 0 .. FileLen + 1 /\ r.n \in Nat /\ r.cut \in BOOLEAN
      /\ Len(r.fragments) <= RowBufSize
  BY DEF TypeOK
<1>2. Len(r.got) \in Nat /\ Len(r.buf) \in Nat /\ Len(r.fragments) \in Nat
  BY <1>1
<1>3. r.rowIdx \in Nat /\ r.rowIdx <= FileLen + 1 /\ r.fragmentIdx \in Nat
      /\ r.room \in Nat /\ r.room <= FileLen + 1
  BY <1>1, Sizes
<1> QED  BY <1>1, <1>2, <1>3

\* While there is no reader, it is where it should be.
LEMMA NobodyReads ==
    ASSUME TypeOK, r = NoReader
    PROVE  ReaderInv
<1>1. /\ r.pc = "none" /\ Len(r.got) = 0 /\ Len(r.buf) = 0 /\ Len(r.fragments) = 0
      /\ r.fragmentIdx = 0 /\ r.rowIdx = 0
  BY DEF NoReader
<1>2. ReadSoFar(w.version)
  BY <1>1, Sizes DEF ReadSoFar
<1>3. w.version \in 1 .. w.version
  BY WriterTypes
<1> QED  BY <1>1, <1>2, <1>3 DEF ReaderInv, ReaderPlace, ReaderProgress, ReadsWhole

LEMMA NobodyReadsNext ==
    ASSUME TypeOK', r' = NoReader
    PROVE  ReaderInv'
<1>1. /\ r'.pc = "none" /\ Len(r'.got) = 0 /\ Len(r'.buf) = 0 /\ Len(r'.fragments) = 0
      /\ r'.fragmentIdx = 0 /\ r'.rowIdx = 0
  BY DEF NoReader
<1>2. ReadSoFar(w.version)'
  BY <1>1, Sizes DEF ReadSoFar
<1>3. w'.version \in 1 .. w'.version
  <2>1. w'.version \in 1 .. Saves
    BY DEF TypeOK
  <2> QED  BY <2>1, Sizes
<1> QED  BY <1>1, <1>2, <1>3 DEF ReaderInv, ReaderPlace, ReaderProgress, ReadsWhole

\* The reader changes nothing of what the writer has.
LEMMA ReaderLeavesSave ==
    ASSUME SaveInv, ReaderOnly, TypeOK'
    PROVE  SaveInv'
<1>1. driver' = driver /\ table' = table /\ csv' = csv /\ hdfs' = hdfs /\ w' = w
  BY DEF ReaderOnly
<1>2. WriterCounts' /\ SavedStays'
  BY <1>1 DEF SaveInv, WriterCounts, SavedStays
<1>3. SaveProgress' /\ SaveOkMeansStored'
  BY <1>1 DEF SaveInv, SaveProgress, SaveOkMeansStored, IsWhole, AreBlocks, Target, Newer
<1>4. RowsClean'
  BY <1>1 DEF SaveInv, RowsClean, TableOf, IsPiece
<1> QED  BY <1>2, <1>3, <1>4 DEF SaveInv

\* A step of the reader keeps the types when it keeps its own.
Readers ==
    [pc : {"none", "open", "copy", "block", "eof", "error"},
     buf : Seq(Bytes), fragments : Seq(Rows), fragmentIdx : 0 .. RowBufSize,
     rowIdx : 0 .. FileLen + 1, room : 0 .. FileLen + 1, n : Nat,
     got : Seq(Bytes), cut : BOOLEAN]

LEMMA ReaderKeepsTypes ==
    ASSUME TypeOK, ReaderOnly, Len(r'.fragments) <= RowBufSize, r' \in Readers
    PROVE  TypeOK'
  BY DEF TypeOK, ReaderOnly, Readers

\* A step of the reader that stays in the version it is in, and in a table
\* that is whole, keeps its progress.
LEMMA ProgressKept ==
    ASSUME SaveInv, ReaderInv, ReaderOnly,
           \A v \in 1 .. Saves : ReadSoFar(v) => ReadSoFar(v)',
           w.result = "ok" /\ ~w.missed /\ w.older = 0 /\ ReadsWhole /\ ReadSoFar(w.version) => ReadsWhole'
    PROVE  ReaderProgress'
<1>1. driver' = driver /\ w' = w
  BY DEF ReaderOnly
<1>2. \A v \in 1 .. w.version : v \in 1 .. Saves
  BY WriterTypes, Sizes DEF SaveInv
<1>3. ASSUME ~w.missed, driver # "hive" \/ (w.result = "ok" /\ w.older = 0)
      PROVE  \E v \in 1 .. w.version : ReadSoFar(v) /\ ReadSoFar(v)' /\ (w.result = "ok" => v = w.version)
  <2>1. PICK v \in 1 .. w.version : ReadSoFar(v) /\ (w.result = "ok" => v = w.version)
    BY <1>3 DEF ReaderInv, ReaderProgress
  <2>2. ReadSoFar(v)'
    BY <1>2, <2>1
  <2> QED  BY <2>1, <2>2
<1>4. ASSUME ~w.missed, w.result = "ok", w.older = 0 PROVE ReadsWhole'
  <2>1. ReadSoFar(w.version)
    BY <1>3, <1>4
  <2>2. ReadsWhole
    BY <1>4 DEF ReaderInv, ReaderProgress
  <2> QED  BY <1>4, <2>1, <2>2
<1> QED  BY <1>1, <1>3, <1>4 DEF ReaderProgress

\* Open.
LEMMA OpenReads == SaveInv /\ StageInv /\ ReaderInv /\ Open => TypeOK' /\ ReaderInv'
<1> SUFFICES ASSUME SaveInv, StageInv, ReaderInv, Open PROVE TypeOK' /\ ReaderInv'
  OBVIOUS
<1>1. /\ r = NoReader /\ w.pc = "ended" /\ driver' = driver /\ table' = table /\ csv' = csv /\ hdfs' = hdfs /\ w' = w
      /\ \/ table # NoTable /\ r' = [r EXCEPT !.pc = "open"]
         \/ r' = [r EXCEPT !.pc = "error"]
  BY DEF Open, ReaderOnly, ReaderInv, ReaderPlace
<1>2. TypeOK'
  BY <1>1 DEF SaveInv, TypeOK
<1>3. /\ (r'.pc = "open" /\ table # NoTable) \/ r'.pc = "error"
      /\ r'.got = <<>> /\ r'.buf = <<>> /\ r'.fragments = <<>> /\ r'.fragmentIdx = 0
      /\ r'.rowIdx = 0 /\ r'.cut = FALSE
  BY <1>1 DEF NoReader
<1>4. Len(r'.got) = 0 /\ Len(r'.buf) = 0 /\ Len(r'.fragments) = 0 /\ NextId' = 0
  <2>1. Len(r'.got) = 0 /\ Len(r'.buf) = 0 /\ Len(r'.fragments) = 0
    BY <1>3
  <2>2. NextId' = r'.rowIdx - Len(r'.fragments) + r'.fragmentIdx
    BY DEF NextId
  <2>3. NextId' = 0 - 0 + 0
    BY <1>3, <2>1, <2>2
  <2> QED  BY <2>1, <2>3
<1>5. ReaderPlace'
  BY <1>1, <1>3, <1>4 DEF ReaderPlace
<1>6. ASSUME NEW v \in 1 .. Saves, r'.pc = "open" => TableOf(v) PROVE ReadSoFar(v)'
  <2>1. Off(0) = 0
    BY OffNext
  <2>2. TableOf(v) => TableOf(v)'
    BY <1>1 DEF TableOf, IsPiece
  <2> QED  BY <1>3, <1>4, <1>6, <2>1, <2>2, Sizes DEF ReadSoFar
<1>7. ASSUME ~w.missed, driver # "hive" \/ (w.result = "ok" /\ w.older = 0)
      PROVE  \E v \in 1 .. w.version : (r'.pc = "open" => TableOf(v)) /\ (w.result = "ok" => v = w.version)
  <2>1. w.version \in 1 .. w.version /\ w.version \in 1 .. Saves
    BY WriterTypes DEF SaveInv
  <2>2. CASE w.result = "ok"
    <3>1. w.older = 0
      BY <1>7 DEF StageInv, Staging
    <3>2. IsWhole(w.version, table)
      BY <1>7, <2>2, <3>1, StoredWhole
    <3>3. TableOf(w.version)
      BY <2>1, <3>2, WholeIsClean DEF SaveInv
    <3> QED  BY <2>1, <3>3
  <2>3. CASE w.result # "ok" /\ r'.pc = "open"
    BY <1>3, <1>7, <2>3 DEF SaveInv, RowsClean
  <2>4. CASE w.result # "ok" /\ r'.pc # "open"
    BY <2>1, <2>4
  <2> QED  BY <2>2, <2>3, <2>4
<1>8. ASSUME ~w.missed, w.result = "ok", w.older = 0 PROVE ReadsWhole'
  <2>1. IsWhole(w.version, table) /\ Len(table) \in Nat
    BY <1>8, StoredWhole, WriterTypes DEF SaveInv
  <2>2. Len(table) = 0 => FileLen = 0
    BY <2>1, OffNext, Sizes DEF IsWhole
  <2> QED  BY <1>1, <1>3, <1>4, <2>1, <2>2 DEF ReadsWhole
<1>9. ReaderProgress'
  <2>1. \A v \in 1 .. w.version : v \in 1 .. Saves
    BY WriterTypes, Sizes DEF SaveInv
  <2> QED  BY <1>1, <1>6, <1>7, <1>8, <2>1 DEF ReaderProgress
<1> QED  BY <1>2, <1>5, <1>9 DEF ReaderInv

\* Read is called.
LEMMA ReadReads == SaveInv /\ ReaderInv /\ Read => TypeOK' /\ ReaderInv'
<1> SUFFICES ASSUME SaveInv, ReaderInv, Read PROVE TypeOK' /\ ReaderInv'
  OBVIOUS
<1>1. PICK room \in {1, FileLen + 1} : r' = [r EXCEPT !.pc = "copy", !.room = room, !.n = 0]
  BY DEF Read
<1>2. r.pc = "open" /\ ReaderOnly /\ driver' = driver /\ table' = table /\ csv' = csv /\ hdfs' = hdfs /\ w' = w
  BY DEF Read, ReaderOnly
<1>3. TypeOK'
  <2>1. room \in 0 .. FileLen + 1
    BY Sizes
  <2> QED  BY <1>1, <1>2, <2>1 DEF SaveInv, TypeOK
<1>4. /\ r'.pc = "copy" /\ r'.got = r.got /\ r'.buf = r.buf /\ r'.fragments = r.fragments
      /\ r'.fragmentIdx = r.fragmentIdx /\ r'.rowIdx = r.rowIdx /\ r'.cut = r.cut
  BY <1>1 DEF SaveInv, TypeOK
<1>5. NextId' = NextId
  BY <1>4 DEF NextId
<1>6. ReaderPlace'
  BY <1>2, <1>4 DEF ReaderInv, ReaderPlace
<1>7. ASSUME NEW v \in 1 .. Saves, ReadSoFar(v) PROVE ReadSoFar(v)'
  <2>1. TableOf(v) => TableOf(v)'
    BY <1>2 DEF TableOf, IsPiece
  <2> QED  BY <1>2, <1>4, <1>5, <1>7, <2>1 DEF ReadSoFar
<1>8. ReadsWhole => ReadsWhole'
  BY <1>2, <1>4, <1>5 DEF ReadsWhole
<1> QED  BY <1>2, <1>3, <1>6, <1>7, <1>8, ProgressKept DEF ReaderInv

\* Bytes are copied out of the block.
LEMMA CopyReads == SaveInv /\ ReaderInv /\ Copy => TypeOK' /\ ReaderInv'
<1> SUFFICES ASSUME SaveInv, ReaderInv, Copy PROVE TypeOK' /\ ReaderInv'
  OBVIOUS
<1>3. /\ r.got \in Seq(Bytes) /\ Len(r.got) \in Nat /\ r.buf \in Seq(Bytes) /\ Len(r.buf) \in Nat
      /\ r.room \in Nat /\ r.room <= FileLen + 1 /\ r.n \in Nat
  BY ReaderTypes DEF SaveInv
<1>4. PICK m \in Nat : m = Min({r.room, Len(r.buf)}) /\ m <= Len(r.buf) /\ m <= r.room
  <2>1. Min({r.room, Len(r.buf)}) = IF r.room <= Len(r.buf) THEN r.room ELSE Len(r.buf)
    BY <1>3, MinPair
  <2>2. CASE r.room <= Len(r.buf)
    BY <1>3, <2>1, <2>2
  <2>3. CASE ~(r.room <= Len(r.buf))
    BY <1>3, <2>1, <2>3
  <2> QED  BY <2>2, <2>3
<1>a. m <= Len(r.buf) /\ m <= r.room
  BY <1>4
<1> DEFINE first == SubSeq(r.buf, 1, m)
           rest == SubSeq(r.buf, m + 1, Len(r.buf))
           got == r.got \o first
<1>1. r' = [r EXCEPT !.pc = IF rest = <<>> THEN "block" ELSE "open",
                     !.got = got, !.buf = rest, !.room = @ - m, !.n = @ + m]
  BY <1>4 DEF Copy
<1>2. r.pc = "copy" /\ ReaderOnly /\ driver' = driver /\ table' = table /\ csv' = csv /\ hdfs' = hdfs /\ w' = w
  BY DEF Copy, ReaderOnly
<1>5. /\ first \in Seq(Bytes) /\ Len(first) = m
      /\ \A i \in 1 .. m : first[i] = r.buf[i]
  BY <1>3, <1>a
<1>6. /\ rest \in Seq(Bytes) /\ Len(rest) = Len(r.buf) - m
      /\ \A i \in 1 .. Len(r.buf) - m : rest[i] = r.buf[m + i]
  <2>1. PICK b \in Seq(Bytes) : b = r.buf
    BY <1>3
  <2>2. m <= Len(b)
    BY <1>a, <2>1
  <2>3. /\ SubSeq(b, m + 1, Len(b)) \in Seq(Bytes) /\ Len(SubSeq(b, m + 1, Len(b))) = Len(b) - m
        /\ \A i \in 1 .. Len(b) - m : SubSeq(b, m + 1, Len(b))[i] = b[m + i]
    BY <2>2
  <2> QED  BY <2>1, <2>3, Zenon
<1> HIDE DEF first, rest
<1>7. /\ got \in Seq(Bytes) /\ Len(got) = Len(r.got) + m
      /\ \A i \in 1 .. Len(r.got) : got[i] = r.got[i]
      /\ \A i \in 1 .. m : got[Len(r.got) + i] = r.buf[i]
  <2>1. /\ got \in Seq(Bytes) /\ Len(got) = Len(r.got) + m
        /\ \A i \in 1 .. Len(r.got) + m :
             got[i] = IF i <= Len(r.got) THEN r.got[i] ELSE first[i - Len(r.got)]
    BY <1>3, <1>5, ConcatProperties
  <2> HIDE DEF got
  <2>2. \A i \in 1 .. Len(r.got) : i \in 1 .. Len(r.got) + m /\ i <= Len(r.got)
    BY <1>3, <1>a
  <2>3. \A i \in 1 .. m : Len(r.got) + i \in 1 .. Len(r.got) + m /\ ~(Len(r.got) + i <= Len(r.got))
                          /\ (Len(r.got) + i) - Len(r.got) = i
    BY <1>3, <1>a
  <2> QED  BY <1>5, <2>1, <2>2, <2>3
<1> HIDE DEF got
<1>8. /\ r'.pc \in {"block", "open"} /\ (r'.pc = "block" => rest = <<>>)
      /\ r'.got = got /\ r'.buf = rest /\ r'.fragments = r.fragments
      /\ r'.fragmentIdx = r.fragmentIdx /\ r'.rowIdx = r.rowIdx /\ r'.cut = r.cut
  BY <1>1 DEF SaveInv, TypeOK
<1>9. TypeOK'
  <2>1. r.room - m \in 0 .. FileLen + 1 /\ r.n + m \in Nat
    BY <1>3, <1>a, Sizes
  <2> QED  BY <1>1, <1>2, <1>6, <1>7, <1>8, <2>1 DEF SaveInv, TypeOK
<1>10. NextId' = NextId /\ Len(r'.got) + Len(r'.buf) = Len(r.got) + Len(r.buf)
  <2>1. NextId' = NextId
    BY <1>8 DEF NextId
  <2>2. Len(r'.got) = Len(r.got) + m /\ Len(r'.buf) = Len(r.buf) - m
    BY <1>6, <1>7, <1>8
  <2>3. Len(r.got) \in Nat /\ Len(r.buf) \in Nat /\ m \in Nat
    BY <1>3
  <2>4. (Len(r.got) + m) + (Len(r.buf) - m) = Len(r.got) + Len(r.buf)
    BY <2>3, Moved, Zenon
  <2> QED  BY <2>1, <2>2, <2>4, Zenon
<1>11. ReaderPlace'
  BY <1>2, <1>8 DEF ReaderInv, ReaderPlace
<1>12. ASSUME NEW v \in 1 .. Saves, ReadSoFar(v) PROVE ReadSoFar(v)'
  <2>1. TableOf(v) => TableOf(v)'
    BY <1>2 DEF TableOf, IsPiece
  <2>2. /\ \A i \in 1 .. Len(r.got) : r.got[i] = <<v, i>>
        /\ \A i \in 1 .. Len(r.buf) : r.buf[i] = <<v, Len(r.got) + i>>
    BY <1>12 DEF ReadSoFar
  <2>3. ASSUME NEW i \in 1 .. Len(got) PROVE got[i] = <<v, i>>
    <3>1. CASE i \in 1 .. Len(r.got)
      BY <3>1, <1>7, <2>2
    <3>2. CASE i \notin 1 .. Len(r.got)
      <4> DEFINE j == i - Len(r.got)
      <4>1. j \in 1 .. m /\ j \in 1 .. Len(r.buf) /\ i = Len(r.got) + j
        BY <3>2, <1>3, <1>a, <1>7
      <4> HIDE DEF j
      <4> QED  BY <4>1, <1>7, <2>2
    <3> QED  BY <3>1, <3>2
  <2>4. ASSUME NEW i \in 1 .. Len(rest) PROVE rest[i] = <<v, Len(got) + i>>
    <3>1. m + i \in 1 .. Len(r.buf) /\ i \in 1 .. Len(r.buf) - m /\ Len(r.got) + (m + i) = Len(got) + i
      <4>1. Len(rest) = Len(r.buf) - m /\ Len(got) = Len(r.got) + m
        BY <1>6, <1>7
      <4>2. i \in 1 .. Len(r.buf) - m
        BY <4>1, Zenon
      <4>3. m + i \in 1 .. Len(r.buf) /\ Len(r.got) + (m + i) = (Len(r.got) + m) + i
        <5>1. Len(r.got) \in Nat /\ Len(r.buf) \in Nat /\ m \in Nat
          BY <1>3
        <5> QED  BY <4>2, <5>1, Shifted, Zenon
      <4> QED  BY <4>1, <4>2, <4>3, Zenon
    <3> QED  BY <3>1, <1>6, <2>2
  <2>5. Len(r'.got) + Len(r'.buf) <= FileLen
    BY <1>10, <1>12 DEF ReadSoFar
  <2>6. /\ TableOf(v)'
        /\ \A j \in 1 .. Len(r'.fragments) :
             /\ r'.fragments[j].id = r'.rowIdx - Len(r'.fragments) + j - 1
             /\ \E i \in DOMAIN table' : r'.fragments[j] = table'[i]
        /\ (\E i \in DOMAIN table' : table'[i].id >= NextId') =>
             Len(r'.got) + Len(r'.buf) = Off(NextId')
    BY <1>2, <1>8, <1>10, <1>12, <2>1 DEF ReadSoFar
  <2> QED  BY <1>8, <2>3, <2>4, <2>5, <2>6 DEF ReadSoFar
<1>13. ReadsWhole => ReadsWhole'
  BY <1>2, <1>8, <1>10 DEF ReadsWhole
<1> QED  BY <1>2, <1>9, <1>11, <1>12, <1>13, ProgressKept DEF ReaderInv

\* The assumptions on the step that takes a block out of a batch: the batch
\* are the rows that follow those taken, and the block is the next one.
TakesBlock ==
    /\ r.buf = <<>> /\ r.pc = "block" /\ r'.got = r.got
    /\ r'.fragments \in Seq(Rows) /\ r'.rowIdx \in Nat /\ Len(r'.fragments) <= r'.rowIdx
    /\ r'.fragmentIdx \in 1 .. Len(r'.fragments)
    /\ r'.buf = r'.fragments[r'.fragmentIdx].block
    /\ NextId \in Nat /\ NextId' = NextId + 1
    /\ \A j \in 1 .. Len(r'.fragments) :
         /\ r'.fragments[j].id = r'.rowIdx - Len(r'.fragments) + j - 1
         /\ \E i \in DOMAIN table : r'.fragments[j] = table[i]

\* The block taken is a row of the table, the one with the next id.
LEMMA BlockTaken ==
    ASSUME TypeOK, TakesBlock, NEW v \in 1 .. Saves, ReadSoFar(v)
    PROVE  \E i \in DOMAIN table :
             /\ table[i].id = NextId /\ table[i].block = r'.buf
             /\ IsPiece(v, NextId, r'.buf) /\ Len(r.got) = Off(NextId)
<1>1. PICK j \in 1 .. Len(r'.fragments) : j = r'.fragmentIdx /\ r'.buf = r'.fragments[j].block
  BY DEF TakesBlock
<1>2. PICK i \in DOMAIN table : r'.fragments[j] = table[i]
  BY DEF TakesBlock
<1>3. /\ table[i].block = r'.buf
      /\ table[i].id = r'.rowIdx - Len(r'.fragments) + j - 1
  BY <1>1, <1>2 DEF TakesBlock
<1>4. table[i].id = NextId
  <2>1. r'.rowIdx \in Nat /\ Len(r'.fragments) \in Nat /\ NextId \in Nat /\ NextId' = NextId + 1
    BY DEF TakesBlock
  <2>2. NextId' = r'.rowIdx - Len(r'.fragments) + j
    BY <1>1 DEF NextId
  <2>3. PICK a \in Nat, b \in Nat : a = r'.rowIdx /\ b = Len(r'.fragments)
    BY <2>1
  <2>4. table[i].id = a - b + j - 1 /\ NextId + 1 = a - b + j /\ j \in Nat
    BY <1>3, <2>1, <2>2, <2>3
  <2>5. PICK k \in Nat : k = NextId
    BY <2>1
  <2>6. k + 1 = a - b + j /\ j \in Nat
    BY <2>4, <2>5
  <2>7. k = a - b + j - 1
    BY <2>6
  <2> QED  BY <2>4, <2>5, <2>7
<1>5. TableOf(v) /\ IsPiece(v, NextId, r'.buf)
  BY <1>3, <1>4 DEF TakesBlock, ReadSoFar, TableOf
<1>6. Len(r.got) = Off(NextId)
  <2>1. table[i].id >= NextId
    BY <1>4 DEF TakesBlock
  <2>2. Len(r.got) + Len(r.buf) = Off(NextId)
    BY <2>1 DEF TakesBlock, ReadSoFar
  <2>3. Len(r.buf) = 0 /\ Len(r.got) \in Nat
    BY ReaderTypes DEF TakesBlock
  <2> QED  BY <2>2, <2>3
<1> QED  BY <1>3, <1>4, <1>5, <1>6

\* It continues the file.
LEMMA BlockContinues ==
    ASSUME TypeOK, TakesBlock, table' = table, NEW v \in 1 .. Saves, ReadSoFar(v)
    PROVE  ReadSoFar(v)'
<1>1. PICK i \in DOMAIN table :
        /\ table[i].id = NextId /\ table[i].block = r'.buf
        /\ IsPiece(v, NextId, r'.buf) /\ Len(r.got) = Off(NextId)
  BY BlockTaken
<1>2. /\ r'.got = r.got /\ Len(r.got) \in Nat /\ NextId \in Nat /\ NextId' = NextId + 1
      /\ Off(NextId) \in Nat /\ Off(NextId + 1) = Off(NextId) + BufSize
  BY ReaderTypes, OffNext DEF TakesBlock
<1>3. /\ Len(r'.buf) \in 1 .. BufSize /\ Off(NextId) + Len(r'.buf) <= FileLen
      /\ \A k \in 1 .. Len(r'.buf) : r'.buf[k] = <<v, Off(NextId) + k>>
  BY <1>1 DEF IsPiece
<1>4. \A k \in 1 .. Len(r'.got) : r'.got[k] = <<v, k>>
  BY <1>2 DEF ReadSoFar
<1>5. \A k \in 1 .. Len(r'.buf) : r'.buf[k] = <<v, Len(r'.got) + k>>
  BY <1>1, <1>2, <1>3
<1>6. Len(r'.got) + Len(r'.buf) <= FileLen
  BY <1>1, <1>2, <1>3
<1>7. TableOf(v)
  BY DEF TakesBlock, ReadSoFar
<1>8. TableOf(v)'
  BY <1>7 DEF TableOf, IsPiece
<1>9. ASSUME NEW k \in DOMAIN table, table[k].id >= NextId + 1
      PROVE  Len(r'.got) + Len(r'.buf) = Off(NextId + 1)
  <2>1. table[i].id < table[k].id
    BY <1>1, <1>2, <1>9, RowTypes
  <2>2. Len(r'.buf) = BufSize
    BY <1>1, <1>7, <2>1 DEF TableOf
  <2> QED  BY <1>1, <1>2, <2>2
<1>10. \A j \in 1 .. Len(r'.fragments) :
         /\ r'.fragments[j].id = r'.rowIdx - Len(r'.fragments) + j - 1
         /\ \E k \in DOMAIN table : r'.fragments[j] = table[k]
  BY DEF TakesBlock
<1> QED  BY <1>2, <1>4, <1>5, <1>6, <1>8, <1>9, <1>10 DEF ReadSoFar

\* And with the last row of a whole file it ends it.
LEMMA BlockEndsFile ==
    ASSUME TypeOK, TakesBlock, IsWhole(w.version, table), ReadSoFar(w.version)
    PROVE  /\ r'.rowIdx <= Len(table)
           /\ NextId' = Len(table) => Len(r'.got) + Len(r'.buf) = FileLen
<1>1. w.version \in 1 .. Saves /\ Len(table) \in Nat /\ DOMAIN table = 1 .. Len(table)
      /\ FileLen \in Nat /\ BufSize \in Nat
  BY WriterTypes, Sizes
<1>2. PICK i \in DOMAIN table :
        /\ table[i].id = NextId /\ table[i].block = r'.buf
        /\ IsPiece(w.version, NextId, r'.buf) /\ Len(r.got) = Off(NextId)
  BY <1>1, BlockTaken
<1>3. /\ r'.got = r.got /\ Len(r.got) \in Nat /\ NextId \in Nat /\ NextId' = NextId + 1
      /\ Off(NextId) \in Nat /\ Off(NextId + 1) = Off(NextId) + BufSize
  BY ReaderTypes, OffNext DEF TakesBlock
<1>4. r'.rowIdx <= Len(table)
  <2>1. PICK n \in Nat : n = Len(r'.fragments) /\ n \in 1 .. n
    BY DEF TakesBlock
  <2>2. PICK k \in DOMAIN table : r'.fragments[n] = table[k]
    BY <2>1 DEF TakesBlock
  <2>3. r'.fragments[n].id = r'.rowIdx - n + n - 1 /\ r'.rowIdx \in Nat
    BY <2>1 DEF TakesBlock
  <2>4. table[k].id = k - 1
    BY <1>1 DEF IsWhole, AreBlocks
  <2> QED  BY <1>1, <2>1, <2>2, <2>3, <2>4
<1>5. ASSUME NextId + 1 = Len(table)
      PROVE  Off(NextId) + Len(r'.buf) = FileLen
  <2>1. table[i].id = i - 1 /\ IsBlock(w.version, i - 1, table[i].block)
    BY <1>1 DEF IsWhole, AreBlocks
  <2>2. IsBlock(w.version, NextId, r'.buf)
    BY <1>2, <2>1
  <2>3. /\ Len(r'.buf) = BufSize \/ Off(NextId) + Len(r'.buf) = FileLen
        /\ Off(NextId) + Len(r'.buf) <= FileLen
    BY <2>2 DEF IsBlock, IsPiece
  <2>4. Off(NextId + 1) >= FileLen
    BY <1>1, <1>5 DEF IsWhole
  <2> QED  BY <1>1, <1>3, <2>3, <2>4
<1> QED  BY <1>2, <1>3, <1>4, <1>5

\* A batch that is used up.
LEMMA UsedUp ==
    ASSUME TypeOK, r.fragmentIdx = Len(r.fragments)
    PROVE  NextId = r.rowIdx /\ NextId \in Nat
<1>1. r.rowIdx \in Nat /\ Len(r.fragments) \in Nat
  BY ReaderTypes
<1> QED  BY <1>1 DEF NextId

\* nextBlock, with a block left in the batch.
LEMMA NextReads == SaveInv /\ ReaderInv /\ NextBlock => TypeOK' /\ ReaderInv'
<1> SUFFICES ASSUME SaveInv, ReaderInv, NextBlock PROVE TypeOK' /\ ReaderInv'
  OBVIOUS
<1>1. /\ r.pc = "block" /\ ReaderOnly /\ driver' = driver /\ table' = table /\ csv' = csv /\ hdfs' = hdfs /\ w' = w
      /\ r.fragmentIdx < Len(r.fragments) /\ r' \in GiveBlock(r)
  BY DEF NextBlock, ReaderOnly
<1>2. PICK pc \in {"copy", "open", "error"} :
        /\ r' = [r EXCEPT !.pc = pc, !.buf = r.fragments[r.fragmentIdx + 1].block,
                          !.fragmentIdx = r.fragmentIdx + 1]
        /\ pc = "error" => r.fragments[r.fragmentIdx + 1].block = Garbled
  BY <1>1 DEF GiveBlock, SaveInv, TypeOK
<1>3. /\ r'.pc = pc /\ r'.got = r.got /\ r'.buf = r.fragments[r.fragmentIdx + 1].block
      /\ r'.fragments = r.fragments /\ r'.fragmentIdx = r.fragmentIdx + 1
      /\ r'.rowIdx = r.rowIdx /\ r'.cut = r.cut
  BY <1>2 DEF SaveInv, TypeOK
<1>4. /\ r.fragments \in Seq(Rows) /\ Len(r.fragments) \in Nat /\ Len(r.fragments) <= RowBufSize
      /\ r.fragmentIdx \in Nat /\ r.rowIdx \in Nat /\ RowBufSize \in Nat
  BY ReaderTypes, Sizes DEF SaveInv
<1>5. r.fragmentIdx + 1 \in 1 .. Len(r.fragments) /\ r.fragmentIdx + 1 \in 0 .. RowBufSize
  BY <1>1, <1>4
<1>6. r'.buf \in Seq(Bytes)
  <2>1. r.fragments[r.fragmentIdx + 1] \in Rows
    BY <1>4, <1>5
  <2> QED  BY <1>3, <2>1 DEF Rows
<1>7. TypeOK'
  <2>1. r' = [r EXCEPT !.pc = pc, !.buf = r'.buf, !.fragmentIdx = r.fragmentIdx + 1]
    BY <1>2, <1>3
  <2>2. pc \in {"none", "open", "copy", "block", "eof", "error"}
    OBVIOUS
  <2>3. r \in Readers /\ Len(r.fragments) <= RowBufSize
    BY DEF SaveInv, TypeOK, Readers
  <2>4. r' \in Readers /\ Len(r'.fragments) <= RowBufSize
    BY <1>3, <1>5, <1>6, <2>1, <2>2, <2>3 DEF Readers
  <2> QED  BY <1>1, <2>4, ReaderKeepsTypes DEF SaveInv
<1>8. ReaderPlace'
  <2>1. table # NoTable /\ Len(r.fragments) <= r.rowIdx
    BY <1>1 DEF ReaderInv, ReaderPlace
  <2>2. r.fragmentIdx + 1 <= Len(r.fragments)
    BY <1>5
  <2> QED  BY <1>1, <1>3, <2>1, <2>2 DEF ReaderInv, ReaderPlace
<1>9. ASSUME NEW v \in 1 .. Saves, ReadSoFar(v) PROVE TakesBlock
  <2>1. NextId \in Nat /\ NextId' = NextId + 1
    <3>1. Len(r.fragments) <= r.rowIdx
      BY DEF ReaderInv, ReaderPlace
    <3>2. NextId = r.rowIdx - Len(r.fragments) + r.fragmentIdx
          /\ NextId' = r.rowIdx - Len(r.fragments) + (r.fragmentIdx + 1)
      BY <1>3 DEF NextId
    <3>3. PICK n \in Nat : n = Len(r.fragments)
      BY <1>4
    <3>4. n <= r.rowIdx
      BY <3>1, <3>3
    <3>5. r.rowIdx - n + r.fragmentIdx \in Nat
          /\ r.rowIdx - n + (r.fragmentIdx + 1) = (r.rowIdx - n + r.fragmentIdx) + 1
      <4>1. r.rowIdx \in Nat /\ r.fragmentIdx \in Nat
        BY <1>4
      <4> QED  BY <3>4, <4>1
    <3> QED  BY <3>2, <3>3, <3>5
  <2>2. \A j \in 1 .. Len(r.fragments) :
          /\ r.fragments[j].id = r.rowIdx - Len(r.fragments) + j - 1
          /\ \E i \in DOMAIN table : r.fragments[j] = table[i]
    BY <1>1, <1>9 DEF ReadSoFar
  <2>3. r.buf = <<>> /\ Len(r.fragments) <= r.rowIdx
    BY <1>1 DEF ReaderInv, ReaderPlace
  <2> QED  BY <1>1, <1>3, <1>4, <1>5, <2>1, <2>2, <2>3 DEF TakesBlock
<1>10. ASSUME NEW v \in 1 .. Saves, ReadSoFar(v) PROVE ReadSoFar(v)'
  BY <1>1, <1>9, <1>10, BlockContinues DEF SaveInv
<1>11. ASSUME w.result = "ok", ~w.missed, w.older = 0, ReadsWhole, ReadSoFar(w.version) PROVE ReadsWhole'
  <2>1. w.version \in 1 .. Saves /\ IsWhole(w.version, table)
    BY <1>11, StoredWhole, WriterTypes DEF SaveInv
  <2>2. NextId' = Len(table) => Len(r'.got) + Len(r'.buf) = FileLen
    BY <1>9, <1>11, <2>1, BlockEndsFile DEF SaveInv
  <2> QED  BY <1>1, <1>3, <1>11, <2>2 DEF ReadsWhole
<1> QED  BY <1>1, <1>7, <1>8, <1>10, <1>11, ProgressKept DEF ReaderInv

\* A step that reaches the end of what there is, with nothing taken.
LEMMA EndReached ==
    ASSUME TypeOK, r.pc = "block", table' = table, r.fragmentIdx = Len(r.fragments),
           r'.got = r.got, r'.buf = r.buf, r'.fragments = <<>>, r'.fragmentIdx = 0,
           r'.rowIdx = r.rowIdx
    PROVE  /\ NextId' = NextId
           /\ \A v \in 1 .. Saves : ReadSoFar(v) => ReadSoFar(v)'
<1>1. NextId = r.rowIdx /\ NextId \in Nat
  BY UsedUp
<1>2. Len(r'.fragments) = 0
  OBVIOUS
<1>3. NextId' = NextId
  <2>1. NextId' = r.rowIdx - 0 + 0
    BY <1>2 DEF NextId
  <2> QED  BY <1>1, <2>1
<1>4. ASSUME NEW v \in 1 .. Saves, ReadSoFar(v) PROVE ReadSoFar(v)'
  <2>1. TableOf(v)
    BY <1>4 DEF ReadSoFar
  <2>2. TableOf(v)'
    BY <2>1 DEF TableOf, IsPiece
  <2>3. 1 .. Len(r'.fragments) = {}
    BY <1>2
  <2>4. (\E i \in DOMAIN table : table[i].id >= NextId) => Len(r.got) + Len(r.buf) = Off(NextId)
    BY <1>4 DEF ReadSoFar
  <2>5. (\E i \in DOMAIN table' : table'[i].id >= NextId') => Len(r'.got) + Len(r'.buf) = Off(NextId')
    BY <1>3, <2>4
  <2>6. /\ \A i \in 1 .. Len(r'.got) : r'.got[i] = <<v, i>>
        /\ \A i \in 1 .. Len(r'.buf) : r'.buf[i] = <<v, Len(r'.got) + i>>
        /\ Len(r'.got) + Len(r'.buf) <= FileLen
    BY <1>4 DEF ReadSoFar
  <2> QED  BY <2>2, <2>3, <2>5, <2>6 DEF ReadSoFar
<1> QED  BY <1>3, <1>4

\* nextBlock, after a batch that was not full.
LEMMA LastReads == SaveInv /\ ReaderInv /\ LastBlock => TypeOK' /\ ReaderInv'
<1> SUFFICES ASSUME SaveInv, ReaderInv, LastBlock PROVE TypeOK' /\ ReaderInv'
  OBVIOUS
<1>1. /\ r.pc = "block" /\ ReaderOnly /\ driver' = driver /\ table' = table /\ csv' = csv /\ hdfs' = hdfs /\ w' = w
      /\ r.fragmentIdx = Len(r.fragments) /\ r.rowIdx > 0 /\ Len(r.fragments) < RowBufSize
      /\ r' = [r EXCEPT !.pc = IF r.n > 0 THEN "open" ELSE "eof", !.fragments = <<>>, !.fragmentIdx = 0]
  BY DEF LastBlock, ReaderOnly, AtEOF
<1>2. /\ r'.pc \in {"open", "eof"} /\ r'.got = r.got /\ r'.buf = r.buf
      /\ r'.fragments = <<>> /\ r'.fragmentIdx = 0 /\ r'.rowIdx = r.rowIdx /\ r'.cut = r.cut
  BY <1>1 DEF SaveInv, TypeOK
<1>3. TypeOK'
  <2>1. <<>> \in Seq(Rows) /\ Len(<<>>) <= RowBufSize /\ 0 \in 0 .. RowBufSize
    BY Sizes
  <2> QED  BY <1>1, <2>1 DEF SaveInv, TypeOK
<1>4. ReaderPlace'
  <2>1. Len(r'.fragments) = 0 /\ r.rowIdx \in Nat
    BY <1>2, ReaderTypes DEF SaveInv
  <2> QED  BY <1>1, <1>2, <2>1 DEF ReaderInv, ReaderPlace
<1>5. NextId' = NextId /\ \A v \in 1 .. Saves : ReadSoFar(v) => ReadSoFar(v)'
  BY <1>1, <1>2, EndReached DEF SaveInv
<1>6. ReadsWhole => ReadsWhole'
  BY <1>1, <1>2, <1>5 DEF ReadsWhole
<1> QED  BY <1>1, <1>3, <1>4, <1>5, <1>6, ProgressKept DEF ReaderInv

\* The batch that a SELECT gives: rows of the table, each of them once.
BatchOf(rows, fragments) ==
    /\ fragments \in Seq(Rows) /\ Len(fragments) \in Nat
    /\ \A j \in 1 .. Len(fragments) : \E i \in rows : i \in DOMAIN table /\ fragments[j] = table[i]
    /\ \A i \in rows : \E j \in 1 .. Len(fragments) : fragments[j] = table[i]

LEMMA BatchIsRows ==
    TypeOK => \A rows \in SUBSET Selected : \A order \in SortedById(rows) :
                BatchOf(rows, [i \in DOMAIN order |-> table[order[i]]])
<1> SUFFICES ASSUME TypeOK, NEW rows \in SUBSET Selected, NEW order \in SortedById(rows)
             PROVE  BatchOf(rows, [i \in DOMAIN order |-> table[order[i]]])
  OBVIOUS
<1>0. PICK fragments : fragments = [i \in DOMAIN order |-> table[order[i]]]
  OBVIOUS
<1> DEFINE n == Cardinality(rows)
<1>1. rows \subseteq DOMAIN table /\ DOMAIN table = 1 .. Len(table) /\ Len(table) \in Nat
  BY WriterTypes DEF Selected
<1>2. n \in Nat
  <2>1. IsFiniteSet(1 .. Len(table))
    BY <1>1, FS_Interval
  <2>2. IsFiniteSet(rows)
    BY <1>1, <2>1, FS_Subset
  <2> QED  BY <2>2, FS_CardinalityType
<1>3. order \in [1 .. n -> rows] /\ \A i \in rows : \E j \in 1 .. n : order[j] = i
  BY DEF SortedById, Bijection, Injection, Surjection
<1> HIDE DEF n
<1>4. \A j \in 1 .. n : order[j] \in rows /\ table[order[j]] \in Rows
  BY <1>1, <1>3, RowTypes
<1>5. fragments \in [1 .. n -> Rows] /\ \A j \in 1 .. n : fragments[j] = table[order[j]]
  BY <1>0, <1>3, <1>4
<1>6. fragments \in Seq(Rows) /\ Len(fragments) = n
  BY <1>2, <1>5
<1>7. BatchOf(rows, fragments)
  BY <1>1, <1>2, <1>3, <1>4, <1>5, <1>6 DEF BatchOf
<1> QED  BY <1>0, <1>7

\* nextBlock, with readNextFragments.
LEMMA FragmentsRead == SaveInv /\ ReaderInv /\ ReadNextFragments => TypeOK' /\ ReaderInv'
<1> SUFFICES ASSUME SaveInv, ReaderInv, ReadNextFragments PROVE TypeOK' /\ ReaderInv'
  OBVIOUS
<1>1. /\ r.pc = "block" /\ ReaderOnly /\ driver' = driver /\ table' = table /\ csv' = csv /\ hdfs' = hdfs /\ w' = w
      /\ r.fragmentIdx = Len(r.fragments)
  BY DEF ReadNextFragments, ReaderOnly
<1>2. NextId = r.rowIdx /\ NextId \in Nat /\ r.rowIdx <= FileLen + 1
  BY <1>1, UsedUp, ReaderTypes DEF SaveInv
<1>3. r.buf = <<>> /\ table # NoTable /\ w.pc = "ended"
  BY <1>1 DEF ReaderInv, ReaderPlace
<1>4. ASSUME NEW cut \in BOOLEAN, r' = [r EXCEPT !.pc = "error", !.cut = cut]
      PROVE  TypeOK' /\ ReaderInv'
  <2>1. /\ r'.pc = "error" /\ r'.got = r.got /\ r'.buf = r.buf /\ r'.fragments = r.fragments
        /\ r'.fragmentIdx = r.fragmentIdx /\ r'.rowIdx = r.rowIdx
    BY <1>4 DEF SaveInv, TypeOK
  <2>2. TypeOK'
    BY <1>1, <1>4 DEF SaveInv, TypeOK
  <2>3. ReaderPlace'
    BY <1>1, <1>3, <2>1 DEF ReaderInv, ReaderPlace
  <2>4. \A v \in 1 .. Saves : ReadSoFar(v) => ReadSoFar(v)'
    BY <2>1 DEF ReadSoFar
  <2>5. ReadsWhole'
    BY <2>1 DEF ReadsWhole
  <2> QED  BY <1>1, <2>2, <2>3, <2>4, <2>5, ProgressKept DEF ReaderInv
<1>5. CASE r' = [r EXCEPT !.pc = "error"]
  <2>1. r' = [r EXCEPT !.pc = "error", !.cut = r.cut] /\ r.cut \in BOOLEAN
    BY <1>5 DEF SaveInv, TypeOK
  <2> QED  BY <1>4, <2>1
<1>6. ASSUME NEW rows \in SUBSET Selected, NEW order \in SortedById(rows),
             NEW fragments, fragments = [i \in DOMAIN order |-> table[order[i]]],
             NEW cut \in BOOLEAN, cut = (r.cut \/ rows # Selected),
             ValidBatch(fragments),
             r' \in IF fragments = <<>> THEN {AtEOF([BatchRead(fragments) EXCEPT !.cut = cut])}
                    ELSE GiveBlock([BatchRead(fragments) EXCEPT !.cut = cut])
      PROVE  TypeOK' /\ ReaderInv'
  <2>1. /\ fragments \in Seq(Rows) /\ Len(fragments) \in Nat
        /\ \A j \in 1 .. Len(fragments) : \E i \in rows : i \in DOMAIN table /\ fragments[j] = table[i]
        /\ \A i \in rows : \E j \in 1 .. Len(fragments) : fragments[j] = table[i]
    <3>1. TypeOK /\ fragments = [i \in DOMAIN order |-> table[order[i]]]
      BY <1>6 DEF SaveInv
    <3>2. BatchOf(rows, fragments)
      BY <3>1, BatchIsRows, Zenon
    <3> QED  BY <3>2 DEF BatchOf
  <2>2. /\ Len(fragments) <= RowBufSize
        /\ \A j \in 1 .. Len(fragments) : fragments[j].id = (j - 1) + r.rowIdx
    BY <1>6, <2>1 DEF ValidBatch
  <2>3. PICK n \in Nat : n = Len(fragments)
    BY <2>1
  <2>4. ASSUME w.result = "ok", ~w.missed, w.older = 0, ~cut, n < RowBufSize, r.rowIdx + n <= Len(table)
        PROVE  r.rowIdx + n = Len(table)
    <3> SUFFICES ASSUME r.rowIdx + n < Len(table) PROVE FALSE
      BY <1>2, <2>4, WriterTypes DEF SaveInv
    <3> DEFINE i == r.rowIdx + n + 1
    <3>1. /\ Len(table) \in Nat /\ DOMAIN table = 1 .. Len(table) /\ RowBufSize \in Nat
          /\ r.rowIdx \in Nat
      BY <1>2, WriterTypes, Sizes DEF SaveInv
    <3>2. i \in 1 .. Len(table) /\ i - 1 = r.rowIdx + n
      BY <3>1
    <3> HIDE DEF i
    <3>3. table[i].id = r.rowIdx + n
      BY <2>4, <3>2, StoredWhole DEF IsWhole, AreBlocks
    <3>4. i \in Selected
      <4>1. r.rowIdx + n \in r.rowIdx .. (r.rowIdx + RowBufSize - 1)
        BY <2>4, <3>1
      <4> QED  BY <3>1, <3>2, <3>3, <4>1 DEF Selected
    <3>5. i \in rows
      BY <1>6, <2>4, <3>4
    <3>6. PICK j \in 1 .. n : fragments[j] = table[i]
      BY <2>1, <2>3, <3>5
    <3>7. (j - 1) + r.rowIdx = r.rowIdx + n
      BY <2>2, <2>3, <3>3, <3>6
    <3> QED  BY <3>1, <3>7
  <2>5. CASE fragments = <<>>
    <3>1. n = 0
      BY <2>3, <2>5
    <3>2. r' = AtEOF([BatchRead(fragments) EXCEPT !.cut = cut])
      BY <1>6, <2>5
    <3>3. r.rowIdx + Len(fragments) = r.rowIdx
      BY <1>2, <2>3, <3>1
    <3>4. r' = [r EXCEPT !.pc = IF r.n > 0 THEN "open" ELSE "eof", !.fragments = <<>>,
                         !.fragmentIdx = 0, !.rowIdx = r.rowIdx, !.cut = cut]
      BY <3>2, <3>3 DEF AtEOF, BatchRead, SaveInv, TypeOK
    <3>5. /\ r'.pc \in {"open", "eof"} /\ r'.got = r.got /\ r'.buf = r.buf
          /\ r'.fragments = <<>> /\ r'.fragmentIdx = 0 /\ r'.rowIdx = r.rowIdx /\ r'.cut = cut
      BY <3>4 DEF SaveInv, TypeOK
    <3>6. TypeOK'
      <4>1. <<>> \in Seq(Rows) /\ Len(<<>>) <= RowBufSize /\ 0 \in 0 .. RowBufSize
        BY Sizes
      <4> QED  BY <1>1, <3>4, <4>1 DEF SaveInv, TypeOK
    <3>7. ReaderPlace'
      <4>1. Len(r'.fragments) = 0 /\ r.rowIdx \in Nat
        BY <1>2, <3>5
      <4> QED  BY <1>1, <1>3, <3>5, <4>1 DEF ReaderPlace
    <3>8. NextId' = NextId /\ \A v \in 1 .. Saves : ReadSoFar(v) => ReadSoFar(v)'
      BY <1>1, <3>5, EndReached DEF SaveInv
    <3>9. ASSUME w.result = "ok", ~w.missed, w.older = 0, ReadsWhole PROVE ReadsWhole'
      <4>1. r.rowIdx <= Len(table) /\ (NextId = Len(table) => Len(r.got) + Len(r.buf) = FileLen)
        BY <1>1, <3>9 DEF ReadsWhole
      <4>2. r.rowIdx + n = r.rowIdx /\ n < RowBufSize
        BY <1>2, <3>1, Sizes
      <4>3. ~cut => r.rowIdx = Len(table)
        BY <2>4, <3>9, <4>1, <4>2
      <4> QED  BY <1>1, <3>5, <3>8, <4>1, <4>3 DEF ReadsWhole
    <3> QED  BY <1>1, <3>6, <3>7, <3>8, <3>9, ProgressKept DEF ReaderInv
  <2>6. CASE fragments # <<>>
    <3>1. 1 \in 1 .. n /\ n \in 1 .. n
      BY <2>1, <2>3, <2>6
    <3>2. r' \in GiveBlock([BatchRead(fragments) EXCEPT !.cut = cut])
      BY <1>6, <2>6
    <3>3. PICK pc \in {"copy", "open", "error"} :
            r' = [r EXCEPT !.pc = pc, !.buf = fragments[1].block, !.fragments = fragments,
                           !.fragmentIdx = 1, !.rowIdx = r.rowIdx + n, !.cut = cut]
      <4>1. PICK s : s = [r EXCEPT !.fragments = fragments, !.fragmentIdx = 0,
                                   !.rowIdx = r.rowIdx + n, !.cut = cut]
        OBVIOUS
      <4>2. [BatchRead(fragments) EXCEPT !.cut = cut] = s
        BY <2>3, <4>1 DEF BatchRead, SaveInv, TypeOK
      <4>3. r' \in GiveBlock(s)
        BY <3>2, <4>2
      <4>4. s.fragments = fragments /\ s.fragmentIdx = 0
        BY <4>1 DEF SaveInv, TypeOK
      <4>5. s.fragmentIdx + 1 = 1
        BY <4>4
      <4>6. PICK pc \in {"copy", "open", "error"} :
              r' = [s EXCEPT !.pc = pc, !.buf = fragments[1].block, !.fragmentIdx = 1]
        <5>1. PICK given : given = [s EXCEPT !.pc = IF s.room > 0 THEN "copy" ELSE "open",
                                            !.buf = fragments[1].block, !.fragmentIdx = 1]
          OBVIOUS
        <5>2. r' \in {given, [given EXCEPT !.pc = "error"]}
          BY <4>3, <4>4, <4>5, <5>1 DEF GiveBlock
        <5>3. [given EXCEPT !.pc = "error"]
                = [s EXCEPT !.pc = "error", !.buf = fragments[1].block, !.fragmentIdx = 1]
          BY <4>1, <5>1 DEF SaveInv, TypeOK
        <5>4. CASE r' = [given EXCEPT !.pc = "error"]
          BY <5>3, <5>4
        <5>5. CASE r' = given
          BY <5>1, <5>5
        <5> QED  BY <5>2, <5>4, <5>5
      <4> QED  BY <4>1, <4>6 DEF SaveInv, TypeOK
    <3>4. /\ r'.pc = pc /\ r'.got = r.got /\ r'.buf = fragments[1].block
          /\ r'.fragments = fragments /\ r'.fragmentIdx = 1 /\ r'.rowIdx = r.rowIdx + n /\ r'.cut = cut
      BY <3>3 DEF SaveInv, TypeOK
    <3>5. r.rowIdx + n \in 0 .. FileLen + 1
      <4>1. PICK i \in DOMAIN table : fragments[n] = table[i]
        BY <2>1, <2>3, <3>1
      <4>2. table[i].id = (n - 1) + r.rowIdx /\ table[i].id <= FileLen
        BY <2>2, <2>3, <3>1, <4>1, RowTypes DEF SaveInv
      <4> QED  BY <1>2, <4>2, Sizes
    <3>6. fragments[1].block \in Seq(Bytes)
      <4>1. fragments[1] \in Rows
        BY <2>1, <2>3, <3>1
      <4> QED  BY <4>1 DEF Rows
    <3>7. TypeOK'
      <4>1. 1 \in 0 .. RowBufSize
        BY Sizes
      <4>2. pc \in {"none", "open", "copy", "block", "eof", "error"}
        OBVIOUS
      <4>3. r \in Readers
        BY DEF SaveInv, TypeOK, Readers
      <4>4. r' \in Readers /\ Len(r'.fragments) <= RowBufSize
        BY <2>1, <2>2, <3>3, <3>4, <3>5, <3>6, <4>1, <4>2, <4>3 DEF Readers
      <4> QED  BY <1>1, <4>4, ReaderKeepsTypes DEF SaveInv
    <3>8. Len(r'.fragments) <= r'.rowIdx /\ r'.fragmentIdx <= Len(r'.fragments)
      <4>1. n <= r.rowIdx + n /\ 1 <= n
        BY <1>2, <3>1
      <4> QED  BY <2>3, <3>4, <4>1
    <3>9. ReaderPlace'
      BY <1>1, <1>3, <3>4, <3>8 DEF ReaderPlace
    <3>10. TakesBlock
      <4>1. NextId' = NextId + 1
        <5>1. r'.rowIdx = r.rowIdx + n /\ Len(r'.fragments) = n /\ r'.fragmentIdx = 1
          BY <2>3, <3>4
        <5>2. NextId' = r'.rowIdx - Len(r'.fragments) + r'.fragmentIdx
          BY DEF NextId
        <5>3. NextId' = (r.rowIdx + n) - n + 1
          BY <5>1, <5>2, Zenon
        <5> QED  BY <1>2, <5>3
      <4>2. ASSUME NEW j \in 1 .. Len(fragments)
            PROVE  /\ fragments[j].id = r'.rowIdx - Len(r'.fragments) + j - 1
                   /\ \E i \in DOMAIN table : fragments[j] = table[i]
        <5>1. fragments[j].id = (j - 1) + r.rowIdx /\ j \in Nat
          BY <2>1, <2>2
        <5>2. (j - 1) + r.rowIdx = (r.rowIdx + n) - n + j - 1
          BY <1>2, <5>1
        <5>3. r'.rowIdx = r.rowIdx + n /\ Len(r'.fragments) = n
          BY <2>3, <3>4
        <5>4. fragments[j].id = r'.rowIdx - Len(r'.fragments) + j - 1
          BY <5>1, <5>2, <5>3, Zenon
        <5> QED  BY <2>1, <5>4
      <4>3. r'.rowIdx \in Nat
        BY <3>4, <3>5, Sizes
      <4>4. 1 \in 1 .. Len(fragments)
        BY <2>3, <3>1
      <4> QED  BY <1>1, <1>2, <1>3, <2>1, <3>4, <3>8, <4>1, <4>2, <4>3, <4>4 DEF TakesBlock
    <3>11. ASSUME NEW v \in 1 .. Saves, ReadSoFar(v) PROVE ReadSoFar(v)'
      BY <1>1, <3>10, <3>11, BlockContinues DEF SaveInv
    <3>12. ASSUME w.result = "ok", ~w.missed, w.older = 0, ReadsWhole, ReadSoFar(w.version) PROVE ReadsWhole'
      <4>1. /\ r'.rowIdx <= Len(table)
            /\ NextId' = Len(table) => Len(r'.got) + Len(r'.buf) = FileLen
        BY <3>10, <3>12, StoredWhole, BlockEndsFile DEF SaveInv
      <4>2. ~cut /\ n < RowBufSize => r.rowIdx + n = Len(table)
        BY <2>4, <3>4, <3>12, <4>1
      <4>3. Len(r'.fragments) = n
        BY <2>3, <3>4
      <4> QED  BY <1>1, <3>4, <4>1, <4>2, <4>3 DEF ReadsWhole
    <3> QED  BY <1>1, <3>7, <3>9, <3>11, <3>12, ProgressKept DEF ReaderInv
  <2> QED  BY <2>5, <2>6
<1>7. CASE \E rows \in SUBSET Selected : \E order \in SortedById(rows) :
            LET fragments == [i \in DOMAIN order |-> table[order[i]]]
                cut == r.cut \/ rows # Selected
            IN IF ~ValidBatch(fragments)
               THEN r' = [r EXCEPT !.pc = "error", !.cut = cut]
               ELSE LET s == [BatchRead(fragments) EXCEPT !.cut = cut]
                    IN r' \in IF fragments = <<>> THEN {AtEOF(s)} ELSE GiveBlock(s)
  <2>0. PICK rows \in SUBSET Selected : \E order \in SortedById(rows) :
            LET fragments == [i \in DOMAIN order |-> table[order[i]]]
                cut == r.cut \/ rows # Selected
            IN IF ~ValidBatch(fragments)
               THEN r' = [r EXCEPT !.pc = "error", !.cut = cut]
               ELSE LET s == [BatchRead(fragments) EXCEPT !.cut = cut]
                    IN r' \in IF fragments = <<>> THEN {AtEOF(s)} ELSE GiveBlock(s)
    BY <1>7
  <2>1. PICK order \in SortedById(rows) :
            LET fragments == [i \in DOMAIN order |-> table[order[i]]]
                cut == r.cut \/ rows # Selected
            IN IF ~ValidBatch(fragments)
               THEN r' = [r EXCEPT !.pc = "error", !.cut = cut]
               ELSE LET s == [BatchRead(fragments) EXCEPT !.cut = cut]
                    IN r' \in IF fragments = <<>> THEN {AtEOF(s)} ELSE GiveBlock(s)
    BY <2>0
  <2>2. PICK fragments : fragments = [i \in DOMAIN order |-> table[order[i]]]
    OBVIOUS
  <2>3. PICK cut \in BOOLEAN : cut = (r.cut \/ rows # Selected)
    OBVIOUS
  <2>4. IF ~ValidBatch(fragments)
        THEN r' = [r EXCEPT !.pc = "error", !.cut = cut]
        ELSE r' \in IF fragments = <<>> THEN {AtEOF([BatchRead(fragments) EXCEPT !.cut = cut])}
                    ELSE GiveBlock([BatchRead(fragments) EXCEPT !.cut = cut])
    BY <2>1, <2>2, <2>3
  <2>5. CASE ~ValidBatch(fragments)
    BY <1>4, <2>4, <2>5
  <2>6. CASE ValidBatch(fragments)
    BY <1>6, <2>2, <2>3, <2>4, <2>6
  <2> QED  BY <2>5, <2>6
<1> QED  BY <1>5, <1>7 DEF ReadNextFragments

\* The first batch of a table into which older rows were loaded as well.
LEMMA TwoFirstRows ==
    ASSUME SaveInv, StageInv, w.result = "ok", ~w.missed, w.older > 0, r.rowIdx = 0,
           NEW order \in SortedById(Selected),
           ValidBatch([i \in DOMAIN order |-> table[order[i]]])
    PROVE  FALSE
<1>1. /\ w.older \in Nat /\ table \in Seq(Rows) /\ Len(table) \in Nat /\ DOMAIN table = 1 .. Len(table)
  BY WriterTypes DEF SaveInv
<1>2. w.older <= Len(table) /\ table[1].id = 0
  BY DEF StageInv, Staging
<1>3. PICK new : new = Newer(table)
  OBVIOUS
<1>4. /\ new \in Seq(Rows) /\ Len(new) = Len(table) - w.older
      /\ \A i \in 1 .. Len(table) - w.older : new[i] = table[w.older + i]
  <2>1. new = SubSeq(table, w.older + 1, Len(table))
    BY <1>3 DEF Newer
  <2>2. PICK o \in Nat, n \in Nat : o = w.older /\ n = Len(table)
    BY <1>1
  <2>3. new = SubSeq(table, o + 1, n) /\ o <= n
    BY <1>2, <2>1, <2>2
  <2>4. new \in Seq(Rows) /\ Len(new) = n - o /\ \A i \in 1 .. n - o : new[i] = table[o + i]
    <3>1. \A i \in o + 1 .. n : table[i] \in Rows
      BY <1>1, <2>2
    <3>2. /\ SubSeq(table, o + 1, n) \in Seq(Rows)
          /\ Len(SubSeq(table, o + 1, n)) = IF o + 1 <= n THEN n - (o + 1) + 1 ELSE 0
          /\ \A i \in 1 .. n - (o + 1) + 1 : SubSeq(table, o + 1, n)[i] = table[(o + 1) + i - 1]
      BY <3>1, SubSeqProperties
    <3>3. n - (o + 1) + 1 = n - o /\ (IF o + 1 <= n THEN n - (o + 1) + 1 ELSE 0) = n - o
      BY <2>3
    <3>4. \A i \in 1 .. n - o : (o + 1) + i - 1 = o + i
      OBVIOUS
    <3> QED  BY <2>3, <3>2, <3>3, <3>4
  <2> QED  BY <2>2, <2>4
<1>5. IsWhole(w.version, new)
  BY <1>3 DEF SaveInv, SaveOkMeansStored
<1>6. Len(new) # 0
  <2>1. Off(Len(new)) >= FileLen
    BY <1>5, Sizes DEF IsWhole
  <2> QED  BY <2>1, OffNext, SqlFSAssumption
<1>7. new[1].id = 0
  <2>1. 1 \in 1 .. Len(new)
    BY <1>4, <1>6
  <2>2. new[1].id = 1 - 1
    BY <1>5, <2>1 DEF IsWhole, AreBlocks
  <2> QED  BY <2>2
<1>8. PICK b \in DOMAIN table : b # 1 /\ table[b].id = 0
  <2>1. 1 \in 1 .. Len(table) - w.older /\ w.older + 1 \in 1 .. Len(table) /\ w.older + 1 # 1
    BY <1>1, <1>2, <1>4, <1>6
  <2>2. table[w.older + 1].id = 0
    BY <1>4, <1>7, <2>1
  <2> QED  BY <1>1, <2>1, <2>2
<1>9. 1 \in Selected /\ b \in Selected
  <2>1. 0 \in r.rowIdx .. (r.rowIdx + RowBufSize - 1) /\ 1 \in DOMAIN table
    BY <1>1, <1>8, Sizes
  <2> QED  BY <1>2, <1>8, <2>1 DEF Selected
<1>10. PICK n : n = Cardinality(Selected)
  OBVIOUS
<1>11. n \in Nat
  <2>1. Selected \subseteq 1 .. Len(table)
    BY <1>1 DEF Selected
  <2>2. IsFiniteSet(Selected)
    <3>1. IsFiniteSet(1 .. Len(table))
      BY <1>1, FS_Interval
    <3> QED  BY <2>1, <3>1, FS_Subset
  <2> QED  BY <1>10, <2>2, FS_CardinalityType
<1>12. order \in [1 .. n -> Selected] /\ \A i \in Selected : \E j \in 1 .. n : order[j] = i
  BY <1>10 DEF SortedById, Bijection, Injection, Surjection
<1>13. PICK i \in 1 .. n, j \in 1 .. n : order[i] = 1 /\ order[j] = b
  BY <1>9, <1>12
<1>14. table[order[i]].id = (i - 1) + r.rowIdx /\ table[order[j]].id = (j - 1) + r.rowIdx
  <2>1. DOMAIN order = 1 .. n
    BY <1>12
  <2>2. PICK f : f = [m \in DOMAIN order |-> table[order[m]]]
    OBVIOUS
  <2>3. DOMAIN f = 1 .. n /\ \A m \in 1 .. n : f[m] = table[order[m]]
    BY <2>1, <2>2
  <2>4. \A m \in DOMAIN f : f[m].id = (m - 1) + r.rowIdx
    BY <2>2 DEF ValidBatch
  <2> QED  BY <1>13, <2>3, <2>4
<1>15. i = j
  BY <1>2, <1>8, <1>11, <1>13, <1>14
<1> QED  BY <1>8, <1>13, <1>15

\* A batch keeps in mind whether it was cut.
LEMMA CutKept ==
    ASSUME TypeOK, NEW fragments, NEW cut
    PROVE  /\ [r EXCEPT !.pc = "error", !.cut = cut].cut = cut
           /\ AtEOF([BatchRead(fragments) EXCEPT !.cut = cut]).cut = cut
           /\ \A x \in GiveBlock([BatchRead(fragments) EXCEPT !.cut = cut]) : x.cut = cut
<1>1. [r EXCEPT !.pc = "error", !.cut = cut].cut = cut
  BY DEF TypeOK
<1>2. PICK s : s = [BatchRead(fragments) EXCEPT !.cut = cut]
  OBVIOUS
<1>3. s.cut = cut /\ DOMAIN s = DOMAIN r /\ {"pc", "buf", "fragments", "fragmentIdx", "cut"} \subseteq DOMAIN s
  BY <1>2 DEF BatchRead, TypeOK
<1>4. AtEOF(s).cut = cut
  BY <1>2 DEF AtEOF, BatchRead, TypeOK
<1>5. ASSUME NEW x \in GiveBlock(s) PROVE x.cut = cut
  <2> DEFINE b == s.fragments[s.fragmentIdx + 1].block
             g == [s EXCEPT !.pc = IF s.room > 0 THEN "copy" ELSE "open", !.buf = b, !.fragmentIdx = @ + 1]
  <2>1. g.cut = s.cut /\ "pc" \in DOMAIN g /\ "cut" \in DOMAIN g
    BY <1>3
  <2>2. x = g \/ x = [g EXCEPT !.pc = "error"]
    BY <1>5 DEF GiveBlock
  <2> HIDE DEF g
  <2>3. [g EXCEPT !.pc = "error"].cut = g.cut
    BY <2>1
  <2> QED  BY <1>3, <2>1, <2>2, <2>3
<1> QED  BY <1>1, <1>2, <1>4, <1>5

\* Where ReadNextFragments leaves the reader once it has the batch.
BatchLeaves(fragments, cut) ==
    {[r EXCEPT !.pc = "error", !.cut = cut], AtEOF([BatchRead(fragments) EXCEPT !.cut = cut])}
        \cup GiveBlock([BatchRead(fragments) EXCEPT !.cut = cut])

\* The reader keeps in mind whether the batch was cut, however it is left.
LEMMA CutKnown ==
    ASSUME TypeOK, NEW fragments, NEW cut, NEW x \in BatchLeaves(fragments, cut)
    PROVE  x.cut = cut
  BY CutKept, Zenon DEF BatchLeaves

\* No step of the reader takes anything out of such a table.
LEMMA ReaderRefuses ==
    ASSUME SaveInv, StageInv, ReaderInv, MixtureRefused, Open \/ Read \/ ReaderStep
    PROVE  MixtureRefused'
<1>1. w' = w
  BY DEF Open, Read, ReaderStep, Copy, NextBlock, LastBlock, ReadNextFragments, ReaderOnly
<1>2. r.cut => r'.cut
  <2>1. CASE ReadNextFragments
    <3>1. CASE r' = [r EXCEPT !.pc = "error"]
      BY <3>1 DEF SaveInv, TypeOK
    <3>2. ASSUME NEW fragments, NEW cut, r.cut => cut,
                 r' \in BatchLeaves(fragments, cut)
          PROVE  r.cut => r'.cut
      <4>1. TypeOK
        BY DEF SaveInv
      <4>2. r'.cut = cut
        BY <3>2, <4>1, CutKnown
      <4> QED  BY <3>2, <4>2
    <3>3. (r' = [r EXCEPT !.pc = "error"])
            \/ \E fragments, cut : (r.cut => cut) /\ r' \in BatchLeaves(fragments, cut)
      BY <2>1 DEF ReadNextFragments, BatchLeaves
    <3> QED  BY <3>1, <3>2, <3>3
  <2>2. CASE Open \/ Read
    BY <2>2 DEF Open, Read, SaveInv, TypeOK
  <2>3. CASE Copy \/ NextBlock \/ LastBlock
    BY <2>3 DEF Copy, NextBlock, LastBlock, AtEOF, GiveBlock, SaveInv, TypeOK
  <2> QED  BY <2>1, <2>2, <2>3 DEF ReaderStep
<1> SUFFICES ASSUME w.result = "ok", ~w.missed, w.older > 0, ~r'.cut
             PROVE  r'.got = <<>> /\ r'.buf = <<>> /\ r'.fragments = <<>> /\ r'.rowIdx = 0 /\ r'.pc # "eof"
  BY <1>1 DEF MixtureRefused
<1>3. ~r.cut /\ r.got = <<>> /\ r.buf = <<>> /\ r.fragments = <<>> /\ r.rowIdx = 0 /\ r.pc # "eof"
  BY <1>2 DEF MixtureRefused
<1>4. r.fragmentIdx = Len(r.fragments) /\ Len(r.fragments) = 0
  <2>1. Len(r.fragments) = 0 /\ r.fragmentIdx <= Len(r.fragments) /\ r.fragmentIdx \in Nat
    BY <1>3, ReaderTypes DEF SaveInv, ReaderInv, ReaderPlace
  <2> QED  BY <2>1
<1>5. CASE Open
  BY <1>3, <1>5 DEF Open, SaveInv, TypeOK
<1>6. CASE Read
  BY <1>3, <1>6 DEF Read, SaveInv, TypeOK
<1>7. CASE Copy
  <2>1. r.room \in Nat /\ Len(r.buf) = 0
    BY <1>3, ReaderTypes DEF SaveInv
  <2>2. Min({r.room, Len(r.buf)}) = 0
    BY <2>1, MinPair
  <2>3. PICK m : m = Min({r.room, Len(r.buf)})
    OBVIOUS
  <2>4. /\ r'.pc \in {"block", "open"} /\ r'.got = r.got \o SubSeq(r.buf, 1, m)
        /\ r'.buf = SubSeq(r.buf, m + 1, Len(r.buf)) /\ r'.fragments = r.fragments /\ r'.rowIdx = r.rowIdx
    BY <1>7, <2>3 DEF Copy, SaveInv, TypeOK
  <2>5. SubSeq(<<>>, 1, 0) = <<>> /\ <<>> \o <<>> = <<>>
    OBVIOUS
  <2> QED  BY <1>3, <2>1, <2>2, <2>3, <2>4, <2>5
<1>8. CASE NextBlock
  BY <1>4, <1>8 DEF NextBlock
<1>9. CASE LastBlock
  BY <1>3, <1>9 DEF LastBlock
<1>10. CASE ReadNextFragments
  <2>1. CASE r' = [r EXCEPT !.pc = "error"]
    BY <1>3, <2>1 DEF SaveInv, TypeOK
  <2>2. ASSUME NEW rows \in SUBSET Selected, NEW order \in SortedById(rows), NEW cut, cut = (r.cut \/ rows # Selected),
               NEW fragments, fragments = [i \in DOMAIN order |-> table[order[i]]],
               IF ~ValidBatch(fragments)
               THEN r' = [r EXCEPT !.pc = "error", !.cut = cut]
               ELSE r' \in IF fragments = <<>> THEN {AtEOF([BatchRead(fragments) EXCEPT !.cut = cut])}
                           ELSE GiveBlock([BatchRead(fragments) EXCEPT !.cut = cut])
        PROVE  r'.got = <<>> /\ r'.buf = <<>> /\ r'.fragments = <<>> /\ r'.rowIdx = 0 /\ r'.pc # "eof"
    <3>1. r'.cut = cut
      <4>1. TypeOK
        BY DEF SaveInv
      <4>2. r' \in BatchLeaves(fragments, cut)
        BY <2>2 DEF BatchLeaves
      <4> QED  BY <4>1, <4>2, CutKnown
    <3>2. rows = Selected
      BY <2>2, <3>1
    <3>3. ~ValidBatch(fragments)
      BY <1>3, <2>2, <3>2, TwoFirstRows
    <3> QED  BY <1>3, <2>2, <3>3 DEF SaveInv, TypeOK
  <2> QED  BY <1>10, <2>1, <2>2 DEF ReadNextFragments
<1> QED  BY <1>5, <1>6, <1>7, <1>8, <1>9, <1>10 DEF ReaderStep

\* While there is no reader there is nothing to refuse.
LEMMA NobodyRefused == (r = NoReader => MixtureRefused) /\ (r' = NoReader => MixtureRefused')
  BY DEF MixtureRefused, NoReader

-----------------------------------------------------------------------------
(* The theorems. *)

\* What ReaderProgress says of the bytes that were returned.
LEMMA ReaderReturns ==
    ASSUME SaveInv, ReaderInv
    PROVE  ReadsPrefix /\ RoundTrip
<1>1. \A v \in 1 .. w.version : v \in 1 .. Saves
  BY WriterTypes, Sizes DEF SaveInv
<1>2. ASSUME NEW v \in 1 .. w.version, ReadSoFar(v)
      PROVE  IsPrefix(r.got, File(v)) /\ (Len(r.got) = FileLen => r.got = File(v))
  <2>1. /\ r.got \in Seq(Bytes) /\ Len(r.got) \in Nat /\ Len(r.buf) \in Nat /\ FileLen \in Nat
    BY ReaderTypes, Sizes DEF SaveInv
  <2>2. Len(r.got) + Len(r.buf) <= FileLen /\ \A i \in 1 .. Len(r.got) : r.got[i] = <<v, i>>
    BY <1>2 DEF ReadSoFar
  <2>3. Len(r.got) <= FileLen
    <3>1. PICK a \in Nat, b \in Nat : a = Len(r.got) /\ b = Len(r.buf)
      BY <2>1
    <3>2. a + b <= FileLen
      BY <2>2, <3>1
    <3>3. a <= FileLen
      BY <3>2, Sizes
    <3> QED  BY <3>1, <3>3
  <2> QED  BY <1>1, <2>1, <2>2, <2>3, Beginning
<1>3. ReadsPrefix
  BY <1>2 DEF ReadsPrefix, ReaderInv, ReaderProgress
<1>4. ASSUME w.result = "ok", ~w.missed, w.older = 0, r.pc = "eof", ~r.cut
      PROVE  r.got = File(w.version)
  <2>1. w.version \in 1 .. w.version /\ ReadSoFar(w.version) /\ ReadsWhole
    BY <1>4, WriterTypes DEF SaveInv, ReaderInv, ReaderProgress
  <2>2. /\ r.buf = <<>> /\ r.fragments = <<>> /\ r.rowIdx = Len(table)
        /\ NextId = Len(table) => Len(r.got) + Len(r.buf) = FileLen
    BY <1>4, <2>1 DEF ReaderInv, ReaderPlace, ReadsWhole
  <2>3. r.fragmentIdx = Len(r.fragments)
    <3>1. Len(r.fragments) = 0 /\ r.fragmentIdx <= Len(r.fragments) /\ r.fragmentIdx \in Nat
      BY <2>2, ReaderTypes DEF SaveInv, ReaderInv, ReaderPlace
    <3> QED  BY <3>1
  <2>4. NextId = Len(table)
    BY <2>2, <2>3, UsedUp DEF SaveInv
  <2>5. Len(r.got) + 0 = FileLen /\ Len(r.got) \in Nat
    BY <2>2, <2>4, ReaderTypes DEF SaveInv
  <2>6. Len(r.got) = FileLen
    BY <2>5
  <2> QED  BY <1>2, <2>1, <2>6
<1> QED  BY <1>3, <1>4 DEF RoundTrip

\* The save before the reader: while a save is not ended nobody reads.
LEMMA WriterBlocksReader ==
    ASSUME ReaderInv, w.pc # "ended", r' = r, TypeOK'
    PROVE  ReaderInv'
<1>1. r' = NoReader
  BY DEF ReaderInv, ReaderPlace
<1> QED  BY <1>1, NobodyReadsNext

\* Every step keeps the invariants.
FsInv == SaveInv /\ StageInv /\ ReaderInv /\ MixtureRefused

LEMMA StepKeeps == FsInv /\ [Next]_vars => FsInv'
<1> SUFFICES ASSUME SaveInv, StageInv, ReaderInv, MixtureRefused, [Next]_vars PROVE FsInv'
  BY DEF FsInv
<1>1. CASE WriterStep
  <2>1. w.pc # "ended" /\ r' = r
    BY <1>1 DEF WriterStep, OutsideHdfs, WriterOnly, dropTableIfExists, createTable, Write, Fill, FlushInWrite,
                TarExit, CloseFlush, noopWrapUp, Mkdir, CopyFromLocal, LoadData, RmStaging
  <2>2. SaveInv'
    BY <1>1, DropSaves, CreateSaves, WriteSaves, FillSaves, FlushSaves, TarSaves, CloseSaves,
       NoopSaves, MkdirSaves, CopySaves, LoadSaves, RmSaves DEF WriterStep
  <2>3. TypeOK'
    BY <2>2 DEF SaveInv
  <2>4. StageInv'
    BY <1>1, <2>2, OthersStage, UploadStages DEF WriterStep
  <2>5. MixtureRefused'
    BY <2>1, NobodyRefused DEF ReaderInv, ReaderPlace
  <2> QED  BY <2>1, <2>2, <2>3, <2>4, <2>5, WriterBlocksReader DEF FsInv
<1>2. CASE Crash
  <2>1. w.pc # "ended" /\ r' = r
    BY <1>2 DEF Crash, OutsideHdfs, WriterOnly
  <2>2. SaveInv'
    BY <1>2, CrashSaves
  <2>3. TypeOK'
    BY <2>2 DEF SaveInv
  <2>4. StageInv'
    BY <1>2, <2>2, OthersStage
  <2>5. MixtureRefused'
    BY <2>1, NobodyRefused DEF ReaderInv, ReaderPlace
  <2> QED  BY <2>1, <2>2, <2>3, <2>4, <2>5, WriterBlocksReader DEF FsInv
<1>3. CASE SaveAgain
  <2>1. SaveInv'
    BY <1>3, AgainSaves
  <2>2. TypeOK' /\ r' = NoReader
    BY <1>3, <2>1 DEF SaveInv, SaveAgain
  <2>3. StageInv'
    BY <1>3, <2>1, OthersStage
  <2> QED  BY <2>1, <2>2, <2>3, NobodyReadsNext, NobodyRefused DEF FsInv
<1>4. CASE Open \/ Read \/ ReaderStep
  <2>1. ReaderOnly
    BY <1>4 DEF Open, Read, ReaderStep, Copy, NextBlock, LastBlock, ReadNextFragments
  <2>2. TypeOK' /\ ReaderInv'
    BY <1>4, OpenReads, ReadReads, CopyReads, NextReads, LastReads, FragmentsRead DEF ReaderStep
  <2>3. StageInv' /\ MixtureRefused'
    BY <1>4, <2>1, ReaderStages, ReaderRefuses
  <2> QED  BY <2>1, <2>2, <2>3, ReaderLeavesSave DEF FsInv
<1>5. CASE UNCHANGED vars
  <2>1. /\ r' = r /\ ReaderOnly /\ driver' = driver /\ table' = table /\ csv' = csv /\ hdfs' = hdfs
        /\ w' = w
    BY <1>5 DEF vars, ReaderOnly
  <2>2. TypeOK'
    BY <2>1 DEF SaveInv, TypeOK
  <2>3. ReaderPlace' /\ \A v \in 1 .. Saves : ReadSoFar(v) => ReadSoFar(v)'
    BY <2>1 DEF ReaderInv, ReaderPlace, ReadSoFar, NextId, TableOf, IsPiece
  <2>4. ReadsWhole => ReadsWhole'
    BY <2>1 DEF ReadsWhole, NextId
  <2>5. MixtureRefused'
    BY <2>1 DEF MixtureRefused
  <2>6. ReaderProgress'
    BY <2>1, <2>3, <2>4, ProgressKept
  <2> QED  BY <2>1, <2>2, <2>3, <2>5, <2>6, ReaderLeavesSave, ReaderStages DEF ReaderInv, FsInv
<1> QED  BY <1>1, <1>2, <1>3, <1>4, <1>5 DEF Next

\* The inductive invariant of writer and reader.
LEMMA WriterAndReader == Spec => []FsInv
<1>1. Init => FsInv
  <2> SUFFICES ASSUME Init PROVE FsInv
    OBVIOUS
  <2>1. SaveInv /\ StageInv
    BY InitSaves, InitStages
  <2>2. TypeOK /\ r = NoReader
    BY <2>1 DEF SaveInv, Init
  <2> QED  BY <2>1, <2>2, NobodyReads, NobodyRefused DEF FsInv
<1> QED  BY <1>1, StepKeeps, PTL DEF Spec

\* saveDB and SaveDBExperimental return nil only when the whole file is in
\* the table, whatever failed or was executed although it was reported as
\* failed, for every length of the file and every capacity of the buffer; the
\* deferred second Close keeps it so.  Nothing else is in the table, unless an
\* earlier upload to hive has left its staging directory behind.
THEOREM SaveStored == Spec => []SaveOkMeansStored
<1>1. FsInv => SaveOkMeansStored
  BY DEF FsInv, SaveInv
<1> QED  BY <1>1, WriterAndReader, PTL

\* Whatever writers have left behind, a reader returns a beginning of one
\* version of the file, and all of the last version when its save succeeded,
\* nothing older was loaded with it and no result set was cut short; of a
\* table with older rows in it nothing is returned.  For every size of the
\* batches and of the buffer that Read is given.
THEOREM ReadInvariant == Spec => []ReadInv
<1>1. FsInv => ReadInv
  BY ReaderReturns DEF FsInv, SaveInv, StageInv, ReaderInv, ReadInv
<1> QED  BY <1>1, WriterAndReader, PTL
=============================================================================
