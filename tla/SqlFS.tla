------------------------------- MODULE SqlFS -------------------------------
(***************************************************************************)
(* go/sqlfs: a table used as a file, and the two users that matter most:   *)
(* Model.saveDB (go/model/model.go), which pipes a tarball into a writer,  *)
(* and DumpDBModel, which copies a reader into a file.                     *)
(*                                                                         *)
(* A writer collects bytes in a buffer of fixed capacity and flushes a     *)
(* full buffer as one numbered row; a reader fetches rows in batches and   *)
(* puts them back in order.  Every statement sent to the database may      *)
(* fail, and one that failed may have been executed all the same.          *)
(*                                                                         *)
(* The bytes of a file are numbered and carry the version of the model, so *)
(* that a lost, repeated or mixed up byte shows; the base64 text of a      *)
(* block is abstracted to its bytes.                                       *)
(***************************************************************************)
EXTENDS Naturals, Sequences, SequencesExt, FiniteSetsExt

CONSTANTS
    FileLen,     \* the length of the tarball
    BufSize,     \* flushCap: the capacity of the writer's buffer
    RowBufSize,  \* rowBufSize: how many rows a reader fetches at once
    Drivers,     \* the database drivers: mysql, maxcompute, hive
    Metadata,    \* the leading bytes that SaveDBExperimental writes itself
    Saves        \* bound: how often the model is trained and saved

ASSUME SqlFSAssumption ==
    /\ FileLen \in Nat \ {0} /\ Metadata \in 0 .. FileLen
    /\ BufSize \in Nat \ {0} /\ RowBufSize \in Nat \ {0} /\ Saves \in Nat \ {0}
    /\ Drivers \subseteq {"mysql", "maxcompute", "hive"}

VARIABLES
    driver,  \* db.DriverName
    table,   \* the rows [id, block] in the order they arrived, or NoTable
    csv,     \* hive: the temporary file, or NoTable when there is none
    hdfs,    \* hive: the rows of the files in the staging directory of HDFS
    w,       \* [pc, version, head, pos, p, buf, row, result, missed, loaded,
             \* older, left]: the save in progress, the bytes whose Write it does
             \* not check (head), whether an error was missed there, ever (missed),
             \* whether LOAD DATA returned nil (loaded), how many rows it found in
             \* the staging directory (older), and whether an upload has ever
             \* ended without removing that directory (left)
    r        \* [pc, buf, fragments, fragmentIdx, rowIdx, room, n, got, cut]:
             \* the reader, what it has returned so far (got), and whether a
             \* result set of it was cut short (cut)

vars == <<driver, table, csv, hdfs, w, r>>

-----------------------------------------------------------------------------
\* No row of a table has an empty block; byte 0 stands for garbage.
NoTable == <<[id |-> 0, block |-> <<>>]>>
Garbled == << <<0, 0>> >>

File(v) == [i \in 1 .. FileLen |-> <<v, i>>]

\* saveDB, or SaveDBExperimental, which writes its metadata first.
NewWriters(v, missed, left) ==
    {[pc |-> "drop", version |-> v, head |-> head, pos |-> 0, p |-> <<>>, buf |-> <<>>,
      row |-> 0, result |-> "none", missed |-> missed, loaded |-> FALSE, older |-> 0,
      left |-> left] : head \in {0, Metadata}}

NoReader ==
    [pc |-> "none", buf |-> <<>>, fragments |-> <<>>, fragmentIdx |-> 0, rowIdx |-> 0,
     room |-> 0, n |-> 0, got |-> <<>>, cut |-> FALSE]

Init ==
    /\ driver \in Drivers
    /\ table = NoTable
    /\ csv = NoTable
    /\ hdfs = <<>>
    /\ w \in NewWriters(1, FALSE, FALSE)
    /\ r = NoReader

WriterOnly == UNCHANGED <<driver, r>>
OutsideHdfs == WriterOnly /\ UNCHANGED hdfs
ReaderOnly == UNCHANGED <<driver, table, csv, hdfs, w>>

WriterEnds(result) == w' = [w EXCEPT !.pc = "ended", !.result = result]

-----------------------------------------------------------------------------
(* Create: newSQLWriter and newHiveWriter. *)

dropTableIfExists ==
    /\ w.pc = "drop"
    /\ \/ table' = NoTable /\ w' = [w EXCEPT !.pc = "create"]
       \/ table' \in {table, NoTable} /\ WriterEnds("error")
    /\ UNCHANGED csv /\ OutsideHdfs

\* CREATE TABLE, the double-check with hasTable, and hive's temporary file.
createTable ==
    /\ w.pc = "create"
    /\ \/ table' = <<>> /\ w' = [w EXCEPT !.pc = "tar"]
       \/ table' \in {NoTable, <<>>} /\ WriterEnds("error")
    /\ csv' = IF driver = "hive" /\ w'.pc = "tar" THEN <<>> ELSE NoTable
    /\ OutsideHdfs

-----------------------------------------------------------------------------
(* flushWriteCloser. *)

\* tar (or SaveDBExperimental) calls Write(p) with the next bytes.
Write ==
    /\ w.pc = "tar"
    /\ \E k \in 1 .. (FileLen - w.pos) :
         /\ w.pos < w.head => w.pos + k <= w.head
         /\ w' = [w EXCEPT !.pc = "fill", !.pos = @ + k,
                           !.p = SubSeq(File(w.version), w.pos + 1, w.pos + k)]
    /\ UNCHANGED <<table, csv>> /\ OutsideHdfs

\* One turn of the loop of Write, up to the flush of a full buffer.
Fill ==
    /\ w.pc = "fill"
    /\ LET fill == Min({BufSize - Len(w.buf), Len(w.p)})
           buf == w.buf \o SubSeq(w.p, 1, fill)
           p == SubSeq(w.p, fill + 1, Len(w.p))
       IN w' = [w EXCEPT !.pc = IF Len(buf) >= BufSize THEN "flush" ELSE "tar",
                         !.buf = buf, !.p = p]
    /\ UNCHANGED <<table, csv>> /\ OutsideHdfs

(***************************************************************************)
(* w.flush(buf): flushToSQLTable inserts one row, flushToCSV appends one   *)
(* line to the temporary file.  A failed INSERT may have been executed; a  *)
(* failed write to the file may leave half a line, and what is written     *)
(* next ends up in the same line.  MySQL refuses a second row with the     *)
(* same id.                                                                *)
(***************************************************************************)
NewRow == [id |-> w.row, block |-> w.buf]

RowFits == driver = "mysql" => \A i \in DOMAIN table : table[i].id # w.row

HalfLine == csv # <<>> /\ Last(csv).block = Garbled

Flushed ==
    IF driver = "hive"
    THEN csv # NoTable /\ csv' = (IF HalfLine THEN csv ELSE Append(csv, NewRow)) /\ UNCHANGED table
    ELSE RowFits /\ table' = Append(table, NewRow) /\ UNCHANGED csv

FlushFailed ==
    \/ UNCHANGED <<table, csv>>
    \/ driver # "hive" /\ RowFits /\ table' = Append(table, NewRow) /\ UNCHANGED csv
    \/ /\ driver = "hive" /\ csv # NoTable /\ ~HalfLine
       /\ csv' = Append(csv, [id |-> w.row, block |-> Garbled])
       /\ UNCHANGED table

\* Write returned an error: it ends tar, and saveDB goes to its deferred
\* Close; SaveDBExperimental does not look at what the first Writes return.
WriteFailed ==
    IF w.pos <= w.head
    THEN [w EXCEPT !.pc = "tar", !.p = <<>>, !.missed = TRUE]
    ELSE [w EXCEPT !.pc = "deferred", !.p = <<>>, !.result = "error"]

\* The flush in Write; when it fails the rest of p is not taken.
FlushInWrite ==
    /\ w.pc = "flush"
    /\ \/ /\ Flushed
          /\ w' = [w EXCEPT !.pc = IF w.p = <<>> THEN "tar" ELSE "fill",
                            !.buf = <<>>, !.row = @ + 1]
       \/ FlushFailed /\ w' = WriteFailed
    /\ OutsideHdfs

\* tar fails, or has written everything.
TarExit ==
    /\ w.pc = "tar"
    /\ \/ w' = [w EXCEPT !.pc = "deferred", !.result = "error"]
       \/ w.pos = FileLen /\ w' = [w EXCEPT !.pc = "close"]
    /\ UNCHANGED <<table, csv>> /\ OutsideHdfs

\* Mutant: the deferred Close is repeated until the upload succeeds.
ClosedUntilOk(ok) ==
    IF w.pc \in {"close", "wrapup", "rm"}
    THEN [w EXCEPT !.pc = "deferred", !.result = IF ok THEN "ok" ELSE "error"]
    ELSE [w EXCEPT !.pc = IF ok \/ w.pc = "deferred" THEN "ended" ELSE "deferred"]

\* Where a Close goes when it succeeded, and when it failed: the Close of
\* saveDB decides what saveDB returns, the deferred one is not looked at.
Closed(ok) ==
    IF w.pc \in {"close", "wrapup", "rm"}
    THEN [w EXCEPT !.pc = "deferred", !.result = IF ok THEN "ok" ELSE "error"]
    ELSE [w EXCEPT !.pc = "ended"]

\* Mutant: Close ignores the error of its flush.
CloseFlushUnchecked ==
    /\ w.pc \in {"close", "deferred"}
    /\ IF w.buf = <<>> THEN UNCHANGED <<table, csv>> ELSE Flushed \/ FlushFailed
    /\ w' = [w EXCEPT !.pc = IF w.pc = "close" THEN "wrapup" ELSE "lastWrapup", !.buf = <<>>]
    /\ OutsideHdfs

\* Close: flush what is left, if anything.
CloseFlush ==
    /\ w.pc \in {"close", "deferred"}
    /\ LET go == IF w.pc = "close" THEN "wrapup" ELSE "lastWrapup" IN
         \/ w.buf = <<>> /\ w' = [w EXCEPT !.pc = go] /\ UNCHANGED <<table, csv>>
         \/ w.buf # <<>> /\ Flushed /\ w' = [w EXCEPT !.pc = go, !.buf = <<>>, !.row = @ + 1]
         \/ w.buf # <<>> /\ FlushFailed /\ w' = Closed(FALSE)
    /\ OutsideHdfs

(***************************************************************************)
(* Close: wrapup.  noopWrapUp, or uploadCSVFile, a command of hdfs or a    *)
(* statement a step; any of them may fail.  What LOAD DATA returns is what *)
(* Close returns.                                                          *)
(***************************************************************************)
noopWrapUp ==
    /\ w.pc \in {"wrapup", "lastWrapup"} /\ driver # "hive"
    /\ w' = Closed(TRUE)
    /\ UNCHANGED <<table, csv>> /\ OutsideHdfs

\* hdfs dfs -mkdir -p.  When it fails nothing is left to be removed but the
\* temporary file.
Mkdir ==
    /\ w.pc \in {"wrapup", "lastWrapup"} /\ driver = "hive"
    /\ \/ w' = [w EXCEPT !.pc = IF w.pc = "wrapup" THEN "copy" ELSE "lastCopy"] /\ UNCHANGED csv
       \/ w' = Closed(FALSE) /\ csv' = NoTable
    /\ UNCHANGED table /\ OutsideHdfs

\* hdfs dfs -copyFromLocal: one more file in the directory, or a beginning of
\* it.  A second Close finds no file to copy.
CopyFromLocal ==
    /\ w.pc \in {"copy", "lastCopy"}
    /\ \/ /\ csv # NoTable /\ hdfs' = hdfs \o csv
          /\ w' = [w EXCEPT !.pc = IF w.pc = "copy" THEN "load" ELSE "lastLoad", !.older = Len(hdfs)]
       \/ /\ hdfs' \in {hdfs} \cup {hdfs \o SubSeq(csv, 1, k) : k \in {k \in 1 .. Len(csv) : csv # NoTable}}
          /\ w' = [w EXCEPT !.pc = IF w.pc = "copy" THEN "rm" ELSE "lastRm", !.loaded = FALSE]
    /\ UNCHANGED <<table, csv>> /\ WriterOnly

\* LOAD DATA INPATH ... OVERWRITE moves all files of the directory into the
\* table.  (The reader sorts the rows: their order is of no consequence.)
LoadData ==
    /\ w.pc \in {"load", "lastLoad"}
    /\ \E ok \in BOOLEAN :
         /\ w' = [w EXCEPT !.pc = IF w.pc = "load" THEN "rm" ELSE "lastRm", !.loaded = ok]
         /\ \/ table' = hdfs /\ hdfs' = <<>>
            \/ ~ok /\ UNCHANGED <<table, hdfs>>
    /\ UNCHANGED csv /\ WriterOnly

\* Mutant: the staging directory is not removed when LOAD DATA failed.
RmStagingIfLoaded ==
    /\ w.pc \in {"rm", "lastRm"}
    /\ hdfs' = IF w.loaded THEN <<>> ELSE hdfs
    /\ w' = Closed(w.loaded)
    /\ csv' = NoTable
    /\ UNCHANGED table /\ WriterOnly

\* The deferred functions: hdfs dfs -rm -r -f, whose error is not looked at,
\* and the temporary file.
RmStaging ==
    /\ w.pc \in {"rm", "lastRm"}
    /\ \/ hdfs' = <<>> /\ w' = Closed(w.loaded)
       \/ hdfs' = hdfs /\ w' = [Closed(w.loaded) EXCEPT !.left = TRUE]
    /\ csv' = NoTable
    /\ UNCHANGED table /\ WriterOnly

\* The process dies; what is in HDFS stays.
Crash ==
    /\ w.pc \notin {"ended", "drop"}
    /\ w' = [w EXCEPT !.pc = "ended", !.result = "crashed",
                      !.left = @ \/ w.pc \in {"load", "lastLoad", "rm", "lastRm"}]
    /\ csv' = NoTable
    /\ UNCHANGED table /\ OutsideHdfs

\* The model is trained again and saved under the same name.  Saving while
\* another session reads the table is left out.
SaveAgain ==
    /\ w.pc = "ended"
    /\ w.version < Saves
    /\ r.pc \in {"none", "eof", "error"}
    /\ w' \in NewWriters(w.version + 1, w.missed, w.left)
    /\ csv' = NoTable
    /\ r' = NoReader
    /\ UNCHANGED <<driver, table, hdfs>>

-----------------------------------------------------------------------------
(* The reader. *)

Open ==
    /\ r.pc = "none"
    /\ w.pc = "ended"
    /\ \/ table # NoTable /\ r' = [r EXCEPT !.pc = "open"]
       \/ r' = [r EXCEPT !.pc = "error"]
    /\ ReaderOnly

\* Read(p) with room for one byte or for all of the file.
Read ==
    /\ r.pc = "open"
    /\ \E room \in {1, FileLen + 1} :
         r' = [r EXCEPT !.pc = "copy", !.room = room, !.n = 0]
    /\ ReaderOnly

\* copy(p[n:], r.buf); with r.buf used up the next block is wanted, also
\* when p is full.
Copy ==
    /\ r.pc = "copy"
    /\ LET m == Min({r.room, Len(r.buf)})
           rest == SubSeq(r.buf, m + 1, Len(r.buf))
       IN r' = [r EXCEPT !.pc = IF rest = <<>> THEN "block" ELSE "open",
                         !.got = @ \o SubSeq(r.buf, 1, m),
                         !.buf = rest, !.room = @ - m, !.n = @ + m]
    /\ ReaderOnly

\* Mutant: the end of the file is returned as 0 bytes without an error.
AtEOFSilent(s) == [s EXCEPT !.pc = "open", !.fragments = <<>>, !.fragmentIdx = 0]

\* io.EOF: Read reports it when it has nothing else to return.
AtEOF(s) ==
    [s EXCEPT !.pc = IF s.n > 0 THEN "open" ELSE "eof", !.fragments = <<>>, !.fragmentIdx = 0]

\* A block is left in the batch; half a line may or may not be base64 text.
GiveBlock(s) ==
    LET block == s.fragments[s.fragmentIdx + 1].block
        given == [s EXCEPT !.pc = IF s.room > 0 THEN "copy" ELSE "open",
                           !.buf = block, !.fragmentIdx = @ + 1]
    IN {given} \cup IF block = Garbled THEN {[given EXCEPT !.pc = "error"]} ELSE {}

\* nextBlock: the batch is not used up.
NextBlock ==
    /\ r.pc = "block"
    /\ r.fragmentIdx < Len(r.fragments)
    /\ r' \in GiveBlock(r)
    /\ ReaderOnly

\* nextBlock: the last batch was not full, so there is no more.
LastBlock ==
    /\ r.pc = "block"
    /\ r.fragmentIdx = Len(r.fragments)
    /\ r.rowIdx > 0
    /\ Len(r.fragments) < RowBufSize
    /\ r' = AtEOF(r)
    /\ ReaderOnly

\* The rows of the SELECT of readNextFragments, as indices of table.
Selected == {i \in DOMAIN table : table[i].id \in r.rowIdx .. (r.rowIdx + RowBufSize - 1)}

\* The orders that sort.Slice may leave rows in: it is not stable.
SortedById(rows) ==
    {s \in Bijection(1 .. Cardinality(rows), rows) :
        \A i, j \in DOMAIN s : i < j => table[s[i]].id <= table[s[j]].id}

\* Mutant: the ids of a batch are not checked.
ValidBatchUnchecked(fragments) == Len(fragments) <= RowBufSize

\* "invalid sqlfs db table": too many rows, or a gap.
ValidBatch(fragments) ==
    /\ Len(fragments) <= RowBufSize
    /\ \A i \in DOMAIN fragments : fragments[i].id = (i - 1) + r.rowIdx

BatchRead(fragments) ==
    [r EXCEPT !.fragments = fragments, !.fragmentIdx = 0, !.rowIdx = @ + Len(fragments)]

(***************************************************************************)
(* nextBlock with readNextFragments.  rows.Next also returns false when    *)
(* the connection breaks, and rows.Err is not asked: the rows seen until   *)
(* then, in no particular order, are taken for all of them.                *)
(***************************************************************************)
ReadNextFragments ==
    /\ r.pc = "block"
    /\ r.fragmentIdx = Len(r.fragments)
    /\ ~(r.rowIdx > 0 /\ Len(r.fragments) < RowBufSize)
    /\ \/ r' = [r EXCEPT !.pc = "error"]
       \/ \E rows \in SUBSET Selected : \E order \in SortedById(rows) :
            LET fragments == [i \in DOMAIN order |-> table[order[i]]]
                cut == r.cut \/ rows # Selected
            IN IF ~ValidBatch(fragments)
               THEN r' = [r EXCEPT !.pc = "error", !.cut = cut]
               ELSE LET s == [BatchRead(fragments) EXCEPT !.cut = cut]
                    IN r' \in IF fragments = <<>> THEN {AtEOF(s)} ELSE GiveBlock(s)
    /\ ReaderOnly

-----------------------------------------------------------------------------
WriterStep ==
    \/ dropTableIfExists \/ createTable
    \/ Write \/ Fill \/ FlushInWrite \/ TarExit
    \/ CloseFlush \/ noopWrapUp \/ Mkdir \/ CopyFromLocal \/ LoadData \/ RmStaging

ReaderStep == Copy \/ NextBlock \/ LastBlock \/ ReadNextFragments

Next == WriterStep \/ Crash \/ SaveAgain \/ Open \/ Read \/ ReaderStep

\* The database, HDFS and tar answer, and io.Copy reads until EOF or an error.
Fairness == WF_vars(WriterStep) /\ WF_vars(Read \/ ReaderStep)

Spec == Init /\ [][Next]_vars /\ Fairness

-----------------------------------------------------------------------------
(* Properties. *)

Bytes == (1 .. Saves) \X (1 .. FileLen) \cup {<<0, 0>>}
Rows == [id : 0 .. FileLen, block : Seq(Bytes)]

\* Types; the writer's buffer never grows beyond its capacity.
TypeOK ==
    /\ driver \in Drivers
    /\ table \in Seq(Rows) /\ csv \in Seq(Rows) /\ hdfs \in Seq(Rows)
    /\ w \in [pc : {"drop", "create", "tar", "fill", "flush", "close", "wrapup", "copy", "load", "rm",
                    "deferred", "lastWrapup", "lastCopy", "lastLoad", "lastRm", "ended"},
              version : 1 .. Saves, head : 0 .. FileLen, pos : 0 .. FileLen,
              p : Seq(Bytes), buf : Seq(Bytes), row : 0 .. FileLen,
              result : {"none", "ok", "error", "crashed"}, missed : BOOLEAN,
              loaded : BOOLEAN, older : Nat, left : BOOLEAN]
    /\ r \in [pc : {"none", "open", "copy", "block", "eof", "error"},
              buf : Seq(Bytes), fragments : Seq(Rows), fragmentIdx : 0 .. RowBufSize,
              rowIdx : 0 .. FileLen + 1, room : 0 .. FileLen + 1, n : Nat,
              got : Seq(Bytes), cut : BOOLEAN]
    /\ Len(w.buf) <= BufSize /\ Len(r.fragments) <= RowBufSize

\* Where the k-th block of a file begins, what may be stored of it (the
\* last block of a save that failed can be too short), and a whole one.
Off(k) == k * BufSize

IsPiece(v, k, b) ==
    /\ Len(b) \in 1 .. BufSize /\ Off(k) + Len(b) <= FileLen
    /\ \A i \in 1 .. Len(b) : b[i] = <<v, Off(k) + i>>

IsBlock(v, k, b) == IsPiece(v, k, b) /\ (Len(b) = BufSize \/ Off(k) + Len(b) = FileLen)

\* The rows are the first blocks of the file, numbered from 0; and all of
\* them.
AreBlocks(v, rows) ==
    \A i \in 1 .. Len(rows) : rows[i].id = i - 1 /\ IsBlock(v, i - 1, rows[i].block)

IsWhole(v, rows) ==
    AreBlocks(v, rows) /\ Off(Len(rows)) \in FileLen .. (FileLen + BufSize - 1)

\* The rows that the last upload added to those it found in the directory.
Newer(rows) == SubSeq(rows, w.older + 1, Len(rows))

\* saveDB and SaveDBExperimental return nil only when the table holds the
\* whole file, in rows numbered from 0, whatever failed on the way; the
\* deferred second Close does not spoil it.  Nothing else is in the table,
\* but for one case: an earlier upload to hive died, or could not remove the
\* staging directory (hive_writer.go:88 ignores that), and its rows are
\* loaded too, while saveDB returns nil.  The exception are the errors of
\* writing the metadata, which SaveDBExperimental does not look at.
SaveOkMeansStored ==
    w.result = "ok" /\ ~w.missed =>
        /\ IsWhole(w.version, Newer(table))
        /\ w.older > 0 => w.left

\* Whatever failed or interrupted saves have left behind, and wherever a
\* result set is cut, a reader returns a beginning of one version of the
\* file: no gap, no repetition, no mixture of two versions.  (Not so with
\* hive, where half a line may be loaded.)
ReadsPrefix ==
    driver # "hive" /\ ~w.missed => \E v \in 1 .. w.version : IsPrefix(r.got, File(v))

\* What was saved is what is read back, when no result set was cut short
\* (readNextFragments does not ask rows.Err) and nothing older was loaded
\* with it.
RoundTrip ==
    w.result = "ok" /\ ~w.missed /\ w.older = 0 /\ r.pc = "eof" /\ ~r.cut => r.got = File(w.version)

\* A table into which older rows were loaded as well cannot be read, saved
\* though it is: the first batch has two rows with the id 0, and not a byte
\* of a mixture is returned, unless the result set is cut short.
MixtureRefused ==
    w.result = "ok" /\ ~w.missed /\ w.older > 0 /\ ~r.cut =>
        r.got = <<>> /\ r.buf = <<>> /\ r.fragments = <<>> /\ r.rowIdx = 0 /\ r.pc # "eof"

-----------------------------------------------------------------------------
(* What the reader's promises rest on. *)

\* A save begins with nothing written; every row takes bytes out of the
\* buffer, and a Write that has returned has taken all of p, or was given up.
WriterCounts ==
    /\ w.pc \in {"drop", "create"} => w.pos = 0 /\ w.result = "none"
    /\ w.row + Len(w.buf) + Len(w.p) <= w.pos
    /\ w.pc \in {"tar", "close"} => w.p = <<>>
    /\ w.pc = "flush" => Len(w.buf) = BufSize

\* Where the rows go.
Target == IF driver = "hive" THEN csv ELSE table

\* As long as nothing has failed, the rows, the buffer and the rest of p are
\* one after the other in the file, up to the byte tar has come to.
SaveProgress ==
    w.pc \in {"tar", "fill", "flush", "close", "wrapup", "copy"} /\ ~w.missed =>
        /\ w.result = "none"
        /\ AreBlocks(w.version, Target)
        /\ w.pc \in {"wrapup", "copy"} => w.buf = <<>> /\ IsWhole(w.version, Target)
        /\ w.pc \notin {"wrapup", "copy"} =>
             /\ Len(Target) = w.row
             /\ \A i \in 1 .. Len(Target) : Len(Target[i].block) = BufSize
             /\ w.pos = Off(w.row) + Len(w.buf) + Len(w.p)
             /\ \A i \in 1 .. Len(w.buf) : w.buf[i] = <<w.version, Off(w.row) + i>>
             /\ \A i \in 1 .. Len(w.p) : w.p[i] = <<w.version, Off(w.row) + Len(w.buf) + i>>
        /\ w.pc = "close" => w.pos = FileLen

\* And then the rows are in the staging directory, and in the table.
UploadProgress ==
    w.pc \in {"load", "rm"} /\ ~w.missed =>
        /\ w.result = "none" /\ w.buf = <<>>
        /\ w.pc = "load" => IsWhole(w.version, Newer(hdfs))
        /\ w.pc = "rm" /\ w.loaded => IsWhole(w.version, Newer(table))

\* The staging directory is empty between uploads, unless one was left.
\* The first row of a file is number 0, also of the files that are left.
Staging ==
    /\ driver # "hive" =>
         hdfs = <<>> /\ w.older = 0 /\ w.pc \notin {"copy", "load", "rm", "lastCopy", "lastLoad", "lastRm"}
    /\ w.pc \notin {"load", "rm", "lastLoad", "lastRm"} /\ ~w.left => hdfs = <<>>
    /\ ~w.left => w.older = 0
    /\ driver = "hive" /\ csv = <<>> => w.row = 0
    /\ csv # <<>> => csv[1].id = 0
    /\ hdfs # <<>> => hdfs[1].id = 0
    /\ w.pc \in {"load", "lastLoad"} => w.older <= Len(hdfs)
    /\ w.result = "ok" \/ (w.pc = "rm" /\ w.loaded) =>
         w.older <= Len(table) /\ (w.older > 0 => table[1].id = 0)

\* A save that went well leaves nothing for the deferred Close.
SavedStays ==
    w.result = "ok" =>
        /\ w.pc \in {"deferred", "lastWrapup", "lastCopy", "lastRm", "ended"}
        /\ ~w.missed => w.buf = <<>>
        /\ driver = "hive" => csv = NoTable

\* The rows hold pieces of one version, and only the last may be short.
TableOf(v) ==
    \A i \in DOMAIN table :
        /\ IsPiece(v, table[i].id, table[i].block)
        /\ \A k \in DOMAIN table : table[i].id < table[k].id => Len(table[i].block) = BufSize

\* What saves have left in the table, and what the deferred Close of one
\* that failed may still add.
RowsClean ==
    ~w.missed /\ driver # "hive" =>
        /\ table = NoTable \/ \E v \in 1 .. w.version : TableOf(v)
        /\ w.pc = "deferred" /\ w.buf # <<>> =>
             /\ TableOf(w.version) /\ IsPiece(w.version, w.row, w.buf)
             /\ \A i \in DOMAIN table :
                  table[i].id <= w.row /\ (table[i].id < w.row => Len(table[i].block) = BufSize)

\* Nobody saves while the reader reads, and it wants a block when it has
\* none.
ReaderPlace ==
    /\ IF r.pc = "none" THEN r = NoReader ELSE w.pc = "ended"
    /\ r.pc \in {"open", "copy", "block", "eof"} => table # NoTable
    /\ r.pc \in {"block", "eof"} => r.buf = <<>>
    /\ r.fragmentIdx <= Len(r.fragments) /\ Len(r.fragments) <= r.rowIdx

\* The id of the next block that the reader will take.
NextId == r.rowIdx - Len(r.fragments) + r.fragmentIdx

\* The reader is in version v, behind the blocks it has taken, and the rest
\* of its batch are the rows that follow.
ReadSoFar(v) ==
    /\ \A i \in 1 .. Len(r.got) : r.got[i] = <<v, i>>
    /\ \A i \in 1 .. Len(r.buf) : r.buf[i] = <<v, Len(r.got) + i>>
    /\ Len(r.got) + Len(r.buf) <= FileLen
    /\ r.pc \in {"open", "copy", "block", "eof"} =>
         /\ TableOf(v)
         /\ \A j \in 1 .. Len(r.fragments) :
              /\ r.fragments[j].id = r.rowIdx - Len(r.fragments) + j - 1
              /\ \E i \in DOMAIN table : r.fragments[j] = table[i]
         /\ (\E i \in DOMAIN table : table[i].id >= NextId) => Len(r.got) + Len(r.buf) = Off(NextId)

\* After a save that went well, the reader knows the end when it sees it.
ReadsWhole ==
    r.pc \in {"open", "copy", "block", "eof"} =>
        /\ r.rowIdx <= Len(table)
        /\ NextId = Len(table) => Len(r.got) + Len(r.buf) = FileLen
        /\ ~r.cut /\ r.rowIdx > 0 /\ Len(r.fragments) < RowBufSize => r.rowIdx = Len(table)
        /\ ~r.cut /\ r.pc = "eof" => r.rowIdx = Len(table) /\ r.fragments = <<>>

ReaderProgress ==
    /\ ~w.missed /\ (driver # "hive" \/ (w.result = "ok" /\ w.older = 0)) =>
         \E v \in 1 .. w.version : ReadSoFar(v) /\ (w.result = "ok" => v = w.version)
    /\ ~w.missed /\ w.result = "ok" /\ w.older = 0 => ReadsWhole

\* What a reader of the table gets, whatever has happened to its writers.
ReadInv ==
    /\ TypeOK /\ ReadsPrefix /\ RoundTrip /\ MixtureRefused
    /\ WriterCounts /\ SaveProgress /\ UploadProgress /\ Staging /\ SavedStays /\ RowsClean
    /\ ReaderPlace /\ ReaderProgress

\* The save ends, and a reader reaches EOF or an error.
SaveEnds == <>(w.pc = "ended")
ReadEnds == (r.pc = "open") ~> (r.pc \in {"eof", "error"})
=============================================================================
