------------------------------ MODULE Terminal ------------------------------
(***************************************************************************)
(* The sqlflow command line client (go/cmd/sqlflow).  It cuts the text it  *)
(* reads into statements, line by line, and runs each one on the server,   *)
(* rendering the responses as they come.  In file mode (-f, -e, a pipe) it *)
(* is repl; at a terminal it is the prompt, whose keys edit the line, walk *)
(* through the history and search it.                                      *)
(*                                                                         *)
(* Text is a sequence of tokens.  "w" stands for any word, "sq" and "dq"   *)
(* are the quotes, "bs" a backslash, "cmt" is -- followed by a blank or    *)
(* the end of the line, "sp" a blank; "nl" is the newline that joins       *)
(* lines, also what the two characters \n are replaced by.                 *)
(***************************************************************************)
EXTENDS Naturals, Sequences, FiniteSets, SequencesExt

CONSTANTS
    Files,      \* file mode: the inputs, as sequences of lines
    Chunks,     \* prompt: what one read of the console may return
    OldHistory, \* prompt: the contents of the history file
    MaxChunks,  \* bound: reads of the console
    MaxItems,   \* bound: responses of the server
    PageSize    \* tablePageSize

ASSUME TerminalAssumption ==
    /\ MaxChunks \in Nat /\ MaxItems \in Nat
    /\ PageSize \in Nat \ {0}

Words == {"w", "use", "exit"}
Blank == {"sp", "nl"}
Tokens == Words \cup Blank \cup {";", "sq", "dq", "bs", "cmt"}
Keys == {"up", "down", "search", "edit"}
Texts == Seq(Tokens \cup Keys)   \* a key in the middle of a paste is text

ASSUME InputAssumption ==
    /\ Files \subseteq Seq(Seq(Tokens))
    /\ Chunks \subseteq Seq(Tokens \cup Keys \cup {"enter"})
    /\ OldHistory \in Seq(Seq(Tokens))

VARIABLES
    mode,   \* file or prompt
    unread, \* file: the lines the scanner has left; prompt: the bytes of
            \* stdinParser.buf that Read has not returned
    chunks, \* reads of the console so far
    stmts,  \* the statements found so far, the last one perhaps unfinished
    quote,  \* the quote the text is in, or none
    todo,   \* the statements to run
    cur,    \* the statement that is running
    phase,  \* read, run, recv, fetch; done, exit and fatal are final
    db,     \* currentDB: how many USE statements have succeeded
    table,  \* the rows the table writer holds
    shown,  \* what the running statement has printed
    got,    \* history: what the server has sent for it
    items,  \* responses so far, in all
    ed,     \* the line editor, see EditorInit
    hist,   \* the history, newest first
    last,   \* lastStatements
    typed,  \* history: the lines read
    ran,    \* history: the statements run
    saved   \* history: the statements behind each entry of hist

input == <<mode, unread, chunks>>
lexer == <<stmts, quote>>
runner == <<todo, cur, ran>>
render == <<table, shown, got, items>>
editor == <<ed, hist, last, saved>>
vars == <<input, lexer, runner, phase, db, render, editor, typed>>

-----------------------------------------------------------------------------
(* Cutting a line into statements. *)

\* The first position from i on that holds no blank.
NonBlank(s, i) ==
    CHOOSE j \in i..(Len(s) + 1) :
        /\ \A k \in i..(j - 1) : s[k] \in Blank
        /\ j <= Len(s) => s[j] \notin Blank

TrimLeft(s) == SubSeq(s, NonBlank(s, 1), Len(s))

TrimSpace(s) == Reverse(TrimLeft(Reverse(TrimLeft(s))))

\* (*statements)[len(*statements)-1] += text
Extend(ss, text) == ReplaceAt(ss, Len(ss), Last(ss) \o text)

\* Mutant: either quote closes a quoted string.
ToggleAnyQuote(q, t) == IF q = "none" THEN t ELSE "none"

\* A quote opens a quoted string, and closes one that it opened.
ToggleQuote(q, t) == IF q = "none" THEN t ELSE IF q = t THEN "none" ELSE q

(***************************************************************************)
(* One token of the line.  start is where the current statement begins in  *)
(* the line, ret what addLineToStmt returns once it is known.  The blanks  *)
(* after a semicolon are passed over: they lie before start.               *)
(***************************************************************************)
AtBackslash(a) == IF a.quote = "none" THEN a ELSE [a EXCEPT !.esc = TRUE]

AtSemicolon(line, a, i) ==
    LET whole == SubSeq(line, a.start, i)
        keep == \/ i = 1 /\ Last(a.stmts) # <<>>
                \/ i # a.start
        ss == IF keep THEN Extend(a.stmts, whole) ELSE a.stmts
        next == NonBlank(line, i + 1)
    IN [a EXCEPT !.start = next,
                 !.ret = IF next > Len(line) THEN "done" ELSE "none",
                 !.stmts = IF next <= Len(line) /\ Last(ss) # <<>>
                           THEN Append(ss, <<>>) ELSE ss]

AtComment(line, a, i) ==
    LET ss == Extend(a.stmts, TrimSpace(SubSeq(line, a.start, i - 1)))
    IN IF ss = <<<<>>>>
       THEN [a EXCEPT !.stmts = <<>>, !.ret = "done"]
       ELSE [a EXCEPT !.stmts = ss, !.ret = "more"]

Scan(line, a, i) ==
    LET t == line[i]
        open == a.quote = "none"
    IN IF a.ret # "none" \/ i < a.start THEN a
       ELSE IF a.esc THEN [a EXCEPT !.esc = FALSE]
       ELSE CASE t = "bs" -> AtBackslash(a)
              [] t \in {"sq", "dq"} -> [a EXCEPT !.quote = ToggleQuote(@, t)]
              [] t = ";" /\ open -> AtSemicolon(line, a, i)
              [] t = "cmt" /\ open -> AtComment(line, a, i)
              [] OTHER -> a

\* addLineToStmt: the statements and the quote after a line, and done when
\* the line ends at the end of a statement.
AddLine(text, ss, q) ==
    LET line == IF ss = <<>> THEN TrimLeft(text) ELSE text
        a0 == [stmts |-> IF ss = <<>> THEN <<<<>>>> ELSE Extend(ss, <<"nl">>),
               quote |-> q, esc |-> FALSE, start |-> 1, ret |-> "none"]
        at[i \in 0..Len(line)] ==
          IF i = 0 THEN a0
          ELSE CHOOSE after \in {Scan(line, a, i) : a \in {at[i - 1]}} : TRUE
        end == at[Len(line)]
    IN IF end.ret = "none"
       THEN [end EXCEPT !.stmts = Extend(@, SubSeq(line, end.start, Len(line))),
                        !.ret = "more"]
       ELSE end

-----------------------------------------------------------------------------
Init ==
    /\ mode \in {"file", "prompt"}
    /\ unread \in IF mode = "file" THEN Files ELSE {<<>>}
    /\ chunks = 0
    /\ stmts = <<>> /\ quote = "none"
    /\ todo = <<>> /\ cur = <<>> /\ ran = <<>>
    /\ phase = "read"
    /\ db = 0
    /\ table = <<>> /\ shown = <<>> /\ got = <<>> /\ items = 0
    /\ ed = [buf |-> <<>>, orig |-> <<>>, nav |-> 0, searching |-> FALSE,
             prefix |-> "live", live |-> FALSE, oldLive |-> FALSE,
             keyMap |-> "default", sel |-> <<>>, kept |-> <<>>, clip |-> <<>>]
    /\ hist = OldHistory
    /\ saved = [i \in DOMAIN OldHistory |-> AddLine(OldHistory[i], <<>>, "none").stmts]
    /\ last = <<>>
    /\ typed = <<>>

-----------------------------------------------------------------------------
(* File mode: repl. *)

\* readStmt takes one more line.  Statements that are complete are run; the
\* last one gets the semicolon it lacks.
WithSemicolon(ss) ==
    IF ss = <<>> \/ (TrimSpace(Last(ss)) # <<>> /\ Last(TrimSpace(Last(ss))) = ";")
    THEN ss ELSE Extend(ss, <<";">>)

StartRun(ss) ==
    /\ todo' = ss
    /\ stmts' = <<>> /\ quote' = "none"
    /\ phase' = "run"

ReadLine ==
    /\ mode = "file" /\ phase = "read" /\ unread # <<>>
    /\ \E a \in {AddLine(Head(unread), stmts, quote)} :
          IF a.ret = "done"
          THEN StartRun(WithSemicolon(a.stmts))
          ELSE /\ stmts' = a.stmts /\ quote' = a.quote
               /\ UNCHANGED <<todo, phase>>
    /\ unread' = Tail(unread)
    /\ typed' = Append(typed, Head(unread))
    /\ UNCHANGED <<mode, chunks, cur, ran, db, render, editor>>

\* Mutant: at the end of the file repl goes on.
ReadEOFAgain ==
    /\ mode = "file" /\ phase = "read" /\ unread = <<>>
    /\ StartRun(WithSemicolon(stmts))
    /\ UNCHANGED <<input, cur, ran, db, render, editor, typed>>

\* The end of the file: what is left is a statement too.
ReadEOF ==
    /\ mode = "file" /\ phase = "read" /\ unread = <<>>
    /\ IF stmts = <<>>
       THEN phase' = "done" /\ UNCHANGED <<todo, lexer>>
       ELSE StartRun(WithSemicolon(stmts))
    /\ UNCHANGED <<input, cur, ran, db, render, editor, typed>>

-----------------------------------------------------------------------------
(* The prompt. *)

\* The console returns some bytes: a key, a line, several pasted lines.
Input(c) ==
    /\ mode = "prompt" /\ phase = "read"
    /\ unread = <<>> /\ chunks < MaxChunks
    /\ ed.searching => c \in Seq(Keys \cup {"enter"})
    /\ unread' = c
    /\ chunks' = chunks + 1
    /\ UNCHANGED <<mode, lexer, runner, phase, db, render, editor, typed>>

\* stdinParser.Read: a key that is remapped swallows the text before it; a
\* pasted text is handed out line by line, each newline by itself.
LineLen ==
    CHOOSE n \in 0..Len(unread) :
        /\ \A i \in 1..n : unread[i] # "enter"
        /\ n < Len(unread) => unread[n + 1] = "enter"

Pressed(key) ==
    /\ mode = "prompt" /\ phase = "read" /\ unread # <<>>
    /\ Last(unread) = key /\ LineLen = Len(unread)
    /\ unread' = <<>>
    /\ UNCHANGED <<mode, chunks, lexer, runner, phase, db, render, hist, last, saved, typed>>

InsertText ==
    /\ mode = "prompt" /\ phase = "read"
    /\ LineLen > 0 /\ (LineLen = Len(unread) => Last(unread) \notin Keys)
    /\ ed' = [ed EXCEPT !.buf = @ \o SubSeq(unread, 1, LineLen)]
    /\ unread' = SubSeq(unread, LineLen + 1, Len(unread))
    /\ UNCHANGED <<mode, chunks, lexer, runner, phase, db, render, hist, last, saved, typed>>

\* navigateHistory; the line being typed is kept to come back to.
Navigate(older) ==
    LET orig == IF ed.nav = 0 THEN ed.buf ELSE ed.orig
        pos == IF older THEN IF ed.nav < Len(hist) THEN ed.nav + 1 ELSE ed.nav
                        ELSE IF ed.nav > 0 THEN ed.nav - 1 ELSE 0
    IN ed' = [ed EXCEPT !.orig = orig, !.nav = pos,
                        !.buf = IF pos = 0 THEN orig ELSE hist[pos]]

\* While searching, up and down walk through the suggestions instead, the
\* entries that match; one that ends a statement is remembered.
Choose ==
    \/ ed' = ed
    \/ \E i \in DOMAIN hist :
          /\ hist[i] # <<>> /\ Last(hist[i]) = ";"
          /\ ed' = [ed EXCEPT !.sel = hist[i]]

UpDown(key) ==
    /\ Pressed(key)
    /\ IF ed.keyMap = "default" THEN Navigate(key = "up") ELSE Choose

StartSearch ==
    /\ Pressed("search")
    /\ ed' = IF ed.searching THEN ed
             ELSE [ed EXCEPT !.searching = TRUE, !.keyMap = "search",
                             !.prefix = "search", !.live = TRUE, !.oldLive = ed.live,
                             !.kept = ed.buf, !.sel = <<>>]

\* stopSearch: the entry that was chosen, or what had been typed before.
StopSearch ==
    IF ~ed.searching THEN ed
    ELSE [ed EXCEPT !.searching = FALSE, !.keyMap = "default",
                    !.prefix = "live", !.live = ed.oldLive,
                    !.buf = IF ed.sel # <<>> THEN ed.sel ELSE ed.kept]

\* The Meta and Control keys stop a search, then move in the line, cut some
\* of it into the clipboard or paste that.
MetaKey(e) ==
    \E n \in 0..Len(e.buf) :
        ed' = [e EXCEPT !.clip = SubSeq(e.buf, n + 1, Len(e.buf)),
                        !.buf = SubSeq(e.buf, 1, n)]

CtrlKey(e) ==
    \/ ed' = e
    \/ ed' = [e EXCEPT !.buf = @ \o e.clip]

EditKey == Pressed("edit") /\ (MetaKey(StopSearch) \/ CtrlKey(StopSearch))

\* updateHistory: an entry is one line.  The file may not open.
Joined(ss) ==
    FlattenSeq([i \in DOMAIN ss |-> IF i = 1 THEN ss[i] ELSE <<"sp">> \o ss[i]])

\* Mutant: only the last statement of the input is kept.
HistoryLastOnly(ss) ==
    [i \in DOMAIN Last(ss) |-> IF Last(ss)[i] = "nl" THEN "sp" ELSE Last(ss)[i]]

HistoryEntry(ss) ==
    [i \in DOMAIN Joined(ss) |-> IF Joined(ss)[i] = "nl" THEN "sp" ELSE Joined(ss)[i]]

UpdateHistory(ss) ==
    IF ss # <<>> /\ Joined(ss) # Joined(last)
    THEN \/ /\ hist' = <<HistoryEntry(ss)>> \o hist
            /\ saved' = <<ss>> \o saved
         \/ UNCHANGED <<hist, saved>>
    ELSE UNCHANGED <<hist, saved>>

\* Enter: promptState.execute.
Execute ==
    /\ mode = "prompt" /\ phase = "read"
    /\ unread # <<>> /\ Head(unread) = "enter"
    /\ \E e \in {StopSearch} : \E a \in {AddLine(e.buf, stmts, quote)} :
       LET enter(live) == ed' = [e EXCEPT !.buf = <<>>, !.nav = 0, !.live = live]
       IN IF TrimSpace(e.buf) = <<>>
          THEN /\ enter(e.live)
               /\ UNCHANGED <<lexer, todo, phase, hist, saved, last, typed>>
          ELSE /\ typed' = Append(typed, e.buf)
               /\ IF a.ret = "done"
                  THEN /\ UpdateHistory(a.stmts)
                       /\ enter(FALSE)
                       /\ StartRun(a.stmts)
                       /\ last' = a.stmts
                  ELSE /\ stmts' = a.stmts /\ quote' = a.quote
                       /\ enter(TRUE)
                       /\ UNCHANGED <<todo, phase, hist, saved, last>>
    /\ unread' = Tail(unread)
    /\ UNCHANGED <<mode, chunks, cur, ran, db, render>>

-----------------------------------------------------------------------------
(* Running a statement: runStmt. *)

Bare(s) == SelectSeq(s, LAMBDA t : t \notin Blank \cup {";"})

\* The text before the first semicolon is EXIT or QUIT.
IsExit(s) ==
    LET semi == {i \in DOMAIN s : s[i] = ";"}
        n == IF semi = {} THEN Len(s) ELSE (CHOOSE i \in semi : \A j \in semi : i <= j) - 1
    IN TrimSpace(SubSeq(s, 1, n)) = <<"exit">>

IsUse(s) == Len(Bare(s)) = 2 /\ Bare(s)[1] = "use"

\* The output of USE is captured, as if it were at a terminal.
IsTerminal == mode = "prompt" \/ IsUse(cur)

RunStmt ==
    /\ phase = "run"
    /\ IF todo = <<>>
       THEN phase' = "read" /\ UNCHANGED <<runner, render>>
       ELSE /\ cur' = Head(todo)
            /\ todo' = Tail(todo)
            /\ ran' = Append(ran, cur')
            /\ phase' = IF IsExit(cur') THEN "exit" ELSE "recv"
            /\ table' = <<>> /\ shown' = <<>> /\ got' = <<>>
            /\ UNCHANGED items
    /\ UNCHANGED <<input, lexer, db, editor, typed>>

\* Mutant: the rows are not cleared once they are printed.
FlushKeeps(t) == [t EXCEPT !.shown = @ \o t.table]

\* ASCIIWriter: AppendRow prints a page when it is full, Flush what is left.
AppendRow(t, row) ==
    IF Len(t.table) + 1 >= PageSize
    THEN [table |-> <<>>, shown |-> t.shown \o Append(t.table, row)]
    ELSE [t EXCEPT !.table = Append(@, row)]

Flush(t) == [table |-> <<>>, shown |-> t.shown \o t.table]

\* Render: rows go to the table, a message is printed at once; a header, the
\* end of an execution and a job print nothing.
RenderItem(t, item) ==
    CASE item.kind = "row" -> AppendRow(t, item)
      [] item.kind \in {"message", "error"} -> [t EXCEPT !.shown = Append(@, item)]
      [] OTHER -> t

Item(kind) == [kind |-> kind, n |-> items + 1]

RenderAll(t, rs) ==
    LET upto[i \in 0..Len(rs)] ==
          IF i = 0 THEN t ELSE RenderItem(upto[i - 1], rs[i])
    IN upto[Len(rs)]

Receive(rs) ==
    LET t == RenderAll([table |-> table, shown |-> shown], rs)
    IN /\ items + Len(rs) <= MaxItems
       /\ table' = t.table /\ shown' = t.shown
       /\ got' = got \o rs
       /\ items' = items + Len(rs)

\* renderRPCRespStream: one response; a job is the last one.
RecvResponse(kind) ==
    /\ phase = "recv"
    /\ Receive(<<Item(kind)>>)
    /\ phase' = IF kind = "job" THEN "fetch" ELSE "recv"
    /\ UNCHANGED <<input, lexer, runner, db, editor, typed>>

\* renderPRCFetchResp: one poll, which returns what is new.
FetchMore(rs) ==
    /\ phase = "fetch"
    /\ rs # <<>>
    /\ Receive(rs)
    /\ UNCHANGED <<input, lexer, runner, phase, db, editor, typed>>

\* The end of the stream, or the poll that reports the end of the job.  What
\* a USE printed was captured and is dropped.
StmtOk ==
    /\ phase \in {"recv", "fetch"}
    /\ LET t == Flush([table |-> table, shown |-> shown])
       IN table' = t.table /\ shown' = t.shown
    /\ db' = IF IsUse(cur) THEN db + 1 ELSE db
    /\ phase' = "run"
    /\ UNCHANGED <<input, lexer, runner, got, items, editor, typed>>

\* An error of the stream or of a poll, or no connection.  At a terminal it
\* is logged before the table is flushed; otherwise FlushWithError and the
\* process dies, as repl does when a USE fails.
StmtError ==
    /\ phase \in {"recv", "fetch"}
    /\ LET e == Item("error")
           t0 == [table |-> table, shown |-> shown]
           t == IF IsTerminal THEN Flush(RenderItem(t0, e)) ELSE RenderItem(Flush(t0), e)
       IN /\ table' = t.table /\ shown' = t.shown
          /\ got' = Append(got, e)
    /\ phase' = IF mode = "file" THEN "fatal" ELSE "run"
    /\ UNCHANGED <<input, lexer, runner, db, items, editor, typed>>

-----------------------------------------------------------------------------
Fetched == {<<Item("message")>>, <<Item("row"), [Item("message") EXCEPT !.n = @ + 1]>>}

Respond ==
    \/ \E kind \in {"head", "row", "message", "eoe", "job"} : RecvResponse(kind)
    \/ \E rs \in Fetched : FetchMore(rs)
    \/ StmtOk
    \/ StmtError

Client ==
    \/ ReadLine \/ ReadEOF
    \/ InsertText \/ Execute
    \/ \E key \in {"up", "down"} : UpDown(key)
    \/ StartSearch \/ EditKey
    \/ RunStmt

Next == Client \/ Respond \/ \E c \in Chunks : Input(c)

\* The client does not stop by itself, and the call of a statement ends: the
\* server answers, or the context's timeout does.
Fairness == WF_vars(Client) /\ WF_vars(StmtOk \/ StmtError)

Spec == Init /\ [][Next]_vars /\ Fairness

-----------------------------------------------------------------------------
(* Properties. *)

Kinds == {"head", "row", "message", "eoe", "job", "error"}
Items == [kind : Kinds, n : Nat]
Editors ==
    [buf : Texts, orig : Texts, nav : Nat, searching : BOOLEAN,
     prefix : {"live", "search"}, live : BOOLEAN, oldLive : BOOLEAN,
     keyMap : {"default", "search"}, sel : Texts, kept : Texts, clip : Texts]

\* The variables have the values their declarations say, and the position in
\* the history is one that exists (historyNavPos indexes p.history).
TypeOK ==
    /\ \/ mode = "file" /\ unread \in Seq(Texts)
       \/ mode = "prompt" /\ unread \in Seq(Tokens \cup Keys \cup {"enter"})
    /\ chunks \in Nat
    /\ stmts \in Seq(Texts) /\ quote \in {"none", "sq", "dq"}
    /\ todo \in Seq(Texts) /\ cur \in Texts /\ ran \in Seq(Texts)
    /\ phase \in {"read", "run", "recv", "fetch", "done", "exit", "fatal"}
    /\ db \in Nat /\ items \in 0..MaxItems
    /\ table \in Seq(Items) /\ shown \in Seq(Items) /\ got \in Seq(Items)
    /\ Len(table) < PageSize
    /\ ed \in Editors /\ ed.nav <= Len(hist)
    /\ hist \in Seq(Texts) /\ last \in Seq(Texts)

(***************************************************************************)
(* What the statements of a text are, said of the whole text at once: the  *)
(* semicolons outside quotes and comments end them, a comment reaches to   *)
(* the end of its line.  Blanks, semicolons and empty statements are left  *)
(* out of the comparison.                                                  *)
(***************************************************************************)
Text(lines) ==
    FlattenSeq([i \in DOMAIN lines |-> IF i = 1 THEN lines[i] ELSE <<"nl">> \o lines[i]])

\* The context each position is in: none, a quote or a comment; esc after a
\* backslash in quotes.
After(c, t) ==
    IF c.esc THEN [c EXCEPT !.esc = FALSE]
    ELSE CASE c.in = "cmt" -> IF t = "nl" THEN [c EXCEPT !.in = "none"] ELSE c
           [] c.in = "none" -> IF t \in {"sq", "dq", "cmt"} THEN [c EXCEPT !.in = t] ELSE c
           [] OTHER -> IF t = c.in THEN [c EXCEPT !.in = "none"] ELSE [c EXCEPT !.esc = (t = "bs")]

Context(text) ==
    LET ctx[i \in 1..(Len(text) + 1)] ==
          IF i = 1 THEN [in |-> "none", esc |-> FALSE]
          ELSE LET before == ctx[i - 1] IN After(before, text[i - 1])
    IN ctx

\* The numbers of a set, in order.
Ordered(S, n) == SelectSeq([i \in 1..n |-> i], LAMBDA i : i \in S)

\* The text from one position to another without comments and blanks, nor
\* the semicolons at its end.
Canon(text, ctx, from, to) ==
    LET stays(i) ==
          /\ i \in from..to
          /\ ctx[i].in # "cmt"
          /\ ~(text[i] = "cmt" /\ ctx[i].in = "none")
          /\ text[i] \notin Blank
        kept == {i \in DOMAIN text : stays(i)}
        body == {i \in kept : \E j \in kept : i <= j /\ text[j] # ";"}
        at == Ordered(body, Len(text))
    IN [k \in DOMAIN at |-> text[at[k]]]

NonEmpty(ss) == SelectSeq(ss, LAMBDA s : s # <<>>)

Split(lines) ==
    LET text == Text(lines)
        ctx == Context(text)
        ends == {i \in DOMAIN text : text[i] = ";" /\ ctx[i].in = "none"}
        es == <<0>> \o Ordered(ends, Len(text)) \o <<Len(text) + 1>>
    IN NonEmpty([k \in 1..(Len(es) - 1) |->
                    Canon(text, ctx, es[k] + 1, es[k + 1] - 1)])

Found(ss) ==
    NonEmpty([k \in DOMAIN ss |-> Canon(ss[k], Context(ss[k]), 1, Len(ss[k]))])

\* However the text was cut into lines, typed, pasted or searched for, the
\* statements run, waiting and being read are those of the whole text, in
\* order: addLineToStmt keeps its state in three variables from line to line.
SplitExactly == Found(ran \o todo \o stmts) = Split(typed)

\* An entry of the history is one line whatever it was typed as; bringing it
\* back and pressing Enter runs the same statements again (updateHistory
\* turns newlines into blanks and joins statements with a blank).  A bare
\* semicolon leaves an empty statement, and after another input an empty
\* entry: Enter passes over the entry, and it stands for no statement.
HistoryReplays ==
    \A i \in DOMAIN hist :
        IF TrimSpace(hist[i]) = <<>> THEN Found(saved[i]) = <<>>
        ELSE LET a == AddLine(hist[i], <<>>, "none")
             IN a.ret = "done" /\ Found(a.stmts) = Found(saved[i])

\* The items of some kinds, in their order.
Only(kinds, s) ==
    LET upto[i \in 0..Len(s)] ==
          IF i = 0 THEN <<>>
          ELSE IF s[i].kind \in kinds THEN Append(upto[i - 1], s[i]) ELSE upto[i - 1]
    IN upto[Len(s)]

\* What is shown or in the table is what was sent.
Rendered(t, sent) ==
    /\ Only({"row"}, t.shown \o t.table) = Only({"row"}, sent)
    /\ Only({"message", "error"}, t.shown \o t.table) = Only({"message", "error"}, sent)
    /\ \A i \in DOMAIN t.table : t.table[i].kind = "row"

\* Everything the server sent for a statement is printed once: the rows in
\* their order and the messages in theirs, none left in the table writer
\* when the statement is over or the process dies.
ShownOnce ==
    /\ Rendered([table |-> table, shown |-> shown], got)
    /\ phase \notin {"recv", "fetch"} => table = <<>>

\* When no search is on, the arrow keys walk through the history, and the
\* prompt says whether a statement is being continued, whichever of the many
\* keys ended the search (stopSearch restores what startSearch saved).
PromptConsistent ==
    /\ ~ed.searching => ed.keyMap = "default" /\ ed.prefix = "live"
    /\ mode = "prompt" => (IF ed.searching THEN ed.oldLive ELSE ed.live) = (stmts # <<>>)
    /\ phase # "read" => stmts = <<>> /\ ~ed.searching

\* The terminal shows what the server sent and what the user is doing.
TerminalInv == TypeOK /\ ShownOnce /\ PromptConsistent

\* A script ends: every statement of it is run, or the first error or EXIT
\* stops it (repl, on input that can be read).
ReplEnds == mode = "file" ~> phase \in {"done", "exit", "fatal"}
=============================================================================
