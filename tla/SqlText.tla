------------------------------ MODULE SqlText -------------------------------
(***************************************************************************)
(* The removal of comments from a program (go/parser/sqlflow_parser.go).   *)
(*                                                                         *)
(* A text is a sequence of atoms, the substrings that the code looks for:  *)
(* the two quotation marks q and d, the backslash b, the marks -- /* and   *)
(* its end, the end of a line n, a space s, and x for everything else.     *)
(* Positions count from 0, as they do in the code.                         *)
(***************************************************************************)
EXTENDS Integers, Sequences, FiniteSetsExt

Quotes == {"q", "d"}
Atoms == Quotes \cup {"x", "s", "b", "--", "/*", "*/", "n"}

AtomAt(sql, i) == sql[i + 1]

\* sql[a:b], the atoms at a..b-1.
Slice(sql, a, b) == SubSeq(sql, a + 1, b)

\* Where, from position o on, one of the atoms as is.
Where(sql, o, as) == {i \in o..Len(sql) - 1 : AtomAt(sql, i) \in as}

\* An odd number of backslashes stands before position i.
IsEscapeRune(sql, i) ==
    Max({k \in 0..i : \A j \in (i - k)..(i - 1) : AtomAt(sql, j) = "b"}) % 2 = 1

\* No quotation mark closes the one that is open.
Unmatched == <<-1, -1>>


\* Where the literal that starts at l may end.
Closing(sql, l) == {i \in Where(sql, l + 1, {AtomAt(sql, l)}) : ~IsEscapeRune(sql, i)}

(***************************************************************************)
(* The literals, each as its first and its last position.  The first one   *)
(* is counted from the end of the literal before, not from the beginning   *)
(* of the text, so that the literals after the first seem to start early.  *)
(***************************************************************************)
FindMatchedQuotationMarks(sql) ==
    LET from[o \in 0..Len(sql)] ==
          IF Where(sql, o, Quotes) = {} THEN <<>>
          ELSE LET l == Min(Where(sql, o, Quotes))
               IN IF Closing(sql, l) = {} THEN <<Unmatched>>
                  ELSE <<<<l - o, Min(Closing(sql, l))>>>> \o from[Min(Closing(sql, l)) + 1]
    IN from[0]

IsUnmatched(marks) == \E i \in DOMAIN marks : marks[i] = Unmatched

\* Is position i taken to be in a literal, and in which one?
InLiteral(marks, i) == {k \in DOMAIN marks : marks[k][1] <= i /\ i <= marks[k][2]}
FindRightQuotationIndex(marks, i) == marks[Min(InLiteral(marks, i))][2]

Failed == <<"error">>

\* -- up to the end of its line, which stays.
RemoveSingleLineComment(sql) ==
    LET marks == FindMatchedQuotationMarks(sql)
        n == Len(sql)
        from[o \in 0..n] ==
          IF Where(sql, o, {"--"}) = {} THEN Slice(sql, o, n)
          ELSE LET l == Min(Where(sql, o, {"--"}))
                   eol == Where(sql, l + 1, {"n"})
               IN IF InLiteral(marks, l) # {}
                  THEN LET r == FindRightQuotationIndex(marks, l)
                       IN Slice(sql, o, r + 1) \o from[r + 1]
                  ELSE Slice(sql, o, l) \o (IF eol = {} THEN <<>> ELSE from[Min(eol)])
    IN IF IsUnmatched(marks) THEN Failed ELSE from[0]

\* A comment of several lines leaves a space.
RemoveMultipleLineComment(sql) ==
    LET marks == FindMatchedQuotationMarks(sql)
        n == Len(sql)
        from[o \in 0..n] ==
          IF Where(sql, o, {"/*"}) = {} THEN Slice(sql, o, n)
          ELSE LET l == Min(Where(sql, o, {"/*"}))
                   end == Where(sql, l + 1, {"*/"})
               IN IF InLiteral(marks, l) # {}
                  THEN LET r == FindRightQuotationIndex(marks, l)
                       IN Slice(sql, o, r + 1) \o from[r + 1]
                  ELSE IF end = {} THEN Failed
                  ELSE Slice(sql, o, l) \o <<"s">> \o from[Min(end) + 1]
        result == from[0]
    IN IF IsUnmatched(marks) \/ (result # <<>> /\ result[Len(result)] = "error")
       THEN Failed ELSE result

-----------------------------------------------------------------------------
(* The reference: one pass from left to right, where each atom is in code, *)
(* in a literal (q, d), in a comment of one line (l) or of several (m).    *)

InState == Quotes \cup {"c", "l", "m"}

\* The state after atom i, for each state before it.
Turn(sql, i) ==
    LET a == AtomAt(sql, i)
    IN [state \in InState |->
          CASE state = "c" /\ a \in Quotes -> a
            [] state = "c" /\ a = "--" -> "l"
            [] state = "c" /\ a = "/*" -> "m"
            [] state \in Quotes /\ a = state /\ ~IsEscapeRune(sql, i) -> "c"
            [] state = "l" /\ a = "n" -> "c"
            [] state = "m" /\ a = "*/" -> "c"
            [] OTHER -> state]

\* The state before each atom, and after the last one.
States(sql) ==
    LET at[i \in 0..Len(sql)] == IF i = 0 THEN "c" ELSE Turn(sql, i - 1)[at[i - 1]]
    IN at

\* The positions of a text without its comments.
Meant(sql) ==
    LET at == States(sql)
    IN {i \in 0..Len(sql) - 1 : at[i] \notin {"l", "m"} /\ at[i + 1] \notin {"l", "m"}}
       \cup {i \in 0..Len(sql) - 1 : at[i] = "l" /\ AtomAt(sql, i) = "n"}

\* Every comment of several lines and every literal has its end.
Complete(sql) == States(sql)[Len(sql)] \in {"c", "l"}

\* No quotation mark, and no mark of the other kind, within a comment.
PlainComments(sql) ==
    \A i \in 0..Len(sql) - 1 :
        /\ States(sql)[i] = "l" => AtomAt(sql, i) \notin Quotes \cup {"/*", "*/"}
        /\ States(sql)[i] = "m" => AtomAt(sql, i) \notin Quotes

Blank(sql) == SelectSeq(sql, LAMBDA a : a # "s")

\* The atoms at a set of positions, in order.
Chosen(sql, is) ==
    LET upto[i \in 0..Len(sql)] ==
          IF i = 0 THEN <<>>
          ELSE IF i - 1 \in is THEN Append(upto[i - 1], AtomAt(sql, i - 1)) ELSE upto[i - 1]
    IN upto[Len(sql)]

\* a is b without some of its atoms.
Within(a, b) ==
    LET taken[i \in 0..Len(b)] ==
          IF i = 0 THEN 0
          ELSE [t \in 0..Len(a) |-> IF t < Len(a) /\ a[t + 1] = b[i] THEN t + 1 ELSE t][taken[i - 1]]
    IN taken[Len(b)] = Len(a)
=============================================================================
