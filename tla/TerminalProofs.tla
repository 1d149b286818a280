--------------------------- MODULE TerminalProofs ---------------------------
(***************************************************************************)
(* Theorems about Terminal, for any input, any history and any number of   *)
(* responses: what the server sends is printed once and in order, and the  *)
(* prompt shows what the lexer and the search are doing.                   *)
(***************************************************************************)
EXTENDS Terminal, SequenceTheorems, WellFoundedInduction, TLAPS

-----------------------------------------------------------------------------
(* Induction over numbers, and the recursions of Terminal. *)

\* A set of numbers has a least member: what an induction comes down to.
LEMMA Least ==
    ASSUME NEW T, T \subseteq Nat, T # {}
    PROVE  \E x \in T : \A y \in T : x <= y
<1>1. PICK x \in T : \A y \in T : <<y, x>> \notin OpToRel(<, Nat)
  BY NatLessThanWellFounded, WFMin
<1>2. \A y \in T : ~(y < x)
  BY <1>1 DEF OpToRel
<1>3. QED
  BY <1>2

\* Induction over the numbers up to n, for a set that holds the good ones.
LEMMA Induction ==
    ASSUME NEW n \in Nat, NEW G, 0 \in G, \A m \in 1..n : m - 1 \in G => m \in G
    PROVE  \A m \in 0..n : m \in G
<1> DEFINE T == {m \in 0..n : m \notin G}
<1>1. SUFFICES ASSUME T # {} PROVE FALSE
  OBVIOUS
<1>2. T \subseteq Nat
  OBVIOUS
<1> HIDE DEF T
<1>3. PICK m \in T : \A k \in T : m <= k
  BY <1>1, <1>2, Least
<1>4. m \in 1..n /\ m \notin G
  BY DEF T
<1>5. m - 1 \in 0..n /\ ~(m <= m - 1)
  BY <1>4
<1>6. m - 1 \in G
  BY <1>3, <1>5 DEF T
<1>7. QED
  BY <1>4, <1>6

\* Induction along a sequence.
LEMMA Along ==
    ASSUME NEW s, Len(s) \in Nat, NEW G, 0 \in G, \A m \in 1..Len(s) : m - 1 \in G => m \in G
    PROVE  Len(s) \in G
<1> DEFINE n == Len(s)
<1>1. n \in Nat /\ \A m \in 1..n : m - 1 \in G => m \in G
  OBVIOUS
<1> HIDE DEF n
<1>2. n \in G
  <2>1. n \in 0..n
    BY <1>1
  <2>2. QED
    BY <1>1, <2>1, Induction
<1>3. QED
  BY <1>2 DEF n

\* One turn of each recursion: a line is scanned, items are selected or
\* rendered, texts are joined.
Turn(loop, q, x, i) ==
    CASE loop = "scan" -> Scan(q, x, i)
      [] loop = "only" -> IF q.s[i].kind \in q.kinds THEN Append(x, q.s[i]) ELSE x
      [] loop = "render" -> RenderItem(x, q[i])
      [] OTHER -> x \o q[i]

\* What defines it, at one position.
Loop(loop, q, x0, f, i) == IF i = 0 THEN x0 ELSE Turn(loop, q, f[i - 1], i)

\* A function that satisfies the recursion up to n.
Solves(loop, q, x0, n, f) == f = [i \in 0..n |-> Loop(loop, q, x0, f, i)]

\* The recursions have a solution.
LEMMA LoopSolved ==
    ASSUME NEW loop, NEW q, NEW x0, NEW n \in Nat
    PROVE  \E f : Solves(loop, q, x0, n, f)
<1> DEFINE G == {m \in 0..n : \E f : f = [i \in 0..m |-> Loop(loop, q, x0, f, i)]}
<1>1. 0 \in G
  <2> DEFINE f == [i \in 0..0 |-> x0]
  <2>1. f = [i \in 0..0 |-> Loop(loop, q, x0, f, i)]
    BY DEF Loop
  <2>2. QED
    BY <2>1
<1>2. ASSUME NEW m \in 1..n, m - 1 \in G PROVE m \in G
  <2>1. PICK f : f = [i \in 0..m - 1 |-> Loop(loop, q, x0, f, i)]
    BY <1>2
  <2>2. \A i \in 0..m - 1 : f[i] = Loop(loop, q, x0, f, i)
    BY <2>1, Zenon
  <2> DEFINE g == [i \in 0..m |-> IF i = m THEN Loop(loop, q, x0, f, m) ELSE f[i]]
  <2>3. ASSUME NEW i \in 0..m PROVE g[i] = Loop(loop, q, x0, g, i)
    <3>1. CASE i = m
      BY <3>1 DEF Loop
    <3>2. CASE i < m
      BY <2>2, <3>2 DEF Loop
    <3>3. QED
      BY <3>1, <3>2
  <2>4. g = [i \in 0..m |-> Loop(loop, q, x0, g, i)]
    BY <2>3
  <2> HIDE DEF g
  <2>5. \E h : h = [i \in 0..m |-> Loop(loop, q, x0, h, i)]
    BY <2>4, Zenon
  <2>6. m \in 0..n
    OBVIOUS
  <2>7. QED
    BY <2>5, <2>6, Zenon
<1> HIDE DEF G
<1>3. n \in G
  <2>1. n \in 0..n
    OBVIOUS
  <2>2. QED
    BY <1>1, <1>2, <2>1, Induction
<1>4. QED
  BY <1>3, Zenon DEF G, Solves

\* f goes through a loop from x0 on, turn by turn.
Runs(loop, q, x0, n, f) == f[0] = x0 /\ \A i \in 1..n : f[i] = Turn(loop, q, f[i - 1], i)

\* A function that satisfies the recursion does.
LEMMA RunsSolved ==
    ASSUME NEW loop, NEW q, NEW x0, NEW n \in Nat, NEW f, Solves(loop, q, x0, n, f)
    PROVE  Runs(loop, q, x0, n, f)
<1>1. \A i \in 0..n : f[i] = Loop(loop, q, x0, f, i)
  BY Zenon DEF Solves
<1>2. f[0] = x0
  BY <1>1 DEF Loop
<1>3. ASSUME NEW i \in 1..n PROVE f[i] = Turn(loop, q, f[i - 1], i)
  <2>1. i \in 0..n /\ i # 0
    OBVIOUS
  <2>2. QED
    BY <1>1, <2>1, Zenon DEF Loop
<1>4. QED
  BY <1>2, <1>3 DEF Runs

\* So does the one that CHOOSE takes, which is what a recursive definition
\* stands for.
LEMMA RunsChosen ==
    ASSUME NEW loop, NEW q, NEW x0, NEW n \in Nat
    PROVE  Runs(loop, q, x0, n, CHOOSE f : Solves(loop, q, x0, n, f))
<1>1. PICK f : Solves(loop, q, x0, n, f)
  BY LoopSolved
<1>2. Solves(loop, q, x0, n, CHOOSE g : Solves(loop, q, x0, n, g))
  BY <1>1, Zenon
<1>3. QED
  BY <1>2, RunsSolved, Zenon

\* Only is such a loop.
LEMMA OnlyRuns ==
    ASSUME NEW kinds, NEW s, NEW n \in Nat, Len(s) = n
    PROVE  \E f : Runs("only", [s |-> s, kinds |-> kinds], <<>>, n, f) /\ Only(kinds, s) = f[n]
<1> DEFINE q == [s |-> s, kinds |-> kinds]
           Select(f, i) == IF i = 0 THEN <<>>
                           ELSE IF s[i].kind \in kinds THEN Append(f[i - 1], s[i]) ELSE f[i - 1]
           g == CHOOSE f : f = [i \in 0..n |-> Select(f, i)]
           h == CHOOSE f : Solves("only", q, <<>>, n, f)
<1>1. \A f, i : Loop("only", q, <<>>, f, i) = Select(f, i)
  BY DEF Loop, Turn
<1>2. Only(kinds, s) = g[n]
  BY DEF Only
<1> HIDE DEF Select
<1>3. \A f : Solves("only", q, <<>>, n, f) <=> f = [i \in 0..n |-> Select(f, i)]
  BY <1>1 DEF Solves
<1>4. g = h
  BY <1>3, Zenon
<1>5. Runs("only", q, <<>>, n, h)
  BY RunsChosen, Zenon
<1> HIDE DEF g, h
<1>6. QED
  BY <1>2, <1>4, <1>5, Zenon

\* RenderAll is one.
LEMMA RenderRuns ==
    ASSUME NEW t, NEW rs, NEW n \in Nat, Len(rs) = n
    PROVE  \E f : Runs("render", rs, t, n, f) /\ RenderAll(t, rs) = f[n]
<1> DEFINE One(f, i) == IF i = 0 THEN t ELSE RenderItem(f[i - 1], rs[i])
           g == CHOOSE f : f = [i \in 0..n |-> One(f, i)]
           h == CHOOSE f : Solves("render", rs, t, n, f)
<1>1. \A f, i : Loop("render", rs, t, f, i) = One(f, i)
  BY DEF Loop, Turn
<1>2. RenderAll(t, rs) = g[n]
  BY DEF RenderAll
<1> HIDE DEF One
<1>3. \A f : Solves("render", rs, t, n, f) <=> f = [i \in 0..n |-> One(f, i)]
  BY <1>1 DEF Solves
<1>4. g = h
  BY <1>3, Zenon
<1>5. Runs("render", rs, t, n, h)
  BY RunsChosen, Zenon
<1> HIDE DEF g, h
<1>6. QED
  BY <1>2, <1>4, <1>5, Zenon

-----------------------------------------------------------------------------
(* The items of some kinds. *)

\* Nothing of an empty sequence.
LEMMA OnlyEmpty ==
    ASSUME NEW kinds
    PROVE  Only(kinds, <<>>) = <<>>
<1>1. Len(<<>>) = 0 /\ 0 \in Nat
  OBVIOUS
<1>2. PICK f : Runs("only", [s |-> <<>>, kinds |-> kinds], <<>>, 0, f) /\ Only(kinds, <<>>) = f[0]
  BY <1>1, OnlyRuns
<1>3. QED
  BY <1>2, Zenon DEF Runs

\* One turn of Only.
OnlyStep(kinds, y, x) == IF x.kind \in kinds THEN Append(y, x) ELSE y

\* One turn of Only.
LEMMA OnlyTurn ==
    ASSUME NEW kinds, NEW s, NEW y, NEW i
    PROVE  Turn("only", [s |-> s, kinds |-> kinds], y, i) = OnlyStep(kinds, y, s[i])
BY DEF Turn, OnlyStep

\* Only, position by position.
Picks(kinds, s, n, f) ==
    f[0] = <<>> /\ \A i \in 1..n : f[i] = OnlyStep(kinds, f[i - 1], s[i])

\* Only goes through the items that way.
LEMMA OnlySteps ==
    ASSUME NEW kinds, NEW s, NEW n \in Nat, Len(s) = n
    PROVE  \E f : Picks(kinds, s, n, f) /\ Only(kinds, s) = f[n]
<1> DEFINE q == [s |-> s, kinds |-> kinds]
<1>1. PICK f : Runs("only", q, <<>>, n, f) /\ Only(kinds, s) = f[n]
  BY OnlyRuns
<1>2. \A y, i : Turn("only", q, y, i) = OnlyStep(kinds, y, s[i])
  BY OnlyTurn
<1> HIDE DEF q
<1>3. f[0] = <<>> /\ \A i \in 1..n : f[i] = OnlyStep(kinds, f[i - 1], s[i])
  BY <1>1, <1>2, Zenon DEF Runs
<1>4. Picks(kinds, s, n, f)
  BY <1>3, Zenon DEF Picks
<1>5. QED
  BY <1>1, <1>4, Zenon

\* A sequence with one more item.
LEMMA OnlyGrows ==
    ASSUME NEW kinds, NEW s, NEW r, NEW n \in Nat, Len(s) = n, Len(r) = n + 1,
           \A i \in 1..n : r[i] = s[i]
    PROVE  Only(kinds, r) = OnlyStep(kinds, Only(kinds, s), r[n + 1])
<1>1. PICK f : Picks(kinds, s, n, f) /\ Only(kinds, s) = f[n]
  BY OnlySteps
<1>2. n + 1 \in Nat
  OBVIOUS
<1>3. PICK g : Picks(kinds, r, n + 1, g) /\ Only(kinds, r) = g[n + 1]
  BY <1>2, OnlySteps
<1> DEFINE G == {m \in 0..n : f[m] = g[m]}
<1>4. 0 \in G
  <2>1. f[0] = g[0]
    BY <1>1, <1>3, Zenon DEF Picks
  <2>2. QED
    BY <2>1
<1>5. ASSUME NEW m \in 1..n, m - 1 \in G PROVE m \in G
  <2>1. f[m - 1] = g[m - 1] /\ m \in 0..n /\ m \in 1..n + 1
    BY <1>5
  <2>2. f[m] = g[m]
    BY <1>1, <1>3, <2>1, Zenon DEF Picks
  <2>3. QED
    BY <2>1, <2>2
<1> HIDE DEF G
<1>6. n \in G
  <2>1. n \in 0..n
    OBVIOUS
  <2>2. QED
    BY <1>4, <1>5, <2>1, Induction
<1>7. f[n] = g[n]
  BY <1>6 DEF G
<1>8. n + 1 \in 1..n + 1 /\ (n + 1) - 1 = n
  OBVIOUS
<1>9. QED
  BY <1>1, <1>3, <1>7, <1>8, Zenon DEF Picks

\* The same of Append.
LEMMA OnlyAppend ==
    ASSUME NEW kinds, NEW s \in Seq(Items), NEW x \in Items
    PROVE  Only(kinds, Append(s, x)) = OnlyStep(kinds, Only(kinds, s), x)
<1> DEFINE n == Len(s)
           r == Append(s, x)
<1>1. /\ n \in Nat /\ Len(s) = n /\ Len(r) = n + 1 /\ r[n + 1] = x
      /\ \A i \in 1..n : r[i] = s[i]
  OBVIOUS
<1> HIDE DEF n, r
<1>2. Only(kinds, r) = OnlyStep(kinds, Only(kinds, s), r[n + 1])
  BY <1>1, OnlyGrows
<1>3. QED
  BY <1>1, <1>2 DEF r

\* The beginnings of a sequence.
Pre(t, m) == SubSeq(t, 1, m)

\* A sequence is built up from its beginnings.
Peels(t, S) ==
    /\ Len(t) \in Nat /\ Pre(t, 0) = <<>> /\ Pre(t, Len(t)) = t
    /\ \A i \in 1..Len(t) :
         Pre(t, i - 1) \in Seq(S) /\ t[i] \in S /\ Pre(t, i) = Append(Pre(t, i - 1), t[i])

\* Each one is the one before with one more element: what an induction over
\* a sequence rests on.
LEMMA Peeled ==
    ASSUME NEW S, NEW t \in Seq(S)
    PROVE  Peels(t, S)
<1>1. Pre(t, 0) = <<>> /\ Pre(t, Len(t)) = t /\ Len(t) \in Nat
  BY SubSeqFull DEF Pre
<1>2. ASSUME NEW i \in 1..Len(t)
      PROVE  Pre(t, i - 1) \in Seq(S) /\ t[i] \in S /\ Pre(t, i) = Append(Pre(t, i - 1), t[i])
  <2>1. SubSeq(t, 1, i - 1) \in Seq(S) /\ t[i] \in S
    OBVIOUS
  <2>2. SubSeq(t, 1, i) = SubSeq(t, 1, i - 1) \o <<t[i]>>
    BY SubSeqRecursiveSecond
  <2>3. QED
    BY <2>1, <2>2, AppendIsConcat DEF Pre
<1>3. QED
  BY <1>1, <1>2, Zenon DEF Peels

\* What Only selects is a sequence of items.
LEMMA OnlyType ==
    ASSUME NEW kinds, NEW s \in Seq(Items)
    PROVE  Only(kinds, s) \in Seq(Items)
<1> DEFINE G == {m \in 0..Len(s) : Only(kinds, Pre(s, m)) \in Seq(Items)}
<1>0. Peels(s, Items)
  BY Peeled, Zenon
<1>1. 0 \in G
  <2>1. Only(kinds, Pre(s, 0)) = <<>>
    BY <1>0, OnlyEmpty DEF Peels
  <2>2. 0 \in 0..Len(s)
    BY <1>0 DEF Peels
  <2>3. QED
    BY <2>1, <2>2, EmptySeq
<1>2. ASSUME NEW m \in 1..Len(s), m - 1 \in G PROVE m \in G
  <2> DEFINE p == Pre(s, m - 1)
             x == s[m]
  <2>1. /\ Only(kinds, p) \in Seq(Items) /\ m \in 0..Len(s)
        /\ p \in Seq(Items) /\ x \in Items /\ Pre(s, m) = Append(p, x)
    BY <1>0, <1>2 DEF Peels
  <2> HIDE DEF p, x
  <2>2. Only(kinds, Append(p, x)) = OnlyStep(kinds, Only(kinds, p), x)
    BY <2>1, OnlyAppend
  <2>3. Only(kinds, Append(p, x)) \in Seq(Items)
    BY <2>1, <2>2 DEF OnlyStep
  <2>4. QED
    BY <2>1, <2>3
<1> HIDE DEF G
<1>3. Len(s) \in G
  <2>1. Len(s) \in Nat
    BY <1>0 DEF Peels
  <2>2. QED
    BY <1>1, <1>2, <2>1, Along
<1>4. QED
  BY <1>0, <1>3 DEF G, Peels

\* An element behind a concatenation.
LEMMA AppendConcat ==
    ASSUME NEW S, NEW a \in Seq(S), NEW b \in Seq(S), NEW x \in S
    PROVE  a \o b \in Seq(S) /\ a \o Append(b, x) = Append(a \o b, x)
<1>1. a \o b \in Seq(S) /\ <<x>> \in Seq(S)
  OBVIOUS
<1>2. Append(b, x) = b \o <<x>> /\ Append(a \o b, x) = (a \o b) \o <<x>>
  BY <1>1, AppendIsConcat
<1>3. QED
  BY <1>1, <1>2, ConcatAssociative

\* Of two sequences behind each other, what Only selects of each.
LEMMA OnlyConcat ==
    ASSUME NEW kinds, NEW s \in Seq(Items), NEW t \in Seq(Items)
    PROVE  Only(kinds, s \o t) = Only(kinds, s) \o Only(kinds, t)
<1> DEFINE G == {m \in 0..Len(t) : Only(kinds, s \o Pre(t, m)) = Only(kinds, s) \o Only(kinds, Pre(t, m))}
<1>0. Peels(t, Items)
  BY Peeled, Zenon
<1>1. 0 \in G
  <2>1. Pre(t, 0) = <<>> /\ 0 \in 0..Len(t)
    BY <1>0 DEF Peels
  <2>2. s \o <<>> = s
    OBVIOUS
  <2>3. Only(kinds, s) \o <<>> = Only(kinds, s)
    BY OnlyType
  <2>4. Only(kinds, <<>>) = <<>>
    BY OnlyEmpty
  <2>5. QED
    BY <2>1, <2>2, <2>3, <2>4, Zenon
<1>2. ASSUME NEW m \in 1..Len(t), m - 1 \in G PROVE m \in G
  <2> DEFINE p == Pre(t, m - 1)
             x == t[m]
  <2>1. /\ Only(kinds, s \o p) = Only(kinds, s) \o Only(kinds, p) /\ m \in 0..Len(t)
        /\ p \in Seq(Items) /\ x \in Items /\ Pre(t, m) = Append(p, x)
    BY <1>0, <1>2 DEF Peels
  <2> HIDE DEF p, x
  <2> DEFINE a == Only(kinds, s)
             b == Only(kinds, p)
  <2>2. a \in Seq(Items) /\ b \in Seq(Items)
    BY <2>1, OnlyType
  <2>3. s \o p \in Seq(Items) /\ s \o Append(p, x) = Append(s \o p, x)
    BY <2>1, AppendConcat
  <2>4. Only(kinds, Append(p, x)) = OnlyStep(kinds, b, x)
    BY <2>1, OnlyAppend
  <2>5. Only(kinds, Append(s \o p, x)) = OnlyStep(kinds, a \o b, x)
    <3>1. Only(kinds, Append(s \o p, x)) = OnlyStep(kinds, Only(kinds, s \o p), x)
      BY <2>1, <2>3, OnlyAppend
    <3>2. QED
      BY <2>1, <3>1, Zenon
  <2> HIDE DEF a, b
  <2>6. OnlyStep(kinds, a \o b, x) = a \o OnlyStep(kinds, b, x)
    <3>1. a \o Append(b, x) = Append(a \o b, x)
      BY <2>1, <2>2, AppendConcat
    <3>2. QED
      BY <3>1, Zenon DEF OnlyStep
  <2>7. Only(kinds, s \o Pre(t, m)) = a \o Only(kinds, Pre(t, m))
    BY <2>1, <2>3, <2>4, <2>5, <2>6, Zenon
  <2>8. QED
    BY <2>1, <2>7 DEF a
<1> HIDE DEF G
<1>3. Len(t) \in G
  <2>1. Len(t) \in Nat
    BY <1>0 DEF Peels
  <2>2. QED
    BY <1>1, <1>2, <2>1, Along
<1>4. QED
  BY <1>0, <1>3 DEF G, Peels

\* Nothing of a sequence without such items.
LEMMA OnlyNone ==
    ASSUME NEW kinds, NEW s \in Seq(Items), \A i \in 1..Len(s) : s[i].kind \notin kinds
    PROVE  Only(kinds, s) = <<>>
<1> DEFINE G == {m \in 0..Len(s) : Only(kinds, Pre(s, m)) = <<>>}
<1>0. Peels(s, Items)
  BY Peeled, Zenon
<1>1. 0 \in G
  <2>1. Only(kinds, Pre(s, 0)) = <<>>
    BY <1>0, OnlyEmpty DEF Peels
  <2>2. 0 \in 0..Len(s)
    BY <1>0 DEF Peels
  <2>3. QED
    BY <2>1, <2>2, EmptySeq
<1>2. ASSUME NEW m \in 1..Len(s), m - 1 \in G PROVE m \in G
  <2> DEFINE p == Pre(s, m - 1)
             x == s[m]
  <2>1. /\ Only(kinds, p) = <<>> /\ m \in 0..Len(s) /\ x.kind \notin kinds
        /\ p \in Seq(Items) /\ x \in Items /\ Pre(s, m) = Append(p, x)
    BY <1>0, <1>2 DEF Peels
  <2> HIDE DEF p, x
  <2>2. Only(kinds, Append(p, x)) = OnlyStep(kinds, Only(kinds, p), x)
    BY <2>1, OnlyAppend
  <2>3. Only(kinds, Append(p, x)) = <<>>
    BY <2>1, <2>2, Zenon DEF OnlyStep
  <2>4. QED
    BY <2>1, <2>3
<1> HIDE DEF G
<1>3. Len(s) \in G
  <2>1. Len(s) \in Nat
    BY <1>0 DEF Peels
  <2>2. QED
    BY <1>1, <1>2, <2>1, Along
<1>4. QED
  BY <1>0, <1>3 DEF G, Peels

-----------------------------------------------------------------------------
(* The table writer. *)

\* The rows that wait and what is printed.
Screens == [table : Seq(Items), shown : Seq(Items)]

\* A screen that shows what was sent, with a page that is not full.
Faithful(t, sent) == t \in Screens /\ Len(t.table) < PageSize /\ Rendered(t, sent)

\* A screen is made of its two sequences.
LEMMA ScreenIs ==
    ASSUME NEW a \in Seq(Items), NEW b \in Seq(Items)
    PROVE  /\ [table |-> a, shown |-> b] \in Screens
           /\ [table |-> a, shown |-> b].table = a /\ [table |-> a, shown |-> b].shown = b
BY DEF Screens

\* Either may be replaced.
LEMMA ScreenSet ==
    ASSUME NEW t \in Screens, NEW y \in Seq(Items)
    PROVE  /\ [t EXCEPT !.shown = y] \in Screens
           /\ [t EXCEPT !.shown = y].shown = y /\ [t EXCEPT !.shown = y].table = t.table
           /\ [t EXCEPT !.table = y] \in Screens
           /\ [t EXCEPT !.table = y].table = y /\ [t EXCEPT !.table = y].shown = t.shown
BY DEF Screens

\* What is sent and shown grows by the same row.
LEMMA RowShown ==
    ASSUME NEW t \in Screens, NEW sent \in Seq(Items), NEW x \in Items, x.kind = "row",
           NEW u \in Screens, Rendered(t, sent),
           u.shown \o u.table = Append(t.shown \o t.table, x),
           \A i \in DOMAIN u.table : u.table[i].kind = "row"
    PROVE  Rendered(u, Append(sent, x))
<1>1. t.shown \o t.table \in Seq(Items)
  BY DEF Screens
<1>2. ASSUME NEW kinds, Only(kinds, t.shown \o t.table) = Only(kinds, sent)
      PROVE  Only(kinds, u.shown \o u.table) = Only(kinds, Append(sent, x))
  <2>1. Only(kinds, Append(t.shown \o t.table, x)) = OnlyStep(kinds, Only(kinds, t.shown \o t.table), x)
    BY <1>1, OnlyAppend
  <2>2. Only(kinds, Append(sent, x)) = OnlyStep(kinds, Only(kinds, sent), x)
    BY OnlyAppend
  <2>3. QED
    BY <1>2, <2>1, <2>2, Zenon
<1>3. /\ Only({"row"}, t.shown \o t.table) = Only({"row"}, sent)
      /\ Only({"message", "error"}, t.shown \o t.table) = Only({"message", "error"}, sent)
  BY Zenon DEF Rendered
<1>4. /\ Only({"row"}, u.shown \o u.table) = Only({"row"}, Append(sent, x))
      /\ Only({"message", "error"}, u.shown \o u.table) = Only({"message", "error"}, Append(sent, x))
  BY <1>2, <1>3, Zenon
<1>5. QED
  BY <1>4, Zenon DEF Rendered

\* A row is kept, or the page it fills is printed.
LEMMA RowRendered ==
    ASSUME NEW t, NEW sent \in Seq(Items), NEW x \in Items, x.kind = "row", Faithful(t, sent)
    PROVE  Faithful(AppendRow(t, x), Append(sent, x))
<1>1. /\ t \in Screens /\ Rendered(t, sent) /\ Len(t.table) < PageSize
      /\ t.table \in Seq(Items) /\ t.shown \in Seq(Items)
      /\ \A i \in DOMAIN t.table : t.table[i].kind = "row"
  BY DEF Faithful, Screens, Rendered
<1> DEFINE full == Append(t.table, x)
<1>2. full \in Seq(Items) /\ t.shown \o full \in Seq(Items) /\ Len(full) = Len(t.table) + 1 /\ Len(t.table) \in Nat
  BY <1>1
<1>3. t.shown \o full = Append(t.shown \o t.table, x)
  <2>1. \A a, b \in Seq(Items) : a \o Append(b, x) = Append(a \o b, x)
    BY AppendConcat
  <2>2. QED
    BY <1>1, <2>1
<1>4. CASE Len(t.table) + 1 >= PageSize
  <2> DEFINE u == [table |-> <<>>, shown |-> t.shown \o full]
  <2>1. AppendRow(t, x) = u
    BY <1>4 DEF AppendRow
  <2>2. u \in Screens /\ u.table = <<>> /\ u.shown = t.shown \o full
    <3> HIDE DEF full
    <3>1. <<>> \in Seq(Items)
      BY EmptySeq
    <3>2. QED
      BY <1>2, <3>1, ScreenIs
  <2> HIDE DEF u
  <2>3. u.shown \o u.table = Append(t.shown \o t.table, x)
    BY <1>2, <1>3, <2>2, ConcatEmptySeq
  <2>4. \A i \in DOMAIN u.table : u.table[i].kind = "row"
    BY <2>2
  <2>5. Rendered(u, Append(sent, x))
    BY <1>1, <2>2, <2>3, <2>4, RowShown
  <2>6. Len(u.table) < PageSize
    BY <2>2, TerminalAssumption
  <2>7. QED
    BY <2>1, <2>2, <2>5, <2>6 DEF Faithful
<1>5. CASE ~(Len(t.table) + 1 >= PageSize)
  <2> DEFINE u == [t EXCEPT !.table = full]
  <2>1. AppendRow(t, x) = u
    BY <1>5 DEF AppendRow
  <2>2. u \in Screens /\ u.table = full /\ u.shown = t.shown
    BY <1>1, <1>2 DEF Screens
  <2> HIDE DEF u
  <2>3. u.shown \o u.table = Append(t.shown \o t.table, x)
    BY <1>3, <2>2
  <2>4. \A i \in DOMAIN u.table : u.table[i].kind = "row"
    <3>1. \A i \in 1..Len(t.table) + 1 : full[i].kind = "row"
      BY <1>1
    <3>2. QED
      BY <1>2, <2>2, <3>1
  <2>5. Rendered(u, Append(sent, x))
    BY <1>1, <2>2, <2>3, <2>4, RowShown
  <2>6. Len(u.table) < PageSize
    BY <1>2, <1>5, <2>2, TerminalAssumption
  <2>7. QED
    BY <2>1, <2>2, <2>5, <2>6 DEF Faithful
<1>6. QED
  BY <1>4, <1>5

\* What is in the table are rows.
LEMMA TableRows ==
    ASSUME NEW b \in Seq(Items), \A i \in DOMAIN b : b[i].kind = "row"
    PROVE  Only({"message", "error"}, b) = <<>>
<1>1. \A i \in 1..Len(b) : b[i].kind \notin {"message", "error"}
  OBVIOUS
<1>2. QED
  BY <1>1, OnlyNone

\* A message goes before the rows that wait, and stays in its order.
LEMMA MessageShown ==
    ASSUME NEW a \in Seq(Items), NEW b \in Seq(Items), NEW x \in Items,
           x.kind \in {"message", "error"}, \A i \in DOMAIN b : b[i].kind = "row"
    PROVE  /\ Only({"row"}, Append(a, x) \o b) = Only({"row"}, a \o b)
           /\ Only({"message", "error"}, Append(a, x) \o b) = Append(Only({"message", "error"}, a \o b), x)
<1>1. Append(a, x) \in Seq(Items)
  OBVIOUS
<1>2. \A kinds : /\ Only(kinds, Append(a, x) \o b) = Only(kinds, Append(a, x)) \o Only(kinds, b)
                 /\ Only(kinds, a \o b) = Only(kinds, a) \o Only(kinds, b)
  BY <1>1, OnlyConcat
<1>3. \A kinds : Only(kinds, Append(a, x)) = OnlyStep(kinds, Only(kinds, a), x)
  BY OnlyAppend
<1>4. OnlyStep({"row"}, Only({"row"}, a), x) = Only({"row"}, a)
  BY DEF OnlyStep
<1>5. OnlyStep({"message", "error"}, Only({"message", "error"}, a), x) = Append(Only({"message", "error"}, a), x)
  BY Zenon DEF OnlyStep
<1>6. Only({"message", "error"}, b) = <<>>
  BY TableRows
<1>7. Only({"message", "error"}, a) \in Seq(Items)
  BY OnlyType
<1>8. /\ Append(Only({"message", "error"}, a), x) \o <<>> = Append(Only({"message", "error"}, a), x)
      /\ Only({"message", "error"}, a) \o <<>> = Only({"message", "error"}, a)
  BY <1>7
<1>9. Only({"row"}, Append(a, x) \o b) = Only({"row"}, a \o b)
  BY <1>2, <1>3, <1>4, Zenon
<1>10. Only({"message", "error"}, Append(a, x) \o b) = Append(Only({"message", "error"}, a \o b), x)
  BY <1>2, <1>3, <1>5, <1>6, <1>8, Zenon
<1>11. QED
  BY <1>9, <1>10

\* A message is printed at once.
LEMMA MessageRendered ==
    ASSUME NEW t, NEW sent \in Seq(Items), NEW x \in Items, x.kind \in {"message", "error"},
           Faithful(t, sent)
    PROVE  Faithful([t EXCEPT !.shown = Append(@, x)], Append(sent, x))
<1> DEFINE a == t.shown
           b == t.table
           u == [t EXCEPT !.shown = Append(@, x)]
<1>1. /\ a \in Seq(Items) /\ b \in Seq(Items) /\ Len(b) < PageSize
      /\ \A i \in DOMAIN b : b[i].kind = "row"
      /\ Only({"row"}, a \o b) = Only({"row"}, sent)
      /\ Only({"message", "error"}, a \o b) = Only({"message", "error"}, sent)
  BY DEF Faithful, Screens, Rendered
<1>2. u \in Screens /\ u.table = b /\ u.shown = Append(a, x)
  <2> DEFINE y == Append(a, x)
  <2>1. y \in Seq(Items) /\ t \in Screens
    BY <1>1 DEF Faithful
  <2>2. u = [t EXCEPT !.shown = y]
    OBVIOUS
  <2> HIDE DEF u, y
  <2>3. QED
    BY <2>1, <2>2, ScreenSet DEF y
<1> HIDE DEF a, b, u
<1>3. /\ Only({"row"}, Append(a, x) \o b) = Only({"row"}, a \o b)
      /\ Only({"message", "error"}, Append(a, x) \o b) = Append(Only({"message", "error"}, a \o b), x)
  BY <1>1, MessageShown
<1>4. \A kinds : Only(kinds, Append(sent, x)) = OnlyStep(kinds, Only(kinds, sent), x)
  BY OnlyAppend
<1>5. OnlyStep({"row"}, Only({"row"}, sent), x) = Only({"row"}, sent)
  BY DEF OnlyStep
<1>6. OnlyStep({"message", "error"}, Only({"message", "error"}, sent), x)
        = Append(Only({"message", "error"}, sent), x)
  BY Zenon DEF OnlyStep
<1>7. Rendered(u, Append(sent, x))
  BY <1>1, <1>2, <1>3, <1>4, <1>5, <1>6, Zenon DEF Rendered
<1>8. QED
  BY <1>1, <1>2, <1>7 DEF Faithful, u

\* Every item is rendered.
LEMMA ItemRendered ==
    ASSUME NEW t, NEW sent \in Seq(Items), NEW x \in Items, Faithful(t, sent)
    PROVE  Faithful(RenderItem(t, x), Append(sent, x))
<1>1. CASE x.kind = "row"
  <2>1. RenderItem(t, x) = AppendRow(t, x)
    BY <1>1 DEF RenderItem
  <2>2. QED
    BY <1>1, <2>1, RowRendered
<1>2. CASE x.kind \in {"message", "error"}
  <2>1. RenderItem(t, x) = [t EXCEPT !.shown = Append(@, x)]
    BY <1>2 DEF RenderItem
  <2>2. QED
    BY <1>2, <2>1, MessageRendered
<1>3. CASE x.kind \notin {"row", "message", "error"}
  <2>1. RenderItem(t, x) = t
    BY <1>3 DEF RenderItem
  <2>2. \A kinds : Only(kinds, Append(sent, x)) = OnlyStep(kinds, Only(kinds, sent), x)
    BY OnlyAppend
  <2>3. /\ OnlyStep({"row"}, Only({"row"}, sent), x) = Only({"row"}, sent)
        /\ OnlyStep({"message", "error"}, Only({"message", "error"}, sent), x)
             = Only({"message", "error"}, sent)
    BY <1>3 DEF OnlyStep
  <2>4. Rendered(t, Append(sent, x))
    BY <2>2, <2>3, Zenon DEF Rendered, Faithful
  <2>5. QED
    BY <2>1, <2>4, Zenon DEF Faithful
<1>4. QED
  BY <1>1, <1>2, <1>3

\* So are all that come at once.
LEMMA AllRendered ==
    ASSUME NEW t, NEW sent \in Seq(Items), NEW rs \in Seq(Items), Faithful(t, sent)
    PROVE  Faithful(RenderAll(t, rs), sent \o rs)
<1>0. Peels(rs, Items)
  BY Peeled, Zenon
<1> DEFINE n == Len(rs)
<1>1. n \in Nat /\ Len(rs) = n
  BY <1>0 DEF Peels
<1>2. PICK f : Runs("render", rs, t, n, f) /\ RenderAll(t, rs) = f[n]
  BY <1>1, RenderRuns
<1>3. f[0] = t
  BY <1>2, Zenon DEF Runs
<1>4. \A i \in 1..n : f[i] = RenderItem(f[i - 1], rs[i])
  BY <1>2 DEF Runs, Turn
<1> DEFINE G == {m \in 0..Len(rs) : Faithful(f[m], sent \o Pre(rs, m))}
<1>5. 0 \in G
  <2>1. sent \o Pre(rs, 0) = sent
    BY <1>0 DEF Peels
  <2>2. Faithful(f[0], sent \o Pre(rs, 0))
    BY <1>3, <2>1, Zenon
  <2>3. QED
    BY <1>1, <2>2
<1>6. ASSUME NEW m \in 1..Len(rs), m - 1 \in G PROVE m \in G
  <2> DEFINE p == Pre(rs, m - 1)
             x == rs[m]
  <2>1. /\ Faithful(f[m - 1], sent \o p) /\ m \in 0..Len(rs)
        /\ p \in Seq(Items) /\ x \in Items /\ Pre(rs, m) = Append(p, x)
    BY <1>0, <1>6 DEF Peels
  <2>2. f[m] = RenderItem(f[m - 1], x)
    BY <1>4, <1>1
  <2> HIDE DEF p, x
  <2>3. sent \o p \in Seq(Items) /\ sent \o Append(p, x) = Append(sent \o p, x)
    BY <2>1, AppendConcat
  <2>4. Faithful(RenderItem(f[m - 1], x), Append(sent \o p, x))
    BY <2>1, <2>3, ItemRendered
  <2>5. Faithful(f[m], sent \o Pre(rs, m))
    BY <2>1, <2>2, <2>3, <2>4, Zenon
  <2>6. QED
    BY <2>1, <2>5
<1> HIDE DEF G
<1>7. Len(rs) \in G
  BY <1>1, <1>5, <1>6, Along
<1>8. QED
  BY <1>0, <1>2, <1>7, Zenon DEF G, Peels

\* Flush prints the rows that are left.
LEMMA FlushShows ==
    ASSUME NEW t, NEW sent \in Seq(Items), Faithful(t, sent)
    PROVE  Faithful(Flush(t), sent) /\ Flush(t).table = <<>>
<1> DEFINE u == [table |-> <<>>, shown |-> t.shown \o t.table]
<1>1. t.shown \in Seq(Items) /\ t.table \in Seq(Items) /\ t.shown \o t.table \in Seq(Items)
  BY DEF Faithful, Screens
<1>2. Flush(t) = u /\ u.table = <<>> /\ u.shown = t.shown \o t.table /\ u \in Screens
  <2>1. <<>> \in Seq(Items)
    BY EmptySeq
  <2>2. QED
    BY <1>1, <2>1, ScreenIs DEF Flush
<1> HIDE DEF u
<1>3. u.shown \o u.table = t.shown \o t.table
  BY <1>1, <1>2, ConcatEmptySeq
<1>4. \A i \in DOMAIN u.table : u.table[i].kind = "row"
  BY <1>2
<1>5. Rendered(u, sent)
  BY <1>3, <1>4, Zenon DEF Rendered, Faithful
<1>6. Len(u.table) < PageSize
  BY <1>2, TerminalAssumption
<1>7. QED
  BY <1>2, <1>5, <1>6 DEF Faithful

-----------------------------------------------------------------------------
(* Texts. *)

\* NonBlank finds a position.
LEMMA NonBlankIs ==
    ASSUME NEW s \in Texts, NEW i \in 1..Len(s) + 1
    PROVE  NonBlank(s, i) \in i..Len(s) + 1
<1> DEFINE n == Len(s)
<1>0. n \in Nat
  BY DEF Texts
<1> DEFINE T == {j \in i..n + 1 : j <= n => s[j] \notin Blank}
<1>1. n + 1 \in T /\ T \subseteq Nat
  BY <1>0
<1> HIDE DEF T, n
<1>2. PICK j \in T : \A k \in T : j <= k
  BY <1>1, Least
<1>3. j \in i..n + 1 /\ (j <= n => s[j] \notin Blank)
  BY DEF T
<1>4. ASSUME NEW k \in i..j - 1 PROVE s[k] \in Blank
  <2>1. k \in i..n + 1 /\ ~(j <= k)
    BY <1>0, <1>3 DEF n
  <2>2. k \notin T
    BY <1>2, <2>1
  <2>3. QED
    BY <2>1, <2>2 DEF T
<1>5. \E p \in i..n + 1 : (\A k \in i..p - 1 : s[k] \in Blank) /\ (p <= n => s[p] \notin Blank)
  BY <1>3, <1>4
<1>6. NonBlank(s, i) = CHOOSE p \in i..n + 1 : (\A k \in i..p - 1 : s[k] \in Blank) /\ (p <= n => s[p] \notin Blank)
  BY DEF NonBlank, n
<1>7. NonBlank(s, i) \in i..n + 1
  BY <1>5, <1>6, Zenon
<1>8. QED
  BY <1>7 DEF n

\* A part of a text is one.
LEMMA PartType ==
    ASSUME NEW s \in Texts, NEW i \in 1..Len(s) + 1, NEW j \in 0..Len(s)
    PROVE  SubSeq(s, i, j) \in Texts
<1>1. \A k \in i..j : s[k] \in Tokens \cup Keys
  BY DEF Texts
<1>2. i \in Int /\ j \in Int
  BY DEF Texts
<1>3. QED
  BY <1>1, <1>2, SubSeqProperties DEF Texts

\* A text without the blanks before it is a text.
LEMMA TrimLeftType ==
    ASSUME NEW s \in Texts
    PROVE  TrimLeft(s) \in Texts
<1> DEFINE i == NonBlank(s, 1)
<1>1. Len(s) \in Nat /\ 1 \in 1..Len(s) + 1
  BY DEF Texts
<1>2. i \in 1..Len(s) + 1
  BY <1>1, NonBlankIs
<1>3. Len(s) \in 0..Len(s)
  BY <1>1
<1> HIDE DEF i
<1>4. SubSeq(s, i, Len(s)) \in Texts
  BY <1>2, <1>3, PartType
<1>5. QED
  BY <1>4 DEF TrimLeft, i

\* So is a text read backwards.
LEMMA ReverseType ==
    ASSUME NEW s \in Texts
    PROVE  Reverse(s) \in Texts
BY DEF Reverse, Texts

\* strings.TrimSpace.
LEMMA TrimSpaceType ==
    ASSUME NEW s \in Texts
    PROVE  TrimSpace(s) \in Texts
BY TrimLeftType, ReverseType DEF TrimSpace

\* A list of statements, not empty.
Lists == {ss \in Seq(Texts) : ss # <<>>}

\* The last statement is one, and may be continued.
LEMMA ExtendType ==
    ASSUME NEW ss \in Lists, NEW t \in Texts
    PROVE  Last(ss) \in Texts /\ Extend(ss, t) \in Lists
<1>1. ss \in Seq(Texts) /\ Len(ss) \in 1..Len(ss)
  BY DEF Lists
<1>2. Last(ss) \in Texts
  BY <1>1 DEF Last
<1>3. Last(ss) \o t \in Texts
  BY <1>2 DEF Texts
<1> DEFINE x == Last(ss) \o t
           r == [ss EXCEPT ![Len(ss)] = x]
<1> HIDE DEF x
<1>4. r \in Seq(Texts) /\ Len(r) = Len(ss)
  BY <1>1, <1>3, ExceptSeq DEF x
<1>5. r # <<>>
  BY <1>1, <1>4
<1>6. Extend(ss, t) = r
  BY DEF Extend, ReplaceAt, x
<1>7. QED
  BY <1>2, <1>4, <1>5, <1>6 DEF Lists

\* One more statement.
LEMMA AppendList ==
    ASSUME NEW ss \in Lists, NEW t \in Texts
    PROVE  Append(ss, t) \in Lists
BY AppendProperties DEF Lists

\* What addLineToStmt keeps while it goes through a line.
Scans(line) ==
    [stmts : Seq(Texts), quote : {"none", "sq", "dq"}, esc : BOOLEAN,
     start : 1..Len(line) + 1, ret : {"none", "done", "more"}]

\* Unless the line ends a statement there is one to continue.
Scanning(line, a) == a \in Scans(line) /\ (a.ret # "done" => a.stmts # <<>>)

\* A quote opens or closes.
LEMMA QuoteType ==
    ASSUME NEW q \in {"none", "sq", "dq"}, NEW t \in {"sq", "dq"}
    PROVE  ToggleQuote(q, t) \in {"none", "sq", "dq"}
BY DEF ToggleQuote

\* A text of one token.
LEMMA OneToken == \A x \in Tokens : <<x>> \in Texts
<1> TAKE x \in Tokens
<1> DEFINE S == Tokens \cup Keys
<1>1. x \in S
  OBVIOUS
<1> HIDE DEF S
<1>2. <<x>> \in Seq(S)
  BY <1>1
<1>3. QED
  BY <1>2 DEF S, Texts

\* The fields of a scan, as they are set.
LEMMA EscapeSet ==
    ASSUME NEW line, NEW a, Scanning(line, a), NEW e \in BOOLEAN
    PROVE  Scanning(line, [a EXCEPT !.esc = e])
<1>1. [a EXCEPT !.esc = e] \in Scans(line)
  BY Zenon DEF Scans, Scanning
<1>2. [a EXCEPT !.esc = e].ret = a.ret /\ [a EXCEPT !.esc = e].stmts = a.stmts
  BY DEF Scans, Scanning
<1>3. QED
  BY <1>1, <1>2, Zenon DEF Scanning

\* The quote may change,
LEMMA QuoteSet ==
    ASSUME NEW line, NEW a, Scanning(line, a), NEW q \in {"none", "sq", "dq"}
    PROVE  Scanning(line, [a EXCEPT !.quote = q])
BY DEF Scanning, Scans

\* the statements and the answer may,
LEMMA AnswerSet ==
    ASSUME NEW line, NEW a \in Scans(line), NEW ss \in Seq(Texts),
           NEW r \in {"none", "done", "more"}, r # "done" => ss # <<>>
    PROVE  Scanning(line, [a EXCEPT !.stmts = ss, !.ret = r])
BY DEF Scanning, Scans

\* and the place where a statement begins.
LEMMA StartSet ==
    ASSUME NEW line, NEW a \in Scans(line), NEW ss \in Lists,
           NEW p \in 1..Len(line) + 1, NEW r \in {"none", "done", "more"}
    PROVE  Scanning(line, [a EXCEPT !.start = p, !.ret = r, !.stmts = ss])
BY DEF Scanning, Scans, Lists

\* What is known of a scan that goes on.
LEMMA ScanIs ==
    ASSUME NEW line, NEW a, Scanning(line, a), a.ret = "none"
    PROVE  /\ a \in Scans(line) /\ a.stmts \in Lists /\ a.quote \in {"none", "sq", "dq"}
           /\ a.start \in 1..Len(line) + 1
BY DEF Scanning, Scans, Lists

\* The end of a statement leaves a list of statements.
LEMMA SemicolonType ==
    ASSUME NEW line \in Texts, NEW a, Scanning(line, a), NEW i \in 1..Len(line), a.ret = "none"
    PROVE  Scanning(line, AtSemicolon(line, a, i))
<1> DEFINE whole == SubSeq(line, a.start, i)
           keep == (i = 1 /\ Last(a.stmts) # <<>>) \/ i # a.start
           ss == IF keep THEN Extend(a.stmts, whole) ELSE a.stmts
           next == NonBlank(line, i + 1)
           found == IF next <= Len(line) /\ Last(ss) # <<>> THEN Append(ss, <<>>) ELSE ss
           ret == IF next > Len(line) THEN "done" ELSE "none"
<1>0. Len(line) \in Nat
  BY DEF Texts
<1>1. a \in Scans(line) /\ a.stmts \in Lists /\ a.start \in 1..Len(line) + 1
  BY ScanIs
<1>2. whole \in Texts
  BY <1>0, <1>1, PartType
<1>3. next \in 1..Len(line) + 1
  <2>1. i + 1 \in 1..Len(line) + 1
    BY <1>0
  <2>2. next \in i + 1..Len(line) + 1
    BY <2>1, NonBlankIs
  <2>3. QED
    BY <1>0, <2>2
<1>4. AtSemicolon(line, a, i) = [a EXCEPT !.start = next, !.ret = ret, !.stmts = found]
  BY DEF AtSemicolon
<1> HIDE DEF whole, keep, next
<1>5. ss \in Lists
  BY <1>1, <1>2, ExtendType
<1> HIDE DEF ss
<1>6. found \in Lists
  <2>1. <<>> \in Texts
    BY DEF Texts
  <2>2. Append(ss, <<>>) \in Lists
    BY <1>5, <2>1, AppendList
  <2>3. QED
    BY <1>5, <2>2
<1>7. ret \in {"none", "done", "more"}
  OBVIOUS
<1> HIDE DEF found, ret
<1>8. Scanning(line, [a EXCEPT !.start = next, !.ret = ret, !.stmts = found])
  BY <1>1, <1>3, <1>6, <1>7, StartSet, Zenon
<1>9. QED
  BY <1>4, <1>8, Zenon

\* So does a comment, unless nothing was found before it.
LEMMA CommentType ==
    ASSUME NEW line \in Texts, NEW a, Scanning(line, a), NEW i \in 1..Len(line), a.ret = "none"
    PROVE  Scanning(line, AtComment(line, a, i))
<1> DEFINE part == SubSeq(line, a.start, i - 1)
           ss == Extend(a.stmts, TrimSpace(part))
<1>0. Len(line) \in Nat
  BY DEF Texts
<1>1. a \in Scans(line) /\ a.stmts \in Lists /\ a.start \in 1..Len(line) + 1
  BY ScanIs
<1>2. part \in Texts
  <2>1. i - 1 \in 0..Len(line)
    BY <1>0
  <2>2. QED
    BY <1>1, <2>1, PartType
<1>3. AtComment(line, a, i) = IF ss = <<<<>>>> THEN [a EXCEPT !.stmts = <<>>, !.ret = "done"]
                              ELSE [a EXCEPT !.stmts = ss, !.ret = "more"]
  BY DEF AtComment
<1> HIDE DEF part
<1>4. ss \in Lists
  BY <1>1, <1>2, TrimSpaceType, ExtendType
<1> HIDE DEF ss
<1>5. Scanning(line, [a EXCEPT !.stmts = ss, !.ret = "more"])
  <2>1. ss \in Seq(Texts) /\ ss # <<>>
    BY <1>4 DEF Lists
  <2>2. QED
    BY <1>1, <2>1, AnswerSet
<1>6. Scanning(line, [a EXCEPT !.stmts = <<>>, !.ret = "done"])
  <2>1. <<>> \in Seq(Texts)
    BY EmptySeq
  <2>2. QED
    BY <1>1, <2>1, AnswerSet
<1>7. QED
  BY <1>3, <1>5, <1>6, Zenon

\* One token.
LEMMA ScanType ==
    ASSUME NEW line \in Texts, NEW a, Scanning(line, a), NEW i \in 1..Len(line)
    PROVE  Scanning(line, Scan(line, a, i))
<1> DEFINE t == line[i]
           open == a.quote = "none"
<1>1. CASE a.ret # "none" \/ i < a.start
  <2>1. Scan(line, a, i) = a
    BY <1>1 DEF Scan
  <2>2. QED
    BY <2>1
<1>2. CASE ~(a.ret # "none" \/ i < a.start)
  <2>0. a \in Scans(line) /\ a.ret = "none" /\ a.quote \in {"none", "sq", "dq"}
    BY <1>2, ScanIs
  <2>1. CASE a.esc
    <3>1. Scan(line, a, i) = [a EXCEPT !.esc = FALSE]
      BY <1>2, <2>1 DEF Scan
    <3>2. QED
      BY <3>1, EscapeSet, Zenon
  <2>2. CASE ~a.esc /\ t = "bs"
    <3>1. Scan(line, a, i) = AtBackslash(a)
      BY <1>2, <2>2 DEF Scan
    <3>2. Scanning(line, [a EXCEPT !.esc = TRUE])
      BY EscapeSet, Zenon
    <3>3. QED
      BY <3>1, <3>2, Zenon DEF AtBackslash
  <2>3. CASE ~a.esc /\ t \in {"sq", "dq"}
    <3> DEFINE q == ToggleQuote(a.quote, t)
    <3>1. Scan(line, a, i) = [a EXCEPT !.quote = q]
      BY <1>2, <2>3 DEF Scan
    <3>2. q \in {"none", "sq", "dq"}
      BY <2>0, <2>3, QuoteType
    <3> HIDE DEF q
    <3>3. Scanning(line, [a EXCEPT !.quote = q])
      BY <3>2, QuoteSet, Zenon
    <3>4. QED
      BY <3>1, <3>3, Zenon
  <2>4. CASE ~a.esc /\ t = ";" /\ open
    <3>1. Scan(line, a, i) = AtSemicolon(line, a, i)
      BY <1>2, <2>4 DEF Scan
    <3>2. QED
      BY <2>0, <3>1, SemicolonType
  <2>5. CASE ~a.esc /\ t = "cmt" /\ open
    <3>1. Scan(line, a, i) = AtComment(line, a, i)
      BY <1>2, <2>5 DEF Scan
    <3>2. QED
      BY <2>0, <3>1, CommentType
  <2>6. CASE ~a.esc /\ t \notin {"bs", "sq", "dq"} /\ ~(t \in {";", "cmt"} /\ open)
    <3>1. Scan(line, a, i) = a
      BY <1>2, <2>6 DEF Scan
    <3>2. QED
      BY <3>1
  <2>7. QED
    BY <2>1, <2>2, <2>3, <2>4, <2>5, <2>6
<1>3. QED
  BY <1>1, <1>2

\* The loop of addLineToStmt.
Scanned(line, a0, n) ==
    CHOOSE f : f = [i \in 0..n |->
        IF i = 0 THEN a0 ELSE CHOOSE after \in {Scan(line, a, i) : a \in {f[i - 1]}} : TRUE]

\* The recursion of AddLine is one of the loops.
LEMMA LineRuns ==
    ASSUME NEW line, NEW a0, NEW n \in Nat, Len(line) = n
    PROVE  Runs("scan", line, a0, n, Scanned(line, a0, n))
<1> DEFINE One(f, i) == IF i = 0 THEN a0
                        ELSE CHOOSE after \in {Scan(line, a, i) : a \in {f[i - 1]}} : TRUE
           g == CHOOSE f : f = [i \in 0..n |-> One(f, i)]
           h == CHOOSE f : Solves("scan", line, a0, n, f)
<1>1. ASSUME NEW f, NEW i PROVE Loop("scan", line, a0, f, i) = One(f, i)
  <2> DEFINE y == Scan(line, f[i - 1], i)
  <2>1. {Scan(line, a, i) : a \in {f[i - 1]}} = {y}
    OBVIOUS
  <2>2. Turn("scan", line, f[i - 1], i) = y
    BY DEF Turn
  <2> HIDE DEF y
  <2>3. (CHOOSE after \in {y} : TRUE) = y
    OBVIOUS
  <2>4. QED
    BY <2>1, <2>2, <2>3 DEF Loop
<1> HIDE DEF One
<1>2. \A f : Solves("scan", line, a0, n, f) <=> f = [i \in 0..n |-> One(f, i)]
  BY <1>1 DEF Solves
<1>3. g = h
  BY <1>2, Zenon
<1>4. Runs("scan", line, a0, n, h)
  BY RunsChosen, Zenon
<1>5. Runs("scan", line, a0, n, g)
  BY <1>3, <1>4, Zenon
<1>6. QED
  BY <1>5 DEF g, One, Scanned

\* Every position of the line.
LEMMA LineScanned ==
    ASSUME NEW line \in Texts, NEW a0, Scanning(line, a0), NEW n \in Nat, Len(line) = n,
           NEW f, Runs("scan", line, a0, n, f)
    PROVE  Scanning(line, f[n])
<1>1. f[0] = a0
  BY Zenon DEF Runs
<1>2. \A i \in 1..n : f[i] = Scan(line, f[i - 1], i)
  BY DEF Runs, Turn
<1> DEFINE G == {m \in 0..n : Scanning(line, f[m])}
<1>3. 0 \in G
  <2>1. Scanning(line, f[0])
    BY <1>1, Zenon
  <2>2. QED
    BY <2>1
<1>4. ASSUME NEW m \in 1..n, m - 1 \in G PROVE m \in G
  <2>1. Scanning(line, f[m - 1]) /\ m \in 0..n /\ m \in 1..Len(line)
    BY <1>4
  <2>2. Scanning(line, Scan(line, f[m - 1], m))
    BY <2>1, ScanType
  <2>3. QED
    BY <1>2, <2>1, <2>2
<1> HIDE DEF G
<1>5. n \in 0..n
  OBVIOUS
<1>6. n \in G
  <2>1. n \in 0..n
    OBVIOUS
  <2>2. QED
    BY <1>3, <1>4, <1>5, <2>1, Induction
<1>7. QED
  BY <1>6 DEF G

\* What addLineToStmt returns.
Cut(a) ==
    /\ a.stmts \in Seq(Texts) /\ a.quote \in {"none", "sq", "dq"} /\ a.ret \in {"done", "more"}
    /\ a.ret # "done" => a.stmts # <<>>

\* addLineToStmt returns statements and a quote; when more is to come, there
\* is a statement to continue, which is what the prompt shows.
LEMMA AddLineType ==
    ASSUME NEW text \in Texts, NEW ss \in Seq(Texts), NEW q \in {"none", "sq", "dq"}
    PROVE  Cut(AddLine(text, ss, q))
<1> DEFINE line == IF ss = <<>> THEN TrimLeft(text) ELSE text
           first == IF ss = <<>> THEN <<<<>>>> ELSE Extend(ss, <<"nl">>)
           a0 == [stmts |-> first, quote |-> q, esc |-> FALSE, start |-> 1, ret |-> "none"]
           n == Len(line)
           at == Scanned(line, a0, n)
           end == at[n]
           last0 == SubSeq(line, end.start, Len(line))
<1>1. line \in Texts
  BY TrimLeftType
<1>2. first \in Lists
  <2>1. CASE ss = <<>>
    <3>1. <<>> \in Texts
      BY DEF Texts
    <3>2. <<<<>>>> \in Seq(Texts) /\ <<<<>>>> # <<>>
      BY <3>1
    <3>3. QED
      BY <2>1, <3>2 DEF Lists
  <2>2. CASE ss # <<>>
    <3>1. <<"nl">> \in Texts
      BY OneToken DEF Tokens, Blank
    <3>2. ss \in Lists
      BY <2>2 DEF Lists
    <3>3. Extend(ss, <<"nl">>) \in Lists
      BY <3>1, <3>2, ExtendType
    <3>4. QED
      BY <2>2, <3>3
  <2>3. QED
    BY <2>1, <2>2
<1>3. AddLine(text, ss, q) = IF end.ret = "none"
                             THEN [end EXCEPT !.stmts = Extend(@, last0), !.ret = "more"]
                             ELSE end
  BY DEF AddLine, Scanned
<1> HIDE DEF line, first
<1>4. n \in Nat /\ Len(line) = n
  BY <1>1 DEF Texts
<1>6. Scanning(line, a0)
  <2>1. 1 \in 1..Len(line) + 1
    BY <1>4
  <2>2. a0 \in Scans(line)
    BY <1>2, <2>1 DEF Scans, Lists
  <2>3. a0.stmts = first
    OBVIOUS
  <2>4. QED
    BY <1>2, <2>2, <2>3 DEF Scanning, Lists
<1> HIDE DEF a0, n
<1>5. Runs("scan", line, a0, n, at)
  BY <1>4, LineRuns, Zenon
<1> HIDE DEF at
<1>7. Scanning(line, end)
  BY <1>1, <1>4, <1>5, <1>6, LineScanned
<1> HIDE DEF end
<1>8. CASE end.ret = "none"
  <2>1. end \in Scans(line) /\ end.stmts \in Lists /\ end.start \in 1..Len(line) + 1
    BY <1>7, <1>8, ScanIs
  <2>2. last0 \in Texts
    <3>1. Len(line) \in 0..Len(line)
      BY <1>4
    <3>2. QED
      BY <1>1, <2>1, <3>1, PartType
  <2> DEFINE rest == Extend(end.stmts, last0)
  <2> HIDE DEF last0
  <2>3. rest \in Lists
    BY <2>1, <2>2, ExtendType
  <2> HIDE DEF rest
  <2>4. AddLine(text, ss, q) = [end EXCEPT !.stmts = rest, !.ret = "more"]
    BY <1>3, <1>8 DEF rest
  <2>5. Cut([end EXCEPT !.stmts = rest, !.ret = "more"])
    BY <2>1, <2>3 DEF Cut, Scans, Lists
  <2>6. QED
    BY <2>4, <2>5
<1>9. CASE end.ret # "none"
  BY <1>3, <1>7, <1>9 DEF Cut, Scanning, Scans
<1>10. QED
  BY <1>8, <1>9

\* So are the statements with the semicolon that was missing.
LEMMA WithSemicolonType ==
    ASSUME NEW ss \in Seq(Texts)
    PROVE  WithSemicolon(ss) \in Seq(Texts)
<1>1. CASE ss = <<>>
  BY <1>1 DEF WithSemicolon
<1>2. CASE ss # <<>>
  <2>0. <<";">> \in Texts
    BY OneToken DEF Tokens
  <2>1. <<";">> \in Texts /\ ss \in Lists
    BY <1>2, <2>0 DEF Lists
  <2>2. Extend(ss, <<";">>) \in Seq(Texts)
    BY <2>1, ExtendType DEF Lists
  <2>3. QED
    BY <2>2, Zenon DEF WithSemicolon
<1>3. QED
  BY <1>1, <1>2

-----------------------------------------------------------------------------
(* The history. *)

\* A function on the first numbers is a sequence.
LEMMA FunctionSeq ==
    ASSUME NEW T, NEW n \in Nat, NEW f \in [1..n -> T]
    PROVE  f \in Seq(T)
BY SeqDef

\* A function from 1 on that joins sequences, as FlattenSeq has it.
Joins(q, n, g) == g = [i \in 1..n |-> IF i = 1 THEN q[i] ELSE g[i - 1] \o q[i]]

\* There is one.
LEMMA JoinSolved ==
    ASSUME NEW S, NEW q \in Seq(Seq(S)), NEW n \in Nat, n = Len(q)
    PROVE  \E g : Joins(q, n, g)
<1>1. PICK f : Solves("join", q, <<>>, n, f)
  BY LoopSolved
<1>2. Runs("join", q, <<>>, n, f)
  BY <1>1, RunsSolved
<1>3. f[0] = <<>>
  BY <1>2, Zenon DEF Runs
<1>4. \A i \in 1..n : f[i] = f[i - 1] \o q[i]
  BY <1>2 DEF Runs, Turn
<1> DEFINE g == [i \in 1..n |-> f[i]]
<1>5. ASSUME NEW i \in 1..n PROVE g[i] = IF i = 1 THEN q[i] ELSE g[i - 1] \o q[i]
  <2>0. g[i] = f[i]
    OBVIOUS
  <2>1. CASE i = 1
    <3>a. 1 \in 1..n /\ 1 - 1 = 0
      BY <2>1
    <3>b. f[1] = f[1 - 1] \o q[1]
      BY <1>4, <3>a, Zenon
    <3>1. f[1] = <<>> \o q[1]
      BY <1>3, <3>a, <3>b, Zenon
    <3>2. q[1] \in Seq(S)
      BY <2>1
    <3>3. <<>> \o q[1] = q[1]
      BY <3>2, ConcatEmptySeq
    <3>4. QED
      BY <2>0, <2>1, <3>1, <3>3
  <2>2. CASE i # 1
    <3>1. i - 1 \in 1..n /\ g[i - 1] = f[i - 1]
      BY <2>2
    <3>2. f[i] = f[i - 1] \o q[i]
      BY <1>4
    <3> HIDE DEF g
    <3>3. QED
      BY <2>0, <2>2, <3>1, <3>2, Zenon
  <2>3. QED
    BY <2>1, <2>2
<1>6. g = [i \in 1..n |-> IF i = 1 THEN q[i] ELSE g[i - 1] \o q[i]]
  BY <1>5, Zenon
<1> HIDE DEF g
<1>7. QED
  BY <1>6, Zenon DEF Joins

\* What is joined is a sequence.
LEMMA FlattenType ==
    ASSUME NEW S, NEW q \in Seq(Seq(S))
    PROVE  FlattenSeq(q) \in Seq(S)
<1> DEFINE n == Len(q)
           g == CHOOSE f : Joins(q, n, f)
<1>0. n \in Nat
  OBVIOUS
<1>1. FlattenSeq(q) = IF n = 0 THEN q ELSE g[n]
  BY DEF FlattenSeq, Joins
<1>2. CASE n = 0
  <2>1. q = <<>>
    BY <1>2
  <2>2. QED
    BY <1>1, <1>2, <2>1, EmptySeq
<1>3. CASE n # 0
  <2> HIDE DEF n
  <2>1. \E f : Joins(q, n, f)
    BY <1>0, JoinSolved DEF n
  <2>2. Joins(q, n, g)
    BY <2>1, Zenon
  <2> HIDE DEF g
  <2>3. \A i \in 1..n : g[i] = IF i = 1 THEN q[i] ELSE g[i - 1] \o q[i]
    BY <2>2, Zenon DEF Joins
  <2>4. \A i \in 1..n : q[i] \in Seq(S)
    BY DEF n
  <2> DEFINE G == {m \in 0..n : m = 0 \/ g[m] \in Seq(S)}
  <2>5. 0 \in G
    BY <1>0
  <2>6. ASSUME NEW m \in 1..n, m - 1 \in G PROVE m \in G
    <3>1. m \in 0..n /\ (m = 1 \/ g[m - 1] \in Seq(S)) /\ q[m] \in Seq(S)
      BY <1>0, <2>4, <2>6
    <3>2. g[m] \in Seq(S)
      <4>1. CASE m = 1
        BY <2>3, <3>1, <4>1
      <4>2. CASE m # 1
        <5>1. g[m] = g[m - 1] \o q[m]
          BY <2>3, <4>2, Zenon
        <5>2. g[m - 1] \in Seq(S)
          BY <3>1, <4>2
        <5>3. g[m - 1] \o q[m] \in Seq(S)
          BY <3>1, <5>2, ConcatProperties
        <5>4. QED
          BY <5>1, <5>3
      <4>3. QED
        BY <4>1, <4>2
    <3>3. QED
      BY <3>1, <3>2
  <2> HIDE DEF G
  <2>7. n \in 0..n
    BY <1>0
  <2>8. n \in G
    BY <1>0, <2>5, <2>6, <2>7, Induction
  <2>9. g[n] \in Seq(S)
    BY <1>3, <2>8 DEF G
  <2>10. QED
    BY <1>1, <1>3, <2>9
<1>4. QED
  BY <1>2, <1>3

\* An entry of the history is a text.
LEMMA EntryType ==
    ASSUME NEW ss \in Seq(Texts)
    PROVE  HistoryEntry(ss) \in Texts
<1> DEFINE S == Tokens \cup Keys
           q == [i \in DOMAIN ss |-> IF i = 1 THEN ss[i] ELSE <<"sp">> \o ss[i]]
           j == Joined(ss)
<1>0. Texts = Seq(S) /\ "sp" \in S
  BY DEF Texts, Tokens, Blank
<1> HIDE DEF S
<1>1. q \in Seq(Seq(S))
  <2>1. ss \in Seq(Seq(S)) /\ Len(ss) \in Nat /\ DOMAIN ss = 1..Len(ss)
    BY <1>0
  <2>2. \A i \in DOMAIN ss : ss[i] \in Seq(S)
    BY <2>1
  <2>3. <<"sp">> \in Seq(S)
    BY <1>0
  <2>4. \A i \in DOMAIN ss : (IF i = 1 THEN ss[i] ELSE <<"sp">> \o ss[i]) \in Seq(S)
    BY <2>2, <2>3
  <2>5. q \in [1..Len(ss) -> Seq(S)]
    BY <2>1, <2>4
  <2> HIDE DEF q
  <2>6. QED
    BY <2>1, <2>5, FunctionSeq
<1>2. j = FlattenSeq(q)
  BY DEF Joined
<1> HIDE DEF q, j
<1>3. j \in Seq(S)
  BY <1>1, <1>2, FlattenType
<1>4. [i \in DOMAIN j |-> IF j[i] = "nl" THEN "sp" ELSE j[i]] \in Seq(S)
  <2> DEFINE e == [i \in DOMAIN j |-> IF j[i] = "nl" THEN "sp" ELSE j[i]]
  <2>1. Len(j) \in Nat /\ DOMAIN j = 1..Len(j) /\ \A i \in DOMAIN j : j[i] \in S
    BY <1>3
  <2>2. e \in [1..Len(j) -> S]
    BY <1>0, <2>1
  <2> HIDE DEF e
  <2>3. e \in Seq(S)
    BY <2>1, <2>2
  <2>4. QED
    BY <2>3 DEF e
<1>5. HistoryEntry(ss) = [i \in DOMAIN j |-> IF j[i] = "nl" THEN "sp" ELSE j[i]]
  BY DEF HistoryEntry, j
<1>6. QED
  BY <1>0, <1>4, <1>5

-----------------------------------------------------------------------------
(* The inductive invariant, one group of variables at a time. *)

\* The input that waits,
Reads ==
    /\ \/ mode = "file" /\ unread \in Seq(Texts)
       \/ mode = "prompt" /\ unread \in Seq(Tokens \cup Keys \cup {"enter"})
    /\ chunks \in Nat

\* What addLineToStmt has found,
Lexed == stmts \in Seq(Texts) /\ quote \in {"none", "sq", "dq"}

\* what is to run,
Lined == todo \in Seq(Texts) /\ cur \in Texts /\ ran \in Seq(Texts)

\* where the client is,
Placed == phase \in {"read", "run", "recv", "fetch", "done", "exit", "fatal"} /\ db \in Nat

\* what is on the screen,
Shows ==
    /\ Faithful([table |-> table, shown |-> shown], got)
    /\ got \in Seq(Items) /\ items \in 0..MaxItems

\* nothing kept back between statements,
Idle == phase \notin {"recv", "fetch"} => table = <<>>

\* the history,
Listed == hist \in Seq(Texts) /\ last \in Seq(Texts)

\* the editor, which points into it,
Edited == ed \in Editors /\ ed.nav <= Len(hist)

\* and which a script leaves alone.
Still == mode = "file" => ~ed.searching

\* All of them, with what the prompt says.
ClientInv ==
    /\ Reads /\ Lexed /\ Lined /\ Placed
    /\ Shows /\ Idle
    /\ Listed /\ Edited /\ Still
    /\ PromptConsistent

\* They make up TerminalInv.
LEMMA GroupsAre == ClientInv => TerminalInv
<1> SUFFICES ASSUME ClientInv PROVE TerminalInv
  OBVIOUS
<1> DEFINE t == [table |-> table, shown |-> shown]
<1>1. t.table = table /\ t.shown = shown
  OBVIOUS
<1>2. Faithful(t, got)
  BY DEF ClientInv, Shows
<1> HIDE DEF t
<1>3. table \in Seq(Items) /\ shown \in Seq(Items) /\ Len(table) < PageSize /\ Rendered(t, got)
  BY <1>1, <1>2 DEF Faithful, Screens
<1>4. TypeOK
  BY <1>3 DEF ClientInv, Reads, Lexed, Lined, Placed, Shows, Listed, Edited, TypeOK
<1>5. ShownOnce
  BY <1>3 DEF ClientInv, Idle, ShownOnce, t
<1>6. QED
  BY <1>4, <1>5 DEF ClientInv, TerminalInv

\* A group that a step leaves alone.
LEMMA Kept ==
    /\ Reads /\ UNCHANGED input => Reads'
    /\ Lexed /\ UNCHANGED lexer => Lexed'
    /\ Lined /\ UNCHANGED runner => Lined'
    /\ Shows /\ UNCHANGED render => Shows'
    /\ Listed /\ UNCHANGED <<hist, last>> => Listed'
    /\ Edited /\ UNCHANGED <<ed, hist>> => Edited'
    /\ Still /\ UNCHANGED <<mode, ed>> => Still'
    /\ PromptConsistent /\ UNCHANGED <<mode, phase, stmts, ed>> => PromptConsistent'
    /\ Idle /\ UNCHANGED <<phase, table>> => Idle'
    /\ Placed /\ UNCHANGED <<phase, db>> => Placed'
<1>1. Shows /\ UNCHANGED render => Shows'
  BY DEF Shows, render
<1>2. QED
  BY <1>1 DEF Reads, input, Lexed, lexer, Lined, runner, Listed, Edited, Still,
              PromptConsistent, Idle, Placed

\* A screen with nothing on it is what nothing sent looks like.
LEMMA BlankScreen == Faithful([table |-> <<>>, shown |-> <<>>], <<>>)
<1> DEFINE t == [table |-> <<>>, shown |-> <<>>]
<1>1. <<>> \in Seq(Items) /\ t \in Screens /\ t.table = <<>> /\ t.shown = <<>>
  BY EmptySeq, ScreenIs
<1> HIDE DEF t
<1>2. t.shown \o t.table = <<>>
  BY <1>1
<1>3. Len(t.table) < PageSize /\ \A i \in DOMAIN t.table : t.table[i].kind = "row"
  BY <1>1, TerminalAssumption
<1>4. Rendered(t, <<>>)
  BY <1>2, <1>3 DEF Rendered
<1>5. Faithful(t, <<>>)
  BY <1>1, <1>3, <1>4 DEF Faithful
<1>6. QED
  BY <1>5 DEF t

\* The client starts with nothing shown.
LEMMA InitGood == Init => ClientInv
<1> SUFFICES ASSUME Init PROVE ClientInv
  OBVIOUS
<1>1. Tokens \subseteq Tokens \cup Keys
  OBVIOUS
<1>2. Seq(Tokens) \subseteq Texts
  BY <1>1, SeqMonotonic DEF Texts
<1>3. Seq(Seq(Tokens)) \subseteq Seq(Texts)
  BY <1>2, SeqMonotonic
<1>4. \A S : <<>> \in Seq(S)
  BY EmptySeq
<1>5. Reads
  BY <1>3, <1>4, InputAssumption DEF Init, Reads
<1>6. Lexed /\ Lined /\ Placed
  <2>1. <<>> \in Texts
    BY <1>4 DEF Texts
  <2>2. QED
    BY <1>4, <2>1 DEF Init, Lexed, Lined, Placed
<1>7. Shows
  <2>1. table = <<>> /\ shown = <<>> /\ got = <<>> /\ items = 0
    BY DEF Init
  <2>2. Faithful([table |-> table, shown |-> shown], got)
    BY <2>1, BlankScreen, Zenon
  <2>3. QED
    BY <1>4, <2>1, <2>2, TerminalAssumption DEF Shows
<1>8. Idle /\ Still /\ PromptConsistent
  BY DEF Init, Idle, Still, PromptConsistent
<1>9. Listed
  BY <1>3, <1>4, InputAssumption DEF Init, Listed
<1>10. Edited
  <2>1. <<>> \in Texts
    BY <1>4 DEF Texts
  <2>2. ed \in Editors
    BY <2>1 DEF Init, Editors
  <2>3. ed.nav = 0 /\ Len(hist) \in Nat
    BY <1>9 DEF Init, Listed
  <2>4. QED
    BY <2>2, <2>3 DEF Edited
<1>11. QED
  BY <1>5, <1>6, <1>7, <1>8, <1>9, <1>10 DEF ClientInv

-----------------------------------------------------------------------------
(* Reading a script. *)

\* The lines of a script: one is taken.
LEMMA NextLine ==
    ASSUME Reads, mode = "file", unread # <<>>
    PROVE  Head(unread) \in Texts /\ Tail(unread) \in Seq(Texts)
BY DEF Reads

\* A line either starts a run or leaves a statement to continue.
LEMMA ReadLineGood ==
    ASSUME ClientInv, ReadLine
    PROVE  ClientInv'
<1>0. mode = "file" /\ phase = "read" /\ unread # <<>> /\ unread' = Tail(unread)
      /\ UNCHANGED <<mode, chunks, cur, ran, db, render, editor>>
  BY DEF ReadLine
<1>1. Head(unread) \in Texts /\ Tail(unread) \in Seq(Texts)
  BY <1>0, NextLine DEF ClientInv
<1>2. PICK a \in {AddLine(Head(unread), stmts, quote)} :
         IF a.ret = "done"
         THEN StartRun(WithSemicolon(a.stmts))
         ELSE stmts' = a.stmts /\ quote' = a.quote /\ UNCHANGED <<todo, phase>>
  BY DEF ReadLine
<1>3. Cut(a)
  BY <1>1, <1>2, AddLineType DEF ClientInv, Lexed
<1>4. WithSemicolon(a.stmts) \in Seq(Texts)
  BY <1>3, WithSemicolonType DEF Cut
<1>5. Reads'
  BY <1>0, <1>1 DEF ClientInv, Reads
<1>6. Lexed' /\ Lined' /\ Placed'
  <2>1. <<>> \in Seq(Texts)
    BY EmptySeq
  <2>2. QED
    BY <1>0, <1>2, <1>3, <1>4, <2>1 DEF ClientInv, Lexed, Lined, Placed, Cut, StartRun
<1>7. phase' \in {"read", "run"} /\ (phase' # "read" => stmts' = <<>>)
  BY <1>0, <1>2 DEF StartRun
<1>8. Shows' /\ Listed' /\ Edited' /\ Still'
  BY <1>0, Kept DEF ClientInv, editor
<1>9. Idle'
  BY <1>0 DEF ClientInv, Idle, render
<1>10. PromptConsistent'
  BY <1>0, <1>7 DEF ClientInv, PromptConsistent, Still, editor
<1>11. QED
  BY <1>5, <1>6, <1>8, <1>9, <1>10 DEF ClientInv

\* The end of the script runs what is left, or ends the client.
LEMMA ReadEOFGood ==
    ASSUME ClientInv, ReadEOF
    PROVE  ClientInv'
<1>0. mode = "file" /\ phase = "read" /\ UNCHANGED <<input, cur, ran, db, render, editor, typed>>
  BY DEF ReadEOF
<1>1. WithSemicolon(stmts) \in Seq(Texts)
  BY WithSemicolonType DEF ClientInv, Lexed
<1>2. IF stmts = <<>> THEN phase' = "done" /\ UNCHANGED <<todo, lexer>>
      ELSE StartRun(WithSemicolon(stmts))
  BY DEF ReadEOF
<1>3. Reads' /\ Shows' /\ Listed' /\ Edited' /\ Still'
  BY <1>0, Kept DEF ClientInv, editor, input
<1>4. Lexed' /\ Lined' /\ Placed'
  <2>1. <<>> \in Seq(Texts)
    BY EmptySeq
  <2>2. QED
    BY <1>0, <1>1, <1>2, <2>1 DEF ClientInv, Lexed, Lined, Placed, StartRun, lexer
<1>5. phase' \in {"done", "run"} /\ stmts' = <<>>
  BY <1>2 DEF StartRun, lexer
<1>6. Idle'
  BY <1>0 DEF ClientInv, Idle, render
<1>7. PromptConsistent'
  BY <1>0, <1>5 DEF ClientInv, PromptConsistent, Still, editor, input
<1>8. QED
  BY <1>3, <1>4, <1>6, <1>7 DEF ClientInv

-----------------------------------------------------------------------------
(* The prompt. *)

\* A read of the console.
LEMMA InputGood ==
    ASSUME ClientInv, NEW c \in Chunks, Input(c)
    PROVE  ClientInv'
<1>0. mode = "prompt" /\ unread' = c /\ chunks' = chunks + 1
      /\ UNCHANGED <<mode, lexer, runner, phase, db, render, editor, typed>>
  BY DEF Input
<1>1. c \in Seq(Tokens \cup Keys \cup {"enter"})
  BY InputAssumption
<1>2. Reads'
  BY <1>0, <1>1 DEF ClientInv, Reads
<1>3. Lexed' /\ Lined' /\ Placed' /\ Shows' /\ Listed' /\ Edited' /\ Still'
  BY <1>0, Kept DEF ClientInv, editor
<1>4. Idle' /\ PromptConsistent'
  BY <1>0, Kept DEF ClientInv, editor, lexer, render
<1>5. QED
  BY <1>2, <1>3, <1>4 DEF ClientInv

\* What a step of the editor has to show: its record is one, it points into
\* the history, and it says of the search and of the prompt what it said.
Edits(e) ==
    /\ e \in Editors /\ e.nav <= Len(hist)
    /\ ~e.searching => e.keyMap = "default" /\ e.prefix = "live"
    /\ (IF e.searching THEN e.oldLive ELSE e.live) = (IF ed.searching THEN ed.oldLive ELSE ed.live)

\* The editor does not get in the way of anything else.
LEMMA EditorGood ==
    ASSUME ClientInv, mode = "prompt", phase = "read", Edits(ed'),
           unread' \in Seq(Tokens \cup Keys \cup {"enter"}),
           UNCHANGED <<mode, chunks, lexer, runner, phase, db, render, hist, last, saved, typed>>
    PROVE  ClientInv'
<1>1. Reads'
  BY DEF ClientInv, Reads
<1>2. Lexed' /\ Lined' /\ Placed' /\ Shows' /\ Listed'
  BY Kept DEF ClientInv
<1>3. Idle'
  BY Kept DEF ClientInv, render
<1>4. Edited' /\ Still'
  BY DEF ClientInv, Edits, Edited, Still
<1>5. PromptConsistent'
  BY DEF ClientInv, Edits, PromptConsistent, lexer
<1>6. QED
  BY <1>1, <1>2, <1>3, <1>4, <1>5 DEF ClientInv

\* The editor as it is.
LEMMA EditsNow ==
    ASSUME ClientInv
    PROVE  Edits(ed)
BY DEF ClientInv, Edits, Edited, PromptConsistent

\* A text may be put in the line.
LEMMA BufferSet ==
    ASSUME NEW e, Edits(e), NEW b \in Texts
    PROVE  Edits([e EXCEPT !.buf = b])
BY DEF Edits, Editors

\* A key leaves nothing to be read.
LEMMA PressedGood ==
    ASSUME ClientInv, NEW key, Pressed(key), Edits(ed')
    PROVE  ClientInv'
<1>1. <<>> \in Seq(Tokens \cup Keys \cup {"enter"})
  BY EmptySeq
<1>2. unread' \in Seq(Tokens \cup Keys \cup {"enter"})
  BY <1>1 DEF Pressed
<1>3. QED
  BY <1>2, EditorGood DEF Pressed

\* The line that stdinParser.Read returns is a text: it holds no Enter.
LEMMA LineIs ==
    ASSUME unread \in Seq(Tokens \cup Keys \cup {"enter"})
    PROVE  LineLen \in 0..Len(unread) /\ \A i \in 1..LineLen : unread[i] # "enter"
<1> DEFINE n == Len(unread)
           S == Tokens \cup Keys \cup {"enter"}
           Ends(m) == m = n \/ (m < n /\ unread[m + 1] = "enter")
           T == {m \in 0..n : Ends(m)}
           P(m) == (\A i \in 1..m : unread[i] # "enter") /\ (m < n => unread[m + 1] = "enter")
<1>1. n \in Nat
  OBVIOUS
<1> HIDE DEF n, S
<1>2. T \subseteq Nat /\ n \in T
  BY <1>1
<1>3. PICK m \in T : \A k \in T : m <= k
  <2> HIDE DEF T
  <2>1. QED
    BY <1>2, Least
<1>4. m \in 0..n /\ (m < n => unread[m + 1] = "enter")
  BY <1>1, <1>3
<1>5. ASSUME NEW i \in 1..m PROVE unread[i] # "enter"
  <2>1. i - 1 \in 0..n /\ i - 1 < m /\ i - 1 < n /\ (i - 1) + 1 = i
    BY <1>1, <1>4
  <2>2. i - 1 \notin T
    BY <1>3, <2>1
  <2>3. QED
    BY <2>1, <2>2
<1>6. P(m)
  BY <1>4, <1>5
<1>7. \E k \in 0..n : P(k)
  BY <1>4, <1>6, Zenon
<1>8. LineLen = CHOOSE k \in 0..n : P(k)
  BY DEF LineLen, n
<1> HIDE DEF P
<1>9. LineLen \in 0..n /\ P(LineLen)
  BY <1>7, <1>8, Zenon
<1>10. QED
  BY <1>9 DEF P, n

\* A pasted line goes into the buffer, what follows it stays to be read.
LEMMA InsertTextGood ==
    ASSUME ClientInv, InsertText
    PROVE  ClientInv'
<1> DEFINE S == Tokens \cup Keys \cup {"enter"}
           n == LineLen
<1>0. mode = "prompt" /\ phase = "read" /\ unread \in Seq(S)
  BY DEF InsertText, ClientInv, Reads
<1>1. n \in 0..Len(unread) /\ \A i \in 1..n : unread[i] # "enter"
  BY <1>0, LineIs
<1> HIDE DEF n
<1>2. SubSeq(unread, 1, n) \in Texts
  <2>1. Len(unread) \in Nat /\ \A i \in 1..Len(unread) : unread[i] \in S
    BY <1>0
  <2>2. \A i \in 1..n : unread[i] \in Tokens \cup Keys
    BY <1>1, <2>1
  <2>3. SubSeq(unread, 1, n) \in Seq(Tokens \cup Keys)
    BY <1>1, <2>1, <2>2, SubSeqProperties
  <2>4. QED
    BY <2>3 DEF Texts
<1>3. SubSeq(unread, n + 1, Len(unread)) \in Seq(S)
  <2>1. Len(unread) \in Nat
    BY <1>0
  <2> HIDE DEF S
  <2>2. \A i \in n + 1..Len(unread) : unread[i] \in S
    BY <1>0, <1>1, <2>1
  <2>3. QED
    BY <1>1, <2>1, <2>2, SubSeqProperties
<1>4. ed.buf \o SubSeq(unread, 1, n) \in Texts
  <2>1. ed.buf \in Texts
    BY DEF ClientInv, Edited, Editors
  <2>2. QED
    BY <1>2, <2>1, ConcatProperties DEF Texts
<1>5. Edits(ed')
  <2>1. ed' = [ed EXCEPT !.buf = ed.buf \o SubSeq(unread, 1, n)]
    BY DEF InsertText, n
  <2>2. QED
    BY <1>4, <2>1, EditsNow, BufferSet
<1>6. unread' \in Seq(S)
  BY <1>3 DEF InsertText, n
<1>7. QED
  BY <1>0, <1>5, <1>6, EditorGood DEF InsertText

\* An entry of the history is a text.
LEMMA EntryOf ==
    ASSUME ClientInv, NEW i \in 1..Len(hist)
    PROVE  hist[i] \in Texts
BY DEF ClientInv, Listed

\* Up and down stay within the history.
LEMMA NavigateGood ==
    ASSUME ClientInv, NEW older \in BOOLEAN, Navigate(older)
    PROVE  Edits(ed')
<1> DEFINE orig == IF ed.nav = 0 THEN ed.buf ELSE ed.orig
           pos == IF older THEN IF ed.nav < Len(hist) THEN ed.nav + 1 ELSE ed.nav
                           ELSE IF ed.nav > 0 THEN ed.nav - 1 ELSE 0
           b == IF pos = 0 THEN orig ELSE hist[pos]
<1>1. ed' = [ed EXCEPT !.orig = orig, !.nav = pos, !.buf = b]
  BY DEF Navigate
<1>2. ed \in Editors /\ ed.nav \in Nat /\ ed.nav <= Len(hist) /\ Len(hist) \in Nat
  BY DEF ClientInv, Edited, Editors, Listed
<1>3. orig \in Texts
  BY <1>2 DEF Editors
<1>4. pos \in Nat /\ pos <= Len(hist)
  BY <1>2
<1> HIDE DEF orig, pos
<1>5. b \in Texts
  BY <1>2, <1>3, <1>4, EntryOf
<1> HIDE DEF b
<1>6. Edits(ed)
  BY EditsNow
<1>7. QED
  BY <1>1, <1>3, <1>4, <1>5, <1>6 DEF Edits, Editors

\* A suggestion may be taken.
LEMMA ChooseGood ==
    ASSUME ClientInv, Choose
    PROVE  Edits(ed')
<1>1. Edits(ed)
  BY EditsNow
<1>2. CASE ed' = ed
  BY <1>1, <1>2
<1>3. ASSUME NEW i \in DOMAIN hist, ed' = [ed EXCEPT !.sel = hist[i]] PROVE Edits(ed')
  <2>1. hist[i] \in Texts
    BY DEF ClientInv, Listed
  <2>2. QED
    BY <1>1, <1>3, <2>1 DEF Edits, Editors
<1>4. QED
  BY <1>2, <1>3 DEF Choose

\* Whichever the arrows do.
LEMMA UpDownGood ==
    ASSUME ClientInv, NEW key, UpDown(key)
    PROVE  ClientInv'
<1>1. CASE ed.keyMap = "default"
  <2>1. Navigate(key = "up") /\ (key = "up") \in BOOLEAN
    BY <1>1 DEF UpDown
  <2>2. Edits(ed')
    BY <2>1, NavigateGood
  <2>3. QED
    BY <2>2, PressedGood DEF UpDown
<1>2. CASE ed.keyMap # "default"
  <2>1. Edits(ed')
    BY <1>2, ChooseGood DEF UpDown
  <2>2. QED
    BY <2>1, PressedGood DEF UpDown
<1>3. QED
  BY <1>1, <1>2

\* A search saves what the prompt said.
LEMMA StartSearchGood ==
    ASSUME ClientInv, StartSearch
    PROVE  ClientInv'
<1>1. Edits(ed)
  BY EditsNow
<1>2. CASE ed.searching
  <2>1. ed' = ed
    BY <1>2 DEF StartSearch
  <2>2. QED
    BY <1>1, <2>1, PressedGood DEF StartSearch
<1>3. CASE ~ed.searching
  <2>1. ed' = [ed EXCEPT !.searching = TRUE, !.keyMap = "search",
                         !.prefix = "search", !.live = TRUE, !.oldLive = ed.live,
                         !.kept = ed.buf, !.sel = <<>>]
    BY <1>3 DEF StartSearch
  <2>2. <<>> \in Texts
    BY EmptySeq DEF Texts
  <2>3. Edits(ed')
    BY <1>1, <1>3, <2>1, <2>2 DEF Edits, Editors
  <2>4. QED
    BY <2>3, PressedGood DEF StartSearch
<1>4. QED
  BY <1>2, <1>3

\* stopSearch restores what startSearch saved.
LEMMA StopSearchGood ==
    ASSUME ClientInv
    PROVE  Edits(StopSearch) /\ ~StopSearch.searching
<1>1. Edits(ed)
  BY EditsNow
<1>2. CASE ~ed.searching
  BY <1>1, <1>2 DEF StopSearch
<1>3. CASE ed.searching
  <2> DEFINE b == IF ed.sel # <<>> THEN ed.sel ELSE ed.kept
  <2>1. b \in Texts
    BY <1>1 DEF Edits, Editors
  <2>2. StopSearch = [ed EXCEPT !.searching = FALSE, !.keyMap = "default",
                                !.prefix = "live", !.live = ed.oldLive, !.buf = b]
    BY <1>3 DEF StopSearch
  <2> HIDE DEF b
  <2>3. QED
    BY <1>1, <1>3, <2>1, <2>2 DEF Edits, Editors
<1>4. QED
  BY <1>2, <1>3

\* The other keys stop a search, then edit the line.
LEMMA EditKeyGood ==
    ASSUME ClientInv, EditKey
    PROVE  ClientInv'
<1>0. PICK e : e = StopSearch
  OBVIOUS
<1>1. Edits(e) /\ e.buf \in Texts /\ e.clip \in Texts
  BY <1>0, StopSearchGood DEF Edits, Editors
<1>2. ASSUME MetaKey(e) PROVE Edits(ed')
  <2>1. PICK n \in 0..Len(e.buf) : ed' = [e EXCEPT !.clip = SubSeq(e.buf, n + 1, Len(e.buf)),
                                                  !.buf = SubSeq(e.buf, 1, n)]
    BY <1>2 DEF MetaKey
  <2>2. Len(e.buf) \in Nat
    BY <1>1 DEF Texts
  <2>3. SubSeq(e.buf, n + 1, Len(e.buf)) \in Texts /\ SubSeq(e.buf, 1, n) \in Texts
    <3>1. n + 1 \in 1..Len(e.buf) + 1 /\ Len(e.buf) \in 0..Len(e.buf)
          /\ 1 \in 1..Len(e.buf) + 1
      BY <2>2
    <3>2. QED
      BY <1>1, <3>1, PartType, Zenon
  <2>4. QED
    BY <1>1, <2>1, <2>3 DEF Edits, Editors
<1>3. ASSUME CtrlKey(e) PROVE Edits(ed')
  <2>1. e.buf \o e.clip \in Texts
    BY <1>1, ConcatProperties DEF Texts
  <2>2. Edits([e EXCEPT !.buf = e.buf \o e.clip])
    BY <1>1, <2>1, BufferSet
  <2>3. QED
    BY <1>1, <1>3, <2>2 DEF CtrlKey
<1>4. Edits(ed')
  BY <1>0, <1>2, <1>3 DEF EditKey
<1>5. QED
  BY <1>4, PressedGood DEF EditKey

\* The statements that were read are a history entry, and the editor is
\* emptied.
LEMMA HistoryGood ==
    ASSUME Listed, NEW ss \in Seq(Texts), UpdateHistory(ss)
    PROVE  hist' \in Seq(Texts)
<1>1. CASE hist' = hist
  BY <1>1 DEF Listed
<1>2. CASE hist' = <<HistoryEntry(ss)>> \o hist
  <2>1. <<HistoryEntry(ss)>> \in Seq(Texts)
    BY EntryType
  <2>2. QED
    BY <1>2, <2>1, ConcatProperties DEF Listed
<1>3. QED
  BY <1>1, <1>2 DEF UpdateHistory

\* Enter empties the line.
LEMMA EnterSet ==
    ASSUME NEW e, Edits(e), ~e.searching, NEW live \in BOOLEAN,
           NEW f, f = [e EXCEPT !.buf = <<>>, !.nav = 0, !.live = live]
    PROVE  /\ f \in Editors /\ f.nav = 0 /\ ~f.searching /\ f.live = live
           /\ f.keyMap = "default" /\ f.prefix = "live"
<1>1. <<>> \in Texts
  BY EmptySeq DEF Texts
<1>2. QED
  BY <1>1 DEF Edits, Editors

\* Enter leaves the client reading, with the prompt that says whether a
\* statement is continued, or running.
LEMMA ExecuteGood ==
    ASSUME ClientInv, Execute
    PROVE  ClientInv'
<1> DEFINE S == Tokens \cup Keys \cup {"enter"}
<1>0. mode = "prompt" /\ phase = "read" /\ unread # <<>> /\ unread' = Tail(unread)
      /\ UNCHANGED <<mode, chunks, cur, ran, db, render>>
  BY DEF Execute
<1>1. PICK e \in {StopSearch} : \E a \in {AddLine(e.buf, stmts, quote)} :
       LET enter(live) == ed' = [e EXCEPT !.buf = <<>>, !.nav = 0, !.live = live]
       IN IF TrimSpace(e.buf) = <<>>
          THEN /\ enter(e.live)
               /\ UNCHANGED <<lexer, todo, phase, hist, saved, last, typed>>
          ELSE /\ typed' = Append(typed, e.buf)
               /\ IF a.ret = "done"
                  THEN /\ UpdateHistory(a.stmts)
                       /\ enter(FALSE)
                       /\ StartRun(a.stmts)
                       /\ last' = a.stmts
                  ELSE /\ stmts' = a.stmts /\ quote' = a.quote
                       /\ enter(TRUE)
                       /\ UNCHANGED <<todo, phase, hist, saved, last>>
  BY DEF Execute
<1>2. PICK a \in {AddLine(e.buf, stmts, quote)} :
       \/ /\ ed' = [e EXCEPT !.buf = <<>>, !.nav = 0, !.live = e.live]
          /\ UNCHANGED <<lexer, todo, phase, hist, last>>
       \/ /\ a.ret = "done" /\ UpdateHistory(a.stmts)
          /\ ed' = [e EXCEPT !.buf = <<>>, !.nav = 0, !.live = FALSE]
          /\ StartRun(a.stmts) /\ last' = a.stmts
       \/ /\ a.ret # "done" /\ stmts' = a.stmts /\ quote' = a.quote
          /\ ed' = [e EXCEPT !.buf = <<>>, !.nav = 0, !.live = TRUE]
          /\ UNCHANGED <<todo, phase, hist, last>>
  BY <1>1
<1>3. e = StopSearch /\ a = AddLine(e.buf, stmts, quote)
  OBVIOUS
<1>4. Edits(e) /\ ~e.searching
  BY <1>3, StopSearchGood
<1>5. e.buf \in Texts /\ e.live \in BOOLEAN
  BY <1>4, Zenon DEF Edits, Editors
<1>6. stmts \in Seq(Texts) /\ quote \in {"none", "sq", "dq"}
  BY DEF ClientInv, Lexed
<1>7. Cut(a)
  BY <1>3, <1>5, <1>6, AddLineType
<1>8. e.live = (stmts # <<>>)
  <2>1. e.live = (IF ed.searching THEN ed.oldLive ELSE ed.live)
    BY <1>4 DEF Edits
  <2>2. (IF ed.searching THEN ed.oldLive ELSE ed.live) = (stmts # <<>>)
    BY <1>0 DEF ClientInv, PromptConsistent
  <2>3. QED
    BY <2>1, <2>2
<1>9. Reads'
  <2>1. unread \in Seq(S)
    BY <1>0 DEF ClientInv, Reads
  <2>2. Tail(unread) \in Seq(S)
    BY <1>0, <2>1, HeadTailProperties
  <2>3. QED
    BY <1>0, <2>2 DEF ClientInv, Reads
<1>10. Shows'
  BY <1>0, Kept DEF ClientInv
<1>11. Idle'
  <2>1. table = <<>>
    BY <1>0 DEF ClientInv, Idle
  <2>2. QED
    BY <1>0, <2>1 DEF Idle, render
<1> HIDE DEF S
\* The cases of execute.
<1> DEFINE Ok == /\ Lexed' /\ Lined' /\ Placed' /\ Listed' /\ Edited' /\ Still'
                 /\ PromptConsistent'
<1>12. ASSUME ed' = [e EXCEPT !.buf = <<>>, !.nav = 0, !.live = e.live],
              UNCHANGED <<lexer, todo, phase, hist, last>>
       PROVE  Ok
  <2>1. Lexed' /\ Lined' /\ Placed' /\ Listed'
    BY <1>0, <1>12, Kept DEF ClientInv, runner
  <2>2. Edited' /\ Still' /\ PromptConsistent'
    <3>1. /\ ed' \in Editors /\ ed'.nav = 0 /\ ~ed'.searching /\ ed'.live = e.live
          /\ ed'.keyMap = "default" /\ ed'.prefix = "live"
      <4>1. PICK live \in BOOLEAN : live = e.live
        BY <1>5
      <4>2. ed' = [e EXCEPT !.buf = <<>>, !.nav = 0, !.live = live]
        BY <1>12, <4>1
      <4>3. /\ ed' \in Editors /\ ed'.nav = 0 /\ ~ed'.searching /\ ed'.live = live
            /\ ed'.keyMap = "default" /\ ed'.prefix = "live"
        BY <1>4, <4>2, EnterSet
      <4>4. QED
        BY <4>1, <4>3, Zenon
    <3>2. Len(hist') \in Nat
      BY <2>1 DEF Listed
    <3>3. Edited' /\ Still'
      BY <3>1, <3>2 DEF Edited, Still
    <3>4. PromptConsistent'
      <4>1. stmts' = stmts /\ phase' = "read"
        BY <1>0, <1>12 DEF lexer
      <4>2. (IF ed'.searching THEN ed'.oldLive ELSE ed'.live) = (stmts' # <<>>)
        BY <1>8, <3>1, <4>1, Zenon
      <4>3. QED
        BY <3>1, <4>1, <4>2, Zenon DEF PromptConsistent
    <3>5. QED
      BY <3>3, <3>4
  <2>3. QED
    BY <2>1, <2>2
<1>13. ASSUME a.ret = "done", UpdateHistory(a.stmts),
              ed' = [e EXCEPT !.buf = <<>>, !.nav = 0, !.live = FALSE],
              StartRun(a.stmts), last' = a.stmts
       PROVE  Ok
  <2>0. a.stmts \in Seq(Texts) /\ <<>> \in Seq(Texts)
    BY <1>7, EmptySeq DEF Cut
  <2>1. hist' \in Seq(Texts)
    BY <1>13, <2>0, HistoryGood DEF ClientInv
  <2>2. Lexed' /\ Lined' /\ Placed' /\ Listed'
    BY <1>0, <1>13, <2>0, <2>1 DEF ClientInv, Lexed, Lined, Placed, Listed, StartRun
  <2>3. Edited' /\ Still' /\ PromptConsistent'
    <3>1. /\ ed' \in Editors /\ ed'.nav = 0 /\ ~ed'.searching /\ ed'.live = FALSE
          /\ ed'.keyMap = "default" /\ ed'.prefix = "live"
      BY <1>4, <1>13, EnterSet
    <3>2. Len(hist') \in Nat
      BY <2>1
    <3>3. Edited' /\ Still'
      BY <3>1, <3>2 DEF Edited, Still
    <3>4. PromptConsistent'
      <4>1. stmts' = <<>>
        BY <1>13 DEF StartRun
      <4>2. (IF ed'.searching THEN ed'.oldLive ELSE ed'.live) = (stmts' # <<>>)
        BY <3>1, <4>1, Zenon
      <4>3. QED
        BY <3>1, <4>1, <4>2, Zenon DEF PromptConsistent
    <3>5. QED
      BY <3>3, <3>4
  <2>4. QED
    BY <2>2, <2>3
<1>14. ASSUME a.ret # "done", stmts' = a.stmts, quote' = a.quote,
              ed' = [e EXCEPT !.buf = <<>>, !.nav = 0, !.live = TRUE],
              UNCHANGED <<todo, phase, hist, last>>
       PROVE  Ok
  <2>1. Lexed' /\ stmts' # <<>>
    BY <1>7, <1>14 DEF Cut, Lexed
  <2>2. Lined' /\ Placed' /\ Listed'
    BY <1>0, <1>14, Kept DEF ClientInv, runner
  <2>3. Edited' /\ Still' /\ PromptConsistent'
    <3>1. /\ ed' \in Editors /\ ed'.nav = 0 /\ ~ed'.searching /\ ed'.live = TRUE
          /\ ed'.keyMap = "default" /\ ed'.prefix = "live"
      BY <1>4, <1>14, EnterSet
    <3>2. Len(hist') \in Nat
      BY <2>2 DEF Listed
    <3>3. Edited' /\ Still'
      BY <3>1, <3>2 DEF Edited, Still
    <3>4. PromptConsistent'
      <4>1. stmts' # <<>> /\ phase' = "read"
        BY <1>0, <1>14, <2>1
      <4>2. (IF ed'.searching THEN ed'.oldLive ELSE ed'.live) = (stmts' # <<>>)
        BY <3>1, <4>1, Zenon
      <4>3. QED
        BY <3>1, <4>1, <4>2, Zenon DEF PromptConsistent
    <3>5. QED
      BY <3>3, <3>4
  <2>4. QED
    BY <2>1, <2>2, <2>3
<1> HIDE DEF Ok
<1>15. Ok
  BY <1>2, <1>12, <1>13, <1>14
<1>16. QED
  BY <1>9, <1>10, <1>11, <1>15 DEF ClientInv, Ok

-----------------------------------------------------------------------------
(* Running a statement. *)

\* The next statement: nothing of the one before is left on the screen.
LEMMA RunStmtGood ==
    ASSUME ClientInv, RunStmt
    PROVE  ClientInv'
<1>0. phase = "run" /\ UNCHANGED <<input, lexer, db, editor, typed>>
  BY DEF RunStmt
<1>1. Reads' /\ Lexed' /\ Listed' /\ Edited' /\ Still'
  BY <1>0, Kept DEF ClientInv, editor, input
<1>2. stmts' = <<>> /\ PromptConsistent'
  BY <1>0 DEF ClientInv, PromptConsistent, lexer, editor, input
<1>3. CASE todo = <<>>
  <2>1. phase' = "read" /\ UNCHANGED <<runner, render>>
    BY <1>3 DEF RunStmt
  <2>2. Lined' /\ Shows'
    BY <2>1, Kept DEF ClientInv
  <2>3. Placed' /\ Idle'
    BY <1>0, <2>1 DEF ClientInv, Placed, Idle, render
  <2>4. QED
    BY <1>1, <1>2, <2>2, <2>3 DEF ClientInv
<1>4. CASE todo # <<>>
  <2>1. /\ cur' = Head(todo) /\ todo' = Tail(todo) /\ ran' = Append(ran, cur')
        /\ phase' \in {"exit", "recv"}
        /\ table' = <<>> /\ shown' = <<>> /\ got' = <<>> /\ items' = items
    BY <1>4 DEF RunStmt
  <2>2. Lined'
    <3>1. Head(todo) \in Texts /\ Tail(todo) \in Seq(Texts)
      BY <1>4, HeadTailProperties DEF ClientInv, Lined
    <3>2. Append(ran, Head(todo)) \in Seq(Texts)
      BY <3>1, AppendProperties DEF ClientInv, Lined
    <3>3. QED
      BY <2>1, <3>1, <3>2 DEF Lined
  <2>3. Shows'
    <3>1. Faithful([table |-> table', shown |-> shown'], got')
      BY <2>1, BlankScreen, Zenon
    <3>2. got' \in Seq(Items) /\ items' \in 0..MaxItems
      BY <2>1, EmptySeq DEF ClientInv, Shows
    <3>3. QED
      BY <3>1, <3>2 DEF Shows
  <2>4. Placed' /\ Idle'
    BY <1>0, <2>1 DEF ClientInv, Placed, Idle
  <2>5. QED
    BY <1>1, <1>2, <2>2, <2>3, <2>4 DEF ClientInv
<1>5. QED
  BY <1>3, <1>4

\* What a response leaves alone.
LEMMA Responding ==
    ASSUME ClientInv, UNCHANGED <<input, lexer, runner, editor>>, phase # "read"
    PROVE  /\ Reads' /\ Lexed' /\ Lined' /\ Listed' /\ Edited' /\ Still' /\ PromptConsistent'
<1>1. Reads' /\ Lexed' /\ Lined' /\ Listed' /\ Edited' /\ Still'
  BY Kept DEF ClientInv, editor, input
<1>2. PromptConsistent'
  BY DEF ClientInv, PromptConsistent, lexer, editor, input
<1>3. QED
  BY <1>1, <1>2

\* A response is an item.
LEMMA ItemType ==
    ASSUME ClientInv, NEW kind \in Kinds
    PROVE  Item(kind) \in Items
BY DEF ClientInv, Shows, Item, Items

\* A screen is its two parts.
LEMMA ScreenParts ==
    ASSUME NEW t, NEW sent, Faithful(t, sent)
    PROVE  Faithful([table |-> t.table, shown |-> t.shown], sent)
<1>1. t = [table |-> t.table, shown |-> t.shown]
  BY DEF Faithful, Screens
<1>2. QED
  BY <1>1, Zenon

\* What is received is rendered.
LEMMA ReceiveGood ==
    ASSUME ClientInv, NEW rs \in Seq(Items), Receive(rs)
    PROVE  Shows'
<1> DEFINE t == RenderAll([table |-> table, shown |-> shown], rs)
<1>1. Faithful([table |-> table, shown |-> shown], got) /\ got \in Seq(Items) /\ items \in Nat
  BY DEF ClientInv, Shows
<1>2. Faithful(t, got \o rs)
  BY <1>1, AllRendered
<1>3. table' = t.table /\ shown' = t.shown /\ got' = got \o rs /\ items' = items + Len(rs)
      /\ items + Len(rs) <= MaxItems
  BY DEF Receive
<1> HIDE DEF t
<1>4. Faithful([table |-> t.table, shown |-> t.shown], got \o rs)
  BY <1>2, ScreenParts
<1>5. Faithful([table |-> table', shown |-> shown'], got')
  BY <1>3, <1>4, Zenon
<1>6. got' \in Seq(Items) /\ items' \in 0..MaxItems
  <2>1. got \o rs \in Seq(Items) /\ Len(rs) \in Nat
    BY <1>1, ConcatProperties
  <2>2. QED
    BY <1>1, <1>3, <2>1, TerminalAssumption
<1>7. QED
  BY <1>5, <1>6 DEF Shows

\* A response of the stream.
LEMMA RecvResponseGood ==
    ASSUME ClientInv, NEW kind \in {"head", "row", "message", "eoe", "job"}, RecvResponse(kind)
    PROVE  ClientInv'
<1>1. phase = "recv" /\ Receive(<<Item(kind)>>) /\ phase' \in {"recv", "fetch"} /\ db' = db
      /\ UNCHANGED <<input, lexer, runner, editor>>
  BY DEF RecvResponse
<1>2. <<Item(kind)>> \in Seq(Items)
  <2>1. Item(kind) \in Items
    BY ItemType DEF Kinds
  <2>2. QED
    BY <2>1
<1>3. Shows'
  BY <1>1, <1>2, ReceiveGood
<1>4. Placed' /\ Idle'
  BY <1>1 DEF ClientInv, Placed, Idle
<1>5. QED
  BY <1>1, <1>3, <1>4, Responding DEF ClientInv

\* A poll of a job.
LEMMA FetchMoreGood ==
    ASSUME ClientInv, NEW rs \in Fetched, FetchMore(rs)
    PROVE  ClientInv'
<1>1. phase = "fetch" /\ Receive(rs) /\ phase' = phase /\ db' = db
      /\ UNCHANGED <<input, lexer, runner, editor>>
  BY DEF FetchMore
<1>2. rs \in Seq(Items)
  <2>1. Item("message") \in Items /\ Item("row") \in Items
    BY ItemType DEF Kinds
  <2>2. [Item("message") EXCEPT !.n = @ + 1] \in Items
    BY <2>1 DEF Items
  <2>3. <<Item("message")>> \in Seq(Items)
        /\ <<Item("row"), [Item("message") EXCEPT !.n = @ + 1]>> \in Seq(Items)
    BY <2>1, <2>2
  <2>4. QED
    BY <2>3, Zenon DEF Fetched
<1>3. Shows'
  BY <1>1, <1>2, ReceiveGood
<1>4. Placed' /\ Idle'
  BY <1>1 DEF ClientInv, Placed, Idle
<1>5. QED
  BY <1>1, <1>3, <1>4, Responding DEF ClientInv

\* The end of a statement flushes the table.
LEMMA StmtOkGood ==
    ASSUME ClientInv, StmtOk
    PROVE  ClientInv'
<1> DEFINE t0 == [table |-> table, shown |-> shown]
           t == Flush(t0)
<1>1. /\ phase \in {"recv", "fetch"} /\ phase' = "run" /\ db' \in {db, db + 1}
      /\ got' = got /\ items' = items
      /\ UNCHANGED <<input, lexer, runner, editor>>
  BY DEF StmtOk
<1>2. table' = t.table /\ shown' = t.shown
  BY DEF StmtOk
<1>3. Faithful(t0, got) /\ got \in Seq(Items)
  BY DEF ClientInv, Shows
<1> HIDE DEF t0
<1>4. Faithful(t, got) /\ t.table = <<>>
  BY <1>3, FlushShows
<1> HIDE DEF t
<1>5. Shows'
  <2>1. Faithful([table |-> t.table, shown |-> t.shown], got)
    BY <1>4, ScreenParts
  <2>2. Faithful([table |-> table', shown |-> shown'], got')
    BY <1>1, <1>2, <2>1, Zenon
  <2>3. QED
    BY <1>1, <2>2 DEF ClientInv, Shows
<1>6. Placed' /\ Idle'
  BY <1>1, <1>2, <1>4 DEF ClientInv, Placed, Idle
<1>7. phase # "read"
  BY <1>1
<1>8. QED
  BY <1>1, <1>5, <1>6, <1>7, Responding DEF ClientInv

\* Both orders leave an empty table: the error is printed at once.
LEMMA ErrorShown ==
    ASSUME NEW t, NEW sent \in Seq(Items), NEW x \in Items, x.kind = "error", Faithful(t, sent)
    PROVE  /\ Faithful(Flush(RenderItem(t, x)), Append(sent, x))
           /\ Flush(RenderItem(t, x)).table = <<>>
           /\ Faithful(RenderItem(Flush(t), x), Append(sent, x))
           /\ RenderItem(Flush(t), x).table = <<>>
<1>1. Append(sent, x) \in Seq(Items)
  BY AppendProperties
<1>2. Faithful(RenderItem(t, x), Append(sent, x))
  BY ItemRendered
<1>3. Faithful(Flush(RenderItem(t, x)), Append(sent, x)) /\ Flush(RenderItem(t, x)).table = <<>>
  BY <1>1, <1>2, FlushShows
<1>4. Faithful(Flush(t), sent) /\ Flush(t).table = <<>>
  BY FlushShows
<1>5. Faithful(RenderItem(Flush(t), x), Append(sent, x))
  BY <1>4, ItemRendered
<1>6. RenderItem(Flush(t), x).table = <<>>
  <2>1. PICK u : u = Flush(t)
    OBVIOUS
  <2>2. RenderItem(u, x) = [u EXCEPT !.shown = Append(@, x)]
    BY DEF RenderItem
  <2>3. u \in Screens /\ u.table = <<>>
    BY <1>4, <2>1 DEF Faithful
  <2>4. [u EXCEPT !.shown = Append(@, x)].table = u.table
    BY <2>3 DEF Screens
  <2>5. QED
    BY <2>1, <2>2, <2>3, <2>4
<1>7. QED
  BY <1>3, <1>5, <1>6

\* So does an error, at a terminal and in a script.
LEMMA StmtErrorGood ==
    ASSUME ClientInv, StmtError
    PROVE  ClientInv'
<1> DEFINE e == Item("error")
           t0 == [table |-> table, shown |-> shown]
           t == IF IsTerminal THEN Flush(RenderItem(t0, e)) ELSE RenderItem(Flush(t0), e)
<1>1. /\ phase \in {"recv", "fetch"} /\ phase' \in {"run", "fatal"} /\ db' = db /\ items' = items
      /\ UNCHANGED <<input, lexer, runner, editor>>
  BY DEF StmtError
<1>2. table' = t.table /\ shown' = t.shown /\ got' = Append(got, e)
  BY DEF StmtError
<1>3. Faithful(t0, got) /\ got \in Seq(Items)
  BY DEF ClientInv, Shows
<1>4. e \in Items /\ e.kind = "error"
  <2>1. e \in Items
    BY ItemType DEF Kinds
  <2>2. QED
    BY <2>1 DEF Item
<1> HIDE DEF e, t0
<1>5. Faithful(t, Append(got, e)) /\ t.table = <<>>
  <2>1. /\ Faithful(Flush(RenderItem(t0, e)), Append(got, e))
        /\ Flush(RenderItem(t0, e)).table = <<>>
        /\ Faithful(RenderItem(Flush(t0), e), Append(got, e))
        /\ RenderItem(Flush(t0), e).table = <<>>
    BY <1>3, <1>4, ErrorShown
  <2>2. QED
    BY <2>1, Zenon
<1> HIDE DEF t
<1>6. Shows'
  <2>1. Faithful([table |-> t.table, shown |-> t.shown], Append(got, e))
    BY <1>5, ScreenParts
  <2>2. Faithful([table |-> table', shown |-> shown'], got')
    BY <1>2, <2>1, Zenon
  <2>3. got' \in Seq(Items)
    BY <1>2, <1>3, <1>4, AppendProperties
  <2>4. QED
    BY <1>1, <2>2, <2>3 DEF ClientInv, Shows
<1>7. Placed' /\ Idle'
  BY <1>1, <1>2, <1>5 DEF ClientInv, Placed, Idle
<1>8. phase # "read"
  BY <1>1
<1>9. QED
  BY <1>1, <1>6, <1>7, <1>8, Responding DEF ClientInv

-----------------------------------------------------------------------------
\* Every step of the client and of the server keeps the invariant.
LEMMA NextGood == ClientInv /\ [Next]_vars => ClientInv'
<1> SUFFICES ASSUME ClientInv, [Next]_vars PROVE ClientInv'
  OBVIOUS
<1>1. CASE Client
  BY <1>1, ReadLineGood, ReadEOFGood, InsertTextGood, ExecuteGood, UpDownGood,
     StartSearchGood, EditKeyGood, RunStmtGood DEF Client
<1>2. CASE Respond
  BY <1>2, RecvResponseGood, FetchMoreGood, StmtOkGood, StmtErrorGood DEF Respond
<1>3. CASE \E c \in Chunks : Input(c)
  BY <1>3, InputGood
<1>4. CASE UNCHANGED vars
  <2>1. UNCHANGED <<input, lexer, runner, render, phase, db, editor>>
    BY <1>4 DEF vars
  <2>2. Reads' /\ Lexed' /\ Lined' /\ Placed' /\ Shows' /\ Listed' /\ Edited' /\ Still'
    BY <2>1, Kept DEF ClientInv, editor, input
  <2>3. Idle' /\ PromptConsistent'
    BY <2>1, Kept DEF ClientInv, editor, input, lexer, render
  <2>4. QED
    BY <2>2, <2>3 DEF ClientInv
<1>5. QED
  BY <1>1, <1>2, <1>3, <1>4 DEF Next

\* Whatever is typed, pasted or read from a script, and whatever the server
\* answers: the rows and the messages of a statement are printed once and in
\* their order, none stays in the table writer when the statement is over or
\* the process dies, and the prompt, the keys and the position in the history
\* agree with the text that waits (renderRPCRespStream, ASCIIWriter,
\* promptState).
THEOREM TerminalShows == Spec => []TerminalInv
<1>1. Init => ClientInv
  BY InitGood
<1>2. ClientInv /\ [Next]_vars => ClientInv'
  BY NextGood
<1>3. ClientInv => TerminalInv
  BY GroupsAre
<1>4. QED
  BY <1>1, <1>2, <1>3, PTL DEF Spec
=============================================================================
