--------------------------- MODULE CloudJobsProofs ---------------------------
(***************************************************************************)
(* Proofs about CloudJobs, for any sessions, statements, models and        *)
(* faults: nothing is left behind, a job works on what is its session's    *)
(* own, and a statement that ended well has done its work.                 *)
(***************************************************************************)
EXTENDS CloudJobs, SequenceTheorems, TLAPS

-----------------------------------------------------------------------------
(* Sequences of phases. *)

\* The stage of every phase.
LEMMA Stages ==
    /\ Stage("tmp") = 1 /\ Stage("valid") = 2 /\ Stage("concat") = 2
    /\ Stage("codegen") = 4 /\ Stage("archive") = 5 /\ Stage("upload") = 6
    /\ Stage("params") = 7 /\ Stage("submit") = 8
    /\ Stage("download") = 9 /\ Stage("save") = 9 /\ Stage("draw") = 9
    /\ \A p \in {"open", "cleanSub", "cleanTop", "offline", "result", "drop result",
                 "drop old", "create new", "type", "read", "xgb", "hyper", "env", "unsupported"} : Stage(p) = 3
    /\ \A p \in Ignored : Stage(p) = 10
BY DEF Stage, Ignored

\* What is left when the first phase is over follows it.
LEMMA TailLeft ==
    ASSUME NEW q \in Seq(Phases), q # <<>>, Ordered(q)
    PROVE  /\ Head(q) \in Phases /\ Tail(q) \in Seq(Phases) /\ Ordered(Tail(q))
           /\ Range(q) = {Head(q)} \cup Range(Tail(q))
           /\ \A p \in Range(Tail(q)) : Follows(Head(q), p)
<1>1. Tail(q) \in Seq(Phases) /\ Head(q) \in Phases /\ Len(q) \in Nat /\ Len(q) # 0
  OBVIOUS
<1>2. /\ DOMAIN q = 1..Len(q) /\ DOMAIN Tail(q) = 1..(Len(q) - 1) /\ Head(q) = q[1]
      /\ \A i \in 1..(Len(q) - 1) : Tail(q)[i] = q[i + 1]
  OBVIOUS
<1>3. Ordered(Tail(q))
  BY <1>1, <1>2 DEF Ordered
<1>4. \A p \in Range(Tail(q)) : Follows(Head(q), p) /\ p \in Range(q)
  BY <1>1, <1>2 DEF Ordered, Range
<1>5. Head(q) \in Range(q)
  BY <1>1, <1>2 DEF Range
<1>6. \A p \in Range(q) : p = Head(q) \/ p \in Range(Tail(q))
  <2>1. SUFFICES ASSUME NEW i \in 1..Len(q), i # 1
                 PROVE  q[i] \in Range(Tail(q))
    BY <1>2 DEF Range
  <2>2. i - 1 \in 1..(Len(q) - 1) /\ (i - 1) + 1 = i
    BY <1>1, <2>1
  <2>3. QED
    BY <1>2, <2>2 DEF Range
<1>7. QED
  BY <1>1, <1>3, <1>4, <1>5, <1>6

\* A sequence of one phase, and sequences one after the other.
LEMMA OneLeft ==
    ASSUME NEW p
    PROVE  Range(<<p>>) = {p} /\ Ordered(<<p>>)
<1>1. DOMAIN <<p>> = {1} /\ <<p>>[1] = p
  OBVIOUS
<1>2. QED
  BY <1>1 DEF Range, Ordered

\* The empty sequence.
LEMMA NothingLeft == Range(<<>>) = {} /\ Ordered(<<>>)
BY DEF Range, Ordered

\* A sequence of phases after another.
LEMMA BothLeft ==
    ASSUME NEW S, NEW p \in Seq(S), NEW q \in Seq(S)
    PROVE  /\ p \o q \in Seq(S)
           /\ Range(p \o q) = Range(p) \cup Range(q)
           /\ (/\ Ordered(p) /\ Ordered(q)
               /\ \A x \in Range(p), y \in Range(q) : Follows(x, y)) => Ordered(p \o q)
<1>1. PICK m \in Nat, n \in Nat : m = Len(p) /\ n = Len(q)
  OBVIOUS
<1>2. /\ p \o q \in Seq(S) /\ DOMAIN (p \o q) = 1..(m + n)
      /\ DOMAIN p = 1..m /\ DOMAIN q = 1..n
      /\ \A i \in 1..m : (p \o q)[i] = p[i]
      /\ \A i \in 1..n : (p \o q)[m + i] = q[i]
  BY <1>1
<1>3. \A i \in 1..(m + n) : i \in 1..m \/ (i - m \in 1..n /\ m + (i - m) = i)
  BY <1>1
<1>4. Range(p \o q) = Range(p) \cup Range(q)
  <2>1. \A i \in 1..(m + n) : (p \o q)[i] \in Range(p) \cup Range(q)
    BY <1>2, <1>3 DEF Range
  <2>2. \A i \in 1..m : i \in 1..(m + n)
    BY <1>1
  <2>3. \A i \in 1..n : m + i \in 1..(m + n)
    BY <1>1
  <2>4. Range(p) \subseteq Range(p \o q)
    BY <1>2, <2>2 DEF Range
  <2>5. Range(q) \subseteq Range(p \o q)
    BY <1>2, <2>3 DEF Range
  <2>6. Range(p \o q) \subseteq Range(p) \cup Range(q)
    BY <1>2, <2>1 DEF Range
  <2>7. QED
    BY <2>4, <2>5, <2>6
<1>5. ASSUME Ordered(p), Ordered(q), \A x \in Range(p), y \in Range(q) : Follows(x, y)
      PROVE  Ordered(p \o q)
  <2>1. SUFFICES ASSUME NEW i \in 1..(m + n), NEW j \in 1..(m + n), i < j
                 PROVE  Follows((p \o q)[i], (p \o q)[j])
    BY <1>2 DEF Ordered
  <2>2. CASE j \in 1..m
    <3>1. i \in 1..m
      BY <1>1, <2>1, <2>2
    <3>2. QED
      BY <1>2, <1>5, <2>1, <2>2, <3>1 DEF Ordered
  <2>3. CASE i \in 1..m /\ j \notin 1..m
    <3>1. (p \o q)[i] \in Range(p)
      BY <1>2, <2>3 DEF Range
    <3>2. j - m \in 1..n /\ m + (j - m) = j
      BY <1>3, <2>3
    <3>3. (p \o q)[j] = q[j - m]
      BY <1>2, <3>2
    <3>4. (p \o q)[j] \in Range(q)
      BY <1>2, <3>2, <3>3 DEF Range
    <3>5. QED
      BY <1>5, <3>1, <3>4
  <2>4. CASE i \notin 1..m
    <3>1. j - m \in 1..n /\ i - m \in 1..n /\ m + (j - m) = j /\ m + (i - m) = i /\ i - m < j - m
      BY <1>1, <1>3, <2>1, <2>4
    <3>2. (p \o q)[i] = q[i - m] /\ (p \o q)[j] = q[j - m]
      BY <1>2, <3>1
    <3>3. QED
      BY <1>2, <1>5, <3>1, <3>2 DEF Ordered
  <2>5. QED
    BY <2>2, <2>3, <2>4
<1>6. QED
  BY <1>2, <1>4, <1>5

-----------------------------------------------------------------------------
(* The plans. *)

\* A sequence of phases, in order, of the stages from a to b.
Within(q, a, b) ==
    q \in Seq(Phases) /\ Ordered(q) /\ \A x \in Range(q) : Stage(x) \in a..b

\* Earlier stages before later ones.
LEMMA Joined ==
    ASSUME NEW p, NEW q, NEW a \in Nat, NEW b \in Nat, NEW c \in Nat, NEW d \in Nat,
           Within(p, a, b), Within(q, c, d), a <= b, b < c, c <= d
    PROVE  Within(p \o q, a, d) /\ Range(p \o q) = Range(p) \cup Range(q)
<1>1. \A x \in Range(p), y \in Range(q) : Follows(x, y)
  BY DEF Within, Follows
<1>2. /\ p \o q \in Seq(Phases) /\ Range(p \o q) = Range(p) \cup Range(q)
      /\ Ordered(p \o q)
  BY <1>1, BothLeft DEF Within
<1>3. \A x \in Range(p) \cup Range(q) : Stage(x) \in a..d
  BY DEF Within
<1>4. QED
  BY <1>2, <1>3 DEF Within

\* No phase, one, and two of different stages.
LEMMA Empty == \A a, b \in Nat : Within(<<>>, a, b) /\ Range(<<>>) = {}
BY NothingLeft DEF Within

\* One phase.
LEMMA Single ==
    \A p \in Phases : Within(<<p>>, Stage(p), Stage(p)) /\ Range(<<p>>) = {p}
<1>1. SUFFICES ASSUME NEW p \in Phases
               PROVE  Within(<<p>>, Stage(p), Stage(p)) /\ Range(<<p>>) = {p}
  OBVIOUS
<1>2. Stage(p) \in 1..10
  BY DEF Stage
<1>3. QED
  BY <1>2, OneLeft DEF Within

\* Two phases, the stage of the second after that of the first.
LEMMA Pair ==
    \A p, q \in Phases : Stage(p) < Stage(q) =>
        Within(<<p, q>>, Stage(p), Stage(q)) /\ Range(<<p, q>>) = {p, q}
<1>1. SUFFICES ASSUME NEW p \in Phases, NEW q \in Phases, Stage(p) < Stage(q)
               PROVE  Within(<<p, q>>, Stage(p), Stage(q)) /\ Range(<<p, q>>) = {p, q}
  OBVIOUS
<1>2. Stage(p) \in 1..10 /\ Stage(q) \in 1..10
  BY DEF Stage
<1>3. DOMAIN <<p, q>> = {1, 2} /\ <<p, q>>[1] = p /\ <<p, q>>[2] = q /\ <<p, q>> \in Seq(Phases)
  OBVIOUS
<1>4. Range(<<p, q>>) = {p, q}
  BY <1>3 DEF Range
<1>5. Ordered(<<p, q>>)
  BY <1>1, <1>2, <1>3 DEF Ordered, Follows
<1>6. QED
  BY <1>1, <1>2, <1>3, <1>4, <1>5 DEF Within

\* Sequences of preparing phases are in any order.
LEMMA Preparing ==
    ASSUME NEW q \in Seq(Phases), \A x \in Range(q) : Stage(x) = 3
    PROVE  Within(q, 3, 3)
BY DEF Within, Ordered, Range, Follows

\* How a job is submitted.
LEMMA SubmitPlan ==
    ASSUME NEW st \in Statements
    PROVE  /\ Within(SubmitPhases(st), 5, 8)
           /\ Range(SubmitPhases(st)) \subseteq {"archive", "upload", "params", "submit"}
           /\ "submit" \in Range(SubmitPhases(st))
           /\ st.sub = "alisa" => "upload" \in Range(SubmitPhases(st))
<1>0. {"archive", "upload", "params", "submit"} \subseteq Phases
  BY DEF Phases
<1>1. CASE st.sub = "pai"
  <2>1. SubmitPhases(st) = <<"archive", "submit">>
    BY <1>1 DEF SubmitPhases
  <2>2. Within(<<"archive", "submit">>, 5, 8) /\ Range(<<"archive", "submit">>) = {"archive", "submit"}
    <3>0. Stage("archive") = 5 /\ Stage("submit") = 8
      BY Stages
    <3>1. Stage("archive") < Stage("submit") /\ "archive" \in Phases /\ "submit" \in Phases
      BY <3>0 DEF Phases
    <3>2. Within(<<"archive", "submit">>, Stage("archive"), Stage("submit")) /\ Range(<<"archive", "submit">>) = {"archive", "submit"}
      BY <3>1, Pair, Zenon
    <3>3. QED
      BY <3>0, <3>2
  <2>3. QED
    BY <1>1, <2>1, <2>2
<1>2. CASE st.sub = "alisa"
  <2>1. SubmitPhases(st) = <<"archive", "upload", "params", "submit">>
    BY <1>2 DEF SubmitPhases
  <2>2. Within(<<"archive", "upload">>, 5, 6) /\ Range(<<"archive", "upload">>) = {"archive", "upload"}
    <3>0. Stage("archive") = 5 /\ Stage("upload") = 6
      BY Stages
    <3>1. Stage("archive") < Stage("upload") /\ "archive" \in Phases /\ "upload" \in Phases
      BY <3>0 DEF Phases
    <3>2. Within(<<"archive", "upload">>, Stage("archive"), Stage("upload")) /\ Range(<<"archive", "upload">>) = {"archive", "upload"}
      BY <3>1, Pair, Zenon
    <3>3. QED
      BY <3>0, <3>2
  <2>3. Within(<<"params", "submit">>, 7, 8) /\ Range(<<"params", "submit">>) = {"params", "submit"}
    <3>0. Stage("params") = 7 /\ Stage("submit") = 8
      BY Stages
    <3>1. Stage("params") < Stage("submit") /\ "params" \in Phases /\ "submit" \in Phases
      BY <3>0 DEF Phases
    <3>2. Within(<<"params", "submit">>, Stage("params"), Stage("submit")) /\ Range(<<"params", "submit">>) = {"params", "submit"}
      BY <3>1, Pair, Zenon
    <3>3. QED
      BY <3>0, <3>2
  <2>4. SubmitPhases(st) = <<"archive", "upload">> \o <<"params", "submit">>
    BY <2>1
  <2>5. Within(SubmitPhases(st), 5, 8) /\
        Range(SubmitPhases(st)) = {"archive", "upload"} \cup {"params", "submit"}
    BY <2>2, <2>3, <2>4, Joined
  <2>6. QED
    BY <2>5
<1>3. CASE st.sub \notin {"pai", "alisa"}
  <2>1. SubmitPhases(st) = <<"submit">>
    BY <1>3 DEF SubmitPhases
  <2>2. Within(<<"submit">>, 8, 8) /\ Range(<<"submit">>) = {"submit"}
    BY <1>0, Single, Stages
  <2>3. QED
    BY <1>3, <2>1, <2>2 DEF Within
<1>4. QED
  BY <1>1, <1>2, <1>3

\* What the invariants ask of a plan.
PlanFits(st, q) ==
    /\ q \in Seq(Phases) /\ Ordered(q) /\ Range(q) \cap Ignored = {}
    /\ Range(q) \cap {"tmp", "valid", "concat"} # {} => "submit" \in Range(q) /\ UsesTmp(st)
    /\ UsesTmp(st) /\ "submit" \in Range(q) => "tmp" \in Range(q)
    /\ st.sub = "alisa" /\ st.kind \notin {"run", "optimize"} /\ "submit" \in Range(q) =>
         "upload" \in Range(q)
    /\ Range(q) \cap {"cleanSub", "cleanTop", "offline"} # {} => st.kind = "train"
    /\ Range(q) \cap {"cleanSub", "cleanTop"} # {} => CleansDir(st)
    /\ Range(q) \cap {"type", "read", "xgb"} # {} => st.kind \in Using
    /\ Range(q) \cap {"read", "xgb"} = {}
    /\ Range(q) \cap {"drop result", "drop old", "create new"} # {} => st.kind = "optimize"
    /\ "draw" \in Range(q) => st.kind = "explain"
    /\ st.kind = "explain" /\ Range(q) \cap {"submit", "draw"} # {} => "codegen" \in Range(q)
    /\ st.kind # "idle" => Range(q) \cap {"submit", "unsupported"} # {}
    /\ st.kind = "idle" => Range(q) = {}

\* The plans of statements that use a model have the same shape.
LEMMA UsingPlan ==
    ASSUME NEW st \in Statements, st.kind \in Using,
           NEW x \in {"open", "type", "result", "hyper"},
           NEW y \in {"open", "type", "result", "hyper"},
           NEW z \in {"open", "type", "result", "hyper"}
    PROVE  LET plan == <<"tmp", x, y, z, "hyper", "codegen">> \o SubmitPhases(st)
           IN /\ PlanFits(st, plan)
              /\ st.kind = "explain" => PlanFits(st, plan \o <<"draw">>)
<1> DEFINE b == <<"tmp", x, y, z, "hyper", "codegen">>
           c == b \o SubmitPhases(st)
           R == {"tmp", x, y, z, "hyper", "codegen"} \cup Range(SubmitPhases(st))
<1>1. Within(<<"draw">>, 9, 9) /\ Range(<<"draw">>) = {"draw"}
  <2>1. "draw" \in Phases
    BY DEF Phases
  <2>2. Stage("draw") = 9
    BY Stages
  <2>3. QED
    BY <2>1, <2>2, Single
<1>2. b \in Seq(Phases) /\ DOMAIN b = 1..6
  <2>1. x \in Phases /\ y \in Phases /\ z \in Phases
    BY DEF Phases
  <2>2. "tmp" \in Phases /\ "hyper" \in Phases /\ "codegen" \in Phases
    BY DEF Phases
  <2>3. QED
    BY <2>1, <2>2
<1>3. b[1] = "tmp" /\ b[2] = x /\ b[3] = y /\ b[4] = z /\ b[5] = "hyper" /\ b[6] = "codegen"
  OBVIOUS
<1> HIDE DEF b
<1>4. Range(b) = {"tmp", x, y, z, "hyper", "codegen"}
  <2>1. \A i \in 1..6 : i = 1 \/ i = 2 \/ i = 3 \/ i = 4 \/ i = 5 \/ i = 6
    OBVIOUS
  <2>2. QED
    BY <1>2, <1>3, <2>1 DEF Range
<1>5. /\ Stage(b[1]) = 1 /\ Stage(b[2]) = 3 /\ Stage(b[3]) = 3 /\ Stage(b[4]) = 3
      /\ Stage(b[5]) = 3 /\ Stage(b[6]) = 4
  BY <1>3, Stages
<1>6. Ordered(b)
  BY <1>2, <1>5 DEF Ordered, Follows
<1>7. \A i \in 1..6 : Stage(b[i]) \in 1..4
  BY <1>5
<1>9. Within(b, 1, 4)
  BY <1>2, <1>6, <1>7 DEF Within, Range
<1>10. Within(c, 1, 8) /\ Range(c) = R
  BY <1>4, <1>9, SubmitPlan, Joined
<1>11. Within(c \o <<"draw">>, 1, 9) /\ Range(c \o <<"draw">>) = Range(c) \cup {"draw"}
  <2> HIDE DEF c
  <2> QED  BY <1>1, <1>10, Joined
<1>12. /\ R \subseteq {"tmp", "open", "type", "result", "hyper", "codegen", "archive", "upload",
                       "params", "submit"}
       /\ "tmp" \in R /\ "codegen" \in R /\ "submit" \in R
       /\ st.sub = "alisa" => "upload" \in R
  BY SubmitPlan
<1> HIDE DEF R, c
<1>13. PlanFits(st, c)
  BY <1>10, <1>12 DEF PlanFits, Within, Using, Ignored, UsesTmp
<1>14. st.kind = "explain" => PlanFits(st, c \o <<"draw">>)
  BY <1>10, <1>11, <1>12 DEF PlanFits, Within, Using, Ignored, UsesTmp
<1>15. QED
  BY <1>13, <1>14 DEF b, c

\* TO PREDICT, TO EXPLAIN and TO EVALUATE.
LEMMA UsingPlans ==
    ASSUME NEW st \in Statements
    PROVE  /\ st.kind = "predict" => PlanFits(st, PredictPlan(st))
           /\ st.kind = "explain" => PlanFits(st, ExplainPlan(st))
           /\ st.kind = "evaluate" => PlanFits(st, EvaluatePlan(st))
<1>1. CASE st.kind = "predict"
  BY <1>1, UsingPlan DEF PredictPlan, Using
<1>2. CASE st.kind = "explain"
  <2>1. /\ PlanFits(st, <<"tmp", "open", "type", "result", "hyper", "codegen">> \o SubmitPhases(st))
        /\ PlanFits(st, <<"tmp", "open", "type", "result", "hyper", "codegen">> \o SubmitPhases(st)
                          \o <<"draw">>)
    BY <1>2, UsingPlan DEF Using
  <2>2. <<"tmp", "open", "type", "result", "hyper", "codegen">> \o SubmitPhases(st) \o <<>>
          = <<"tmp", "open", "type", "result", "hyper", "codegen">> \o SubmitPhases(st)
    BY <2>1, ConcatEmptySeq DEF PlanFits
  <2>3. QED
    BY <1>2, <2>1, <2>2 DEF ExplainPlan, If
<1>3. CASE st.kind = "evaluate"
  BY <1>3, UsingPlan DEF EvaluatePlan, Using
<1>4. QED
  BY <1>1, <1>2, <1>3

\* Range and type of two parts.
LEMMA JoinLeft ==
    \A p, q \in Seq(Phases) :
        p \o q \in Seq(Phases) /\ Range(p \o q) = Range(p) \cup Range(q)
BY BothLeft

\* A part of a plan that is there under a condition.
LEMMA Conditional ==
    ASSUME NEW c \in BOOLEAN, NEW q, NEW a \in Nat, NEW b \in Nat, Within(q, a, b)
    PROVE  /\ Within(If(c, q), a, b)
           /\ Range(If(c, q)) = IF c THEN Range(q) ELSE {}
<1>1. CASE c
  BY <1>1 DEF If
<1>2. CASE ~c
  BY <1>2, Empty DEF If
<1>3. QED
  BY <1>1, <1>2

\* TO TRAIN.
LEMMA TrainPlans ==
    ASSUME NEW st \in Statements, st.kind = "train"
    PROVE  PlanFits(st, TrainPlan(st))
<1> DEFINE cloud == st.sub # "alps"
           clean == If(CleansDir(st), <<"cleanSub", "cleanTop">>)
           off == If(st.sub = "alisa", <<"offline">>)
           prep == <<"open">> \o clean \o off \o <<"hyper">>
           a == <<"tmp">> \o If(st.valid, <<"valid">>)
           b == a \o If(cloud, prep)
           c == b \o <<"codegen">>
           d == c \o SubmitPhases(st)
           e == d \o If(st.sub \in {"pai", "local"}, <<"download", "save">>)
<1>1. Within(<<"tmp">>, 1, 1) /\ Range(<<"tmp">>) = {"tmp"}
  <2>1. "tmp" \in Phases
    BY DEF Phases
  <2>2. Stage("tmp") = 1
    BY Stages
  <2>3. QED
    BY <2>1, <2>2, Single
<1>2. Within(<<"valid">>, 2, 2) /\ Range(<<"valid">>) = {"valid"}
  <2>1. "valid" \in Phases
    BY DEF Phases
  <2>2. Stage("valid") = 2
    BY Stages
  <2>3. QED
    BY <2>1, <2>2, Single
<1>3. Within(<<"codegen">>, 4, 4) /\ Range(<<"codegen">>) = {"codegen"}
  <2>1. "codegen" \in Phases
    BY DEF Phases
  <2>2. Stage("codegen") = 4
    BY Stages
  <2>3. QED
    BY <2>1, <2>2, Single
<1>4. Within(<<"download", "save">>, 9, 9) /\ Range(<<"download", "save">>) = {"download", "save"}
  <2> DEFINE q == <<"download", "save">>
  <2>1. q \in Seq(Phases) /\ DOMAIN q = 1..2 /\ q[1] = "download" /\ q[2] = "save"
    BY DEF Phases
  <2> HIDE DEF q
  <2>2. \A i \in 1..2 : i = 1 \/ i = 2
    OBVIOUS
  <2>3. Range(q) = {"download", "save"}
    BY <2>1, <2>2 DEF Range
  <2>4. \A i \in 1..2 : Stage(q[i]) = 9
    BY <2>1, <2>2, Stages
  <2>5. Ordered(q)
    BY <2>1, <2>4 DEF Ordered, Follows
  <2>6. \A x \in Range(q) : Stage(x) \in 9..9
    BY <2>1, <2>4 DEF Range
  <2>7. QED
    BY <2>1, <2>3, <2>5, <2>6 DEF Within, q
<1>5. st.valid \in BOOLEAN /\ cloud \in BOOLEAN /\ CleansDir(st) \in BOOLEAN
  BY DEF Statements, CleansDir
<1>6. Within(a, 1, 2) /\ Range(a) = {"tmp"} \cup (IF st.valid THEN {"valid"} ELSE {})
  BY <1>1, <1>2, <1>5, Conditional, Joined
<1>7. Within(prep, 3, 3) /\ Range(prep) \subseteq {"open", "cleanSub", "cleanTop", "offline", "hyper"}
      /\ ("cleanSub" \in Range(prep) \/ "cleanTop" \in Range(prep) => CleansDir(st))
  <2>1. <<"open">> \in Seq(Phases) /\ Range(<<"open">>) = {"open"}
    BY OneLeft DEF Phases
  <2>2. <<"hyper">> \in Seq(Phases) /\ Range(<<"hyper">>) = {"hyper"}
    BY OneLeft DEF Phases
  <2>3. off \in Seq(Phases) /\ Range(off) \subseteq {"offline"}
    <3>1. <<"offline">> \in Seq(Phases) /\ Range(<<"offline">>) = {"offline"}
      BY OneLeft DEF Phases
    <3>2. off = <<"offline">> \/ off = <<>>
      BY DEF If
    <3>3. <<>> \in Seq(Phases) /\ Range(<<>>) = {}
      BY NothingLeft
    <3> HIDE DEF off
    <3>4. CASE off = <<"offline">>
      BY <3>1, <3>4
    <3>5. CASE off = <<>>
      BY <3>3, <3>5
    <3>6. QED
      BY <3>2, <3>4, <3>5
  <2>4. /\ clean \in Seq(Phases) /\ Range(clean) \subseteq {"cleanSub", "cleanTop"}
        /\ Range(clean) # {} => CleansDir(st)
    <3>1. CASE CleansDir(st)
      <4> DEFINE q == <<"cleanSub", "cleanTop">>
      <4>1. q \in Seq(Phases) /\ DOMAIN q = 1..2 /\ q[1] = "cleanSub" /\ q[2] = "cleanTop"
        BY DEF Phases
      <4>2. clean = q
        BY <3>1 DEF If
      <4> HIDE DEF q, clean
      <4>3. \A i \in 1..2 : i = 1 \/ i = 2
        OBVIOUS
      <4>4. Range(q) \subseteq {"cleanSub", "cleanTop"}
        BY <4>1, <4>3 DEF Range
      <4>5. QED
        BY <3>1, <4>1, <4>2, <4>4
    <3>2. CASE ~CleansDir(st)
      BY <3>2, NothingLeft DEF If
    <3>3. QED
      BY <3>1, <3>2
  <2> HIDE DEF off, clean
  <2>5. <<"open">> \o clean \in Seq(Phases) /\ Range(<<"open">> \o clean) = {"open"} \cup Range(clean)
    BY <2>1, <2>4, JoinLeft
  <2>6. /\ <<"open">> \o clean \o off \in Seq(Phases)
        /\ Range(<<"open">> \o clean \o off) = {"open"} \cup Range(clean) \cup Range(off)
    BY <2>3, <2>5, JoinLeft
  <2>7. prep \in Seq(Phases) /\ Range(prep) = {"open"} \cup Range(clean) \cup Range(off) \cup {"hyper"}
    BY <2>2, <2>6, JoinLeft
  <2> HIDE DEF prep
  <2>8. Range(prep) \subseteq {"open", "cleanSub", "cleanTop", "offline", "hyper"}
    BY <2>3, <2>4, <2>7
  <2>9. \A x \in Range(prep) : Stage(x) = 3
    BY <2>8, Stages
  <2>10. QED
    BY <2>3, <2>4, <2>7, <2>8, <2>9, Preparing
<1> HIDE DEF a, prep
<1>8. Within(b, 1, 3) /\ Range(b) = Range(a) \cup (IF cloud THEN Range(prep) ELSE {})
  <2>1. Within(If(cloud, prep), 3, 3) /\ Range(If(cloud, prep)) = IF cloud THEN Range(prep) ELSE {}
    BY <1>5, <1>7, Conditional
  <2>2. QED
    BY <1>6, <2>1, Joined
<1> HIDE DEF b
<1>9. Within(c, 1, 4) /\ Range(c) = Range(b) \cup {"codegen"}
  BY <1>3, <1>8, Joined
<1> HIDE DEF c
<1>10. Within(d, 1, 8) /\ Range(d) = Range(c) \cup Range(SubmitPhases(st))
  BY <1>9, SubmitPlan, Joined
<1> HIDE DEF d
<1>11. /\ Within(e, 1, 9)
       /\ Range(e) = Range(d) \cup (IF st.sub \in {"pai", "local"} THEN {"download", "save"} ELSE {})
  <2> DEFINE f == st.sub \in {"pai", "local"}
             q == <<"download", "save">>
  <2>1. Within(If(f, q), 9, 9) /\ Range(If(f, q)) = IF f THEN Range(q) ELSE {}
    <3>1. f \in BOOLEAN /\ Within(q, 9, 9)
      BY <1>4
    <3> HIDE DEF f, q
    <3>2. QED
      BY <3>1, Conditional
  <2>2. e = d \o If(f, q)
    OBVIOUS
  <2>3. Within(e, 1, 9) /\ Range(e) = Range(d) \cup Range(If(f, q))
    <3> HIDE DEF f, q, e
    <3> QED  BY <1>10, <2>1, <2>2, Joined
  <2>4. QED
    BY <1>4, <2>1, <2>3
<1> HIDE DEF e
<1>12. /\ Range(e) \subseteq {"tmp", "valid", "open", "cleanSub", "cleanTop", "offline", "hyper",
                              "codegen", "archive", "upload", "params", "submit", "download", "save"}
       /\ "tmp" \in Range(e) /\ "submit" \in Range(e)
       /\ st.sub = "alisa" => "upload" \in Range(e)
       /\ "cleanSub" \in Range(e) \/ "cleanTop" \in Range(e) => CleansDir(st)
  BY <1>6, <1>7, <1>8, <1>9, <1>10, <1>11, SubmitPlan
<1>13. PlanFits(st, e)
  BY <1>11, <1>12 DEF PlanFits, Within, Using, Ignored, UsesTmp
<1>14. QED
  BY <1>13 DEF TrainPlan, a, b, c, d, e, prep

\* TO MAXIMIZE and TO MINIMIZE with OptFlow.
LEMMA OptFlowPlans ==
    ASSUME NEW st \in Statements, st.kind = "optimize", OptFlow(st)
    PROVE  PlanFits(st, OptimizePlan(st))
<1> DEFINE a == <<"tmp">> \o If(st.vars > 2, <<"concat">>)
           q == <<"open", "drop result", "codegen", "submit">>
<1>1. Within(<<"tmp">>, 1, 1) /\ Range(<<"tmp">>) = {"tmp"}
  <2>1. "tmp" \in Phases
    BY DEF Phases
  <2>3. Stage("tmp") = 1
    BY Stages
  <2>2. QED
    BY <2>1, <2>3, Single
<1>2. Within(<<"concat">>, 2, 2) /\ Range(<<"concat">>) = {"concat"}
  <2>1. "concat" \in Phases
    BY DEF Phases
  <2>3. Stage("concat") = 2
    BY Stages
  <2>2. QED
    BY <2>1, <2>3, Single
<1>3. (st.vars > 2) \in BOOLEAN
  OBVIOUS
<1>4. Within(a, 1, 2) /\ Range(a) \subseteq {"tmp", "concat"} /\ "tmp" \in Range(a)
  <2> DEFINE f == st.vars > 2
             c == <<"concat">>
  <2>1. f \in BOOLEAN /\ Within(c, 2, 2) /\ Range(c) = {"concat"}
    BY <1>2
  <2> HIDE DEF f, c
  <2>2. Within(If(f, c), 2, 2) /\ Range(If(f, c)) = IF f THEN Range(c) ELSE {}
    BY <2>1, Conditional
  <2>3. Within(<<"tmp">> \o If(f, c), 1, 2) /\ Range(<<"tmp">> \o If(f, c)) = {"tmp"} \cup Range(If(f, c))
    BY <1>1, <2>2, Joined
  <2>4. a = <<"tmp">> \o If(f, c)
    BY DEF f, c
  <2>5. QED
    BY <2>1, <2>2, <2>3, <2>4
<1>0. q \in Seq(Phases) /\ DOMAIN q = 1..4
  BY DEF Phases
<1>5. /\ q[1] = "open" /\ q[2] = "drop result" /\ q[3] = "codegen" /\ q[4] = "submit"
  OBVIOUS
<1> HIDE DEF a, q
<1>6. \A i \in 1..4 : i = 1 \/ i = 2 \/ i = 3 \/ i = 4
  OBVIOUS
<1>7. Range(q) \subseteq {"open", "drop result", "codegen", "submit"} /\ "submit" \in Range(q)
  <2>1. \A i \in 1..4 : q[i] \in {"open", "drop result", "codegen", "submit"}
    BY <1>5, <1>6
  <2>2. 4 \in 1..4
    OBVIOUS
  <2>3. q[4] \in Range(q)
    BY <1>0, <2>2 DEF Range
  <2>4. QED
    BY <1>0, <1>5, <2>1, <2>3 DEF Range
<1>8. Stage(q[1]) = 3 /\ Stage(q[2]) = 3 /\ Stage(q[3]) = 4 /\ Stage(q[4]) = 8
  BY <1>5, Stages
<1>9. Ordered(q)
  BY <1>0, <1>8 DEF Ordered, Follows
<1>10. \A i \in 1..4 : Stage(q[i]) \in 3..8
  BY <1>8
<1>11. Within(q, 3, 8)
  BY <1>0, <1>9, <1>10 DEF Within, Range
<1>12. Within(a \o q, 1, 8) /\ Range(a \o q) = Range(a) \cup Range(q)
  BY <1>4, <1>11, Joined
<1> DEFINE b == a \o q
<1> HIDE DEF b
<1>13. Within(b, 1, 8) /\ Range(b) = Range(a) \cup Range(q)
  BY <1>12 DEF b
<1>14. /\ Range(b) \subseteq {"tmp", "concat", "open", "drop result", "codegen", "submit"}
       /\ "tmp" \in Range(b) /\ "submit" \in Range(b)
  BY <1>4, <1>7, <1>13
<1>15. PlanFits(st, b)
  BY <1>13, <1>14 DEF PlanFits, Within, Using, Ignored, UsesTmp
<1>16. QED
  BY <1>15 DEF OptimizePlan, a, b, q

\* TO MAXIMIZE and TO MINIMIZE with a local program.
LEMMA LocalPlans ==
    ASSUME NEW st \in Statements, st.kind = "optimize", ~OptFlow(st)
    PROVE  PlanFits(st, OptimizePlan(st))
<1> DEFINE q == <<"open", "drop old", "create new", "codegen", "submit">>
<1>1. q \in Seq(Phases) /\ DOMAIN q = 1..5
  BY DEF Phases
<1>2. /\ q[1] = "open" /\ q[2] = "drop old" /\ q[3] = "create new" /\ q[4] = "codegen"
      /\ q[5] = "submit"
  OBVIOUS
<1> HIDE DEF q
<1>3. \A i \in 1..5 : i = 1 \/ i = 2 \/ i = 3 \/ i = 4 \/ i = 5
  OBVIOUS
<1>4. /\ Range(q) \subseteq {"open", "drop old", "create new", "codegen", "submit"}
      /\ "submit" \in Range(q)
  <2>1. \A i \in 1..5 : q[i] \in {"open", "drop old", "create new", "codegen", "submit"}
    BY <1>2, <1>3
  <2>2. 5 \in DOMAIN q
    BY <1>1
  <2>3. QED
    BY <1>1, <1>2, <2>1, <2>2 DEF Range
<1>5. /\ Stage(q[1]) = 3 /\ Stage(q[2]) = 3 /\ Stage(q[3]) = 3 /\ Stage(q[4]) = 4
      /\ Stage(q[5]) = 8
  BY <1>2, Stages
<1>6. Ordered(q)
  BY <1>1, <1>5 DEF Ordered, Follows
<1>7. PlanFits(st, q)
  BY <1>1, <1>4, <1>6 DEF PlanFits, Using, Ignored, UsesTmp, OptFlow
<1>8. QED
  BY <1>7 DEF OptimizePlan, q

\* TO MAXIMIZE and TO MINIMIZE.
LEMMA OptimizePlans ==
    ASSUME NEW st \in Statements, st.kind = "optimize"
    PROVE  PlanFits(st, OptimizePlan(st))
BY OptFlowPlans, LocalPlans

\* TO RUN, and what ALPS and PAI do not support.
LEMMA RunPlans ==
    ASSUME NEW st \in Statements, st.kind # "idle"
    PROVE  /\ PlanFits(st, <<"unsupported">>)
           /\ st.kind = "run" => PlanFits(st, RunPlan(st))
<1>1. Within(<<"unsupported">>, 3, 3) /\ Range(<<"unsupported">>) = {"unsupported"}
  <2>1. "unsupported" \in Phases
    BY DEF Phases
  <2>2. Stage("unsupported") = 3
    BY Stages
  <2>3. QED
    BY <2>1, <2>2, Single
<1>2. PlanFits(st, <<"unsupported">>)
  <2>1. \A q : Within(q, 3, 3) /\ Range(q) = {"unsupported"} => PlanFits(st, q)
    BY DEF PlanFits, Within, Using, Ignored, UsesTmp
  <2>2. QED
    BY <1>1, <2>1
<1>3. Within(<<"submit">>, 8, 8) /\ Range(<<"submit">>) = {"submit"}
  <2>1. "submit" \in Phases
    BY DEF Phases
  <2>2. Stage("submit") = 8
    BY Stages
  <2>3. QED
    BY <2>1, <2>2, Single
<1>4. ASSUME NEW q, Within(q, 3, 8), Range(q) \subseteq {"open", "env", "submit"},
             "submit" \in Range(q), st.kind = "run"
      PROVE  PlanFits(st, q)
  BY <1>4 DEF PlanFits, Within, Using, Ignored, UsesTmp
<1>5. ASSUME st.kind = "run", st.sub = "alisa"
      PROVE  PlanFits(st, <<"open", "submit">>)
  <2>1. Stage("open") = 3 /\ Stage("submit") = 8
    BY Stages
  <2>2. "open" \in Phases /\ "submit" \in Phases /\ Stage("open") < Stage("submit")
    BY <2>1 DEF Phases
  <2>3. /\ Within(<<"open", "submit">>, Stage("open"), Stage("submit"))
        /\ Range(<<"open", "submit">>) = {"open", "submit"}
    BY <2>2, Pair, Zenon
  <2>4. QED
    BY <1>4, <1>5, <2>1, <2>3
<1>6. ASSUME st.kind = "run"
      PROVE  PlanFits(st, <<"env", "env", "submit">>)
  <2> DEFINE q == <<"env", "env", "submit">>
  <2>1. q \in Seq(Phases) /\ DOMAIN q = 1..3 /\ q[1] = "env" /\ q[2] = "env" /\ q[3] = "submit"
    BY DEF Phases
  <2> HIDE DEF q
  <2>2. \A i \in 1..3 : i = 1 \/ i = 2 \/ i = 3
    OBVIOUS
  <2>3. Range(q) = {"env", "submit"}
    BY <2>1, <2>2 DEF Range
  <2>4. Stage(q[1]) = 3 /\ Stage(q[2]) = 3 /\ Stage(q[3]) = 8
    BY <2>1, Stages
  <2>5. Ordered(q)
    BY <2>1, <2>4 DEF Ordered, Follows
  <2>6. \A i \in 1..3 : Stage(q[i]) \in 3..8
    BY <2>4
  <2>7. Within(q, 3, 8)
    BY <2>1, <2>5, <2>6 DEF Within, Range
  <2>8. QED
    BY <1>4, <1>6, <2>3, <2>7 DEF q
<1>7. QED
  BY <1>2, <1>5, <1>6 DEF RunPlan

\* The plan of every statement.
LEMMA Plans ==
    ASSUME NEW st \in Statements
    PROVE  PlanFits(st, Plan(st))
<1>1. CASE st.kind = "idle"
  <2>1. <<>> \in Seq(Phases) /\ Range(<<>>) = {} /\ Ordered(<<>>)
    BY NothingLeft
  <2>3. \A q \in Seq(Phases) : Range(q) = {} /\ Ordered(q) => PlanFits(st, q)
    BY <1>1 DEF PlanFits, Using, UsesTmp
  <2>2. QED
    BY <1>1, <2>1, <2>3 DEF Plan
<1>2. CASE st.kind = "train"
  BY <1>2, TrainPlans DEF Plan
<1>3. CASE st.kind = "run"
  BY <1>3, RunPlans DEF Plan
<1>4. CASE st.kind \in {"predict", "explain", "evaluate"} /\ st.sub = "alps"
  BY <1>4, RunPlans DEF Plan
<1>5. CASE st.kind \in {"predict", "explain", "evaluate", "optimize"} /\ ~(st.sub = "alps" /\ st.kind # "optimize")
  BY <1>5, UsingPlans, OptimizePlans DEF Plan
<1>6. QED
  BY <1>1, <1>2, <1>3, <1>4, <1>5 DEF Statements, Kinds
-----------------------------------------------------------------------------
(* How a step changes the record of its session. *)

\* No session but s has moved.
Others(s) == DOMAIN ses' = Sessions /\ \A x \in Sessions \ {s} : ses'[x] = ses[x]

\* Everything but the phases left is as in r.
Rest(s, r) ==
    /\ ses'[s].defer = r.defer /\ ses'[s].names = r.names /\ ses'[s].top = r.top
    /\ ses'[s].type = r.type /\ ses'[s].est = r.est /\ ses'[s].cmd = r.cmd
    /\ ses'[s].job = r.job /\ ses'[s].loaded = r.loaded /\ ses'[s].key = r.key
    /\ ses'[s].shown = r.shown /\ ses'[s].set = r.set /\ ses'[s].ctx = r.ctx
    /\ ses'[s].bad = r.bad /\ ses'[s].res = r.res

\* The session has gone on, as the record r.
Advanced(s, r) ==
    /\ ses'[s] \in SessionType(s) /\ Others(s)
    /\ ses'[s].todo = Tail(r.todo) /\ Rest(s, r)

\* The session has failed in its first phase.
Failed(s, r) ==
    /\ ses'[s] \in SessionType(s) /\ Others(s)
    /\ ses'[s].todo = r.defer /\ ses'[s].defer = <<>>
    /\ Rest(s, [r EXCEPT !.defer = <<>>, !.bad = @ \cup {Head(r.todo)}])

\* A statement is one of the assumed ones.
LEMMA StatementTypes ==
    ASSUME TypeOK, NEW s \in Sessions
    PROVE  /\ stmt[s] \in Statements /\ ses[s] \in SessionType(s)
           /\ stmt[s].kind \in {"predict", "optimize"} => stmt[s].into # "none"
BY JobsAssumption DEF TypeOK

\* The deferred calls are phases.
LEMMA DeferredPhases ==
    Ignored \subseteq Phases /\ \A q \in Seq(Ignored) : q \in Seq(Phases) /\ Range(q) \subseteq Ignored
<1>1. Ignored \subseteq Phases
  BY DEF Ignored, Phases
<1>2. \A q \in Seq(Ignored) : q \in Seq(Phases) /\ Range(q) \subseteq Ignored
  BY <1>1 DEF Range
<1>3. QED
  BY <1>1, <1>2

\* The record of s is replaced.
LEMMA BecomesNow ==
    ASSUME TypeOK, NEW s \in Sessions, NEW r, ses' = [ses EXCEPT ![s] = r]
    PROVE  ses'[s] = r /\ Others(s)
BY DEF TypeOK, Others

\* One phase further.
LEMMA GoNow ==
    ASSUME TypeOK, NEW s \in Sessions, NEW r \in SessionType(s), r.todo # <<>>, Go(s, r)
    PROVE  Advanced(s, r)
<1> DEFINE t == [r EXCEPT !.todo = Tail(@)]
<1>1. ses'[s] = t /\ Others(s)
  BY BecomesNow DEF Go
<1>2. Tail(r.todo) \in Seq(Phases)
  BY DEF SessionType
<1>3. t \in SessionType(s) /\ t.todo = Tail(r.todo)
  BY <1>2 DEF SessionType
<1>4. /\ t.defer = r.defer /\ t.names = r.names /\ t.top = r.top /\ t.type = r.type
      /\ t.est = r.est /\ t.cmd = r.cmd /\ t.job = r.job /\ t.loaded = r.loaded
      /\ t.key = r.key /\ t.shown = r.shown /\ t.set = r.set /\ t.ctx = r.ctx
      /\ t.bad = r.bad /\ t.res = r.res
  BY DEF SessionType
<1> HIDE DEF t
<1>5. QED
  BY <1>1, <1>3, <1>4 DEF Advanced, Rest

\* An error.
LEMMA FailedNow ==
    ASSUME TypeOK, NEW s \in Sessions, NEW r \in SessionType(s), r.todo # <<>>,
           ses' = [ses EXCEPT ![s] = FailedIn(r)]
    PROVE  Failed(s, r)
<1> DEFINE t == FailedIn(r)
<1>1. ses'[s] = t /\ Others(s)
  BY BecomesNow
<1>2. r.defer \in Seq(Phases) /\ <<>> \in Seq(Ignored) /\ Head(r.todo) \in Phases
  BY DeferredPhases DEF SessionType
<1>3. t \in SessionType(s)
  BY <1>2 DEF SessionType, FailedIn
<1>4. /\ t.todo = r.defer /\ t.defer = <<>> /\ t.bad = r.bad \cup {Head(r.todo)}
      /\ t.names = r.names /\ t.top = r.top /\ t.type = r.type /\ t.est = r.est
      /\ t.cmd = r.cmd /\ t.job = r.job /\ t.loaded = r.loaded /\ t.key = r.key
      /\ t.shown = r.shown /\ t.set = r.set /\ t.ctx = r.ctx /\ t.res = r.res
  BY DEF SessionType, FailedIn
<1> HIDE DEF t
<1> DEFINE u == [r EXCEPT !.defer = <<>>, !.bad = @ \cup {Head(r.todo)}]
<1>5. /\ u.defer = <<>> /\ u.bad = r.bad \cup {Head(r.todo)}
      /\ u.names = r.names /\ u.top = r.top /\ u.type = r.type /\ u.est = r.est
      /\ u.cmd = r.cmd /\ u.job = r.job /\ u.loaded = r.loaded /\ u.key = r.key
      /\ u.shown = r.shown /\ u.set = r.set /\ u.ctx = r.ctx /\ u.res = r.res
  BY DEF SessionType
<1> HIDE DEF u
<1>6. Rest(s, u)
  BY <1>1, <1>4, <1>5 DEF Rest
<1>7. QED
  BY <1>1, <1>3, <1>4, <1>6 DEF Failed, u

\* The three ways to leave a phase with the record as it is.
LEMMA OnNow ==
    ASSUME TypeOK, NEW s \in Sessions, ses[s].todo # <<>>
    PROVE  /\ On(s) => Advanced(s, ses[s])
           /\ Refuse(s) => Failed(s, ses[s])
           /\ Fail(s) => Failed(s, ses[s]) /\ Head(ses[s].todo) \in Faults
BY StatementTypes, GoNow, FailedNow DEF On, Refuse, Fail
-----------------------------------------------------------------------------
(* The phases that are left. *)

\* Which phases may follow which.
LEMMA Follow ==
    \A p \in Phases :
        /\ ~Follows(p, "tmp")
        /\ Follows(p, "valid") \/ Follows(p, "concat") => p = "tmp"
        /\ Follows(p, "submit") => p \notin {"submit", "download", "save", "draw"} \cup Ignored
        /\ Follows("submit", p) => p \in {"download", "save", "draw"} \cup Ignored
        /\ Follows("codegen", p) => p # "codegen"
        /\ Follows("upload", p) => p # "upload"
        /\ p \in Ignored => \A q \in Ignored : Follows(p, q)
<1>1. SUFFICES ASSUME NEW p \in Phases
               PROVE  /\ ~Follows(p, "tmp")
                      /\ Follows(p, "valid") \/ Follows(p, "concat") => p = "tmp"
                      /\ Follows(p, "submit") => p \notin {"submit", "download", "save", "draw"} \cup Ignored
                      /\ Follows("submit", p) => p \in {"download", "save", "draw"} \cup Ignored
                      /\ Follows("codegen", p) => p # "codegen"
                      /\ Follows("upload", p) => p # "upload"
                      /\ p \in Ignored => \A q \in Ignored : Follows(p, q)
  OBVIOUS
<1>2. /\ Stage(p) \in 1..10 /\ (Stage(p) <= 1 => p = "tmp")
      /\ Stage(p) > 8 => p \in {"download", "save", "draw"} \cup Ignored
      /\ p \in {"submit", "download", "save", "draw"} \cup Ignored => Stage(p) >= 8
  <2>1. CASE p = "tmp"
    <3>1. Stage(p) = 1
      BY <2>1, Stages
    <3>2. p \notin {"submit", "download", "save", "draw"} \cup Ignored
      BY <2>1 DEF Ignored
    <3>3. QED
      BY <2>1, <3>1, <3>2
  <2>2. CASE p \in {"valid", "concat", "codegen", "archive", "upload", "params"}
    <3>1. Stage(p) = 2 \/ Stage(p) = 4 \/ Stage(p) = 5 \/ Stage(p) = 6 \/ Stage(p) = 7
      BY <2>2, Stages
    <3>2. p \notin {"submit", "download", "save", "draw"} \cup Ignored
      BY <2>2 DEF Ignored
    <3>3. QED
      BY <3>1, <3>2
  <2>3. CASE p \in {"submit", "download", "save", "draw"}
    <3>1. (p = "submit" /\ Stage(p) = 8) \/ (p \in {"download", "save", "draw"} /\ Stage(p) = 9)
      BY <2>3, Stages
    <3>2. QED
      BY <3>1
  <2>4. CASE p \in Ignored
    <3>1. Stage(p) = 10
      BY <2>4, Stages
    <3>2. QED
      BY <2>4, <3>1
  <2>5. CASE p \in {"open", "cleanSub", "cleanTop", "offline", "result", "drop result", "drop old",
                    "create new", "type", "read", "xgb", "hyper", "env", "unsupported"}
    <3>1. Stage(p) = 3
      BY <2>5, Stages
    <3>2. p \notin {"submit", "download", "save", "draw"} \cup Ignored
      BY <2>5 DEF Ignored
    <3>3. QED
      BY <3>1, <3>2
  <2>6. QED
    BY <2>1, <2>2, <2>3, <2>4, <2>5 DEF Phases, Ignored
<1>a. /\ Stage("tmp") = 1 /\ Stage("valid") = 2 /\ Stage("concat") = 2
      /\ Stage("codegen") = 4 /\ Stage("upload") = 6 /\ Stage("submit") = 8
  BY Stages
<1>b. \A q \in Ignored : Stage(q) = 10
  BY Stages
<1>3. ~Follows(p, "tmp")
  BY <1>2, <1>a DEF Follows
<1>4. Follows(p, "valid") \/ Follows(p, "concat") => p = "tmp"
  BY <1>2, <1>a DEF Follows
<1>5. Follows(p, "submit") => p \notin {"submit", "download", "save", "draw"} \cup Ignored
  BY <1>2, <1>a DEF Follows
<1>6. Follows("submit", p) => p \in {"download", "save", "draw"} \cup Ignored
  BY <1>2, <1>a DEF Follows
<1>7. ~Follows("codegen", "codegen") /\ ~Follows("upload", "upload")
  BY <1>a DEF Follows
<1>8. p \in Ignored => \A q \in Ignored : Follows(p, q)
  BY <1>b DEF Follows
<1>9. QED
  BY <1>3, <1>4, <1>5, <1>6, <1>7, <1>8

\* The first phase of a session.
LEMMA HeadFacts ==
    ASSUME TypeOK, NEW s \in Sessions, InOrder(s), ses[s].todo # <<>>
    PROVE  LET h == Head(ses[s].todo)
           IN /\ h \in Phases /\ h \in Left(s) /\ Left(s) \subseteq Phases
              /\ h \in Ignored => Left(s) \subseteq Ignored /\ ses[s].defer = <<>>
              /\ h \notin Ignored => Left(s) \cap Ignored = {}
              /\ ses[s].res = "running"
              /\ Left(s) = {h} \cup Range(Tail(ses[s].todo))
              /\ \A p \in Range(Tail(ses[s].todo)) : Follows(h, p)
<1>1. ses[s].todo \in Seq(Phases) /\ Ordered(ses[s].todo)
  BY StatementTypes DEF SessionType, InOrder
<1>2. /\ Head(ses[s].todo) \in Phases
      /\ Left(s) = {Head(ses[s].todo)} \cup Range(Tail(ses[s].todo))
      /\ \A p \in Range(Tail(ses[s].todo)) : Follows(Head(ses[s].todo), p)
  BY <1>1, TailLeft DEF Left
<1>3. Left(s) \subseteq Phases
  BY <1>1 DEF Left, Range
<1>4. ses[s].res = "running"
  BY DEF InOrder, Ended
<1>5. QED
  BY <1>2, <1>3, <1>4 DEF InOrder

\* Going on removes the first phase and keeps the order.
LEMMA AdvancedLeft ==
    ASSUME TypeOK, NEW s \in Sessions, InOrder(s), ses[s].todo # <<>>,
           NEW r, r.todo = ses[s].todo, r.res = ses[s].res,
           Head(ses[s].todo) \in Ignored => r.defer = ses[s].defer, Advanced(s, r)
    PROVE  LET h == Head(ses[s].todo)
           IN /\ InOrder(s)' /\ Left(s) = {h} \cup Left(s)'
              /\ \A p \in Left(s)' : Follows(h, p)
              /\ ses'[s].res = "running"
<1>1. ses[s].todo \in Seq(Phases) /\ Ordered(ses[s].todo)
  BY StatementTypes DEF SessionType, InOrder
<1>2. ses'[s].todo = Tail(ses[s].todo) /\ ses'[s].res = ses[s].res /\ ses'[s].defer = r.defer
  BY DEF Advanced, Rest
<1>3. Left(s)' = Range(Tail(ses[s].todo)) /\ Ordered(ses'[s].todo)
  BY <1>1, <1>2, TailLeft DEF Left
<1>4. ~Ended(s)'
  BY <1>2, HeadFacts DEF Ended
<1>5. QED
  BY <1>2, <1>3, <1>4, HeadFacts DEF InOrder

\* An error leaves the deferred calls.
LEMMA FailedLeft ==
    ASSUME TypeOK, NEW s \in Sessions, InOrder(s), ses[s].todo # <<>>,
           NEW r \in SessionType(s), r.res = ses[s].res, Failed(s, r)
    PROVE  /\ InOrder(s)' /\ Left(s)' = Range(r.defer) /\ Left(s)' \subseteq Ignored
           /\ Due(s)' = Range(r.defer) /\ ses'[s].res = "running"
           /\ ses'[s].bad = r.bad \cup {Head(r.todo)}
           /\ ses'[s].defer = <<>>
<1>1. r.defer \in Seq(Ignored)
  BY DEF SessionType
<1>2. /\ ses'[s].todo = r.defer /\ ses'[s].defer = <<>> /\ ses'[s].res = r.res
      /\ ses'[s].bad = r.bad \cup {Head(r.todo)}
  BY DEF Failed, Rest, SessionType
<1>3. /\ r.defer \in Seq(Phases) /\ Range(r.defer) \subseteq Ignored
      /\ \A i \in DOMAIN r.defer : r.defer[i] \in Ignored
  BY <1>1, DeferredPhases DEF Range
<1>4. Ordered(r.defer)
  BY <1>3, Follow, DeferredPhases DEF Ordered
<1>5. Left(s)' = Range(r.defer) /\ Due(s)' = Range(r.defer)
  BY <1>2, NothingLeft DEF Left, Due
<1>6. ses'[s].res = "running" /\ ~Ended(s)'
  BY <1>2, HeadFacts DEF Ended
<1>7. QED
  BY <1>2, <1>3, <1>4, <1>5, <1>6 DEF InOrder
-----------------------------------------------------------------------------
(* Steps that neither create nor delete. *)

\* The fields that a place is made of, but for what concerns the job.
Alike(r, q) ==
    /\ r.todo = q.todo /\ r.defer = q.defer /\ r.names = q.names /\ r.bad = q.bad
    /\ r.res = q.res

\* Nothing is created that has to be deleted.
Quiet == UNCHANGED <<stmt, tables, objects>>

\* What may stay may do so after further failures.
LEMMA Staying ==
    ASSUME NEW s, ses[s].bad \subseteq ses'[s].bad
    PROVE  /\ \A n \in 1..2 : MayStay(s, n) => MayStay(s, n)'
           /\ \A o \in {"code", "params"} : ObjectMayStay(s, o) => ObjectMayStay(s, o)'
BY DEF MayStay, ObjectMayStay

\* A phase that is over and has created nothing.
LEMMA AdvancedHeld ==
    ASSUME TypeOK, NEW s \in Sessions, Place(s), ses[s].todo # <<>>,
           Head(ses[s].todo) \notin {"tmp", "valid", "concat", "upload"} \cup Ignored,
           NEW r, Alike(r, ses[s]), Advanced(s, r), Quiet
    PROVE  /\ InOrder(s)' /\ TablesHeld(s)' /\ ObjectsHeld(s)' /\ PhasesOfKind(s)'
           /\ Left(s) = {Head(ses[s].todo)} \cup Left(s)'
           /\ \A p \in Left(s)' : Follows(Head(ses[s].todo), p) /\ p \in Phases
           /\ ses'[s].bad = ses[s].bad
<1> DEFINE h == Head(ses[s].todo)
<1>1. /\ InOrder(s)' /\ Left(s) = {h} \cup Left(s)'
      /\ \A p \in Left(s)' : Follows(h, p)
  BY AdvancedLeft DEF Place, Alike
<1>2. /\ ses'[s].defer = ses[s].defer /\ ses'[s].names = ses[s].names /\ ses'[s].bad = ses[s].bad
      /\ ses'[s].res = ses[s].res
  BY DEF Advanced, Rest, Alike
<1>3. stmt' = stmt /\ tables' = tables /\ objects' = objects
  BY DEF Quiet
<1>4. h \notin {"tmp", "valid", "concat", "upload"} /\ h \notin Ignored /\ Left(s) \subseteq Phases
  BY HeadFacts DEF Place
<1>5. /\ Due(s) = Left(s) \cup Range(ses[s].defer)
      /\ Due(s)' = Left(s)' \cup Range(ses[s].defer)
  BY <1>2 DEF Due
<1> HIDE DEF h
<1>6. TablesHeld(s)'
  <2>1. TablesHeld(s)
    BY DEF Place
  <2>2. \A p \in {"tmp", "valid", "concat"} : p \in Left(s)' <=> p \in Left(s)
    BY <1>1, <1>4
  <2>3. "drop" \in Due(s)' <=> "drop" \in Due(s)
    BY <1>1, <1>4, <1>5 DEF Ignored
  <2>4. h = "submit" => Left(s)' \cap {"tmp", "valid", "concat"} = {}
    BY <1>1, Follow DEF Phases
  <2>5. "submit" \in Left(s)' => "submit" \in Left(s)
    BY <1>1
  <2>6. "submit" \in Left(s) => "submit" \in Left(s)' \/ h = "submit"
    BY <1>1
  <2>7. \A n \in 1..2 : MayStay(s, n) => MayStay(s, n)'
    BY <1>2, Staying
  <2>8. QED
    BY <1>2, <1>3, <2>1, <2>2, <2>3, <2>4, <2>5, <2>6, <2>7 DEF TablesHeld
<1>7. ObjectsHeld(s)'
  <2>1. ObjectsHeld(s)
    BY DEF Place
  <2>2. "upload" \in Left(s) => "upload" \in Left(s)'
    BY <1>1, <1>4
  <2>3. \A o \in {"code", "params"} : Deletion(o) \in Due(s)' <=> Deletion(o) \in Due(s)
    <3>1. \A o \in {"code", "params"} : Deletion(o) \in Ignored
      BY DEF Deletion, Ignored
    <3>2. QED
      BY <1>1, <1>4, <1>5, <3>1
  <2>4. "submit" \in Left(s)' => "submit" \in Left(s)
    BY <1>1
  <2>5. \A o \in {"code", "params"} : ObjectMayStay(s, o) => ObjectMayStay(s, o)'
    BY <1>2, Staying
  <2>6. QED
    BY <1>2, <1>3, <2>1, <2>2, <2>3, <2>4, <2>5 DEF ObjectsHeld
<1>8. PhasesOfKind(s)'
  BY <1>1, <1>3 DEF Place, PhasesOfKind
<1>9. QED
  BY <1>1, <1>2, <1>4, <1>6, <1>7, <1>8 DEF h

\* Preparing, and what comes after the job.
Plain == Phases \ ({"tmp", "valid", "concat", "upload", "codegen", "submit", "unsupported"} \cup Ignored)

\* A plain phase is over: the session is in its place.
LEMMA AdvancedPlace ==
    ASSUME TypeOK, NEW s \in Sessions, Place(s), ses[s].todo # <<>>,
           Head(ses[s].todo) \in Plain,
           NEW r, Alike(r, ses[s]), r.cmd = ses[s].cmd, r.key = ses[s].key, r.job = ses[s].job,
           Advanced(s, r), Quiet
    PROVE  Place(s)'
<1> DEFINE h == Head(ses[s].todo)
<1>1. h \notin {"tmp", "valid", "concat", "upload", "codegen", "submit", "unsupported"} \cup Ignored
  BY DEF Plain
<1>2. /\ InOrder(s)' /\ TablesHeld(s)' /\ ObjectsHeld(s)' /\ PhasesOfKind(s)'
      /\ Left(s) = {h} \cup Left(s)' /\ ses'[s].bad = ses[s].bad
  BY <1>1, AdvancedHeld
<1>3. /\ ses'[s].cmd = ses[s].cmd /\ ses'[s].key = ses[s].key /\ ses'[s].job = ses[s].job
      /\ stmt' = stmt
  BY DEF Advanced, Rest, Quiet
<1> HIDE DEF h
<1>4. JobPlace(s)'
  <2>1. JobPlace(s)
    BY DEF Place
  <2>2. ~At(s, "submit")
    BY <1>1 DEF At, h
  <2>3. \A p \in {"submit", "unsupported"} : p \in Left(s)' <=> p \in Left(s)
    BY <1>1, <1>2
  <2>4. h \in Left(s)
    BY <1>2
  <2>5. QED
    BY <1>2, <1>3, <2>1, <2>2, <2>3, <2>4 DEF JobPlace
<1>5. FigureKeyed(s)'
  <2>1. FigureKeyed(s)
    BY DEF Place
  <2>2. "codegen" \in Left(s)' <=> "codegen" \in Left(s)
    BY <1>1, <1>2
  <2>3. QED
    BY <1>2, <1>3, <2>1, <2>2 DEF FigureKeyed
<1>6. QED
  BY <1>2, <1>4, <1>5 DEF Place

\* The command has been generated.
LEMMA CodegenPlace ==
    ASSUME TypeOK, NEW s \in Sessions, Place(s), At(s, "codegen"),
           NEW r, Alike(r, ses[s]), r.job = ses[s].job,
           r.key # <<>>, r.key[1] = stmt[s].user, Advanced(s, r), Quiet
    PROVE  Place(s)'
<1>1. ses[s].todo # <<>> /\ Head(ses[s].todo) = "codegen"
  BY DEF At
<1>2. "codegen" \notin {"tmp", "valid", "concat", "upload"} \cup Ignored
  BY DEF Ignored
<1>3. /\ InOrder(s)' /\ TablesHeld(s)' /\ ObjectsHeld(s)' /\ PhasesOfKind(s)'
      /\ Left(s) = {"codegen"} \cup Left(s)' /\ ses'[s].bad = ses[s].bad
      /\ \A p \in Left(s)' : Follows("codegen", p) /\ p \in Phases
  BY <1>1, <1>2, AdvancedHeld
<1>4. ses'[s].key = r.key /\ ses'[s].job = ses[s].job /\ stmt' = stmt
  BY DEF Advanced, Rest, Quiet
<1>5. "codegen" \notin Left(s)'
  BY <1>3, Follow
<1>6. JobPlace(s)'
  <2>1. JobPlace(s)
    BY DEF Place
  <2>2. ses[s].job \notin Going \cup {"failing"}
    BY <1>1, <2>1 DEF At, JobPlace
  <2>3. ses[s].job \notin {"done", "failed"}
    <3>1. "codegen" \in Left(s)
      BY <1>3
    <3>2. "codegen" \notin {"download", "save", "draw"} \cup Ignored
      BY DEF Ignored
    <3>3. QED
      BY <2>1, <3>1, <3>2 DEF JobPlace
  <2>4. \A p \in {"submit", "unsupported"} : p \in Left(s)' <=> p \in Left(s)
    BY <1>3
  <2>5. QED
    BY <1>3, <1>4, <2>1, <2>2, <2>3, <2>4 DEF JobPlace, Going
<1>7. FigureKeyed(s)'
  BY <1>4, <1>5 DEF FigureKeyed
<1>8. QED
  BY <1>3, <1>6, <1>7 DEF Place

\* The job has ended well.
LEMMA DonePlace ==
    ASSUME TypeOK, NEW s \in Sessions, Place(s), At(s, "submit"),
           NEW r, Alike(r, ses[s]), r.job = "done", r.key = ses[s].key, r.cmd = ses[s].cmd,
           Advanced(s, r), Quiet
    PROVE  Place(s)'
<1>1. ses[s].todo # <<>> /\ Head(ses[s].todo) = "submit"
  BY DEF At
<1>2. "submit" \notin {"tmp", "valid", "concat", "upload"} \cup Ignored
  BY DEF Ignored
<1>3. /\ InOrder(s)' /\ TablesHeld(s)' /\ ObjectsHeld(s)' /\ PhasesOfKind(s)'
      /\ Left(s) = {"submit"} \cup Left(s)' /\ ses'[s].bad = ses[s].bad
      /\ \A p \in Left(s)' : Follows("submit", p) /\ p \in Phases
  BY <1>1, <1>2, AdvancedHeld
<1>4. ses'[s].key = ses[s].key /\ ses'[s].cmd = ses[s].cmd /\ ses'[s].job = "done" /\ stmt' = stmt
  BY DEF Advanced, Rest, Quiet
<1>5. Left(s)' \subseteq {"download", "save", "draw"} \cup Ignored
  BY <1>3, Follow
<1>6. JobPlace(s)'
  BY <1>3, <1>4, <1>5 DEF Place, JobPlace, Going
<1>7. FigureKeyed(s)'
  <2>1. FigureKeyed(s)
    BY DEF Place
  <2>2. "codegen" \notin Left(s)' /\ "codegen" \notin Left(s)
    BY <1>3, <1>5 DEF Ignored
  <2>3. QED
    BY <1>3, <1>4, <2>1, <2>2 DEF FigureKeyed
<1>8. QED
  BY <1>3, <1>6, <1>7 DEF Place

\* A phase that failed may have created something all the same.
Leaves(s) ==
    /\ UNCHANGED stmt /\ tables \subseteq tables' /\ objects \subseteq objects'
    /\ \A n \in 1..2 : Tmp(s, n) \in tables' => Tmp(s, n) \in tables \/ MayStay(s, n)'
    /\ \A o \in {"code", "params"} :
         <<s, o>> \in objects' => <<s, o>> \in objects \/ ObjectMayStay(s, o)'

\* A phase failed: what was created before it will be deleted by the
\* deferred calls.
LEMMA LeavingPlace ==
    ASSUME TypeOK, NEW s \in Sessions, Place(s), ses[s].todo # <<>>,
           Head(ses[s].todo) \notin Ignored \cup {"concat"},
           NEW r \in SessionType(s), Alike(r, ses[s]), r.cmd = ses[s].cmd, r.key = ses[s].key,
           r.job \in {"none", "done", "failed"}, Failed(s, r), Leaves(s)
    PROVE  Place(s)'
<1> DEFINE h == Head(ses[s].todo)
<1>1. /\ InOrder(s)' /\ Left(s)' = Range(ses[s].defer) /\ Left(s)' \subseteq Ignored
      /\ Due(s)' = Range(ses[s].defer) /\ ses'[s].bad = ses[s].bad \cup {h}
      /\ ses'[s].defer = <<>>
  BY FailedLeft DEF Place, Alike
<1>2. /\ ses'[s].names = ses[s].names /\ ses'[s].cmd = ses[s].cmd /\ ses'[s].key = ses[s].key
      /\ ses'[s].job = r.job
  BY DEF Failed, Rest, Alike, SessionType
<1>3. /\ stmt' = stmt /\ tables \subseteq tables'
      /\ \A n \in 1..2 : Tmp(s, n) \in tables' => Tmp(s, n) \in tables \/ MayStay(s, n)'
      /\ \A o \in {"code", "params"} :
           <<s, o>> \in objects' => <<s, o>> \in objects \/ ObjectMayStay(s, o)'
  BY DEF Leaves
<1>a. /\ \A n \in 1..2 : MayStay(s, n) => MayStay(s, n)'
      /\ \A o \in {"code", "params"} : ObjectMayStay(s, o) => ObjectMayStay(s, o)'
  BY <1>1, Staying
<1>4. /\ h \in Phases /\ h \in Left(s) /\ Left(s) \cap Ignored = {}
      /\ Left(s) = {h} \cup Range(Tail(ses[s].todo))
      /\ \A p \in Range(Tail(ses[s].todo)) : Follows(h, p)
  BY HeadFacts DEF Place
<1>5. Due(s) = Left(s) \cup Range(ses[s].defer)
  BY DEF Due
<1>6. h \notin Ignored /\ h # "concat"
  OBVIOUS
<1> HIDE DEF h
<1>7. \A p \in Left(s)' : p \notin {"tmp", "valid", "concat", "submit", "upload", "codegen", "draw",
         "cleanSub", "cleanTop", "offline", "type", "read", "xgb", "drop result", "drop old",
         "create new"}
  BY <1>1 DEF Ignored
<1>8. TablesHeld(s)'
  <2>1. TablesHeld(s)
    BY DEF Place
  <2>2. "drop" \in Due(s)' <=> "drop" \in Due(s)
    BY <1>1, <1>4, <1>5 DEF Ignored
  <2>3. "tmp" \notin Left(s) /\ Left(s) \cap {"valid", "concat"} # {} => h = "valid"
    BY <1>4, <1>6, Follow
  <2>4. Left(s)' \cap {"tmp", "valid", "concat"} = {} /\ "submit" \notin Left(s)'
    BY <1>7
  <2>5. h = "valid" => \A n \in 1..2 : MayStay(s, n)'
    BY <1>1 DEF MayStay
  <2>6. /\ ses'[s].names \in {<<>>, <<Tmp(s, 1)>>, <<Tmp(s, 2)>>, <<Tmp(s, 1), Tmp(s, 2)>>}
        /\ Range(ses'[s].names) \subseteq tables'
    BY <1>2, <1>3, <2>1 DEF TablesHeld
  <2>7. ASSUME NEW n \in 1..2, Tmp(s, n) \in tables'
        PROVE  (Tmp(s, n) \in Range(ses'[s].names) /\ "drop" \in Due(s)') \/ MayStay(s, n)'
    <3>1. CASE Tmp(s, n) \notin tables
      BY <1>3, <2>7, <3>1
    <3>2. CASE Tmp(s, n) \in tables
      <4>1. \/ Tmp(s, n) \in Range(ses[s].names) /\ "drop" \in Due(s)
            \/ "tmp" \notin Left(s) /\ Left(s) \cap {"valid", "concat"} # {}
            \/ MayStay(s, n)
        BY <2>1, <3>2 DEF TablesHeld
      <4>2. QED
        BY <1>2, <1>a, <2>2, <2>3, <2>5, <4>1
    <3>3. QED
      BY <3>1, <3>2
  <2>8. QED
    BY <2>4, <2>6, <2>7 DEF TablesHeld
<1>9. ObjectsHeld(s)'
  <2>1. ObjectsHeld(s)
    BY DEF Place
  <2>2. \A o \in {"code", "params"} : Deletion(o) \in Due(s)' <=> Deletion(o) \in Due(s)
    <3>1. \A o \in {"code", "params"} : Deletion(o) \in Ignored
      BY DEF Deletion, Ignored
    <3>2. QED
      BY <1>1, <1>4, <1>5, <3>1
  <2>3. QED
    BY <1>1, <1>3, <1>a, <1>7, <2>1, <2>2 DEF ObjectsHeld
<1>10. PhasesOfKind(s)'
  BY <1>7 DEF PhasesOfKind
<1>11. JobPlace(s)'
  <2>1. JobPlace(s)
    BY DEF Place
  <2>2. QED
    BY <1>1, <1>2, <1>3, <1>4, <1>6, <2>1 DEF JobPlace, Going
<1>12. FigureKeyed(s)'
  <2>1. FigureKeyed(s)
    BY DEF Place
  <2>2. QED
    BY <1>2, <1>3, <1>7, <2>1 DEF FigureKeyed
<1>13. QED
  BY <1>1, <1>8, <1>9, <1>10, <1>11, <1>12 DEF Place

\* A phase failed and has created nothing.
LEMMA FailedPlace ==
    ASSUME TypeOK, NEW s \in Sessions, Place(s), ses[s].todo # <<>>,
           Head(ses[s].todo) \notin Ignored \cup {"concat"},
           NEW r \in SessionType(s), Alike(r, ses[s]), r.cmd = ses[s].cmd, r.key = ses[s].key,
           r.job \in {"none", "done", "failed"}, Failed(s, r), Quiet
    PROVE  Place(s)'
<1>1. Leaves(s)
  BY DEF Leaves, Quiet
<1>2. QED
  BY <1>1, LeavingPlace

\* A job starts, or saves its model: the session stays where it is.
LEMMA StandingPlace ==
    ASSUME TypeOK, NEW s \in Sessions, Place(s), At(s, "submit"),
           Alike(ses'[s], ses[s]), ses'[s].cmd = ses[s].cmd, ses'[s].key = ses[s].key,
           ses'[s].job \in Going \cup {"failing"},
           ses'[s].job = "idle" <=> ses[s].cmd = "empty",
           ses'[s].job \in {"saving", "describing"} => SavesModel(stmt[s]),
           ses'[s].job = "describing" => TypeOf(stmt[s].est) = "TENSORFLOW", Quiet
    PROVE  Place(s)'
<1>1. Left(s)' = Left(s) /\ Due(s)' = Due(s) /\ stmt' = stmt /\ tables' = tables /\ objects' = objects
  BY DEF Alike, Left, Due, Quiet
<1>2. InOrder(s)' /\ TablesHeld(s)' /\ ObjectsHeld(s)' /\ PhasesOfKind(s)'
  <2>1. InOrder(s)'
    BY <1>1 DEF Place, InOrder, Alike, Ended
  <2>2. QED
    BY <1>1, <2>1 DEF Place, TablesHeld, ObjectsHeld, PhasesOfKind, Alike, MayStay, ObjectMayStay
<1>3. At(s, "submit")' /\ "submit" \in Left(s)
  BY HeadFacts DEF At, Alike, Place
<1>4. JobPlace(s)'
  BY <1>1, <1>3 DEF Place, JobPlace, Alike, Going
<1>5. FigureKeyed(s)'
  BY <1>1 DEF Place, FigureKeyed
<1>6. QED
  BY <1>2, <1>4, <1>5 DEF Place

\* The type of a model has been looked for: one more question.
LEMMA SplicedPlace ==
    ASSUME TypeOK, NEW s \in Sessions, Place(s), At(s, "type"), NEW x \in {"read", "xgb"},
           ses' = [ses EXCEPT ![s].todo = <<x>> \o Tail(@)], Quiet
    PROVE  /\ Place(s)' /\ ses'[s] \in SessionType(s) /\ Others(s)
           /\ Rest(s, ses[s])
           /\ \A p \in Left(s)' : p = x \/ p \in Left(s)
<1> DEFINE q == Tail(ses[s].todo)
           t == <<x>> \o q
<1>1. /\ ses[s].todo # <<>> /\ Head(ses[s].todo) = "type"
      /\ ses[s].todo \in Seq(Phases) /\ Ordered(ses[s].todo)
  BY StatementTypes DEF At, Place, InOrder, SessionType
<1>2. /\ q \in Seq(Phases) /\ Ordered(q) /\ Left(s) = {"type"} \cup Range(q)
      /\ \A p \in Range(q) : Follows("type", p)
  BY <1>1, TailLeft DEF Left
<1>3. <<x>> \in Seq(Phases) /\ Range(<<x>>) = {x} /\ Ordered(<<x>>)
  <2>1. x \in Phases
    BY DEF Phases
  <2>2. QED
    BY <2>1, OneLeft
<1>4. \A p \in Range(q) : Follows(x, p)
  <2>1. Stage(x) = Stage("type")
    BY Stages
  <2>2. QED
    BY <1>2, <2>1 DEF Follows
<1>5. t \in Seq(Phases) /\ Ordered(t) /\ Range(t) = {x} \cup Range(q)
  <2> DEFINE u == <<x>>
  <2>1. u \in Seq(Phases) /\ Range(u) = {x} /\ Ordered(u) /\ t = u \o q
    BY <1>3
  <2> HIDE DEF q, u, t
  <2>2. \A y \in Range(u), p \in Range(q) : Follows(y, p)
    BY <1>4, <2>1
  <2>3. u \o q \in Seq(Phases) /\ Range(u \o q) = Range(u) \cup Range(q) /\ Ordered(u \o q)
    BY <1>2, <2>1, <2>2, BothLeft
  <2>4. QED
    BY <2>1, <2>3
<1>6. /\ ses'[s] = [ses[s] EXCEPT !.todo = t] /\ Others(s)
  BY DEF TypeOK, Others
<1>7. /\ ses'[s] \in SessionType(s) /\ ses'[s].todo = t /\ Rest(s, ses[s])
  <2>1. ses[s] \in SessionType(s)
    BY StatementTypes
  <2> HIDE DEF t
  <2>2. [ses[s] EXCEPT !.todo = t] \in SessionType(s)
    BY <1>5, <2>1 DEF SessionType
  <2>3. Rest(s, ses[s]) /\ ses'[s].todo = t
    BY <1>6, <2>1 DEF Rest, SessionType
  <2>4. QED
    BY <1>6, <2>2, <2>3
<1> HIDE DEF q, t
<1>8. Left(s)' = {x} \cup Range(q) /\ Ordered(ses'[s].todo)
  BY <1>5, <1>7 DEF Left
<1>9. stmt' = stmt /\ tables' = tables /\ objects' = objects
  BY DEF Quiet
<1>10. /\ ses'[s].defer = ses[s].defer /\ ses'[s].names = ses[s].names /\ ses'[s].bad = ses[s].bad
       /\ ses'[s].res = ses[s].res /\ ses'[s].cmd = ses[s].cmd /\ ses'[s].key = ses[s].key
       /\ ses'[s].job = ses[s].job
  BY <1>7 DEF Rest
<1>11. "type" \notin Ignored /\ x \notin Ignored
  BY DEF Ignored
<1>12. InOrder(s)'
  <2>1. Left(s) \cap Ignored = {}
    BY <1>2, <1>11 DEF Place, InOrder
  <2>2. Left(s)' \cap Ignored = {}
    BY <1>2, <1>8, <1>11, <2>1
  <2>3. ~Ended(s)'
    BY <1>1, <1>10 DEF Place, InOrder, Ended
  <2>4. QED
    BY <1>8, <2>2, <2>3 DEF InOrder, Ended
<1>13. \A p : p \notin {"type", "read", "xgb"} => (p \in Left(s)' <=> p \in Left(s))
  BY <1>2, <1>8
<1>14. \A p \in Ignored : p \in Due(s)' <=> p \in Due(s)
  BY <1>10, <1>13 DEF Due, Ignored
<1>15. TablesHeld(s)'
  <2>1. \A p \in {"tmp", "valid", "concat", "submit"} : p \in Left(s)' <=> p \in Left(s)
    BY <1>13
  <2>2. "drop" \in Due(s)' <=> "drop" \in Due(s)
    BY <1>14 DEF Ignored
  <2>3. TablesHeld(s)
    BY DEF Place
  <2>4. QED
    BY <1>9, <1>10, <2>1, <2>2, <2>3 DEF TablesHeld, MayStay
<1>16. ObjectsHeld(s)'
  <2>1. \A p \in {"upload", "submit"} : p \in Left(s)' <=> p \in Left(s)
    BY <1>13
  <2>2. \A o \in {"code", "params"} : Deletion(o) \in Ignored
    BY DEF Deletion, Ignored
  <2>3. ObjectsHeld(s)
    BY DEF Place
  <2>4. QED
    BY <1>9, <1>10, <1>14, <2>1, <2>2, <2>3 DEF ObjectsHeld, ObjectMayStay
<1>17. PhasesOfKind(s)'
  <2>1. stmt[s].kind \in Using
    BY <1>2 DEF Place, PhasesOfKind
  <2>2. \A p \in {"cleanSub", "cleanTop", "offline", "drop result", "drop old", "create new", "draw"} :
          p \in Left(s)' <=> p \in Left(s)
    BY <1>13
  <2>3. PhasesOfKind(s)
    BY DEF Place
  <2>4. QED
    BY <1>9, <2>1, <2>2, <2>3 DEF PhasesOfKind
<1>18. JobPlace(s)'
  <2>1. JobPlace(s) /\ "type" \in Left(s)
    BY <1>2 DEF Place
  <2>2. ses[s].job \notin Going \cup {"failing"}
    BY <1>1, <2>1 DEF At, JobPlace
  <2>3. ses[s].job \notin {"done", "failed"}
    BY <1>11, <2>1 DEF JobPlace
  <2>4. \A p \in {"submit", "unsupported"} : p \in Left(s)' <=> p \in Left(s)
    BY <1>13
  <2>5. QED
    BY <1>9, <1>10, <2>1, <2>2, <2>3, <2>4 DEF JobPlace, Going
<1>19. FigureKeyed(s)'
  <2>1. \A p \in {"submit", "draw", "codegen"} : p \in Left(s)' <=> p \in Left(s)
    BY <1>13
  <2>2. FigureKeyed(s)
    BY DEF Place
  <2>3. QED
    BY <1>9, <1>10, <2>1, <2>2 DEF FigureKeyed
<1>20. QED
  BY <1>2, <1>6, <1>7, <1>8, <1>12, <1>15, <1>16, <1>17, <1>18, <1>19 DEF Place
-----------------------------------------------------------------------------
(* Temporary tables and uploaded objects. *)

\* The second phase is the first of the rest.
LEMMA Second ==
    ASSUME NEW z \in Seq(Phases), z # <<>>, Tail(z) # <<>>
    PROVE  Head(Tail(z)) = z[2]
<1>1. PICK n \in Nat : n = Len(z)
  OBVIOUS
<1>2. n # 0 /\ Tail(z) \in Seq(Phases) /\ Len(Tail(z)) = n - 1
  BY <1>1
<1>3. n - 1 # 0
  BY <1>2
<1>4. \A i \in 1..(n - 1) : Tail(z)[i] = z[i + 1]
  BY <1>1, <1>2
<1>5. 1 \in 1..(n - 1) /\ 1 + 1 = 2
  BY <1>1, <1>2, <1>3
<1>6. QED
  BY <1>2, <1>4, <1>5

\* The phases in front of the temporary tables.
LEMMA TmpFirst ==
    ASSUME TypeOK, NEW s \in Sessions, InOrder(s), ses[s].todo # <<>>
    PROVE  LET h == Head(ses[s].todo)
               rest == Range(Tail(ses[s].todo))
           IN /\ "tmp" \notin rest
              /\ h \in {"valid", "concat"} => rest \cap {"valid", "concat"} = {}
              /\ h = "tmp" /\ "submit" \in Left(s) =>
                   (ses[s].todo[2] \in {"valid", "concat"} <=> rest \cap {"valid", "concat"} # {})
<1> DEFINE h == Head(ses[s].todo)
           rest == Range(Tail(ses[s].todo))
           q == Tail(ses[s].todo)
<1>1. /\ ses[s].todo \in Seq(Phases) /\ Ordered(ses[s].todo)
      /\ h \in Phases /\ Left(s) = {h} \cup rest /\ \A p \in rest : Follows(h, p)
  BY StatementTypes, HeadFacts DEF SessionType, InOrder
<1>2. "tmp" \notin rest
  BY <1>1, Follow
<1>3. h \in {"valid", "concat"} => rest \cap {"valid", "concat"} = {}
  BY <1>1, Follow
<1>4. ASSUME h = "tmp", "submit" \in Left(s)
      PROVE  ses[s].todo[2] \in {"valid", "concat"} <=> rest \cap {"valid", "concat"} # {}
  <2>1. q \in Seq(Phases) /\ Ordered(q) /\ rest = Range(q)
    BY <1>1, TailLeft
  <2>2. q # <<>>
    <3>1. "submit" \in Range(q)
      BY <1>1, <1>4, <2>1
    <3> HIDE DEF q
    <3>2. QED
      BY <3>1, NothingLeft
  <2>3. Head(q) = ses[s].todo[2]
    <3>1. \A z \in Seq(Phases) : z # <<>> /\ Tail(z) # <<>> => Head(Tail(z)) = z[2]
      BY Second, Zenon
    <3>2. ses[s].todo \in Seq(Phases) /\ ses[s].todo # <<>> /\ Tail(ses[s].todo) # <<>>
      BY <1>1, <2>2
    <3>3. QED
      BY <3>1, <3>2, Zenon
  <2> HIDE DEF q
  <2>4. /\ Head(q) \in Phases /\ rest = {Head(q)} \cup Range(Tail(q))
        /\ \A p \in Range(Tail(q)) : Follows(Head(q), p)
    BY <2>1, <2>2, TailLeft
  <2>5. Head(q) # "tmp"
    BY <1>2, <2>4
  <2>6. "valid" \notin Range(Tail(q)) /\ "concat" \notin Range(Tail(q))
    BY <2>4, <2>5, Follow
  <2>7. QED
    BY <2>3, <2>4, <2>6
<1>5. QED
  BY <1>2, <1>3, <1>4

\* The temporary tables come first: nothing else is disturbed by them.
LEMMA FirstHeld ==
    ASSUME TypeOK, NEW s \in Sessions, Place(s), ses[s].todo # <<>>,
           Head(ses[s].todo) \in {"tmp", "valid", "concat"}, NEW r, Advanced(s, r),
           r.todo = ses[s].todo, r.res = ses[s].res, r.cmd = ses[s].cmd, r.key = ses[s].key,
           r.job = ses[s].job, ses[s].bad \subseteq r.bad, r.bad \subseteq ses[s].bad \cup {"drop"},
           UNCHANGED <<stmt, objects>>
    PROVE  /\ InOrder(s)' /\ ObjectsHeld(s)' /\ PhasesOfKind(s)' /\ JobPlace(s)' /\ FigureKeyed(s)'
           /\ Left(s) = {Head(ses[s].todo)} \cup Left(s)' /\ "submit" \in Left(s)'
           /\ ses[s].names = <<>> /\ ses[s].defer = <<>>
<1> DEFINE h == Head(ses[s].todo)
<1>1. h \notin Ignored /\ h \in {"tmp", "valid", "concat"}
  BY DEF Ignored
<1>2. /\ InOrder(s)' /\ Left(s) = {h} \cup Left(s)'
      /\ \A p \in Left(s)' : Follows(h, p)
  BY <1>1, AdvancedLeft DEF Place
<1>3. /\ ses'[s].defer = r.defer /\ ses'[s].names = r.names /\ ses'[s].bad = r.bad
      /\ ses'[s].cmd = ses[s].cmd /\ ses'[s].key = ses[s].key /\ ses'[s].job = ses[s].job
      /\ stmt' = stmt /\ objects' = objects
  BY DEF Advanced, Rest
<1>4. Due(s) = Left(s) \cup Range(ses[s].defer)
  BY DEF Due
<1> HIDE DEF h
<1>5. ses[s].defer = <<>> /\ ses[s].names = <<>> /\ "submit" \in Left(s)
  BY <1>1, <1>2 DEF Place, TablesHeld
<1>6. "submit" \in Left(s)'
  BY <1>1, <1>2, <1>5
<1>7. ObjectsHeld(s)'
  <2>1. ObjectsHeld(s)
    BY DEF Place
  <2>2. "upload" \in Left(s)' <=> "upload" \in Left(s)
    BY <1>1, <1>2
  <2>3. \A o \in {"code", "params"} : Deletion(o) \notin Due(s)
    <3>1. Left(s) \cap Ignored = {}
      BY <1>1, <1>2 DEF Place, InOrder
    <3>2. \A o \in {"code", "params"} : Deletion(o) \in Ignored
      BY DEF Deletion, Ignored
    <3>3. QED
      BY <1>4, <1>5, <3>1, <3>2, NothingLeft
  <2>4. \A o \in {"code", "params"} : ObjectMayStay(s, o) => ObjectMayStay(s, o)'
    BY <1>3, Staying
  <2>5. QED
    BY <1>2, <1>3, <2>1, <2>2, <2>3, <2>4 DEF ObjectsHeld
<1>8. PhasesOfKind(s)'
  BY <1>2, <1>3 DEF Place, PhasesOfKind
<1>9. JobPlace(s)'
  <2>1. JobPlace(s) /\ h \in Left(s)
    BY <1>2 DEF Place
  <2>2. ses[s].job \notin Going \cup {"failing"}
    BY <1>1, <2>1 DEF At, JobPlace, h
  <2>3. ses[s].job \notin {"done", "failed"}
    BY <1>1, <2>1 DEF JobPlace
  <2>4. \A p \in {"submit", "unsupported"} : p \in Left(s)' <=> p \in Left(s)
    BY <1>1, <1>2
  <2>5. r.bad \subseteq Ignored => ses[s].bad \subseteq Ignored
    OBVIOUS
  <2>6. QED
    BY <1>3, <2>1, <2>2, <2>3, <2>4, <2>5 DEF JobPlace, Going
<1>10. FigureKeyed(s)'
  <2>1. FigureKeyed(s)
    BY DEF Place
  <2>2. "codegen" \in Left(s)' <=> "codegen" \in Left(s)
    BY <1>1, <1>2
  <2>3. QED
    BY <1>2, <1>3, <2>1, <2>2 DEF FigureKeyed
<1>11. QED
  BY <1>2, <1>5, <1>6, <1>7, <1>8, <1>9, <1>10 DEF h

\* The last of the temporary tables is there, and all are noted.
LEMMA NotedPlace ==
    ASSUME TypeOK, NEW s \in Sessions, Place(s), ses[s].todo # <<>>,
           Head(ses[s].todo) \in {"tmp", "valid", "concat"}, NEW r, Advanced(s, r),
           r.todo = ses[s].todo, r.res = ses[s].res, r.cmd = ses[s].cmd, r.key = ses[s].key,
           r.job = ses[s].job, ses[s].bad \subseteq r.bad, r.bad \subseteq ses[s].bad \cup {"drop"},
           Range(r.defer) = {"drop"},
           r.names \in {<<Tmp(s, 1)>>, <<Tmp(s, 2)>>, <<Tmp(s, 1), Tmp(s, 2)>>},
           Left(s)' \cap {"tmp", "valid", "concat"} = {},
           Range(r.names) \subseteq tables',
           \A n \in 1..2 : Tmp(s, n) \in tables' =>
               Tmp(s, n) \in Range(r.names) \/ MayStay(s, n)',
           UNCHANGED <<stmt, objects>>
    PROVE  Place(s)'
<1>1. InOrder(s)' /\ ObjectsHeld(s)' /\ PhasesOfKind(s)' /\ JobPlace(s)' /\ FigureKeyed(s)'
  BY FirstHeld
<1>2. /\ ses'[s].defer = r.defer /\ ses'[s].names = r.names /\ ses'[s].bad = r.bad
      /\ stmt' = stmt
  BY DEF Advanced, Rest
<1>3. "drop" \in Due(s)'
  BY <1>2 DEF Due
<1>4. r.names # <<>>
  <2>1. \A x, y : <<x>> # <<>> /\ <<x, y>> # <<>>
    OBVIOUS
  <2>2. QED
    BY <2>1
<1>5. TablesHeld(s)'
  BY <1>2, <1>3, <1>4 DEF TablesHeld
<1>6. QED
  BY <1>1, <1>5 DEF Place

\* The first of two temporary tables is there.
LEMMA WaitingPlace ==
    ASSUME TypeOK, NEW s \in Sessions, Place(s), At(s, "tmp"), Advanced(s, ses[s]),
           Left(s)' \cap {"valid", "concat"} # {}, "tmp" \notin Left(s)',
           tables' = tables \cup {Tmp(s, 1)}, UNCHANGED <<stmt, objects>>
    PROVE  Place(s)'
<1>1. ses[s].todo # <<>> /\ Head(ses[s].todo) = "tmp"
  BY DEF At
<1>2. /\ InOrder(s)' /\ ObjectsHeld(s)' /\ PhasesOfKind(s)' /\ JobPlace(s)' /\ FigureKeyed(s)'
      /\ Left(s) = {"tmp"} \cup Left(s)' /\ "submit" \in Left(s)'
      /\ ses[s].names = <<>> /\ ses[s].defer = <<>>
  BY <1>1, FirstHeld
<1>3. /\ ses'[s].defer = <<>> /\ ses'[s].names = <<>> /\ ses'[s].bad = ses[s].bad
      /\ stmt' = stmt
  BY <1>2 DEF Advanced, Rest
<1>4. \A n \in 1..2 : Tmp(s, n) \in tables => MayStay(s, n)'
  <2>1. TablesHeld(s) /\ "tmp" \in Left(s) /\ Range(<<>>) = {}
    BY <1>2, NothingLeft DEF Place
  <2>2. \A n \in 1..2 : MayStay(s, n) => MayStay(s, n)'
    BY <1>3, Staying
  <2>3. QED
    BY <1>2, <2>1, <2>2 DEF TablesHeld
<1>5. \A n \in 1..2 : Tmp(s, n) \in tables' => n = 1 \/ Tmp(s, n) \in tables
  BY DEF Tmp
<1>6. TablesHeld(s)'
  <2>1. Range(<<>>) = {}
    BY NothingLeft
  <2>2. QED
    BY <1>2, <1>3, <1>4, <1>5, <2>1 DEF TablesHeld
<1>7. QED
  BY <1>2, <1>6 DEF Place

\* The second table of an optimization could not be made.
LEMMA ConcatFailedPlace ==
    ASSUME TypeOK, NEW s \in Sessions, Place(s), At(s, "concat"),
           NEW r \in SessionType(s), Failed(s, r), r.todo = ses[s].todo, r.defer = ses[s].defer,
           r.names = ses[s].names, r.res = ses[s].res, r.cmd = ses[s].cmd, r.key = ses[s].key,
           r.job = ses[s].job, ses[s].bad \subseteq r.bad,
           tables' \subseteq tables \cup {Tmp(s, 2)}, Tmp(s, 1) \notin tables' \/ "drop" \in r.bad,
           UNCHANGED <<stmt, objects>>
    PROVE  Place(s)'
<1>1. ses[s].todo # <<>> /\ Head(ses[s].todo) = "concat"
  BY DEF At
<1>2. "concat" \in Left(s) /\ "concat" \notin Ignored /\ Left(s) \cap Ignored = {}
  BY <1>1, HeadFacts DEF Place, Ignored
<1>3. ses[s].names = <<>> /\ ses[s].defer = <<>> /\ TablesHeld(s)
  BY <1>2 DEF Place, TablesHeld
<1>4. /\ InOrder(s)' /\ Left(s)' = {} /\ Due(s)' = {}
      /\ ses'[s].bad = r.bad \cup {"concat"} /\ ses'[s].defer = <<>>
  BY <1>1, <1>3, FailedLeft, NothingLeft DEF Place
<1>5. /\ ses'[s].names = <<>> /\ ses'[s].cmd = ses[s].cmd /\ ses'[s].key = ses[s].key
      /\ ses'[s].job = ses[s].job /\ stmt' = stmt /\ objects' = objects
  BY <1>3 DEF Failed, Rest, SessionType
<1>6. TablesHeld(s)'
  <2>1. Range(<<>>) = {}
    BY NothingLeft
  <2>2. \A n \in 1..2 : Tmp(s, n) \in tables' => MayStay(s, n)'
    BY <1>4 DEF MayStay
  <2>3. QED
    BY <1>4, <1>5, <2>1, <2>2 DEF TablesHeld
<1>7. ObjectsHeld(s)'
  <2>1. \A o \in {"code", "params"} : Deletion(o) \notin Due(s)
    <3>1. \A o \in {"code", "params"} : Deletion(o) \in Ignored
      BY DEF Deletion, Ignored
    <3>2. Due(s) = Left(s)
      BY <1>3, NothingLeft DEF Due
    <3>3. QED
      BY <1>2, <3>1, <3>2
  <2>2. ObjectsHeld(s)
    BY DEF Place
  <2>3. \A o \in {"code", "params"} : ObjectMayStay(s, o) => ObjectMayStay(s, o)'
    BY <1>4, Staying
  <2>4. QED
    BY <1>4, <1>5, <2>1, <2>2, <2>3 DEF ObjectsHeld
<1>8. PhasesOfKind(s)'
  BY <1>4 DEF PhasesOfKind
<1>9. JobPlace(s)'
  <2>1. JobPlace(s)
    BY DEF Place
  <2>2. ses[s].job \notin Going \cup {"failing"}
    BY <1>1, <2>1 DEF At, JobPlace
  <2>3. QED
    BY <1>2, <1>4, <1>5, <2>1, <2>2 DEF JobPlace, Going
<1>10. FigureKeyed(s)'
  BY <1>4, <1>5 DEF Place, FigureKeyed
<1>11. QED
  BY <1>4, <1>6, <1>7, <1>8, <1>9, <1>10 DEF Place

\* An object has been sent, or its upload has failed unseen; its deletion is
\* registered.
LEMMA UploadPlace ==
    ASSUME TypeOK, NEW s \in Sessions, Place(s), ses[s].todo # <<>>,
           NEW o \in {"code", "params"},
           Head(ses[s].todo) = IF o = "code" THEN "upload" ELSE "params",
           NEW r, Advanced(s, r), r.todo = ses[s].todo, r.names = ses[s].names,
           r.bad = ses[s].bad, r.res = ses[s].res, r.cmd = ses[s].cmd, r.key = ses[s].key,
           r.job = ses[s].job, Range(r.defer) = {Deletion(o)} \cup Range(ses[s].defer),
           objects \subseteq objects', objects' \subseteq objects \cup {<<s, o>>},
           o = "code" => <<s, o>> \in objects',
           UNCHANGED <<stmt, tables>>
    PROVE  Place(s)'
<1> DEFINE h == Head(ses[s].todo)
<1>1. h \in {"upload", "params"} /\ h \notin Ignored
  BY DEF Ignored
<1>2. /\ InOrder(s)' /\ Left(s) = {h} \cup Left(s)'
      /\ \A p \in Left(s)' : Follows(h, p)
  BY <1>1, AdvancedLeft DEF Place
<1>3. /\ ses'[s].defer = r.defer /\ ses'[s].names = ses[s].names /\ ses'[s].bad = ses[s].bad
      /\ ses'[s].cmd = ses[s].cmd /\ ses'[s].key = ses[s].key /\ ses'[s].job = ses[s].job
      /\ stmt' = stmt /\ tables' = tables
  BY DEF Advanced, Rest
<1>4. /\ Due(s) = Left(s) \cup Range(ses[s].defer)
      /\ Due(s)' = Left(s)' \cup {Deletion(o)} \cup Range(ses[s].defer)
  BY <1>3 DEF Due
<1>5. h = "upload" => o = "code"
  OBVIOUS
<1> HIDE DEF h
<1>6. TablesHeld(s)'
  <2>1. TablesHeld(s)
    BY DEF Place
  <2>2. \A p \in {"tmp", "valid", "concat", "submit"} : p \in Left(s)' <=> p \in Left(s)
    BY <1>1, <1>2
  <2>3. "drop" \in Due(s) => "drop" \in Due(s)'
    BY <1>1, <1>2, <1>4
  <2>4. Left(s)' \cap {"tmp", "valid", "concat"} = {} /\ Left(s) \cap {"tmp", "valid", "concat"} = {}
    <3>1. h \in Phases
      BY <1>1 DEF Phases
    <3>2. "tmp" \notin Left(s)' /\ "valid" \notin Left(s)' /\ "concat" \notin Left(s)'
      BY <1>1, <1>2, <3>1, Follow
    <3>3. QED
      BY <1>1, <1>2, <3>2
  <2>5. QED
    BY <1>3, <2>1, <2>2, <2>3, <2>4 DEF TablesHeld, MayStay
<1>7. ObjectsHeld(s)'
  <2>1. ObjectsHeld(s)
    BY DEF Place
  <2>2. \A c \in {"code", "params"} : Deletion(c) \in Due(s) => Deletion(c) \in Due(s)'
    <3>1. \A c \in {"code", "params"} : Deletion(c) \in Ignored
      BY DEF Deletion, Ignored
    <3>2. QED
      BY <1>1, <1>2, <1>4, <3>1
  <2>3. \A c \in {"code", "params"} : <<s, c>> \in objects' => <<s, c>> \in objects \/ c = o
    OBVIOUS
  <2>4. "upload" \in Left(s) => "upload" \in Left(s)' \/ o = "code"
    BY <1>2, <1>5
  <2>5. "submit" \in Left(s)' => "submit" \in Left(s)
    BY <1>2
  <2>6. Deletion(o) \in Due(s)'
    BY <1>4
  <2>7. QED
    BY <1>3, <2>1, <2>2, <2>3, <2>4, <2>5, <2>6 DEF ObjectsHeld, ObjectMayStay
<1>8. PhasesOfKind(s)'
  BY <1>2, <1>3 DEF Place, PhasesOfKind
<1>9. JobPlace(s)'
  <2>1. JobPlace(s) /\ h \in Left(s)
    BY <1>2 DEF Place
  <2>2. ses[s].job \notin Going \cup {"failing"}
    BY <1>1, <2>1 DEF At, JobPlace, h
  <2>3. ses[s].job \notin {"done", "failed"}
    BY <1>1, <2>1 DEF JobPlace
  <2>4. \A p \in {"submit", "unsupported"} : p \in Left(s)' <=> p \in Left(s)
    BY <1>1, <1>2
  <2>5. QED
    BY <1>3, <2>1, <2>2, <2>3, <2>4 DEF JobPlace, Going
<1>10. FigureKeyed(s)'
  <2>1. FigureKeyed(s)
    BY DEF Place
  <2>2. "codegen" \in Left(s)' <=> "codegen" \in Left(s)
    BY <1>1, <1>2
  <2>3. QED
    BY <1>2, <1>3, <2>1, <2>2 DEF FigureKeyed
<1>11. QED
  BY <1>2, <1>6, <1>7, <1>8, <1>9, <1>10 DEF Place
-----------------------------------------------------------------------------
(* The deferred calls. *)

\* What unwinding means for the phases left.
LEMMA Unwinding ==
    ASSUME TypeOK, NEW s \in Sessions, Place(s), Left(s)' \subseteq Ignored, Left(s) \subseteq Ignored,
           ses'[s].cmd = ses[s].cmd, ses'[s].key = ses[s].key, ses'[s].job = ses[s].job,
           ses[s].res = "running",
           ses'[s].bad = ses[s].bad \/ ses'[s].bad \ ses[s].bad \subseteq Ignored,
           ses[s].bad \subseteq ses'[s].bad,
           stmt' = stmt
    PROVE  /\ PhasesOfKind(s)' /\ JobPlace(s)' /\ FigureKeyed(s)'
           /\ Left(s) \cap {"tmp", "valid", "concat", "submit", "upload"} = {}
           /\ Left(s)' \cap {"tmp", "valid", "concat", "submit", "upload"} = {}
<1>1. \A p \in Ignored : p \notin {"tmp", "valid", "concat", "submit", "upload", "codegen", "draw",
         "cleanSub", "cleanTop", "offline", "type", "read", "xgb", "drop result", "drop old",
         "create new", "unsupported"}
  BY DEF Ignored
<1>2. PhasesOfKind(s)'
  BY <1>1 DEF PhasesOfKind
<1>3. JobPlace(s)'
  <2>1. JobPlace(s)
    BY DEF Place
  <2>2. ~At(s, "submit")
    <3>1. At(s, "submit") => "submit" \in Left(s)
      BY HeadFacts DEF At, Place
    <3>2. QED
      BY <1>1, <3>1
  <2>3. ses'[s].bad \subseteq Ignored => ses[s].bad \subseteq Ignored
    OBVIOUS
  <2>4. stmt[s].kind # "idle"
    BY <2>1 DEF JobPlace
  <2>5. Left(s) \cap {"submit", "unsupported"} = {}
    BY <1>1
  <2>6. QED
    BY <2>1, <2>2, <2>3, <2>4, <2>5 DEF JobPlace, Going
<1>4. FigureKeyed(s)'
  BY <1>1 DEF Place, FigureKeyed
<1>5. QED
  BY <1>1, <1>2, <1>3, <1>4

\* A deferred call is over, done or failed.
LEMMA UnwoundPlace ==
    ASSUME TypeOK, NEW s \in Sessions, Place(s), ses[s].todo # <<>>,
           Head(ses[s].todo) \in Ignored,
           NEW r, Advanced(s, r), r.todo = ses[s].todo, r.defer = ses[s].defer,
           r.names = ses[s].names \/ (r.names = <<>> /\ "drop" \in r.bad),
           r.res = ses[s].res, r.cmd = ses[s].cmd,
           r.key = ses[s].key, r.job = ses[s].job,
           r.bad \in {ses[s].bad, ses[s].bad \cup {Head(ses[s].todo)}},
           Head(ses[s].todo) = "drop" => ses[s].names = <<>> \/ "drop" \in r.bad,
           objects' \subseteq objects, tables' \subseteq tables, tables' = tables \/ r.names = <<>>,
           \A o \in {"code", "params"} :
               Head(ses[s].todo) = Deletion(o) /\ <<s, o>> \in objects' => Deletion(o) \in r.bad,
           UNCHANGED stmt
    PROVE  Place(s)'
<1> DEFINE h == Head(ses[s].todo)
<1>1. /\ InOrder(s)' /\ Left(s) = {h} \cup Left(s)' /\ Left(s) \subseteq Ignored
      /\ ses[s].res = "running"
  BY AdvancedLeft, HeadFacts DEF Place
<1>2. /\ ses'[s].defer = ses[s].defer /\ ses'[s].names = r.names /\ ses'[s].bad = r.bad
      /\ ses'[s].cmd = ses[s].cmd /\ ses'[s].key = ses[s].key /\ ses'[s].job = ses[s].job
      /\ stmt' = stmt
  BY DEF Advanced, Rest
<1>3. /\ Due(s) = Left(s) \cup Range(ses[s].defer)
      /\ Due(s)' = Left(s)' \cup Range(ses[s].defer)
  BY <1>2 DEF Due
<1>4. ses[s].bad \subseteq r.bad /\ (r.bad = ses[s].bad \/ r.bad \ ses[s].bad \subseteq Ignored)
  OBVIOUS
<1>5. Left(s)' \subseteq Ignored
  BY <1>1
<1> HIDE DEF h
<1>6. /\ PhasesOfKind(s)' /\ JobPlace(s)' /\ FigureKeyed(s)'
      /\ Left(s) \cap {"tmp", "valid", "concat", "submit", "upload"} = {}
      /\ Left(s)' \cap {"tmp", "valid", "concat", "submit", "upload"} = {}
  BY <1>1, <1>2, <1>4, <1>5, Unwinding
<1>7. TablesHeld(s)'
  <2>1. TablesHeld(s)
    BY DEF Place
  <2>2. "drop" \in Due(s) => "drop" \in Due(s)' \/ h = "drop"
    BY <1>1, <1>3
  <2>3. h = "drop" => ses[s].names = <<>> \/ "drop" \in r.bad
    BY DEF h
  <2>4. \A n \in 1..2 : Tmp(s, n) \in tables' =>
            (Tmp(s, n) \in Range(r.names) /\ "drop" \in Due(s)') \/ MayStay(s, n)'
    <3>1. SUFFICES ASSUME NEW n \in 1..2, Tmp(s, n) \in tables, ~MayStay(s, n)'
                   PROVE  Tmp(s, n) \in Range(r.names) /\ "drop" \in Due(s)'
      OBVIOUS
    <3>2. ~MayStay(s, n) /\ "drop" \notin r.bad
      BY <1>2, <1>4, <3>1 DEF MayStay
    <3>3. Left(s) \cap {"valid", "concat"} = {}
      BY <1>6
    <3>4. Tmp(s, n) \in Range(ses[s].names) /\ "drop" \in Due(s)
      BY <2>1, <3>1, <3>2, <3>3 DEF TablesHeld
    <3>5. ses[s].names # <<>>
      BY <3>4, NothingLeft
    <3>6. QED
      BY <2>2, <2>3, <3>2, <3>4, <3>5
  <2>5. Left(s)' \cap {"tmp", "valid", "concat"} = {} /\ "submit" \notin Left(s)'
    BY <1>6
  <2>6. /\ r.names \in {<<>>, <<Tmp(s, 1)>>, <<Tmp(s, 2)>>, <<Tmp(s, 1), Tmp(s, 2)>>}
        /\ Range(r.names) \subseteq tables'
    <3>1. CASE r.names = <<>>
      BY <3>1, NothingLeft
    <3>2. CASE r.names # <<>>
      BY <2>1, <3>2 DEF TablesHeld
    <3>3. QED
      BY <3>1, <3>2
  <2>7. QED
    BY <1>2, <2>4, <2>5, <2>6 DEF TablesHeld
<1>8. ObjectsHeld(s)'
  <2>1. ObjectsHeld(s)
    BY DEF Place
  <2>2. \A o \in {"code", "params"} : Deletion(o) \in Due(s) => Deletion(o) \in Due(s)' \/ h = Deletion(o)
    BY <1>1, <1>3
  <2>3. \A o \in {"code", "params"} : h = Deletion(o) /\ <<s, o>> \in objects' => Deletion(o) \in r.bad
    BY DEF h
  <2>4. \A o \in {"code", "params"} : Deletion(o) \in Ignored
    BY DEF Deletion, Ignored
  <2>5. \A o \in {"code", "params"} : <<s, o>> \in objects' =>
            Deletion(o) \in Due(s)' \/ ObjectMayStay(s, o)'
    <3>1. SUFFICES ASSUME NEW o \in {"code", "params"}, <<s, o>> \in objects'
                   PROVE  Deletion(o) \in Due(s)' \/ ObjectMayStay(s, o)'
      OBVIOUS
    <3>2. <<s, o>> \in objects
      BY <3>1
    <3>3. Deletion(o) \in Due(s) \/ ObjectMayStay(s, o)
      BY <2>1, <3>2 DEF ObjectsHeld
    <3>4. Deletion(o) \in Due(s)' \/ Deletion(o) \in r.bad \/ ObjectMayStay(s, o)
      BY <2>2, <2>3, <3>1, <3>3
    <3>5. QED
      BY <1>2, <1>4, <3>4 DEF ObjectMayStay
  <2>6. "submit" \notin Left(s)'
    BY <1>6
  <2>7. QED
    BY <1>2, <2>5, <2>6 DEF ObjectsHeld
<1>9. QED
  BY <1>1, <1>6, <1>7, <1>8 DEF Place

\* The first noted table has been dropped.
LEMMA NamesLeft ==
    ASSUME NEW s, NEW names, names # <<>>,
           names \in {<<>>, <<Tmp(s, 1)>>, <<Tmp(s, 2)>>, <<Tmp(s, 1), Tmp(s, 2)>>}
    PROVE  /\ Tail(names) \in {<<>>, <<Tmp(s, 1)>>, <<Tmp(s, 2)>>, <<Tmp(s, 1), Tmp(s, 2)>>}
           /\ Range(names) = {Head(names)} \cup Range(Tail(names))
           /\ Head(names) \notin Range(Tail(names))
           /\ Head(names) \in {Tmp(s, 1), Tmp(s, 2)}
<1>1. Tmp(s, 1) # Tmp(s, 2)
  BY DEF Tmp
<1>2. ASSUME NEW a PROVE Head(<<a>>) = a /\ Tail(<<a>>) = <<>> /\ Range(<<a>>) = {a}
  <2>1. Head(<<a>>) = a /\ Tail(<<a>>) = <<>>
    OBVIOUS
  <2>2. QED
    BY <2>1, OneLeft
<1>3. ASSUME NEW a, NEW b
      PROVE  Head(<<a, b>>) = a /\ Tail(<<a, b>>) = <<b>> /\ Range(<<a, b>>) = {a, b}
  <2>1. Head(<<a, b>>) = a /\ Tail(<<a, b>>) = <<b>>
    OBVIOUS
  <2>2. DOMAIN <<a, b>> = {1, 2} /\ <<a, b>>[1] = a /\ <<a, b>>[2] = b
    OBVIOUS
  <2>3. QED
    BY <2>1, <2>2 DEF Range
<1>4. CASE names = <<Tmp(s, 1), Tmp(s, 2)>>
  <2>1. Head(names) = Tmp(s, 1) /\ Tail(names) = <<Tmp(s, 2)>> /\ Range(names) = {Tmp(s, 1), Tmp(s, 2)}
    BY <1>3, <1>4
  <2>2. Range(Tail(names)) = {Tmp(s, 2)}
    BY <1>2, <2>1
  <2>3. QED
    BY <1>1, <2>1, <2>2
<1>5. CASE names \in {<<Tmp(s, 1)>>, <<Tmp(s, 2)>>}
  <2>1. PICK a \in {Tmp(s, 1), Tmp(s, 2)} : names = <<a>>
    BY <1>5
  <2>2. Head(names) = a /\ Tail(names) = <<>> /\ Range(names) = {a} /\ Range(<<>>) = {}
    BY <1>2, <2>1, NothingLeft
  <2>3. QED
    BY <2>1, <2>2
<1>6. QED
  BY <1>4, <1>5

\* One more of the noted tables is gone, and with it its name.
LEMMA DroppedPlace ==
    ASSUME TypeOK, NEW s \in Sessions, Place(s), ses[s].todo # <<>>,
           Head(ses[s].todo) \in Ignored, ses[s].names # <<>>,
           ses'[s].todo = ses[s].todo, ses'[s].defer = ses[s].defer,
           ses'[s].names = Tail(ses[s].names), ses'[s].bad = ses[s].bad,
           ses'[s].res = ses[s].res, ses'[s].cmd = ses[s].cmd, ses'[s].key = ses[s].key,
           ses'[s].job = ses[s].job,
           tables' = tables \ {Head(ses[s].names)}, UNCHANGED <<stmt, objects>>
    PROVE  Place(s)'
<1>1. Left(s)' = Left(s) /\ Due(s)' = Due(s) /\ Left(s) \subseteq Ignored /\ ses[s].res = "running"
  BY HeadFacts DEF Left, Due, Place
<1>2. /\ PhasesOfKind(s)' /\ JobPlace(s)' /\ FigureKeyed(s)'
      /\ Left(s) \cap {"tmp", "valid", "concat", "submit", "upload"} = {}
  BY <1>1, Unwinding
<1>3. InOrder(s)' /\ ObjectsHeld(s)'
  BY <1>1 DEF Place, InOrder, ObjectsHeld, Ended, ObjectMayStay
<1>4. TablesHeld(s)'
  <2>1. TablesHeld(s)
    BY DEF Place
  <2>2. /\ Tail(ses[s].names) \in {<<>>, <<Tmp(s, 1)>>, <<Tmp(s, 2)>>, <<Tmp(s, 1), Tmp(s, 2)>>}
        /\ Range(ses[s].names) = {Head(ses[s].names)} \cup Range(Tail(ses[s].names))
        /\ Head(ses[s].names) \notin Range(Tail(ses[s].names))
    BY <2>1, NamesLeft DEF TablesHeld
  <2> DEFINE names == Tail(ses[s].names)
  <2>3. Range(names) \subseteq tables'
    BY <2>1, <2>2 DEF TablesHeld
  <2>4. \A n \in 1..2 : Tmp(s, n) \in tables' =>
          (Tmp(s, n) \in Range(names) /\ "drop" \in Due(s)) \/ MayStay(s, n)
    <3>1. SUFFICES ASSUME NEW n \in 1..2, Tmp(s, n) \in tables, Tmp(s, n) # Head(ses[s].names),
                          ~MayStay(s, n)
                   PROVE  Tmp(s, n) \in Range(names) /\ "drop" \in Due(s)
      OBVIOUS
    <3>2. Left(s) \cap {"valid", "concat"} = {}
      BY <1>2
    <3>3. Tmp(s, n) \in Range(ses[s].names) /\ "drop" \in Due(s)
      BY <2>1, <3>1, <3>2 DEF TablesHeld
    <3>4. QED
      BY <2>2, <3>1, <3>3
  <2>5. Left(s)' \cap {"tmp", "valid", "concat"} = {} /\ "submit" \notin Left(s)'
    BY <1>1, <1>2
  <2>6. ses'[s].names = names /\ ses'[s].bad = ses[s].bad /\ Due(s)' = Due(s)
    BY <1>1
  <2> HIDE DEF names
  <2>7. names \in {<<>>, <<Tmp(s, 1)>>, <<Tmp(s, 2)>>, <<Tmp(s, 1), Tmp(s, 2)>>}
    BY <2>2 DEF names
  <2>8. QED
    BY <2>3, <2>4, <2>5, <2>6, <2>7 DEF TablesHeld, MayStay
<1>5. QED
  BY <1>2, <1>3, <1>4 DEF Place

\* The statement is over: its deferred calls are next, or it has ended.
LEMMA ReturnPlace ==
    ASSUME TypeOK, NEW s \in Sessions, Place(s), ses[s].todo = <<>>, ses[s].res = "running",
           ses'[s].todo = ses[s].defer, ses'[s].defer = <<>>,
           ses'[s].names = ses[s].names, ses'[s].bad = ses[s].bad,
           ses'[s].cmd = ses[s].cmd, ses'[s].key = ses[s].key, ses'[s].job = ses[s].job,
           ses'[s].res # "running" => ses[s].defer = <<>>,
           ses'[s].res = "ok" => ses[s].bad \subseteq Ignored, Quiet
    PROVE  Place(s)'
<1>1. /\ ses[s].defer \in Seq(Ignored) /\ ses[s].defer \in Seq(Phases)
      /\ Range(ses[s].defer) \subseteq Ignored
  BY StatementTypes, DeferredPhases DEF SessionType
<1>2. /\ Left(s) = {} /\ Left(s)' = Range(ses[s].defer) /\ Due(s)' = Due(s)
      /\ stmt' = stmt /\ tables' = tables /\ objects' = objects
  BY NothingLeft DEF Left, Due, Quiet
<1>3. Ordered(ses[s].defer)
  BY <1>1, Follow, DeferredPhases DEF Ordered
<1>4. InOrder(s)'
  BY <1>1, <1>2, <1>3 DEF InOrder, Ended
<1>5. /\ PhasesOfKind(s)' /\ JobPlace(s)' /\ FigureKeyed(s)'
      /\ Left(s)' \cap {"tmp", "valid", "concat", "submit", "upload"} = {}
  BY <1>1, <1>2, Unwinding
<1>6. TablesHeld(s)'
  <2>1. TablesHeld(s)
    BY DEF Place
  <2>2. Left(s)' \cap {"tmp", "valid", "concat"} = {} /\ "submit" \notin Left(s)'
    BY <1>5
  <2>3. QED
    BY <1>2, <2>1, <2>2 DEF TablesHeld, MayStay
<1>7. ObjectsHeld(s)'
  <2>1. "submit" \notin Left(s)'
    BY <1>5
  <2>2. QED
    BY <1>2, <2>1 DEF Place, ObjectsHeld, ObjectMayStay
<1>8. QED
  BY <1>4, <1>5, <1>6, <1>7 DEF Place
-----------------------------------------------------------------------------
(* What a step means to the other sessions. *)

\* The temporary tables and the uploaded objects are named after their
\* session, only trainings write models, a result table is written by the
\* statements INTO it, and a figure where the key of its session says; a key
\* is made once.
Effects(s) ==
    /\ stmt' = stmt /\ ses'[s] \in SessionType(s) /\ Others(s)
    /\ \A x \in Sessions \ {s} :
         /\ \A n \in 1..2 : Tmp(x, n) \in tables' <=> Tmp(x, n) \in tables
         /\ \A o \in {"code", "params"} : <<x, o>> \in objects' <=> <<x, o>> \in objects
    /\ \A m \in Models : \/ oss'[m] = oss[m] /\ offline'[m] = offline[m]
                         \/ stmt[s].kind = "train" /\ stmt[s].model = m
    /\ \A t \in Names : results'[t] = results[t] \/ stmt[s].into = t
    /\ ses'[s].key = ses[s].key \/ ses[s].key = <<>>
    /\ \A k \in DOMAIN figures' :
         k \in DOMAIN figures /\ (figures'[k] = figures[k] \/ (figures'[k] = s /\ k = ses'[s].key))

\* What concerns one session, its place excepted.
Sound(s) ==
    /\ FigureIsOwn(s) /\ ModelWaits(s) /\ ResumeFindsModel(s)
    /\ TypeBeingRead(s) /\ TypeIsSaved(s) /\ JobsWork(s)
    /\ ses[s].shown # "none" => ses[s].key # <<>>

\* Another session stays where it is.
LEMMA OthersPlace ==
    ASSUME TypeOK, NEW s \in Sessions, Effects(s), NEW x \in Sessions, x # s, Place(x)
    PROVE  Place(x)'
<1>1. ses'[x] = ses[x] /\ stmt' = stmt
  BY DEF Effects, Others
<1>2. Left(x)' = Left(x) /\ Due(x)' = Due(x)
  BY <1>1 DEF Left, Due
<1>3. /\ \A n \in 1..2 : Tmp(x, n) \in tables' <=> Tmp(x, n) \in tables
      /\ \A o \in {"code", "params"} : <<x, o>> \in objects' <=> <<x, o>> \in objects
  BY DEF Effects
<1>4. InOrder(x)' /\ PhasesOfKind(x)' /\ JobPlace(x)' /\ FigureKeyed(x)'
  <2>1. At(x, "submit")' <=> At(x, "submit")
    BY <1>1 DEF At
  <2>2. QED
    <3>1. InOrder(x) /\ PhasesOfKind(x) /\ JobPlace(x) /\ FigureKeyed(x)
      BY DEF Place
    <3>2. InOrder(x)'
      BY <1>1, <1>2, <3>1 DEF InOrder, Ended
    <3>3. PhasesOfKind(x)' /\ FigureKeyed(x)'
      BY <1>1, <1>2, <3>1 DEF PhasesOfKind, FigureKeyed
    <3>4. JobPlace(x)'
      BY <1>1, <1>2, <2>1, <3>1 DEF JobPlace
    <3>5. QED
      BY <3>2, <3>3, <3>4
<1>5. TablesHeld(x)'
  <2>1. TablesHeld(x)
    BY DEF Place
  <2>2. Range(ses[x].names) \subseteq tables'
    <3>1. \A t \in Range(ses[x].names) : \E n \in 1..2 : t = Tmp(x, n)
      <4>1. ses[x].names \in Seq({x} \X (1..2))
        BY StatementTypes DEF SessionType
      <4>2. Range(ses[x].names) \subseteq {x} \X (1..2)
        BY <4>1 DEF Range
      <4>3. QED
        BY <4>2 DEF Tmp
    <3>2. QED
      BY <1>3, <2>1, <3>1 DEF TablesHeld
  <2>3. QED
    BY <1>1, <1>2, <1>3, <2>1, <2>2 DEF TablesHeld, MayStay
<1>6. ObjectsHeld(x)'
  BY <1>1, <1>2, <1>3 DEF Place, ObjectsHeld, ObjectMayStay
<1>7. QED
  BY <1>4, <1>5, <1>6 DEF Place

\* The figures are where their sessions wanted them.
LEMMA FiguresKept ==
    ASSUME TypeOK, TypeOK', NEW s \in Sessions, Effects(s), FiguresInPlace
    PROVE  \A k \in DOMAIN figures' : figures'[k] # "none" => ses'[figures'[k]].key = k
<1>1. SUFFICES ASSUME NEW k \in DOMAIN figures', figures'[k] # "none"
               PROVE  ses'[figures'[k]].key = k
  OBVIOUS
<1>2. CASE figures'[k] = s /\ k = ses'[s].key
  BY <1>2
<1>3. CASE k \in DOMAIN figures /\ figures'[k] = figures[k]
  <2>1. ses[figures[k]].key = k /\ figures[k] \in Sessions
    BY <1>1, <1>3 DEF FiguresInPlace, TypeOK
  <2>2. k # <<>>
    <3>1. k \in {"u1", "u2"} \X Seconds
      BY <1>3 DEF TypeOK
    <3>2. PICK u \in {"u1", "u2"}, t \in Seconds : k = <<u, t>>
      BY <3>1
    <3>3. QED
      BY <3>2
  <2>3. CASE figures[k] = s
    BY <1>3, <2>1, <2>2, <2>3 DEF Effects
  <2>4. CASE figures[k] # s
    BY <1>3, <2>1, <2>4 DEF Effects, Others
  <2>5. QED
    BY <2>3, <2>4
<1>4. QED
  BY <1>1, <1>2, <1>3 DEF Effects

\* The figure shown to a session stays its own.
LEMMA ShownKept ==
    ASSUME TypeOK, NEW s \in Sessions, Effects(s), NEW x \in Sessions,
           FigureIsOwn(x), ses[x].shown # "none" => ses[x].key # <<>>, ses'[x].shown = ses[x].shown
    PROVE  FigureIsOwn(x)' /\ (ses'[x].shown # "none" => ses'[x].key # <<>>)
<1>1. SUFFICES ASSUME ses[x].shown # "none"
               PROVE  FigureIsOwn(x)' /\ ses'[x].key # <<>>
  BY DEF FigureIsOwn
<1>2. ses[x].shown \in Sessions
  BY <1>1, StatementTypes DEF SessionType
<1>3. \A y \in Sessions : ses[y].key # <<>> => ses'[y].key = ses[y].key
  BY DEF Effects, Others
<1>4. ses'[x].key = ses[x].key /\ stmt' = stmt
  BY <1>1, <1>3 DEF Effects
<1>5. QED
  BY <1>1, <1>2, <1>3, <1>4 DEF FigureIsOwn

\* What another session relies on is not touched.
LEMMA OthersSound ==
    ASSUME TypeOK, NEW s \in Sessions, Effects(s), NEW x \in Sessions, x # s, Sound(x)
    PROVE  Sound(x)'
<1>1. ses'[x] = ses[x] /\ stmt' = stmt /\ Left(x)' = Left(x)
  BY DEF Effects, Others, Left
<1>2. \A m \in Models : OtherTrains(x, m)' <=> OtherTrains(x, m)
  BY <1>1 DEF OtherTrains
<1>3. stmt[x].model \in Models /\ (stmt[x].load = stmt[x].model => stmt[x].load \in Models)
  BY StatementTypes DEF Statements
<1>4. ~OtherTrains(x, stmt[x].model) =>
        oss'[stmt[x].model] = oss[stmt[x].model] /\ offline'[stmt[x].model] = offline[stmt[x].model]
  BY <1>3 DEF Effects, OtherTrains
<1>5. FigureIsOwn(x)' /\ (ses'[x].shown # "none" => ses'[x].key # <<>>)
  BY <1>1, ShownKept DEF Sound
<1>6. ModelWaits(x)' 
  BY <1>1, <1>2, <1>3, <1>4 DEF Sound, ModelWaits, StoredObject, None
<1>7. ResumeFindsModel(x)'
  BY <1>1, <1>2, <1>3 DEF Sound, ResumeFindsModel
<1>8. TypeBeingRead(x)' /\ TypeIsSaved(x)'
  BY <1>1, <1>2, <1>3 DEF Sound, TypeBeingRead, TypeIsSaved
<1>9. JobsWork(x)'
  <2>1. Wrote(x)' = Wrote(x)
    BY <1>1 DEF Wrote
  <2>2. DidWork(x) => DidWork(x)'
    <3>1. ASSUME stmt[x].into # "none", \A o \in Sessions \ {x} : stmt[o].into # stmt[x].into
          PROVE  results'[stmt[x].into] = results[stmt[x].into]
      <4>1. stmt[x].into \in Names
        BY <3>1, StatementTypes DEF Statements
      <4>2. QED
        BY <3>1, <4>1 DEF Effects
    <3>2. QED
      BY <1>1, <1>2, <1>3, <1>4, <2>1, <3>1 DEF DidWork, Produces
  <2>3. QED
    BY <1>1, <1>2, <1>3, <1>4, <2>1, <2>2 DEF Sound, JobsWork
<1>10. QED
  BY <1>5, <1>6, <1>7, <1>8, <1>9 DEF Sound

\* A model that nobody trains is as it was.
LEMMA ModelsKept ==
    ASSUME TypeOK, NEW s \in Sessions, Effects(s), ModelsUntouched
    PROVE  ModelsUntouched'
<1>1. SUFFICES ASSUME NEW m \in Models, \A x \in Sessions : stmt[x].kind = "train" => stmt[x].model # m
               PROVE  (\A o \in Objects : oss'[m][o] = StoredObject(m, o)) /\ offline'[m] = StoredOffline(m)
  BY DEF Effects, ModelsUntouched, StoredObject, StoredOffline, None
<1>2. oss'[m] = oss[m] /\ offline'[m] = offline[m]
  BY <1>1 DEF Effects
<1>3. QED
  BY <1>1, <1>2 DEF ModelsUntouched

\* A job finds its inputs.
LEMMA InputsHeld ==
    TypeOK => \A s \in Sessions : Place(s) => JobHasInputs(s)
<1>1. SUFFICES ASSUME TypeOK, NEW s \in Sessions, Place(s), At(s, "submit") PROVE JobHasInputs(s)
  BY DEF JobHasInputs
<1>2. /\ "submit" \in Left(s) /\ Left(s) = {"submit"} \cup Range(Tail(ses[s].todo))
      /\ \A p \in Range(Tail(ses[s].todo)) : Follows("submit", p) /\ p \in Phases
  BY <1>1, HeadFacts DEF At, Place
<1>3. \A p \in Left(s) : p \in {"submit", "download", "save", "draw"} \cup Ignored
  BY <1>2, Follow
<1>4. Left(s) \cap {"tmp", "valid", "concat"} = {} /\ "upload" \notin Left(s)
  BY <1>3 DEF Ignored
<1>5. QED
  BY <1>1, <1>2, <1>4 DEF Place, TablesHeld, ObjectsHeld, JobHasInputs

\* The same after a step.
LEMMA InputsHeldNext ==
    (TypeOK => \A s \in Sessions : Place(s) => JobHasInputs(s))'
BY InputsHeld, PTL

\* All that has to be shown of a step of s.
Kept(s) == TypeOK' /\ Effects(s) /\ Place(s)' /\ Sound(s)'

\* It is enough: the other sessions, the figures and the models follow.
LEMMA KeptInvariant ==
    ASSUME OwnInputs, NEW s \in Sessions, Kept(s)
    PROVE  OwnInputs'
<1>1. TypeOK /\ TypeOK' /\ Effects(s)
  BY DEF OwnInputs, Kept
<1>2. ASSUME NEW x \in Sessions PROVE Place(x)' /\ Sound(x)'
  <2>1. CASE x = s
    BY <2>1 DEF Kept
  <2>2. CASE x # s
    <3>1. Place(x) /\ Sound(x)
      BY DEF OwnInputs, Sound, FiguresInPlace
    <3>2. QED
      BY <1>1, <2>2, <3>1, OthersPlace, OthersSound
  <2>3. QED
    BY <2>1, <2>2
<1>3. ASSUME NEW x \in Sessions PROVE JobHasInputs(x)'
  BY <1>1, <1>2, InputsHeldNext
<1>4. ModelsUntouched'
  BY <1>1, ModelsKept DEF OwnInputs
<1>5. FiguresInPlace'
  BY <1>1, <1>2, FiguresKept DEF OwnInputs, FiguresInPlace, Sound
<1>6. QED
  BY <1>1, <1>2, <1>3, <1>4, <1>5 DEF OwnInputs, Sound
-----------------------------------------------------------------------------
(* Steps that disturb nothing that is shared. *)

\* The result table of the statement may be made before its job.
OwnResults(s) ==
    \A t \in Names : results'[t] = results[t] \/ (stmt[s].into = t /\ ses[s].job = "none")

\* Nothing is learned of a model, nothing is shown, and no job moves.
Calm(s) ==
    /\ ses'[s].shown = ses[s].shown /\ ses'[s].type = ses[s].type
    /\ ses'[s].job \in {"none", "done", "failed"}
    /\ ses'[s].job # "failed" => ses'[s].job = ses[s].job
    /\ ses[s].job = "done" => /\ oss' = oss /\ offline' = offline /\ ses'[s].cmd = ses[s].cmd
                              /\ \A t \in Names : results'[t] = results[t]
    /\ stmt[s].sub \in {"pai", "local"} /\ stmt[s].load = stmt[s].model => oss' = oss
    /\ \A p \in {"read", "xgb"} : p \in Left(s)' => p \in Left(s)

\* A calm step leaves what concerns its session true.
LEMMA CalmSound ==
    ASSUME TypeOK, NEW s \in Sessions, Sound(s), Effects(s), Calm(s)
    PROVE  Sound(s)'
<1>1. stmt' = stmt
  BY DEF Effects
<1>2. \A m \in Models : OtherTrains(s, m)' <=> OtherTrains(s, m)
  BY <1>1 DEF OtherTrains
<1>3. stmt[s].model \in Models /\ stmt[s].into \in Names \cup {"none"}
  BY StatementTypes DEF Statements
<1>4. FigureIsOwn(s)' /\ (ses'[s].shown # "none" => ses'[s].key # <<>>)
  BY ShownKept DEF Sound, Calm
<1>5. ModelWaits(s)'
  BY <1>1, <1>2, <1>3 DEF Sound, ModelWaits, Calm, StoredObject, None
<1>6. ResumeFindsModel(s)'
  BY DEF ResumeFindsModel, Calm
<1>7. TypeBeingRead(s)'
  BY <1>1, <1>2, <1>3 DEF Sound, TypeBeingRead, Calm
<1>8. TypeIsSaved(s)'
  BY <1>1, <1>2, <1>3 DEF Sound, TypeIsSaved, Calm
<1>9. JobsWork(s)'
  <2>1. ses'[s].job \notin {"saving", "describing"}
    BY DEF Calm
  <2>2. ASSUME ses'[s].job = "done", ses'[s].cmd # "empty" PROVE DidWork(s)'
    <3>1. /\ ses[s].job = "done" /\ oss' = oss /\ offline' = offline /\ ses[s].cmd # "empty"
          /\ \A t \in Names : results'[t] = results[t]
      BY <2>2 DEF Calm
    <3>2. DidWork(s)
      BY <3>1 DEF Sound, JobsWork
    <3>3. Wrote(s)' = Wrote(s)
      BY <1>1 DEF Wrote
    <3>4. QED
      BY <1>1, <1>2, <1>3, <3>1, <3>2, <3>3 DEF DidWork, Produces
  <2>3. QED
    BY <2>1, <2>2 DEF JobsWork
<1>10. QED
  BY <1>4, <1>5, <1>6, <1>7, <1>8, <1>9 DEF Sound

\* The job of a session at another phase than its submission.
LEMMA JobAt ==
    ASSUME TypeOK, NEW s \in Sessions, Place(s), ses[s].todo # <<>>
    PROVE  LET h == Head(ses[s].todo)
           IN /\ h # "submit" => ses[s].job \in {"none", "done", "failed"}
              /\ h \notin {"submit", "download", "save", "draw"} \cup Ignored =>
                   ses[s].job = "none"
<1>1. JobPlace(s) /\ Head(ses[s].todo) \in Left(s)
  BY HeadFacts DEF Place
<1>2. ses[s].job \in Going \cup {"none", "failing", "done", "failed"}
  BY StatementTypes DEF SessionType
<1>3. QED
  BY <1>1, <1>2 DEF JobPlace, At

\* A step that leaves models and figures alone.
LEMMA StillEffects ==
    ASSUME TypeOK, NEW s \in Sessions, ses'[s] \in SessionType(s), Others(s),
           ses'[s].key = ses[s].key \/ ses[s].key = <<>>,
           \A t \in Names : results'[t] = results[t] \/ stmt[s].into = t,
           \A x \in Sessions \ {s} : \A n \in 1..2 : Tmp(x, n) \in tables' <=> Tmp(x, n) \in tables,
           \A x \in Sessions \ {s} : \A o \in {"code", "params"} :
               <<x, o>> \in objects' <=> <<x, o>> \in objects,
           UNCHANGED <<stmt, oss, offline, figures>>
    PROVE  Effects(s)
BY DEF Effects

\* A phase is over: what remains to be shown is the place.
LEMMA AdvancedCalm ==
    ASSUME TypeOK, NEW s \in Sessions, Place(s), ses[s].todo # <<>>,
           Head(ses[s].todo) # "submit", NEW r, Advanced(s, r),
           r.todo = ses[s].todo, r.res = ses[s].res,
           Head(ses[s].todo) \in Ignored => r.defer = ses[s].defer,
           r.shown = ses[s].shown, r.type = ses[s].type, r.job = ses[s].job,
           ses[s].job = "done" => r.cmd = ses[s].cmd /\ oss' = oss /\ offline' = offline,
           stmt[s].sub \in {"pai", "local"} /\ stmt[s].load = stmt[s].model => oss' = oss,
           OwnResults(s)
    PROVE  Calm(s)
<1>1. Left(s) = {Head(ses[s].todo)} \cup Left(s)'
  BY AdvancedLeft DEF Place
<1>2. /\ ses'[s].shown = ses[s].shown /\ ses'[s].type = ses[s].type /\ ses'[s].job = ses[s].job
      /\ ses'[s].cmd = r.cmd
  BY DEF Advanced, Rest
<1>3. ses[s].job \in {"none", "done", "failed"}
  BY JobAt
<1>4. QED
  BY <1>1, <1>2, <1>3 DEF Calm, OwnResults

\* The same for a phase that failed.
LEMMA FailedCalm ==
    ASSUME TypeOK, NEW s \in Sessions, Place(s), ses[s].todo # <<>>,
           NEW r \in SessionType(s), Failed(s, r), r.res = ses[s].res,
           r.shown = ses[s].shown, r.type = ses[s].type, r.cmd = ses[s].cmd,
           r.job \in {"none", "done", "failed"}, r.job # "failed" => r.job = ses[s].job,
           OwnResults(s), r.job = "done" => oss' = oss /\ offline' = offline,
           ses[s].job = "done" => oss' = oss /\ offline' = offline,
           stmt[s].sub \in {"pai", "local"} /\ stmt[s].load = stmt[s].model => oss' = oss
    PROVE  Calm(s)
<1>1. Left(s)' \subseteq Ignored
  BY FailedLeft DEF Place
<1>2. /\ ses'[s].shown = ses[s].shown /\ ses'[s].type = ses[s].type /\ ses'[s].job = r.job
      /\ ses'[s].cmd = ses[s].cmd
  BY DEF Failed, Rest, SessionType
<1>3. "read" \notin Left(s)' /\ "xgb" \notin Left(s)'
  BY <1>1 DEF Ignored
<1>4. QED
  BY <1>2, <1>3 DEF Calm, OwnResults

\* A plain phase is over.
LEMMA AdvancedKept ==
    ASSUME OwnInputs, TypeOK', NEW s \in Sessions, ses[s].todo # <<>>, Head(ses[s].todo) \in Plain,
           NEW r, Alike(r, ses[s]), r.cmd = ses[s].cmd, r.key = ses[s].key, r.job = ses[s].job,
           r.shown = ses[s].shown, r.type = ses[s].type,
           Advanced(s, r), Quiet, OwnResults(s), UNCHANGED <<oss, offline, figures>>
    PROVE  Kept(s)
<1>1. TypeOK /\ Place(s) /\ Sound(s)
  BY DEF OwnInputs, Sound, FiguresInPlace
<1>2. Place(s)'
  BY <1>1, AdvancedPlace
<1>3. ses'[s] \in SessionType(s) /\ Others(s) /\ ses'[s].key = ses[s].key
  BY DEF Advanced, Rest
<1>4. Effects(s)
  BY <1>1, <1>3, StillEffects DEF Quiet, OwnResults
<1>5. Calm(s)
  <2>1. Head(ses[s].todo) # "submit"
    BY DEF Plain
  <2>2. QED
    BY <1>1, <2>1, AdvancedCalm DEF Alike
<1>6. QED
  BY <1>1, <1>2, <1>4, <1>5, CalmSound DEF Kept

\* A phase has failed.
LEMMA LeavingKept ==
    ASSUME OwnInputs, TypeOK', NEW s \in Sessions, ses[s].todo # <<>>,
           Head(ses[s].todo) \notin Ignored \cup {"concat"},
           Head(ses[s].todo) # "submit", Failed(s, ses[s]), Leaves(s), Effects(s), OwnResults(s),
           ses[s].job = "done" => oss' = oss /\ offline' = offline,
           stmt[s].sub \in {"pai", "local"} /\ stmt[s].load = stmt[s].model => oss' = oss
    PROVE  Kept(s)
<1>1. TypeOK /\ Place(s) /\ Sound(s) /\ ses[s] \in SessionType(s)
  BY StatementTypes DEF OwnInputs, Sound, FiguresInPlace
<1>2. ses[s].job \in {"none", "done", "failed"}
  BY <1>1, JobAt
<1>3. Place(s)'
  BY <1>1, <1>2, LeavingPlace DEF Alike
<1>4. Calm(s)
  BY <1>1, <1>2, FailedCalm
<1>5. QED
  BY <1>1, <1>3, <1>4, CalmSound DEF Kept

\* The same where nothing has been created.
LEMMA FailedKept ==
    ASSUME OwnInputs, TypeOK', NEW s \in Sessions, ses[s].todo # <<>>,
           Head(ses[s].todo) \notin Ignored \cup {"concat"},
           Head(ses[s].todo) # "submit", Failed(s, ses[s]),
           Quiet, OwnResults(s), UNCHANGED <<oss, offline, figures>>
    PROVE  Kept(s)
<1>1. TypeOK /\ ses[s] \in SessionType(s) /\ Leaves(s)
  BY StatementTypes DEF OwnInputs, Leaves, Quiet
<1>2. ses'[s] \in SessionType(s) /\ Others(s) /\ ses'[s].key = ses[s].key
  BY <1>1 DEF Failed, Rest, SessionType
<1>3. Effects(s)
  BY <1>1, <1>2, StillEffects DEF Quiet, OwnResults
<1>4. QED
  BY <1>1, <1>3, LeavingKept
-----------------------------------------------------------------------------
(* One lemma for each kind of step. *)

\* A connection, a file or an archive: done, or failed.
LEMMA TriedKept ==
    ASSUME OwnInputs, NEW s \in Sessions, NEW p \in {"open", "hyper", "archive", "download"},
           Try(s, p)
    PROVE  Kept(s)
<1>1. TypeOK /\ ses[s] \in SessionType(s)
  BY StatementTypes DEF OwnInputs
<1>2. /\ ses[s].todo # <<>> /\ Head(ses[s].todo) = p /\ Quiet /\ OwnResults(s)
      /\ UNCHANGED <<stmt, tables, results, oss, offline, objects, figures, file, env, archive, now>>
  BY DEF Try, At, Quiet, OwnResults, store, process
<1>3. p \in Plain /\ p \notin Ignored \cup {"concat"} /\ p # "submit"
  BY DEF Plain, Phases, Ignored
<1>4. Advanced(s, ses[s]) \/ Failed(s, ses[s])
  BY <1>1, <1>2, OnNow DEF Try
<1>5. TypeOK'
  BY <1>1, <1>2, <1>4 DEF TypeOK, Advanced, Failed, Others
<1>6. QED
  BY <1>2, <1>3, <1>4, <1>5, AdvancedKept, FailedKept DEF Alike

\* A temporary table has been made, or dropped on the way.
LEMMA CreatedKept ==
    ASSUME OwnInputs, NEW s \in Sessions, ses[s].todo # <<>>,
           Head(ses[s].todo) \in {"tmp", "valid", "concat"}, NEW r, Advanced(s, r), Place(s)',
           r.todo = ses[s].todo, r.res = ses[s].res, r.cmd = ses[s].cmd, r.key = ses[s].key,
           r.job = ses[s].job, r.shown = ses[s].shown, r.type = ses[s].type,
           tables' \subseteq tables \cup {Tmp(s, 1), Tmp(s, 2)},
           tables \subseteq tables' \cup {Tmp(s, 1), Tmp(s, 2)},
           UNCHANGED <<stmt, results, oss, offline, objects, figures, process, archive, now>>
    PROVE  Kept(s)
<1>1. TypeOK /\ Place(s) /\ Sound(s)
  BY DEF OwnInputs, Sound, FiguresInPlace
<1>2. UNCHANGED <<stmt, results, oss, offline, objects, figures, file, env, archive, now>>
  BY DEF process
<1>3. ses'[s] \in SessionType(s) /\ Others(s) /\ ses'[s].key = ses[s].key
  BY DEF Advanced, Rest
<1>4. \A x \in Sessions \ {s} : \A n \in 1..2 : Tmp(x, n) \in tables' <=> Tmp(x, n) \in tables
  BY DEF Tmp
<1>5. tables' \subseteq Sessions \X (1..2)
  <2>1. Tmp(s, 1) \in Sessions \X (1..2) /\ Tmp(s, 2) \in Sessions \X (1..2)
    BY DEF Tmp
  <2>2. QED
    BY <1>1, <2>1 DEF TypeOK
<1>6. TypeOK'
  BY <1>1, <1>2, <1>3, <1>5 DEF TypeOK, Others
<1>7. Effects(s)
  BY <1>1, <1>2, <1>3, <1>4, StillEffects
<1>8. Calm(s)
  <2>1. Head(ses[s].todo) # "submit" /\ Head(ses[s].todo) \notin Ignored /\ OwnResults(s)
    BY <1>2 DEF Ignored, OwnResults
  <2>2. QED
    BY <1>1, <1>2, <2>1, AdvancedCalm
<1>9. QED
  BY <1>1, <1>6, <1>7, <1>8, CalmSound DEF Kept

\* A temporary table could not be made.
LEMMA NotCreatedKept ==
    ASSUME OwnInputs, NEW s \in Sessions, ses[s].todo # <<>>,
           NEW n \in 1..2, Head(ses[s].todo) = IF n = 1 THEN "tmp" ELSE "valid", Fail(s),
           tables' \in {tables, tables \cup {Tmp(s, n)}},
           UNCHANGED <<stmt, results, oss, offline, objects, figures, process, archive, now>>
    PROVE  Kept(s)
<1>1. TypeOK /\ ses[s] \in SessionType(s)
  BY StatementTypes DEF OwnInputs
<1>2. Failed(s, ses[s])
  BY <1>1, OnNow
<1>3. /\ UNCHANGED <<stmt, results, oss, offline, objects, figures, file, env, archive, now>>
      /\ OwnResults(s)
  BY DEF process, OwnResults
<1>4. /\ ses'[s] \in SessionType(s) /\ Others(s) /\ ses'[s].key = ses[s].key
      /\ ses'[s].bad = ses[s].bad \cup {Head(ses[s].todo)}
  BY <1>1, <1>2 DEF Failed, Rest, SessionType
<1>5. tables' \subseteq Sessions \X (1..2)
  <2>1. Tmp(s, n) \in Sessions \X (1..2)
    BY DEF Tmp
  <2>2. QED
    BY <1>1, <2>1 DEF TypeOK
<1>6. TypeOK'
  BY <1>1, <1>3, <1>4, <1>5 DEF TypeOK, Others
<1>7. Head(ses[s].todo) \notin Ignored \cup {"concat"} /\ Head(ses[s].todo) # "submit"
  BY DEF Ignored
<1>8. Leaves(s)
  <2>1. MayStay(s, n)'
    <3>1. CASE n = 1
      BY <1>4, <3>1 DEF MayStay
    <3>2. CASE n = 2
      BY <1>4, <3>2 DEF MayStay
    <3>3. QED
      BY <3>1, <3>2
  <2>2. \A i \in 1..2 : Tmp(s, i) \in tables' => Tmp(s, i) \in tables \/ i = n
    BY DEF Tmp
  <2>3. QED
    BY <1>3, <2>1, <2>2 DEF Leaves
<1>9. Effects(s)
  <2>1. \A x \in Sessions \ {s} : \A i \in 1..2 : Tmp(x, i) \in tables' <=> Tmp(x, i) \in tables
    BY DEF Tmp
  <2>2. QED
    BY <1>1, <1>3, <1>4, <2>1, StillEffects
<1>10. QED
  BY <1>2, <1>3, <1>6, <1>7, <1>8, <1>9, LeavingKept

\* The record with its tables noted.
LEMMA NotedRecord ==
    ASSUME NEW s \in Sessions, NEW r \in SessionType(s), r.defer = <<>>,
           NEW names \in Seq({s} \X (1..2))
    PROVE  LET t == Noted(r, names)
           IN /\ t \in SessionType(s) /\ Range(t.defer) = {"drop"} /\ t.names = names
              /\ t.todo = r.todo /\ t.res = r.res /\ t.cmd = r.cmd /\ t.key = r.key
              /\ t.job = r.job /\ t.shown = r.shown /\ t.type = r.type /\ t.bad = r.bad
<1> DEFINE d == <<"drop">> \o r.defer
           t == Noted(r, names)
<1>1. d = <<"drop">>
  OBVIOUS
<1>2. d \in Seq(Ignored)
  BY <1>1 DEF Ignored
<1>3. Range(d) = {"drop"}
  BY <1>1, OneLeft
<1>4. /\ t.defer = d /\ t.names = names
      /\ t.todo = r.todo /\ t.res = r.res /\ t.cmd = r.cmd /\ t.key = r.key
      /\ t.job = r.job /\ t.shown = r.shown /\ t.type = r.type /\ t.bad = r.bad
  BY DEF Noted, SessionType
<1>5. t \in SessionType(s)
  BY <1>2 DEF Noted, SessionType
<1>6. QED
  BY <1>3, <1>4, <1>5

\* The names of the temporary tables.
LEMMA TmpNames ==
    ASSUME NEW s \in Sessions
    PROVE  /\ <<Tmp(s, 1)>> \in Seq({s} \X (1..2)) /\ <<Tmp(s, 2)>> \in Seq({s} \X (1..2))
           /\ <<Tmp(s, 1), Tmp(s, 2)>> \in Seq({s} \X (1..2))
           /\ Range(<<Tmp(s, 1)>>) = {Tmp(s, 1)} /\ Range(<<Tmp(s, 2)>>) = {Tmp(s, 2)}
           /\ Range(<<Tmp(s, 1), Tmp(s, 2)>>) = {Tmp(s, 1), Tmp(s, 2)}
<1> DEFINE a == Tmp(s, 1)
           b == Tmp(s, 2)
<1>1. a \in {s} \X (1..2) /\ b \in {s} \X (1..2)
  BY DEF Tmp
<1> HIDE DEF a, b
<1>2. <<a>> \in Seq({s} \X (1..2)) /\ <<b>> \in Seq({s} \X (1..2)) /\ <<a, b>> \in Seq({s} \X (1..2))
  BY <1>1
<1>3. Range(<<a>>) = {a} /\ Range(<<b>>) = {b}
  BY OneLeft
<1>4. DOMAIN <<a, b>> = {1, 2} /\ <<a, b>>[1] = a /\ <<a, b>>[2] = b
  OBVIOUS
<1>5. Range(<<a, b>>) = {a, b}
  BY <1>4 DEF Range
<1>6. QED
  BY <1>2, <1>3, <1>5 DEF a, b

\* A session that has not noted its tables.
LEMMA Unnoted ==
    ASSUME TypeOK, NEW s \in Sessions, Place(s), ses[s].todo # <<>>,
           Head(ses[s].todo) \in {"tmp", "valid", "concat"}
    PROVE  /\ ses[s].names = <<>> /\ ses[s].defer = <<>> /\ "submit" \in Left(s)
           /\ Left(s) = {Head(ses[s].todo)} \cup Range(Tail(ses[s].todo))
           /\ Head(ses[s].todo) = "valid" => Tmp(s, 1) \in tables
           /\ \A n \in 1..2 : Tmp(s, n) \in tables =>
                (n = 1 /\ Head(ses[s].todo) # "tmp") \/ MayStay(s, n)
<1>1. Head(ses[s].todo) \in Left(s) /\ Left(s) = {Head(ses[s].todo)} \cup Range(Tail(ses[s].todo))
  BY HeadFacts DEF Place
<1>2. ses[s].names = <<>> /\ ses[s].defer = <<>> /\ "submit" \in Left(s) /\ TablesHeld(s)
  BY <1>1 DEF Place, TablesHeld
<1>3. Range(<<>>) = {}
  BY NothingLeft
<1>4. Head(ses[s].todo) = "valid" => Tmp(s, 1) \in tables
  <2>1. Head(ses[s].todo) = "valid" => "tmp" \notin Left(s)
    BY <1>1, TmpFirst DEF Place
  <2>2. QED
    BY <1>1, <1>2, <2>1 DEF TablesHeld
<1>5. QED
  BY <1>1, <1>2, <1>3, <1>4 DEF TablesHeld

\* The first temporary table: noted at once, or when the second is there.
LEMMA CreateTmpKept ==
    ASSUME OwnInputs, NEW s \in Sessions, CreateTmp(s)
    PROVE  Kept(s)
<1>1. TypeOK /\ Place(s) /\ InOrder(s) /\ ses[s] \in SessionType(s)
  BY StatementTypes DEF OwnInputs, Place
<1>2. /\ ses[s].todo # <<>> /\ Head(ses[s].todo) = "tmp"
      /\ UNCHANGED <<stmt, results, oss, offline, objects, figures, process, archive, now>>
  BY DEF CreateTmp, At
<1>3. CASE Fail(s) /\ tables' \in {tables, tables \cup {Tmp(s, 1)}}
  BY <1>2, <1>3, NotCreatedKept
<1>4. CASE /\ tables' = tables \cup {Tmp(s, 1)}
           /\ Go(s, IF ses[s].todo[2] \in {"valid", "concat"} THEN ses[s]
                    ELSE Noted(ses[s], <<Tmp(s, 1)>>))
  <2> DEFINE rest == Range(Tail(ses[s].todo))
  <2>1. /\ ses[s].names = <<>> /\ ses[s].defer = <<>> /\ "submit" \in Left(s)
        /\ \A n \in 1..2 : Tmp(s, n) \in tables => MayStay(s, n)
    BY <1>1, <1>2, Unnoted
  <2>2. /\ "tmp" \notin rest
        /\ ses[s].todo[2] \in {"valid", "concat"} <=> rest \cap {"valid", "concat"} # {}
    BY <1>1, <1>2, <2>1, TmpFirst
  <2>3. CASE ses[s].todo[2] \in {"valid", "concat"}
    <3>1. Advanced(s, ses[s])
      BY <1>1, <1>2, <1>4, <2>3, GoNow
    <3>2. Left(s)' = rest
      BY <3>1 DEF Advanced, Left
    <3>3. Place(s)'
      BY <1>1, <1>2, <1>4, <2>2, <2>3, <3>1, <3>2, WaitingPlace DEF At
    <3>4. QED
      BY <1>2, <1>4, <3>1, <3>3, CreatedKept
  <2>4. CASE ses[s].todo[2] \notin {"valid", "concat"}
    <3> DEFINE r == Noted(ses[s], <<Tmp(s, 1)>>)
    <3>1. <<Tmp(s, 1)>> \in Seq({s} \X (1..2)) /\ Range(<<Tmp(s, 1)>>) = {Tmp(s, 1)}
      BY TmpNames
    <3>2. /\ r \in SessionType(s) /\ Range(r.defer) = {"drop"} /\ r.names = <<Tmp(s, 1)>>
          /\ r.todo = ses[s].todo /\ r.res = ses[s].res /\ r.cmd = ses[s].cmd /\ r.key = ses[s].key
          /\ r.job = ses[s].job /\ r.shown = ses[s].shown /\ r.type = ses[s].type
          /\ r.bad = ses[s].bad
      BY <1>1, <2>1, <3>1, NotedRecord
    <3>3. Go(s, r)
      BY <1>4, <2>4
    <3> HIDE DEF r
    <3>4. Advanced(s, r)
      BY <1>1, <1>2, <3>2, <3>3, GoNow
    <3>5. Left(s)' = rest
      BY <3>2, <3>4 DEF Advanced, Left
    <3>6. Left(s)' \cap {"tmp", "valid", "concat"} = {}
      BY <2>2, <2>4, <3>5
    <3>7. \A n \in 1..2 : Tmp(s, n) \in tables' =>
             Tmp(s, n) \in Range(r.names) \/ MayStay(s, n)'
      <4>1. ses'[s].bad = ses[s].bad
        BY <3>2, <3>4 DEF Advanced, Rest
      <4>2. \A n \in 1..2 : MayStay(s, n) => MayStay(s, n)'
        BY <4>1, Staying
      <4>3. QED
        BY <1>4, <2>1, <3>1, <3>2, <4>2
    <3>8. Range(r.names) \subseteq tables'
      BY <1>4, <3>1, <3>2
    <3>9. Place(s)'
      BY <1>1, <1>2, <3>2, <3>4, <3>6, <3>7, <3>8, NotedPlace
    <3>10. QED
      BY <1>2, <1>4, <3>2, <3>4, <3>9, CreatedKept
  <2>5. QED
    BY <2>3, <2>4
<1>5. QED
  BY <1>3, <1>4 DEF CreateTmp

\* The second one, for validation: both are noted, or none.
LEMMA CreateValidKept ==
    ASSUME OwnInputs, NEW s \in Sessions, CreateValid(s)
    PROVE  Kept(s)
<1>1. TypeOK /\ Place(s) /\ InOrder(s) /\ ses[s] \in SessionType(s)
  BY StatementTypes DEF OwnInputs, Place
<1>2. /\ ses[s].todo # <<>> /\ Head(ses[s].todo) = "valid"
      /\ UNCHANGED <<stmt, results, oss, offline, objects, figures, process, archive, now>>
  BY DEF CreateValid, At
<1>3. CASE Fail(s) /\ tables' \in {tables, tables \cup {Tmp(s, 2)}}
  BY <1>2, <1>3, NotCreatedKept
<1>4. CASE /\ tables' = tables \cup {Tmp(s, 2)}
           /\ Go(s, Noted(ses[s], <<Tmp(s, 1), Tmp(s, 2)>>))
  <2> DEFINE rest == Range(Tail(ses[s].todo))
             r == Noted(ses[s], <<Tmp(s, 1), Tmp(s, 2)>>)
  <2>1. /\ ses[s].names = <<>> /\ ses[s].defer = <<>> /\ "submit" \in Left(s)
        /\ Tmp(s, 1) \in tables
    BY <1>1, <1>2, Unnoted
  <2>a. "tmp" \notin rest /\ rest \cap {"valid", "concat"} = {}
    BY <1>1, <1>2, TmpFirst
  <2>2. /\ <<Tmp(s, 1), Tmp(s, 2)>> \in Seq({s} \X (1..2))
        /\ Range(<<Tmp(s, 1), Tmp(s, 2)>>) = {Tmp(s, 1), Tmp(s, 2)}
    BY TmpNames
  <2>3. /\ r \in SessionType(s) /\ Range(r.defer) = {"drop"} /\ r.names = <<Tmp(s, 1), Tmp(s, 2)>>
        /\ r.todo = ses[s].todo /\ r.res = ses[s].res /\ r.cmd = ses[s].cmd /\ r.key = ses[s].key
        /\ r.job = ses[s].job /\ r.shown = ses[s].shown /\ r.type = ses[s].type
        /\ r.bad = ses[s].bad
    BY <1>1, <2>1, <2>2, NotedRecord
  <2>4. Go(s, r)
    BY <1>4
  <2> HIDE DEF r
  <2>5. Advanced(s, r)
    BY <1>1, <1>2, <2>3, <2>4, GoNow
  <2>6. Left(s)' = rest
    BY <2>3, <2>5 DEF Advanced, Left
  <2>7. Left(s)' \cap {"tmp", "valid", "concat"} = {}
    BY <2>a, <2>6
  <2>8. \A n \in 1..2 : Tmp(s, n) \in Range(r.names)
    BY <2>2, <2>3
  <2>9. Range(r.names) \subseteq tables'
    BY <1>4, <2>1, <2>2, <2>3
  <2>10. Place(s)'
    BY <1>1, <1>2, <2>3, <2>5, <2>7, <2>8, <2>9, NotedPlace
  <2>11. QED
    BY <1>2, <1>4, <2>3, <2>5, <2>10, CreatedKept
<1>5. QED
  BY <1>3, <1>4 DEF CreateValid

\* The second one of an optimization, and the DROP of the first.
LEMMA ConcatKept ==
    ASSUME OwnInputs, NEW s \in Sessions, Concat(s)
    PROVE  Kept(s)
<1>1. TypeOK /\ Place(s) /\ InOrder(s) /\ Sound(s) /\ ses[s] \in SessionType(s)
  BY StatementTypes DEF OwnInputs, Place, Sound, FiguresInPlace
<1>2. /\ ses[s].todo # <<>> /\ Head(ses[s].todo) = "concat" /\ At(s, "concat")
      /\ UNCHANGED <<stmt, results, oss, offline, objects, figures, process, archive, now>>
  BY DEF Concat, At
<1>3. PICK failed, kept \in BOOLEAN :
        /\ kept => failed
        /\ LET r == IF failed THEN [ses[s] EXCEPT !.bad = @ \cup {"drop"}] ELSE ses[s]
               rest == IF kept THEN tables ELSE tables \ {Tmp(s, 1)}
           IN \/ tables' = rest \cup {Tmp(s, 2)} /\ Go(s, Noted(r, <<Tmp(s, 2)>>))
              \/ /\ tables' \in {rest, rest \cup {Tmp(s, 2)}}
                 /\ ses' = [ses EXCEPT ![s] = FailedIn(r)]
  BY DEF Concat
<1> DEFINE r == IF failed THEN [ses[s] EXCEPT !.bad = @ \cup {"drop"}] ELSE ses[s]
           rest == IF kept THEN tables ELSE tables \ {Tmp(s, 1)}
           left == Range(Tail(ses[s].todo))
<1>4. /\ ses[s].names = <<>> /\ ses[s].defer = <<>> /\ "submit" \in Left(s)
      /\ \A n \in 1..2 : Tmp(s, n) \in tables => n = 1 \/ MayStay(s, n)
  BY <1>1, <1>2, Unnoted
<1>5. "tmp" \notin left /\ left \cap {"valid", "concat"} = {}
  BY <1>1, <1>2, TmpFirst
<1>6. /\ r \in SessionType(s) /\ r.todo = ses[s].todo /\ r.defer = ses[s].defer
      /\ r.names = ses[s].names /\ r.res = ses[s].res /\ r.cmd = ses[s].cmd
      /\ r.key = ses[s].key /\ r.job = ses[s].job /\ r.shown = ses[s].shown
      /\ r.type = ses[s].type
      /\ r.bad = IF failed THEN ses[s].bad \cup {"drop"} ELSE ses[s].bad
  <2>1. CASE ~failed
    BY <1>1, <2>1
  <2>2. CASE failed
    <3>1. "drop" \in Phases
      BY DEF Phases
    <3> DEFINE u == [ses[s] EXCEPT !.bad = @ \cup {"drop"}]
    <3>2. u \in SessionType(s)
      BY <1>1, <3>1 DEF SessionType
    <3>3. /\ u.todo = ses[s].todo /\ u.defer = ses[s].defer
          /\ u.names = ses[s].names /\ u.res = ses[s].res /\ u.cmd = ses[s].cmd
          /\ u.key = ses[s].key /\ u.job = ses[s].job /\ u.shown = ses[s].shown
          /\ u.type = ses[s].type /\ u.bad = ses[s].bad \cup {"drop"}
      BY <1>1 DEF SessionType
    <3>4. r = u
      BY <2>2
    <3> HIDE DEF u, r
    <3>5. QED
      BY <2>2, <3>2, <3>3, <3>4
  <2>3. QED
    BY <2>1, <2>2
<1>7. /\ rest \subseteq tables /\ tables \subseteq rest \cup {Tmp(s, 1)}
      /\ Tmp(s, 1) \notin rest \/ "drop" \in r.bad
      /\ ses[s].bad \subseteq r.bad /\ r.bad \subseteq ses[s].bad \cup {"drop"}
  BY <1>3, <1>6
<1>8. \/ tables' = rest \cup {Tmp(s, 2)} /\ Go(s, Noted(r, <<Tmp(s, 2)>>))
      \/ tables' \in {rest, rest \cup {Tmp(s, 2)}} /\ ses' = [ses EXCEPT ![s] = FailedIn(r)]
  BY <1>3
<1> HIDE DEF r, rest
<1>9. CASE tables' = rest \cup {Tmp(s, 2)} /\ Go(s, Noted(r, <<Tmp(s, 2)>>))
  <2> DEFINE t == Noted(r, <<Tmp(s, 2)>>)
  <2>1. <<Tmp(s, 2)>> \in Seq({s} \X (1..2)) /\ Range(<<Tmp(s, 2)>>) = {Tmp(s, 2)}
    BY TmpNames
  <2>2. r.defer = <<>>
    BY <1>4, <1>6
  <2>3. /\ t \in SessionType(s) /\ Range(t.defer) = {"drop"} /\ t.names = <<Tmp(s, 2)>>
        /\ t.todo = r.todo /\ t.res = r.res /\ t.cmd = r.cmd /\ t.key = r.key
        /\ t.job = r.job /\ t.shown = r.shown /\ t.type = r.type /\ t.bad = r.bad
    BY <1>6, <2>1, <2>2, NotedRecord
  <2>4. Go(s, t)
    BY <1>9
  <2> HIDE DEF t
  <2>5. /\ t.todo = ses[s].todo /\ t.res = ses[s].res /\ t.cmd = ses[s].cmd /\ t.key = ses[s].key
        /\ t.job = ses[s].job /\ t.shown = ses[s].shown /\ t.type = ses[s].type
        /\ ses[s].bad \subseteq t.bad /\ t.bad \subseteq ses[s].bad \cup {"drop"}
    BY <1>6, <1>7, <2>3
  <2>6. Advanced(s, t)
    BY <1>1, <1>2, <2>3, <2>4, <2>5, GoNow
  <2>7. Left(s)' = left
    BY <2>5, <2>6 DEF Advanced, Left
  <2>8. Left(s)' \cap {"tmp", "valid", "concat"} = {}
    BY <1>5, <2>7
  <2>9. \A n \in 1..2 : Tmp(s, n) \in tables' =>
           Tmp(s, n) \in Range(t.names) \/ MayStay(s, n)'
    <3>1. SUFFICES ASSUME NEW n \in 1..2, Tmp(s, n) \in tables', Tmp(s, n) # Tmp(s, 2)
                   PROVE  MayStay(s, n)'
      BY <2>1, <2>3
    <3>2. Tmp(s, n) \in rest
      BY <1>9, <3>1
    <3>3. n = 1 => "drop" \in r.bad
      BY <1>7, <3>2
    <3>4. ses'[s].bad = r.bad
      BY <2>3, <2>6 DEF Advanced, Rest
    <3>5. MayStay(s, n) => MayStay(s, n)'
      BY <1>7, <3>4, Staying
    <3>6. QED
      BY <1>4, <1>7, <3>2, <3>3, <3>4, <3>5 DEF MayStay
  <2>10. Range(t.names) \subseteq tables'
    BY <1>9, <2>1, <2>3
  <2>11. Place(s)'
    BY <1>1, <1>2, <2>3, <2>5, <2>6, <2>8, <2>9, <2>10, NotedPlace
  <2>12. /\ tables' \subseteq tables \cup {Tmp(s, 1), Tmp(s, 2)}
         /\ tables \subseteq tables' \cup {Tmp(s, 1), Tmp(s, 2)}
    BY <1>7, <1>9
  <2>13. QED
    BY <1>2, <2>5, <2>6, <2>11, <2>12, CreatedKept
<1>10. CASE tables' \in {rest, rest \cup {Tmp(s, 2)}} /\ ses' = [ses EXCEPT ![s] = FailedIn(r)]
  <2>1. Failed(s, r)
    BY <1>1, <1>2, <1>6, <1>10, FailedNow
  <2>2. Place(s)'
    <3>1. tables' \subseteq tables \cup {Tmp(s, 2)} /\ (Tmp(s, 1) \notin tables' \/ "drop" \in r.bad)
      BY <1>7, <1>10 DEF Tmp
    <3>2. QED
      BY <1>1, <1>2, <1>6, <1>7, <2>1, <3>1, ConcatFailedPlace
  <2>3. UNCHANGED <<stmt, results, oss, offline, objects, figures, file, env, archive, now>>
    BY <1>2 DEF process
  <2>4. ses'[s] \in SessionType(s) /\ Others(s) /\ ses'[s].key = ses[s].key
    BY <1>6, <2>1 DEF Failed, Rest, SessionType
  <2>5. \A x \in Sessions \ {s} : \A n \in 1..2 : Tmp(x, n) \in tables' <=> Tmp(x, n) \in tables
    BY <1>7, <1>10 DEF Tmp
  <2>6. TypeOK'
    <3>1. Tmp(s, 2) \in Sessions \X (1..2)
      BY DEF Tmp
    <3>2. tables' \subseteq Sessions \X (1..2)
      BY <1>1, <1>7, <1>10, <3>1 DEF TypeOK
    <3>3. QED
      BY <1>1, <2>3, <2>4, <3>2 DEF TypeOK, Others
  <2>7. Effects(s)
    BY <1>1, <2>3, <2>4, <2>5, StillEffects
  <2>8. ses[s].job = "none" /\ OwnResults(s)
    <3>1. "concat" \notin {"submit", "download", "save", "draw"} \cup Ignored
      BY DEF Ignored
    <3>2. QED
      BY <1>1, <1>2, <2>3, <3>1, JobAt DEF OwnResults
  <2>9. Calm(s)
    BY <1>1, <1>2, <1>6, <2>1, <2>3, <2>8, FailedCalm
  <2>10. QED
    BY <1>1, <2>2, <2>6, <2>7, <2>9, CalmSound DEF Kept
<1>11. QED
  BY <1>8, <1>9, <1>10

\* A statement that the submitter refuses.
LEMMA UnsupportedKept ==
    ASSUME OwnInputs, NEW s \in Sessions, Unsupported(s)
    PROVE  Kept(s)
<1>1. TypeOK
  BY DEF OwnInputs
<1>2. /\ ses[s].todo # <<>> /\ Head(ses[s].todo) = "unsupported" /\ Quiet /\ OwnResults(s)
      /\ UNCHANGED <<stmt, tables, results, oss, offline, objects, figures, file, env, archive, now>>
  BY DEF Unsupported, At, Quiet, OwnResults, store, process
<1>3. Failed(s, ses[s])
  BY <1>1, <1>2, OnNow DEF Unsupported
<1>4. TypeOK'
  BY <1>1, <1>2, <1>3 DEF TypeOK, Failed, Others
<1>5. "unsupported" \notin Ignored \cup {"concat"}
  BY DEF Ignored
<1>6. QED
  BY <1>2, <1>3, <1>4, <1>5, FailedKept

\* A step that may make or drop the result table of its statement.
LEMMA ResultKept ==
    ASSUME OwnInputs, NEW s \in Sessions, ses[s].todo # <<>>,
           Head(ses[s].todo) \in {"result", "drop result", "drop old", "create new"},
           On(s) \/ Refuse(s),
           results' = results \/
             (stmt[s].into # "none" /\ \E c \in {"absent", "empty"} : results' = [results EXCEPT ![stmt[s].into] = c]),
           UNCHANGED <<stmt, tables, oss, offline, objects, figures, process, archive, now>>
    PROVE  Kept(s)
<1>1. TypeOK /\ Place(s) /\ stmt[s].into \in Names \cup {"none"}
  BY StatementTypes DEF OwnInputs, Statements
<1>2. /\ Quiet
      /\ UNCHANGED <<stmt, tables, oss, offline, objects, figures, file, env, archive, now>>
  BY DEF Quiet, process
<1>3. Advanced(s, ses[s]) \/ Failed(s, ses[s])
  BY <1>1, OnNow
<1>4. /\ Head(ses[s].todo) \in Plain /\ Head(ses[s].todo) \notin Ignored \cup {"concat"}
      /\ Head(ses[s].todo) \notin {"submit", "download", "save", "draw"} \cup Ignored
  BY DEF Plain, Phases, Ignored
<1>5. ses[s].job = "none"
  BY <1>1, <1>4, JobAt
<1>6. OwnResults(s) /\ results' \in [Names -> {"absent", "old", "empty"} \cup Sessions]
  BY <1>1, <1>5 DEF OwnResults, TypeOK
<1>7. TypeOK'
  BY <1>1, <1>2, <1>3, <1>6 DEF TypeOK, Advanced, Failed, Others
<1>8. Head(ses[s].todo) # "submit"
  BY <1>4
<1>9. QED
  BY <1>2, <1>3, <1>4, <1>6, <1>7, <1>8, AdvancedKept, FailedKept DEF Alike

\* The result table, created or dropped before the job.
LEMMA ResultTableKept ==
    ASSUME OwnInputs, NEW s \in Sessions, ResultTable(s) \/ DropResult(s) \/ DropOld(s) \/ CreateNew(s)
    PROVE  Kept(s)
<1>1. TypeOK /\ Place(s) /\ PhasesOfKind(s)
  BY DEF OwnInputs, Place
<1>2. /\ ses[s].todo # <<>> /\ Head(ses[s].todo) \in {"result", "drop result", "drop old", "create new"}
      /\ UNCHANGED <<stmt, tables, oss, offline, objects, figures, process, archive, now>>
  BY DEF ResultTable, DropResult, DropOld, CreateNew, At
<1>3. CASE ResultTable(s)
  <2>1. On(s) \/ Refuse(s)
    BY <1>3 DEF ResultTable, Fail
  <2>2. results' = results \/
          (stmt[s].into # "none" /\ \E c \in {"absent", "empty"} : results' = [results EXCEPT ![stmt[s].into] = c])
    BY <1>3 DEF ResultTable
  <2>3. QED
    BY <1>2, <2>1, <2>2, ResultKept
<1>4. CASE DropResult(s) \/ DropOld(s) \/ CreateNew(s)
  <2>1. Left(s) \cap {"drop result", "drop old", "create new"} # {}
    BY <1>1, <1>4, HeadFacts DEF DropResult, DropOld, CreateNew, At, Place
  <2>2. stmt[s].into # "none"
    BY <1>1, <2>1, StatementTypes DEF PhasesOfKind
  <2>3. On(s) \/ Refuse(s)
    BY <1>4 DEF DropResult, DropOld, CreateNew, Fail
  <2>4. \/ results' = results
        \/ \E c \in {"absent", "empty"} : results' = [results EXCEPT ![stmt[s].into] = c]
    BY <1>4 DEF DropResult, DropOld, CreateNew
  <2>5. QED
    BY <1>2, <2>2, <2>3, <2>4, ResultKept
<1>5. QED
  BY <1>3, <1>4

\* os.Setenv changes nothing that another statement of this model relies on.
LEMMA SetEnvKept ==
    ASSUME OwnInputs, NEW s \in Sessions, SetEnv(s)
    PROVE  Kept(s)
<1>1. TypeOK /\ ses[s] \in SessionType(s)
  BY StatementTypes DEF OwnInputs
<1>2. /\ ses[s].todo # <<>> /\ Head(ses[s].todo) = "env" /\ Quiet /\ OwnResults(s)
      /\ UNCHANGED <<stmt, tables, results, oss, offline, objects, figures, file, archive, now>>
  BY DEF SetEnv, At, Quiet, OwnResults, store
<1>3. PICK k \in EnvKeys : env' = [env EXCEPT ![k] = s] /\ Go(s, [ses[s] EXCEPT !.set = @ \cup {k}])
  BY DEF SetEnv
<1> DEFINE r == [ses[s] EXCEPT !.set = @ \cup {k}]
<1>4. r \in SessionType(s)
  BY <1>1 DEF SessionType
<1>5. /\ Alike(r, ses[s]) /\ r.cmd = ses[s].cmd /\ r.key = ses[s].key /\ r.job = ses[s].job
      /\ r.shown = ses[s].shown /\ r.type = ses[s].type
  BY <1>1 DEF SessionType, Alike
<1>6. Go(s, r)
  BY <1>3
<1> HIDE DEF r
<1>7. Advanced(s, r)
  BY <1>1, <1>2, <1>4, <1>5, <1>6, GoNow DEF Alike
<1>8. env' \in [EnvKeys -> Sessions \cup {"none"}]
  BY <1>1, <1>3 DEF TypeOK
<1>9. TypeOK'
  BY <1>1, <1>2, <1>7, <1>8 DEF TypeOK, Advanced, Others
<1>10. "env" \in Plain
  BY DEF Plain, Phases, Ignored
<1>11. QED
  BY <1>2, <1>5, <1>7, <1>9, <1>10, AdvancedKept

\* The trained model is put into sqlfs.
LEMMA SaveModelKept ==
    ASSUME OwnInputs, NEW s \in Sessions, SaveModel(s)
    PROVE  Kept(s)
<1>1. TypeOK /\ stmt[s].model \in Models
  BY StatementTypes DEF OwnInputs, Statements
<1>2. /\ ses[s].todo # <<>> /\ Head(ses[s].todo) = "save" /\ Quiet /\ OwnResults(s)
      /\ UNCHANGED <<stmt, tables, results, oss, offline, objects, figures, file, env, now>>
  BY DEF SaveModel, At, Quiet, OwnResults, store, process
<1>3. On(s) \/ Fail(s)
  BY DEF SaveModel
<1>4. archive' \in [Models -> {"old", "model", "without model", "partial"}]
  BY <1>1 DEF SaveModel, TypeOK
<1>5. Advanced(s, ses[s]) \/ Failed(s, ses[s])
  BY <1>1, <1>2, <1>3, OnNow
<1>6. TypeOK'
  BY <1>1, <1>2, <1>4, <1>5 DEF TypeOK, Advanced, Failed, Others
<1>7. "save" \in Plain /\ "save" \notin Ignored \cup {"concat"} /\ "save" # "submit"
  BY DEF Plain, Phases, Ignored
<1>8. QED
  BY <1>2, <1>5, <1>6, <1>7, AdvancedKept, FailedKept DEF Alike

\* A figure is shown where the key of the session says.
LEMMA DrawKept ==
    ASSUME OwnInputs, NEW s \in Sessions, Draw(s)
    PROVE  Kept(s)
<1>1. TypeOK /\ Place(s) /\ Sound(s) /\ ses[s] \in SessionType(s) /\ FiguresInPlace
  BY StatementTypes DEF OwnInputs, Sound, FiguresInPlace
<1>2. /\ ses[s].todo # <<>> /\ Head(ses[s].todo) = "draw" /\ Quiet /\ OwnResults(s)
      /\ UNCHANGED <<stmt, tables, results, oss, offline, objects, figures, file, env, archive, now>>
  BY DEF Draw, At, Quiet, OwnResults, store, process
<1>3. "draw" \in Plain
  BY DEF Plain, Phases, Ignored
<1>4. CASE On(s)
  <2>1. Advanced(s, ses[s])
    BY <1>1, <1>2, <1>4, OnNow
  <2>2. TypeOK'
    BY <1>1, <1>2, <2>1 DEF TypeOK, Advanced, Others
  <2>3. QED
    BY <1>2, <1>3, <2>1, <2>2, AdvancedKept DEF Alike
<1>5. CASE Go(s, [ses[s] EXCEPT !.shown = figures[ses[s].key]])
  <2> DEFINE f == figures[ses[s].key]
             r == [ses[s] EXCEPT !.shown = f]
  <2>1. ses[s].key # <<>> /\ ses[s].key \in DOMAIN figures /\ ses[s].key[1] = stmt[s].user
    <3>1. "draw" \in Left(s) /\ Left(s) = {"draw"} \cup Range(Tail(ses[s].todo))
          /\ \A p \in Range(Tail(ses[s].todo)) : Follows("draw", p)
      BY <1>1, <1>2, HeadFacts DEF Place
    <3>2. stmt[s].kind = "explain"
      BY <1>1, <3>1 DEF Place, PhasesOfKind
    <3>3. ~Follows("draw", "codegen")
      <4>1. Stage("draw") = 9 /\ Stage("codegen") = 4
        BY Stages
      <4>2. QED
        BY <4>1 DEF Follows
    <3>4. "codegen" \notin Left(s)
      BY <3>1, <3>3
    <3>5. ses[s].key # <<>>
      BY <1>1, <3>1, <3>2, <3>4 DEF Place, FigureKeyed
    <3>6. ses[s].key \in ({"u1", "u2"} \X Seconds) \cup {<<>>}
      BY <1>1 DEF SessionType
    <3>7. DOMAIN figures = {"u1", "u2"} \X Seconds
      BY <1>1 DEF TypeOK
    <3>8. ses[s].key[1] = stmt[s].user
      BY <1>1, <3>5 DEF Place, FigureKeyed
    <3>9. QED
      BY <3>5, <3>6, <3>7, <3>8
  <2>2. f \in Sessions \cup {"none"}
    BY <1>1, <2>1 DEF TypeOK
  <2>3. f # "none" => ses[f].key = ses[s].key
    BY <1>1, <2>1 DEF FiguresInPlace
  <2>4. f # "none" => stmt[f].user = stmt[s].user
    <3>1. SUFFICES ASSUME f # "none", f \in Sessions PROVE stmt[f].user = stmt[s].user
      BY <2>2
    <3>2. Place(f)
      BY <3>1 DEF OwnInputs
    <3>3. ses[f].key[1] = stmt[f].user
      BY <2>1, <2>3, <3>1, <3>2 DEF Place, FigureKeyed
    <3>4. QED
      BY <2>1, <2>3, <3>1, <3>3
  <2> HIDE DEF f
  <2>5. r \in SessionType(s) /\ r.shown = f
    BY <1>1, <2>2 DEF SessionType
  <2>6. /\ Alike(r, ses[s]) /\ r.cmd = ses[s].cmd /\ r.key = ses[s].key /\ r.job = ses[s].job
        /\ r.type = ses[s].type /\ r.loaded = ses[s].loaded
    BY <1>1 DEF SessionType, Alike
  <2>7. Go(s, r)
    BY <1>5 DEF f
  <2> HIDE DEF r
  <2>8. Advanced(s, r)
    BY <1>1, <1>2, <2>5, <2>6, <2>7, GoNow DEF Alike
  <2>9. TypeOK'
    BY <1>1, <1>2, <2>8 DEF TypeOK, Advanced, Others
  <2>10. Place(s)'
    BY <1>1, <1>2, <1>3, <2>6, <2>8, AdvancedPlace
  <2>11. /\ ses'[s] \in SessionType(s) /\ Others(s) /\ ses'[s].key = ses[s].key /\ ses'[s].shown = f
         /\ ses'[s].type = ses[s].type /\ ses'[s].job = ses[s].job /\ ses'[s].cmd = ses[s].cmd
    BY <2>5, <2>6, <2>8 DEF Advanced, Rest
  <2>12. Effects(s)
    BY <1>1, <1>2, <2>11, StillEffects DEF Quiet, OwnResults
  <2>13. FigureIsOwn(s)' /\ ses'[s].key # <<>>
    <3>1. f # "none" /\ f # s => ses'[f].key = ses'[s].key
      BY <2>2, <2>3, <2>11 DEF Others
    <3>2. QED
      BY <1>2, <2>1, <2>4, <2>11, <3>1 DEF FigureIsOwn
  <2>14. Left(s)' \subseteq Left(s)
    BY <1>1, <1>2, <2>6, <2>8, AdvancedLeft DEF Place, Alike, Ignored
  <2>15. \A m \in Models : OtherTrains(s, m)' <=> OtherTrains(s, m)
    BY <1>2 DEF OtherTrains
  <2>16. stmt[s].model \in Models /\ stmt' = stmt /\ Wrote(s)' = Wrote(s)
    BY <1>1, <1>2, StatementTypes DEF Statements, Wrote
  <2>17. ModelWaits(s)' /\ ResumeFindsModel(s)'
    <3>1. ModelWaits(s)'
      BY <1>1, <1>2, <2>11, <2>15, <2>16 DEF Sound, ModelWaits, StoredObject, None
    <3>2. ses'[s].loaded = ses[s].loaded
      BY <2>6, <2>8 DEF Advanced, Rest
    <3>3. ResumeFindsModel(s)'
      BY <1>1, <1>2, <2>11, <2>15, <2>16, <3>2 DEF Sound, ResumeFindsModel
    <3>4. QED
      BY <3>1, <3>3
  <2>18. TypeBeingRead(s)' /\ TypeIsSaved(s)'
    BY <1>1, <1>2, <2>11, <2>14, <2>15, <2>16 DEF Sound, TypeBeingRead, TypeIsSaved
  <2>19. JobsWork(s)'
    <3>1. DidWork(s)' <=> DidWork(s)
      BY <1>2, <2>15, <2>16 DEF DidWork
    <3>2. QED
      BY <1>1, <1>2, <2>11, <2>15, <2>16, <3>1 DEF Sound, JobsWork
  <2>20. QED
    BY <2>9, <2>10, <2>12, <2>13, <2>17, <2>18, <2>19 DEF Kept, Sound
<1>6. QED
  BY <1>4, <1>5 DEF Draw

\* An object has been sent to the bucket.
LEMMA UploadKept ==
    ASSUME OwnInputs, NEW s \in Sessions, UploadCode(s) \/ UploadParams(s)
    PROVE  Kept(s)
<1>1. TypeOK /\ Place(s) /\ Sound(s) /\ ses[s] \in SessionType(s)
  BY StatementTypes DEF OwnInputs, Sound, FiguresInPlace
<1>2. /\ ses[s].todo # <<>> /\ Head(ses[s].todo) \in {"upload", "params"} /\ OwnResults(s)
      /\ UNCHANGED <<stmt, tables, results, oss, offline, figures, file, env, archive, now>>
  BY DEF UploadCode, UploadParams, At, OwnResults, process
<1>3. Head(ses[s].todo) \notin {"submit", "download", "save", "draw"} \cup Ignored
  BY <1>2 DEF Ignored
<1>4. CASE /\ Fail(s) /\ Head(ses[s].todo) = "upload"
           /\ objects' \in {objects, objects \cup {<<s, "code">>}}
  <2>1. Failed(s, ses[s])
    BY <1>1, <1>2, <1>4, OnNow
  <2>2. /\ ses'[s] \in SessionType(s) /\ Others(s) /\ ses'[s].key = ses[s].key
        /\ ses'[s].bad = ses[s].bad \cup {"upload"}
    BY <1>1, <1>4, <2>1 DEF Failed, Rest, SessionType
  <2>3. TypeOK'
    <3>1. <<s, "code">> \in Sessions \X {"code", "params"}
      OBVIOUS
    <3>2. objects' \subseteq Sessions \X {"code", "params"}
      BY <1>1, <1>4, <3>1 DEF TypeOK
    <3>3. QED
      BY <1>1, <1>2, <2>2, <3>2 DEF TypeOK, Others
  <2>4. Head(ses[s].todo) \notin Ignored \cup {"concat"} /\ Head(ses[s].todo) # "submit"
    BY <1>2, <1>3
  <2>5. Leaves(s)
    <3>1. ObjectMayStay(s, "code")'
      BY <2>2 DEF ObjectMayStay
    <3>2. QED
      BY <1>2, <1>4, <3>1 DEF Leaves
  <2>6. Effects(s)
    <3>1. \A x \in Sessions \ {s} : \A c \in {"code", "params"} :
             <<x, c>> \in objects' <=> <<x, c>> \in objects
      BY <1>4
    <3>2. QED
      BY <1>1, <1>2, <2>2, <3>1, StillEffects
  <2>7. QED
    BY <1>2, <2>1, <2>3, <2>4, <2>5, <2>6, LeavingKept
<1>5. ASSUME NEW o \in {"code", "params"}, Head(ses[s].todo) = IF o = "code" THEN "upload" ELSE "params",
             Go(s, [ses[s] EXCEPT !.defer = <<Deletion(o)>> \o @]),
             objects' = objects \cup {<<s, o>>} \/ (o # "code" /\ objects' = objects)
      PROVE  Kept(s)
  <2> DEFINE d == <<Deletion(o)>> \o ses[s].defer
             r == [ses[s] EXCEPT !.defer = d]
  <2>1. d \in Seq(Ignored) /\ Range(d) = {Deletion(o)} \cup Range(ses[s].defer)
    <3> DEFINE u == <<Deletion(o)>>
    <3>1. Deletion(o) \in Ignored
      BY DEF Deletion, Ignored
    <3>2. u \in Seq(Ignored) /\ Range(u) = {Deletion(o)} /\ ses[s].defer \in Seq(Ignored)
      BY <1>1, <3>1, OneLeft DEF SessionType
    <3> HIDE DEF u
    <3>3. u \o ses[s].defer \in Seq(Ignored) /\ Range(u \o ses[s].defer) = Range(u) \cup Range(ses[s].defer)
      BY <3>2, BothLeft
    <3>4. QED
      BY <3>2, <3>3 DEF u
  <2>2. Go(s, r)
    BY <1>5
  <2> HIDE DEF d
  <2>3. r \in SessionType(s) /\ r.defer = d
    BY <1>1, <2>1 DEF SessionType
  <2>4. /\ r.todo = ses[s].todo /\ r.names = ses[s].names /\ r.bad = ses[s].bad /\ r.res = ses[s].res
        /\ r.cmd = ses[s].cmd /\ r.key = ses[s].key /\ r.job = ses[s].job
        /\ r.shown = ses[s].shown /\ r.type = ses[s].type
    BY <1>1 DEF SessionType
  <2> HIDE DEF r
  <2>5. Advanced(s, r)
    BY <1>1, <1>2, <2>2, <2>3, <2>4, GoNow
  <2>6. Place(s)'
    BY <1>1, <1>2, <1>5, <2>1, <2>3, <2>4, <2>5, UploadPlace
  <2>7. ses'[s] \in SessionType(s) /\ Others(s) /\ ses'[s].key = ses[s].key
    BY <2>4, <2>5 DEF Advanced, Rest
  <2>8. \A x \in Sessions \ {s} : \A c \in {"code", "params"} : <<x, c>> \in objects' <=> <<x, c>> \in objects
    BY <1>5
  <2>9. objects' \subseteq Sessions \X {"code", "params"}
    <3>1. objects \subseteq Sessions \X {"code", "params"} /\ <<s, o>> \in Sessions \X {"code", "params"}
      BY <1>1 DEF TypeOK
    <3>2. QED
      BY <1>5, <3>1
  <2>10. TypeOK'
    BY <1>1, <1>2, <2>7, <2>9 DEF TypeOK, Others
  <2>11. Effects(s)
    BY <1>1, <1>2, <2>7, <2>8, StillEffects
  <2>12. Calm(s)
    BY <1>1, <1>2, <1>3, <2>4, <2>5, AdvancedCalm
  <2>13. QED
    BY <1>1, <2>6, <2>10, <2>11, <2>12, CalmSound DEF Kept
<1>6. Deletion("code") = "code object" /\ Deletion("params") = "params object"
  BY DEF Deletion
<1>7. CASE UploadCode(s)
  <2>1. Head(ses[s].todo) = "upload"
    BY <1>7 DEF UploadCode, At
  <2>2. \/ Fail(s) /\ objects' \in {objects, objects \cup {<<s, "code">>}}
        \/ /\ objects' = objects \cup {<<s, "code">>}
           /\ Go(s, [ses[s] EXCEPT !.defer = <<Deletion("code")>> \o @])
    BY <1>6, <1>7 DEF UploadCode
  <2>3. QED
    BY <1>4, <1>5, <2>1, <2>2
<1>8. CASE UploadParams(s)
  BY <1>5, <1>6, <1>8 DEF UploadParams, At
<1>9. QED
  BY <1>7, <1>8

\* The record with what was generated.
LEMMA KeyedRecord ==
    ASSUME NEW s, NEW r \in SessionType(s), NEW k \in ({"u1", "u2"} \X Seconds) \cup {<<>>}
    PROVE  [r EXCEPT !.key = k] \in SessionType(s)
BY ZenonT(60) DEF SessionType

\* The same, with the command.
LEMMA GeneratedRecord ==
    ASSUME NEW s, NEW r \in SessionType(s), NEW c \in {"none", "empty", "full"},
           NEW k \in ({"u1", "u2"} \X Seconds) \cup {<<>>}
    PROVE  [r EXCEPT !.cmd = c, !.key = k] \in SessionType(s)
<1>1. [r EXCEPT !.cmd = c] \in SessionType(s)
  BY ZenonT(60) DEF SessionType
<1>2. [r EXCEPT !.cmd = c, !.key = k] = [[r EXCEPT !.cmd = c] EXCEPT !.key = k]
  BY DEF SessionType
<1>3. [[r EXCEPT !.cmd = c] EXCEPT !.key = k] \in SessionType(s)
  BY <1>1, KeyedRecord
<1>4. QED
  BY <1>2, <1>3

\* The command is generated.
LEMMA CodegenKept ==
    ASSUME OwnInputs, NEW s \in Sessions, Codegen(s)
    PROVE  Kept(s)
<1>1. /\ TypeOK /\ Place(s) /\ Sound(s) /\ ses[s] \in SessionType(s)
      /\ stmt[s].into \in Names \cup {"none"} /\ stmt[s].user \in {"u1", "u2"}
  BY StatementTypes DEF OwnInputs, Sound, FiguresInPlace, Statements
<1>2. /\ ses[s].todo # <<>> /\ Head(ses[s].todo) = "codegen" /\ Quiet /\ At(s, "codegen")
      /\ UNCHANGED <<stmt, tables, oss, offline, objects, figures, file, env, archive, now>>
  BY DEF Codegen, At, Quiet, process
<1>3. "codegen" \notin {"submit", "download", "save", "draw"} \cup Ignored /\ "codegen" \notin Ignored \cup {"concat"}
  BY DEF Ignored
<1>4. ses[s].job = "none"
  BY <1>1, <1>2, <1>3, JobAt
<1> DEFINE st == stmt[s]
           cloud == st.sub # "alps" /\ st.kind # "optimize"
           type == IF st.kind = "train" THEN TypeOf(st.est) ELSE ses[s].type
           dropped == IF cloud /\ DropsInto(st, type)
                      THEN [results EXCEPT ![st.into] = "absent"] ELSE results
           cmd == IF cloud THEN Generated(st, type) ELSE "full"
<1>5. results' \in {results, dropped}
  BY DEF Codegen
<1>6. results' = results \/ (st.into # "none" /\ results' = [results EXCEPT ![st.into] = "absent"])
  BY <1>5 DEF DropsInto
<1>7. OwnResults(s) /\ results' \in [Names -> {"absent", "old", "empty"} \cup Sessions]
  BY <1>1, <1>4, <1>6 DEF OwnResults, TypeOK
<1>8. Refuse(s) \/ Go(s, [ses[s] EXCEPT !.cmd = cmd, !.key = FigureKey(st)])
  BY DEF Codegen, Fail
<1>9. cmd \in {"empty", "full"}
  BY DEF Generated
<1> HIDE DEF cmd, dropped, type, cloud
<1>10. CASE Refuse(s)
  <2>1. Failed(s, ses[s])
    BY <1>1, <1>2, <1>10, OnNow
  <2>2. TypeOK'
    BY <1>1, <1>2, <1>7, <2>1 DEF TypeOK, Failed, Others
  <2>3. QED
    BY <1>2, <1>3, <1>7, <2>1, <2>2, FailedKept
<1>11. CASE Go(s, [ses[s] EXCEPT !.cmd = cmd, !.key = FigureKey(st)])
  <2> DEFINE k == FigureKey(st)
             r == [ses[s] EXCEPT !.cmd = cmd, !.key = k]
  <2>1. k \in {"u1", "u2"} \X Seconds /\ k # <<>> /\ k[1] = st.user
    <3>1. now \in Seconds
      BY <1>1 DEF TypeOK
    <3>2. k = <<st.user, now>>
      BY DEF FigureKey
    <3> HIDE DEF k
    <3>3. k \in {"u1", "u2"} \X Seconds /\ k[1] = st.user
      BY <1>1, <3>1, <3>2
    <3>4. k # <<>>
      BY <3>2
    <3>5. QED
      BY <3>3, <3>4
  <2>2. Go(s, r)
    BY <1>11
  <2> HIDE DEF k
  <2>3. r \in SessionType(s) /\ r.key = k
    <3>1. cmd \in {"none", "empty", "full"}
      BY <1>9
    <3>2. k \in ({"u1", "u2"} \X Seconds) \cup {<<>>}
      BY <2>1
    <3>3. r.key = k
      BY <1>1 DEF SessionType
    <3>4. QED
      BY <1>1, <3>1, <3>2, <3>3, GeneratedRecord
  <2>4. /\ Alike(r, ses[s]) /\ r.job = ses[s].job /\ r.shown = ses[s].shown /\ r.type = ses[s].type
    BY <1>1 DEF SessionType, Alike
  <2> HIDE DEF r
  <2>5. Advanced(s, r)
    BY <1>1, <1>2, <2>2, <2>3, <2>4, GoNow DEF Alike
  <2>6. Place(s)'
    BY <1>1, <1>2, <2>1, <2>3, <2>4, <2>5, CodegenPlace
  <2>7. ses'[s] \in SessionType(s) /\ Others(s)
    BY <2>5 DEF Advanced
  <2>8. ses[s].key = <<>>
    <3>1. "codegen" \in Left(s)
      BY <1>1, <1>2, HeadFacts DEF Place
    <3>2. QED
      BY <1>1, <3>1 DEF Place, FigureKeyed
  <2>9. TypeOK'
    BY <1>1, <1>2, <1>7, <2>7 DEF TypeOK, Others
  <2>10. Effects(s)
    BY <1>1, <1>2, <1>7, <2>7, <2>8, StillEffects DEF OwnResults
  <2>11. Calm(s)
    BY <1>1, <1>2, <1>3, <1>4, <1>7, <2>4, <2>5, AdvancedCalm DEF Alike
  <2>12. QED
    BY <1>1, <2>6, <2>9, <2>10, <2>11, CalmSound DEF Kept
<1>12. QED
  BY <1>8, <1>10, <1>11

\* What a training may empty is its own model.
LEMMA CleanedKept ==
    ASSUME OwnInputs, NEW s \in Sessions, ses[s].todo # <<>>,
           Head(ses[s].todo) \in {"cleanSub", "cleanTop", "offline"},
           NEW r, Alike(r, ses[s]), r.cmd = ses[s].cmd, r.key = ses[s].key, r.job = ses[s].job,
           r.shown = ses[s].shown, r.type = ses[s].type, Advanced(s, r),
           \A m \in Models : m # stmt[s].model => oss'[m] = oss[m] /\ offline'[m] = offline[m],
           Head(ses[s].todo) = "offline" => oss' = oss,
           oss' \in [Models -> [Objects -> [by : Sessions \cup {"before", "none"},
                                            est : Estimators \cup {"none"}]]],
           offline' \in [Models -> Sessions \cup {"before", "none"}],
           UNCHANGED <<stmt, tables, results, objects, figures, process, archive, now>>
    PROVE  Kept(s)
<1>1. TypeOK /\ Place(s) /\ Sound(s)
  BY DEF OwnInputs, Sound, FiguresInPlace
<1>2. /\ UNCHANGED <<stmt, tables, results, objects, figures, file, env, archive, now>>
      /\ Quiet /\ OwnResults(s)
  BY DEF process, Quiet, OwnResults
<1>3. /\ Head(ses[s].todo) \in Plain
      /\ Head(ses[s].todo) \notin {"submit", "download", "save", "draw"} \cup Ignored
  BY DEF Plain, Phases, Ignored
<1>4. ses[s].job = "none"
  BY <1>1, <1>3, JobAt
<1>5. Head(ses[s].todo) \in Left(s)
  BY <1>1, HeadFacts DEF Place
<1>6. stmt[s].kind = "train"
  BY <1>1, <1>5 DEF Place, PhasesOfKind
<1>7. stmt[s].sub \in {"pai", "local"} /\ stmt[s].load = stmt[s].model => oss' = oss
  BY <1>1, <1>5 DEF Place, PhasesOfKind, CleansDir
<1>8. ses'[s] \in SessionType(s) /\ Others(s) /\ ses'[s].key = ses[s].key
  BY DEF Advanced, Rest
<1>9. TypeOK'
  BY <1>1, <1>2, <1>8 DEF TypeOK, Others
<1>10. Place(s)'
  BY <1>1, <1>2, <1>3, AdvancedPlace
<1>11. Effects(s)
  BY <1>2, <1>6, <1>8 DEF Effects
<1>12. Calm(s)
  BY <1>1, <1>2, <1>3, <1>4, <1>7, AdvancedCalm DEF Alike
<1>13. QED
  BY <1>1, <1>9, <1>10, <1>11, <1>12, CalmSound DEF Kept

\* The same where that is said to have failed.
LEMMA CleaningFailedKept ==
    ASSUME OwnInputs, NEW s \in Sessions, ses[s].todo # <<>>,
           Head(ses[s].todo) \in {"cleanSub", "cleanTop", "offline"}, Failed(s, ses[s]),
           \A m \in Models : m # stmt[s].model => oss'[m] = oss[m] /\ offline'[m] = offline[m],
           Head(ses[s].todo) = "offline" => oss' = oss,
           oss' \in [Models -> [Objects -> [by : Sessions \cup {"before", "none"},
                                            est : Estimators \cup {"none"}]]],
           offline' \in [Models -> Sessions \cup {"before", "none"}],
           UNCHANGED <<stmt, tables, results, objects, figures, process, archive, now>>
    PROVE  Kept(s)
<1>1. TypeOK /\ Place(s) /\ ses[s] \in SessionType(s)
  BY StatementTypes DEF OwnInputs
<1>2. /\ UNCHANGED <<stmt, tables, results, objects, figures, file, env, archive, now>>
      /\ Leaves(s) /\ OwnResults(s)
  BY DEF process, Leaves, OwnResults
<1>3. /\ Head(ses[s].todo) \notin Ignored \cup {"concat"} /\ Head(ses[s].todo) # "submit"
      /\ Head(ses[s].todo) \notin {"submit", "download", "save", "draw"} \cup Ignored
  BY DEF Ignored
<1>4. ses[s].job = "none"
  BY <1>1, <1>3, JobAt
<1>5. Head(ses[s].todo) \in Left(s)
  BY <1>1, HeadFacts DEF Place
<1>6. stmt[s].kind = "train"
  BY <1>1, <1>5 DEF Place, PhasesOfKind
<1>7. stmt[s].sub \in {"pai", "local"} /\ stmt[s].load = stmt[s].model => oss' = oss
  BY <1>1, <1>5 DEF Place, PhasesOfKind, CleansDir
<1>8. ses'[s] \in SessionType(s) /\ Others(s) /\ ses'[s].key = ses[s].key
  BY <1>1 DEF Failed, Rest, SessionType
<1>9. TypeOK'
  BY <1>1, <1>2, <1>8 DEF TypeOK, Others
<1>10. Effects(s)
  BY <1>2, <1>6, <1>8 DEF Effects
<1>11. QED
  BY <1>2, <1>3, <1>4, <1>7, <1>9, <1>10, LeavingKept

\* Objects that are gone from a model.
LEMMA WithoutThem ==
    ASSUME TypeOK, NEW m \in Models, NEW os
    PROVE  /\ Without(m, os) \in [Models -> [Objects -> [by : Sessions \cup {"before", "none"},
                                                         est : Estimators \cup {"none"}]]]
           /\ \A x \in Models : x # m => Without(m, os)[x] = oss[x]
<1> DEFINE R == [by : Sessions \cup {"before", "none"}, est : Estimators \cup {"none"}]
<1>1. oss \in [Models -> [Objects -> R]] /\ None \in R
  BY DEF TypeOK, None
<1> HIDE DEF R
<1>2. [o \in Objects |-> IF o \in os THEN None ELSE oss[m][o]] \in [Objects -> R]
  BY <1>1
<1>3. Without(m, os) \in [Models -> [Objects -> R]]
  BY <1>1, <1>2 DEF Without
<1>4. \A x \in Models : x # m => Without(m, os)[x] = oss[x]
  BY <1>1 DEF Without
<1>5. QED
  BY <1>3, <1>4 DEF R

\* The directory of a model is emptied, or its offline model dropped.
LEMMA CleanKept ==
    ASSUME OwnInputs, NEW s \in Sessions, CleanSub(s) \/ CleanTop(s) \/ CleanupPAIModel(s)
    PROVE  Kept(s)
<1> DEFINE OK == [Models -> [Objects -> [by : Sessions \cup {"before", "none"},
                                         est : Estimators \cup {"none"}]]]
           m == stmt[s].model
           Fits == /\ oss' \in OK /\ offline' \in [Models -> Sessions \cup {"before", "none"}]
                   /\ \A x \in Models : x # m => oss'[x] = oss[x] /\ offline'[x] = offline[x]
                   /\ Head(ses[s].todo) = "offline" => oss' = oss
<1>1. TypeOK /\ ses[s] \in SessionType(s) /\ m \in Models
  BY StatementTypes DEF OwnInputs, Statements
<1>2. /\ ses[s].todo # <<>> /\ Head(ses[s].todo) \in {"cleanSub", "cleanTop", "offline"}
      /\ UNCHANGED <<stmt, tables, results, objects, figures, process, archive, now>>
  BY DEF CleanSub, CleanTop, CleanupPAIModel, At
<1>3. oss \in OK /\ offline \in [Models -> Sessions \cup {"before", "none"}]
  BY <1>1 DEF TypeOK
<1>4. ASSUME NEW os, oss' = Without(m, os) PROVE oss' \in OK /\ \A x \in Models : x # m => oss'[x] = oss[x]
  BY <1>1, <1>4, WithoutThem
<1>5. Fits
  <2> HIDE DEF OK
  <2>1. CASE CleanSub(s)
    <3>1. oss' = oss \/ oss' = Without(m, {"model_save"})
      BY <2>1 DEF CleanSub
    <3>2. Head(ses[s].todo) # "offline" /\ offline' = offline
      BY <2>1 DEF CleanSub, At
    <3>3. QED
      BY <1>3, <1>4, <3>1, <3>2
  <2>2. CASE CleanTop(s)
    <3>1. \E os : oss' = Without(m, os)
      BY <2>2 DEF CleanTop
    <3>2. Head(ses[s].todo) # "offline" /\ offline' = offline
      BY <2>2 DEF CleanTop, At
    <3>3. QED
      BY <1>3, <1>4, <3>1, <3>2
  <2>3. CASE CleanupPAIModel(s)
    <3>1. oss' = oss /\ (offline' = offline \/ offline' = [offline EXCEPT ![m] = "none"])
      BY <2>3 DEF CleanupPAIModel
    <3>2. QED
      BY <1>1, <1>3, <3>1
  <2>4. QED
    BY <2>1, <2>2, <2>3
<1>6. ASSUME Fail(s) PROVE Kept(s)
  <2>1. Failed(s, ses[s])
    BY <1>1, <1>2, <1>6, OnNow
  <2>2. QED
    BY <1>2, <1>5, <2>1, CleaningFailedKept
<1>7. ASSUME On(s) PROVE Kept(s)
  <2>1. Advanced(s, ses[s])
    BY <1>1, <1>2, <1>7, OnNow
  <2>2. QED
    BY <1>2, <1>5, <2>1, CleanedKept DEF Alike
<1>8. ASSUME NEW listed \in SUBSET Objects, Go(s, [ses[s] EXCEPT !.top = listed]) PROVE Kept(s)
  <2> DEFINE r == [ses[s] EXCEPT !.top = listed]
  <2>1. r \in SessionType(s)
    BY <1>1 DEF SessionType
  <2>2. /\ Alike(r, ses[s]) /\ r.cmd = ses[s].cmd /\ r.key = ses[s].key /\ r.job = ses[s].job
        /\ r.shown = ses[s].shown /\ r.type = ses[s].type
    BY <1>1 DEF SessionType, Alike
  <2>3. Go(s, r)
    BY <1>8
  <2> HIDE DEF r
  <2>4. Advanced(s, r)
    BY <1>1, <1>2, <2>1, <2>2, <2>3, GoNow DEF Alike
  <2>5. QED
    BY <1>2, <1>5, <2>2, <2>4, CleanedKept
<1>9. \/ Fail(s) \/ On(s)
      \/ \E listed \in SUBSET Objects : Go(s, [ses[s] EXCEPT !.top = listed])
  <2>1. CASE CleanSub(s)
    BY <2>1 DEF CleanSub
  <2>2. CASE CleanTop(s) \/ CleanupPAIModel(s)
    BY <2>2 DEF CleanTop, CleanupPAIModel
  <2>3. QED
    BY <2>1, <2>2
<1>10. QED
  BY <1>6, <1>7, <1>8, <1>9

\* Before its job a session relies on little.
LEMMA NoJobSound ==
    ASSUME TypeOK, NEW s \in Sessions, Sound(s), Effects(s), ses[s].job = "none", ses'[s].job = "none",
           ses'[s].shown = ses[s].shown, oss' = oss, TypeBeingRead(s)', TypeIsSaved(s)'
    PROVE  Sound(s)'
<1>1. stmt' = stmt
  BY DEF Effects
<1>2. \A m \in Models : OtherTrains(s, m)' <=> OtherTrains(s, m)
  BY <1>1 DEF OtherTrains
<1>3. stmt[s].model \in Models
  BY StatementTypes DEF Statements
<1>4. FigureIsOwn(s)' /\ (ses'[s].shown # "none" => ses'[s].key # <<>>)
  BY ShownKept DEF Sound
<1>5. ModelWaits(s)'
  BY <1>1, <1>2, <1>3 DEF Sound, ModelWaits, StoredObject, None
<1>6. ResumeFindsModel(s)' /\ JobsWork(s)'
  BY DEF ResumeFindsModel, JobsWork
<1>7. QED
  BY <1>4, <1>5, <1>6 DEF Sound

\* A model that nobody trains is on OSS as it was stored.
LEMMA UsedModel ==
    ASSUME OwnInputs, NEW s \in Sessions, stmt[s].kind \in Using,
           ~OtherTrains(s, stmt[s].model), Stored[stmt[s].model] # "none"
    PROVE  LET m == stmt[s].model
               t == TypeOf(Stored[m])
           IN /\ oss[m]["tf"] # None <=> t = "TENSORFLOW"
              /\ oss[m]["xgb"] # None <=> t = "XGBOOST"
              /\ t \in {"TENSORFLOW", "XGBOOST", "PAIML"}
<1> DEFINE m == stmt[s].model
           e == Stored[m]
<1>1. m \in Models /\ e \in Estimators /\ e # "none"
  BY StatementTypes, JobsAssumption DEF OwnInputs, Statements
<1>2. \A x \in Sessions : stmt[x].kind = "train" => stmt[x].model # m
  BY DEF OtherTrains, Using
<1>3. oss[m]["tf"] = StoredObject(m, "tf") /\ oss[m]["xgb"] = StoredObject(m, "xgb")
  BY <1>1, <1>2 DEF OwnInputs, ModelsUntouched, Objects
<1>4. [by |-> "before", est |-> e] # None
  BY DEF None
<1>5. \A o \in Objects : StoredObject(m, o) # None <=> o \in SavedObjects(e)
  BY <1>1, <1>4 DEF StoredObject
<1> HIDE DEF e
<1>6. TypeOf(e) \in {"TENSORFLOW", "XGBOOST", "PAIML"}
  BY <1>1 DEF TypeOf
<1>7. "tf" \in SavedObjects(e) <=> TypeOf(e) = "TENSORFLOW"
  BY <1>6 DEF SavedObjects
<1>8. "xgb" \in SavedObjects(e) <=> TypeOf(e) = "XGBOOST"
  BY <1>6 DEF SavedObjects
<1>9. "tf" \in Objects /\ "xgb" \in Objects
  BY DEF Objects
<1>10. QED
  BY <1>3, <1>5, <1>6, <1>7, <1>8, <1>9 DEF e

\* The type of a model is looked for: one more question, or an error.
LEMMA ReadTypeKept ==
    ASSUME OwnInputs, NEW s \in Sessions, ReadType(s)
    PROVE  Kept(s)
<1>1. TypeOK /\ Place(s) /\ Sound(s) /\ stmt[s].model \in Models
  BY StatementTypes DEF OwnInputs, Sound, FiguresInPlace, Statements
<1>2. /\ ses[s].todo # <<>> /\ Head(ses[s].todo) = "type" /\ At(s, "type") /\ Quiet /\ OwnResults(s)
      /\ UNCHANGED <<stmt, tables, results, oss, offline, objects, figures, env, archive, now>>
  BY DEF ReadType, At, Quiet, OwnResults, store
<1>3. file' \in Estimators \cup {"none"}
  <2>1. oss[stmt[s].model]["tf_estimator"].est \in Estimators \cup {"none"}
    <3> DEFINE R == [by : Sessions \cup {"before", "none"}, est : Estimators \cup {"none"}]
    <3>1. oss \in [Models -> [Objects -> R]] /\ "tf_estimator" \in Objects
      BY <1>1 DEF TypeOK, Objects
    <3>2. \A r \in R : r.est \in Estimators \cup {"none"}
      OBVIOUS
    <3> HIDE DEF R
    <3>3. QED
      BY <1>1, <3>1, <3>2
  <2>2. file' = file \/ file' = oss[stmt[s].model]["tf_estimator"].est
    BY DEF ReadType
  <2>3. QED
    BY <1>1, <2>1, <2>2 DEF TypeOK
<1>4. "type" \notin {"submit", "download", "save", "draw"} \cup Ignored /\ "type" \notin Ignored \cup {"concat"}
  BY DEF Ignored
<1>5. ses[s].job = "none"
  BY <1>1, <1>2, <1>4, JobAt
<1>6. CASE Refuse(s)
  <2>1. Failed(s, ses[s])
    BY <1>1, <1>2, <1>6, OnNow
  <2>2. TypeOK'
    BY <1>1, <1>2, <1>3, <2>1 DEF TypeOK, Failed, Others
  <2>3. QED
    BY <1>2, <1>4, <2>1, <2>2, FailedKept
<1>7. ASSUME NEW x \in {"read", "xgb"}, ses' = [ses EXCEPT ![s].todo = <<x>> \o Tail(@)],
             x = "read" <=> oss[stmt[s].model]["tf"] # None
      PROVE  Kept(s)
  <2>1. /\ Place(s)' /\ ses'[s] \in SessionType(s) /\ Others(s) /\ Rest(s, ses[s])
        /\ \A p \in Left(s)' : p = x \/ p \in Left(s)
    BY <1>1, <1>2, <1>7, SplicedPlace
  <2>2. /\ ses'[s].key = ses[s].key /\ ses'[s].shown = ses[s].shown /\ ses'[s].job = ses[s].job
        /\ ses'[s].type = ses[s].type
    BY <2>1 DEF Rest
  <2>3. TypeOK'
    BY <1>1, <1>2, <1>3, <2>1 DEF TypeOK, Others
  <2>4. Effects(s)
    BY <1>1, <1>2, <2>1, <2>2, StillEffects
  <2>5. \A m \in Models : OtherTrains(s, m)' <=> OtherTrains(s, m)
    BY <1>2 DEF OtherTrains
  <2>6. TypeIsSaved(s)'
    BY <1>1, <1>2, <2>2, <2>5 DEF Sound, TypeIsSaved
  <2>7. TypeBeingRead(s)'
    <3>1. SUFFICES ASSUME stmt[s].kind \in Using, Stored[stmt[s].model] # "none",
                          ~OtherTrains(s, stmt[s].model)
                   PROVE  /\ "read" \in Left(s)' => TypeOf(Stored[stmt[s].model]) = "TENSORFLOW"
                          /\ "xgb" \in Left(s)' => TypeOf(Stored[stmt[s].model]) # "TENSORFLOW"
      BY <1>1, <1>2, <2>5 DEF TypeBeingRead
    <3>2. oss[stmt[s].model]["tf"] # None <=> TypeOf(Stored[stmt[s].model]) = "TENSORFLOW"
      BY <3>1, UsedModel
    <3>3. /\ "read" \in Left(s) => TypeOf(Stored[stmt[s].model]) = "TENSORFLOW"
          /\ "xgb" \in Left(s) => TypeOf(Stored[stmt[s].model]) # "TENSORFLOW"
      BY <1>1, <3>1 DEF Sound, TypeBeingRead
    <3>4. QED
      BY <1>7, <2>1, <3>2, <3>3
  <2>8. QED
    BY <1>1, <1>2, <1>5, <2>1, <2>2, <2>3, <2>4, <2>6, <2>7, NoJobSound DEF Kept
<1>8. CASE oss[stmt[s].model]["tf"] # None
  <2>1. Refuse(s) \/ ses' = [ses EXCEPT ![s].todo = <<"read">> \o Tail(@)]
    BY <1>8 DEF ReadType
  <2>2. QED
    BY <1>6, <1>7, <1>8, <2>1
<1>9. CASE oss[stmt[s].model]["tf"] = None
  <2>1. Refuse(s) \/ ses' = [ses EXCEPT ![s].todo = <<"xgb">> \o Tail(@)]
    BY <1>9 DEF ReadType, Fail
  <2>2. QED
    BY <1>6, <1>7, <1>9, <2>1
<1>10. QED
  BY <1>8, <1>9

\* The record of a session that knows the type of its model.
LEMMA TypeRecord ==
    ASSUME NEW s, NEW r \in SessionType(s), NEW t \in {"none", "TENSORFLOW", "XGBOOST", "PAIML"}
    PROVE  [r EXCEPT !.type = t] \in SessionType(s)
BY ZenonT(60) DEF SessionType

\* The type of the model is known.
LEMMA TypeReadKept ==
    ASSUME OwnInputs, NEW s \in Sessions, ReadEstimator(s) \/ AskXgboost(s)
    PROVE  Kept(s)
<1>1. TypeOK /\ Place(s) /\ Sound(s) /\ ses[s] \in SessionType(s) /\ stmt[s].model \in Models
  BY StatementTypes DEF OwnInputs, Sound, FiguresInPlace, Statements
<1>2. /\ ses[s].todo # <<>> /\ Head(ses[s].todo) \in {"read", "xgb"} /\ Quiet /\ OwnResults(s)
      /\ UNCHANGED <<stmt, tables, results, oss, offline, objects, figures, file, env, archive, now>>
  BY DEF ReadEstimator, AskXgboost, At, Quiet, OwnResults, store, process
<1>3. /\ Head(ses[s].todo) \notin {"submit", "download", "save", "draw"} \cup Ignored
      /\ Head(ses[s].todo) \notin Ignored \cup {"concat"} /\ Head(ses[s].todo) # "submit"
      /\ Head(ses[s].todo) \in Plain
  BY <1>2 DEF Plain, Phases, Ignored
<1>4. ses[s].job = "none"
  BY <1>1, <1>2, <1>3, JobAt
<1>5. CASE Fail(s)
  <2>1. Failed(s, ses[s])
    BY <1>1, <1>2, <1>5, OnNow
  <2>2. TypeOK'
    BY <1>1, <1>2, <2>1 DEF TypeOK, Failed, Others
  <2>3. QED
    BY <1>2, <1>3, <2>1, <2>2, FailedKept
<1>6. ASSUME NEW r \in SessionType(s), Go(s, r), Alike(r, ses[s]), r.cmd = ses[s].cmd,
             r.key = ses[s].key, r.job = ses[s].job, r.shown = ses[s].shown,
             (/\ stmt[s].kind \in Using /\ Stored[stmt[s].model] # "none"
              /\ ~OtherTrains(s, stmt[s].model)) => r.type = TypeOf(Stored[stmt[s].model])
      PROVE  Kept(s)
  <2>1. Advanced(s, r)
    BY <1>1, <1>2, <1>6, GoNow DEF Alike
  <2>2. Place(s)'
    BY <1>1, <1>2, <1>3, <1>6, <2>1, AdvancedPlace
  <2>3. /\ ses'[s] \in SessionType(s) /\ Others(s) /\ ses'[s].key = ses[s].key
        /\ ses'[s].shown = ses[s].shown /\ ses'[s].job = ses[s].job /\ ses'[s].type = r.type
    BY <1>6, <2>1 DEF Advanced, Rest
  <2>4. TypeOK'
    BY <1>1, <1>2, <2>3 DEF TypeOK, Others
  <2>5. Effects(s)
    BY <1>1, <1>2, <2>3, StillEffects
  <2>6. \A m \in Models : OtherTrains(s, m)' <=> OtherTrains(s, m)
    BY <1>2 DEF OtherTrains
  <2>7. TypeIsSaved(s)'
    BY <1>1, <1>2, <1>6, <2>3, <2>6 DEF TypeIsSaved
  <2>8. Left(s)' \subseteq Left(s)
    <3>1. Head(ses[s].todo) \notin Ignored
      BY <1>3
    <3>2. QED
      BY <1>1, <1>2, <1>6, <2>1, <3>1, AdvancedLeft DEF Place, Alike
  <2>9. TypeBeingRead(s)'
    BY <1>1, <1>2, <2>6, <2>8 DEF Sound, TypeBeingRead
  <2>10. QED
    BY <1>1, <1>2, <1>4, <2>2, <2>3, <2>4, <2>5, <2>7, <2>9, NoJobSound DEF Kept
<1>7. Head(ses[s].todo) \in Left(s)
  BY <1>1, <1>2, HeadFacts DEF Place
<1>8. CASE ReadEstimator(s) /\ ~Fail(s)
  <2> DEFINE r == [ses[s] EXCEPT !.type = "TENSORFLOW", !.est = file]
  <2>1. file \in Estimators \cup {"none"}
    BY <1>1 DEF TypeOK
  <2>2. /\ r \in SessionType(s) /\ Alike(r, ses[s]) /\ r.cmd = ses[s].cmd /\ r.key = ses[s].key
        /\ r.job = ses[s].job /\ r.shown = ses[s].shown /\ r.type = "TENSORFLOW"
    <3> DEFINE u == [ses[s] EXCEPT !.type = "TENSORFLOW"]
    <3>1. r = [u EXCEPT !.est = file]
      BY <1>1 DEF SessionType
    <3>2. u \in SessionType(s) /\ u.type = "TENSORFLOW"
      BY <1>1 DEF SessionType
    <3> HIDE DEF u, r
    <3>3. r \in SessionType(s)
      BY <2>1, <3>1, <3>2 DEF SessionType
    <3>4. QED
      BY <1>1, <3>3 DEF SessionType, Alike, r
  <2>3. Go(s, r) /\ Head(ses[s].todo) = "read"
    BY <1>8 DEF ReadEstimator, At
  <2> HIDE DEF r
  <2>4. (/\ stmt[s].kind \in Using /\ Stored[stmt[s].model] # "none"
         /\ ~OtherTrains(s, stmt[s].model)) => r.type = TypeOf(Stored[stmt[s].model])
    BY <1>1, <1>7, <2>2, <2>3 DEF Sound, TypeBeingRead
  <2>5. QED
    BY <1>6, <2>2, <2>3, <2>4
<1>9. CASE AskXgboost(s) /\ ~Fail(s)
  <2> DEFINE t == IF oss[stmt[s].model]["xgb"] # None THEN "XGBOOST" ELSE "PAIML"
             r == [ses[s] EXCEPT !.type = t]
  <2>1. t \in {"none", "TENSORFLOW", "XGBOOST", "PAIML"}
    OBVIOUS
  <2>2. Go(s, r) /\ Head(ses[s].todo) = "xgb"
    BY <1>9 DEF AskXgboost, At
  <2>3. (/\ stmt[s].kind \in Using /\ Stored[stmt[s].model] # "none"
         /\ ~OtherTrains(s, stmt[s].model)) => t = TypeOf(Stored[stmt[s].model])
    <3>1. SUFFICES ASSUME stmt[s].kind \in Using, Stored[stmt[s].model] # "none",
                          ~OtherTrains(s, stmt[s].model)
                   PROVE  t = TypeOf(Stored[stmt[s].model])
      OBVIOUS
    <3>2. TypeOf(Stored[stmt[s].model]) # "TENSORFLOW"
      BY <1>1, <1>7, <2>2, <3>1 DEF Sound, TypeBeingRead
    <3>3. QED
      BY <3>1, <3>2, UsedModel
  <2> HIDE DEF t
  <2>4. /\ r \in SessionType(s) /\ Alike(r, ses[s]) /\ r.cmd = ses[s].cmd /\ r.key = ses[s].key
        /\ r.job = ses[s].job /\ r.shown = ses[s].shown /\ r.type = t
    <3>1. r \in SessionType(s)
      BY <1>1, <2>1, TypeRecord
    <3>2. QED
      BY <1>1, <3>1 DEF SessionType, Alike
  <2> HIDE DEF r
  <2>5. QED
    BY <1>6, <2>2, <2>3, <2>4
<1>10. QED
  BY <1>5, <1>8, <1>9
-----------------------------------------------------------------------------
(* The job. *)

\* What is in a model.
LEMMA ObjectTypes ==
    ASSUME TypeOK, NEW m \in Models
    PROVE  /\ \A o \in Objects : oss[m][o].by \in Sessions \cup {"before", "none"}
           /\ offline[m] \in Sessions \cup {"before", "none"}
<1> DEFINE R == [by : Sessions \cup {"before", "none"}, est : Estimators \cup {"none"}]
<1>1. oss \in [Models -> [Objects -> R]] /\ offline[m] \in Sessions \cup {"before", "none"}
  BY DEF TypeOK
<1>2. \A r \in R : r.by \in Sessions \cup {"before", "none"}
  OBVIOUS
<1> HIDE DEF R
<1>3. QED
  BY <1>1, <1>2

\* Who wrote the model that a job finds.
LEMMA LoadedType ==
    ASSUME TypeOK, NEW s \in Sessions
    PROVE  Loaded(s) \in Sessions \cup {"before", "none"}
<1>1. /\ stmt[s].model \in Models /\ stmt[s].load \in Models \cup {"none"}
      /\ \A x : Content(x) \in Objects
  BY StatementTypes DEF Statements, Objects, Content
<1>2. Continues(stmt[s]) => stmt[s].load \in Models
  BY <1>1 DEF Continues
<1>3. CASE stmt[s].kind = "train" /\ Continues(stmt[s])
  <2>1. Loaded(s) = oss[stmt[s].load][Content(TypeOf(stmt[s].est))].by
    BY <1>3 DEF Loaded, Using
  <2>2. QED
    BY <1>1, <1>2, <1>3, <2>1, ObjectTypes
<1>4. CASE stmt[s].kind \in Using
  <2>1. \/ Loaded(s) = offline[stmt[s].model]
        \/ Loaded(s) = oss[stmt[s].model][Content(ses[s].type)].by
    BY <1>4 DEF Loaded, Using
  <2>2. QED
    BY <1>1, <2>1, ObjectTypes
<1>5. CASE ~(stmt[s].kind = "train" /\ Continues(stmt[s])) /\ stmt[s].kind \notin Using
  BY <1>5 DEF Loaded
<1>6. QED
  BY <1>3, <1>4, <1>5

\* The record with a job.
LEMMA LoadedRecord ==
    ASSUME NEW s, NEW r \in SessionType(s), NEW l \in Sessions \cup {"before", "none"}
    PROVE  [r EXCEPT !.loaded = l] \in SessionType(s)
BY ZenonT(60) DEF SessionType

\* The record of a session with the environment of its program.
LEMMA ContextRecord ==
    ASSUME NEW s, NEW r \in SessionType(s), NEW c \in [EnvKeys -> Sessions \cup {"none"}]
    PROVE  [r EXCEPT !.ctx = c] \in SessionType(s)
BY ZenonT(60) DEF SessionType

\* The record of a session whose job moves on.
LEMMA StateRecord ==
    ASSUME NEW s, NEW r \in SessionType(s),
           NEW j \in Going \cup {"none", "failing", "done", "failed"}
    PROVE  [r EXCEPT !.job = j] \in SessionType(s)
BY ZenonT(60) DEF SessionType

\* The record of a session with a job.
WithJob(r, j, l, c) == [r EXCEPT !.job = j, !.loaded = l, !.ctx = c]

\* It has the type of a session.
LEMMA JobRecord ==
    ASSUME NEW s \in Sessions, NEW r \in SessionType(s),
           NEW j \in Going \cup {"failing"},
           NEW l \in Sessions \cup {"before", "none"}, NEW c \in [EnvKeys -> Sessions \cup {"none"}]
    PROVE  WithJob(r, j, l, c) \in SessionType(s)
<1> DEFINE u == [r EXCEPT !.job = j]
           v == [u EXCEPT !.loaded = l]
<1>0. j \in Going \cup {"none", "failing", "done", "failed"}
  OBVIOUS
<1>1. u \in SessionType(s)
  BY <1>0, StateRecord
<1>2. WithJob(r, j, l, c) = [v EXCEPT !.ctx = c]
  BY DEF SessionType, WithJob
<1> HIDE DEF u
<1>3. v \in SessionType(s)
  BY <1>1, LoadedRecord
<1> HIDE DEF v
<1>4. [v EXCEPT !.ctx = c] \in SessionType(s)
  BY <1>3, ContextRecord
<1>5. QED
  BY <1>2, <1>4

\* A training that continues its model finds it.
LEMMA ResumedModel ==
    ASSUME TypeOK, NEW s \in Sessions, ModelWaits(s), ses[s].job = "none",
           stmt[s].kind = "train", stmt[s].sub \in {"pai", "local"}, stmt[s].load = stmt[s].model,
           TypeOf(stmt[s].est) # "PAIML",
           Stored[stmt[s].load] # "none", TypeOf(Stored[stmt[s].load]) = TypeOf(stmt[s].est),
           ~OtherTrains(s, stmt[s].load)
    PROVE  ModelFound(s) /\ Loaded(s) = "before"
<1> DEFINE m == stmt[s].model
           e == Stored[m]
           c == Content(TypeOf(stmt[s].est))
<1>1. /\ m \in Models /\ stmt[s].load \in Models /\ m # "none" /\ e # "none"
      /\ TypeOf(e) = TypeOf(stmt[s].est)
  BY StatementTypes, JobsAssumption DEF Statements
<1>2. c \in {"model_save", "my_model"}
  BY DEF Content
<1>3. oss[m][c] = StoredObject(m, c)
  BY <1>2 DEF ModelWaits
<1>4. c \in SavedObjects(e)
  <2>1. TypeOf(e) = "TENSORFLOW" \/ TypeOf(e) = "XGBOOST"
    BY <1>1 DEF TypeOf
  <2>2. c = Content(TypeOf(e))
    BY <1>1
  <2> HIDE DEF e, c
  <2>3. QED
    BY <2>1, <2>2 DEF SavedObjects, Content
<1> HIDE DEF c
<1>5. StoredObject(m, c) = [by |-> "before", est |-> e]
  BY <1>1, <1>4 DEF StoredObject
<1>6. oss[m][c].by = "before" /\ oss[m][c] # None
  BY <1>3, <1>5 DEF None
<1>7. Continues(stmt[s]) /\ stmt[s].kind = "train"
  BY <1>1 DEF Continues
<1>8. ModelFound(s)
  <2>1. stmt[s].load \in Having(c) /\ stmt[s].sub # "alisa"
    BY <1>1, <1>6 DEF Having
  <2>2. QED
    BY <1>7, <2>1 DEF ModelFound, Using, c
<1>9. Loaded(s) = "before"
  BY <1>6, <1>7 DEF Loaded, Using, c
<1>10. QED
  BY <1>8, <1>9

\* A job starts: it finds its model, or will fail.
LEMMA JobStartKept ==
    ASSUME OwnInputs, NEW s \in Sessions, JobStart(s)
    PROVE  Kept(s)
<1>1. TypeOK /\ Place(s) /\ Sound(s) /\ stmt[s].model \in Models
  BY StatementTypes DEF OwnInputs, Sound, FiguresInPlace, Statements
<1>2. /\ At(s, "submit") /\ ses[s].job = "none" /\ Quiet
      /\ UNCHANGED <<stmt, tables, results, oss, offline, objects, figures, file, env, archive, now>>
  BY DEF JobStart, Quiet, store, process
<1> DEFINE j == IF ses[s].cmd = "empty" THEN "idle" ELSE IF JobCanRun(s) THEN "running" ELSE "failing"
           l == IF ModelFound(s) THEN Loaded(s) ELSE "none"
           t == WithJob(ses[s], j, l, env)
<1>3. ses' = [ses EXCEPT ![s] = t]
  BY <1>1 DEF JobStart, TypeOK, WithJob
<1>4. /\ j \in Going \cup {"failing"} /\ j \notin {"saving", "describing"}
      /\ (j = "idle" <=> ses[s].cmd = "empty")
      /\ l \in Sessions \cup {"before", "none"} /\ env \in [EnvKeys -> Sessions \cup {"none"}]
  BY <1>1, LoadedType DEF TypeOK, Going
<1>5. /\ ModelFound(s) => l = Loaded(s)
      /\ ModelFound(s) /\ stmt[s].kind = "train" => j # "failing"
  BY DEF JobCanRun, Scores
<1> HIDE DEF j, l
<1>6. /\ ses'[s] \in SessionType(s) /\ Others(s) /\ Alike(ses'[s], ses[s])
      /\ ses'[s].cmd = ses[s].cmd /\ ses'[s].key = ses[s].key /\ ses'[s].job = j
      /\ ses'[s].loaded = l /\ ses'[s].shown = ses[s].shown /\ ses'[s].type = ses[s].type
      /\ Left(s)' = Left(s)
  <2>1. ses[s] \in SessionType(s)
    BY <1>1, StatementTypes
  <2>2. /\ t \in SessionType(s) /\ Alike(t, ses[s]) /\ t.cmd = ses[s].cmd /\ t.key = ses[s].key
        /\ t.job = j /\ t.loaded = l /\ t.shown = ses[s].shown /\ t.type = ses[s].type
    <3>1. t \in SessionType(s)
      BY <1>4, <2>1, JobRecord
    <3>2. /\ Alike(t, ses[s]) /\ t.cmd = ses[s].cmd /\ t.key = ses[s].key
          /\ t.job = j /\ t.loaded = l /\ t.shown = ses[s].shown /\ t.type = ses[s].type
      BY <2>1 DEF WithJob, SessionType, Alike
    <3>3. QED
      BY <3>1, <3>2
  <2> HIDE DEF t
  <2>3. ses'[s] = t /\ Others(s)
    BY <1>1, <1>3, BecomesNow
  <2>4. QED
    BY <2>2, <2>3 DEF Left, Alike
<1>7. Place(s)'
  BY <1>1, <1>2, <1>4, <1>6, StandingPlace
<1>8. TypeOK'
  BY <1>1, <1>2, <1>6 DEF TypeOK, Others
<1>9. Effects(s)
  BY <1>1, <1>2, <1>6, StillEffects
<1>10. \A m \in Models : OtherTrains(s, m)' <=> OtherTrains(s, m)
  BY <1>2 DEF OtherTrains
<1>11. TypeBeingRead(s)' /\ TypeIsSaved(s)'
  BY <1>1, <1>2, <1>6, <1>10 DEF Sound, TypeBeingRead, TypeIsSaved
<1>12. FigureIsOwn(s)' /\ (ses'[s].shown # "none" => ses'[s].key # <<>>)
  BY <1>1, <1>6, <1>9, ShownKept DEF Sound
<1>13. ModelWaits(s)' /\ JobsWork(s)'
  BY <1>4, <1>6 DEF ModelWaits, JobsWork, Going
<1>14. ResumeFindsModel(s)'
  <2>1. SUFFICES ASSUME stmt[s].kind = "train", stmt[s].sub \in {"pai", "local"},
                        stmt[s].load = stmt[s].model,
                        TypeOf(stmt[s].est) # "PAIML", Stored[stmt[s].load] # "none",
                        TypeOf(Stored[stmt[s].load]) = TypeOf(stmt[s].est),
                        ~OtherTrains(s, stmt[s].load)
                 PROVE  j # "failing" /\ l = "before"
    BY <1>1, <1>2, <1>6, <1>10 DEF ResumeFindsModel
  <2>2. ModelFound(s) /\ Loaded(s) = "before"
    BY <1>1, <1>2, <2>1, ResumedModel DEF Sound
  <2>3. QED
    BY <1>5, <2>1, <2>2
<1>15. QED
  BY <1>7, <1>8, <1>9, <1>11, <1>12, <1>13, <1>14 DEF Kept, Sound

\* The model is saved, and then its description.
LEMMA JobSavesKept ==
    ASSUME OwnInputs, NEW s \in Sessions, JobSaves(s) \/ JobDescribes(s)
    PROVE  Kept(s)
<1> DEFINE m == stmt[s].model
           R == [by : Sessions \cup {"before", "none"}, est : Estimators \cup {"none"}]
           c == Content(TypeOf(stmt[s].est))
<1>1. /\ TypeOK /\ Place(s) /\ Sound(s) /\ m \in Models /\ stmt[s].est \in Estimators
      /\ ses[s] \in SessionType(s)
  BY StatementTypes DEF OwnInputs, Sound, FiguresInPlace, Statements
<1>2. /\ At(s, "submit") /\ Quiet /\ ses[s].job \in {"running", "saving"}
      /\ UNCHANGED <<stmt, tables, results, offline, objects, figures, file, env, archive, now>>
  BY DEF JobSaves, JobDescribes, Quiet, process
<1>3. PICK o \in {c, "tf"}, j \in {"saving", "describing"} :
        /\ Put(s, o) /\ ses' = [ses EXCEPT ![s].job = j]
        /\ j = "saving" => o = c /\ SavesModel(stmt[s])
        /\ j = "describing" => o = "tf" /\ ses[s].job = "saving" /\ TypeOf(stmt[s].est) = "TENSORFLOW"
  BY DEF JobSaves, JobDescribes
<1>4. oss \in [Models -> [Objects -> R]] /\ Wrote(s) \in R /\ o \in Objects /\ c \in Objects /\ c # "tf"
  BY <1>1 DEF TypeOK, Wrote, Objects, Content
<1>5. oss' = [oss EXCEPT ![m][o] = Wrote(s)]
  BY <1>3 DEF Put
<1> DEFINE t == [ses[s] EXCEPT !.job = j]
<1>6. ses' = [ses EXCEPT ![s] = t]
  BY <1>1, <1>3 DEF TypeOK
<1>7. j \in Going \cup {"none", "failing", "done", "failed"} /\ j # "idle" /\ j \in Going
  BY DEF Going
<1>8. t \in SessionType(s)
  BY <1>1, <1>7, StateRecord
<1>9. /\ Alike(t, ses[s]) /\ t.cmd = ses[s].cmd /\ t.key = ses[s].key
      /\ t.job = j /\ t.shown = ses[s].shown /\ t.type = ses[s].type
  BY <1>1 DEF SessionType, Alike
<1> HIDE DEF t, R, c
<1>10. /\ oss' \in [Models -> [Objects -> R]] /\ oss'[m][o] = Wrote(s)
       /\ \A x \in Objects : x # o => oss'[m][x] = oss[m][x]
       /\ \A x \in Models : x # m => oss'[x] = oss[x]
  BY <1>1, <1>4, <1>5
<1>11. /\ ses'[s] \in SessionType(s) /\ Others(s) /\ Alike(ses'[s], ses[s])
       /\ ses'[s].cmd = ses[s].cmd /\ ses'[s].key = ses[s].key /\ ses'[s].job = j
       /\ ses'[s].shown = ses[s].shown /\ ses'[s].type = ses[s].type /\ Left(s)' = Left(s)
  <2>1. ses'[s] = t /\ Others(s)
    BY <1>1, <1>6, BecomesNow
  <2>2. QED
    BY <1>8, <1>9, <2>1 DEF Left, Alike
<1>12. ses[s].cmd # "empty" /\ SavesModel(stmt[s]) /\ stmt[s].kind = "train"
  <2>1. JobPlace(s)
    BY <1>1 DEF Place
  <2>2. ses[s].cmd # "empty" /\ SavesModel(stmt[s])
    BY <1>2, <1>3, <2>1 DEF JobPlace, Going
  <2>3. QED
    BY <2>2 DEF SavesModel
<1>13. Place(s)'
  BY <1>1, <1>2, <1>3, <1>7, <1>11, <1>12, StandingPlace
<1>14. TypeOK'
  BY <1>1, <1>2, <1>10, <1>11 DEF TypeOK, Others, R
<1>15. Effects(s)
  BY <1>2, <1>10, <1>11, <1>12 DEF Effects
<1>16. \A x \in Models : OtherTrains(s, x)' <=> OtherTrains(s, x)
  BY <1>2 DEF OtherTrains
<1>17. TypeBeingRead(s)' /\ TypeIsSaved(s)'
  BY <1>1, <1>2, <1>11, <1>16 DEF Sound, TypeBeingRead, TypeIsSaved
<1>18. FigureIsOwn(s)' /\ (ses'[s].shown # "none" => ses'[s].key # <<>>)
  BY <1>1, <1>11, <1>15, ShownKept DEF Sound
<1>19. ModelWaits(s)' /\ ResumeFindsModel(s)'
  BY <1>11 DEF ModelWaits, ResumeFindsModel
<1>20. JobsWork(s)'
  <2>1. Wrote(s)' = Wrote(s)
    BY <1>2 DEF Wrote
  <2>2. ~OtherTrains(s, m) => oss'[m][c] = Wrote(s)
    <3>1. CASE j = "saving"
      BY <1>3, <1>10, <3>1
    <3>2. CASE j = "describing"
      <4>1. ~OtherTrains(s, m) => oss[m][c] = Wrote(s)
        BY <1>1, <1>3, <3>2 DEF Sound, JobsWork, c
      <4>2. QED
        BY <1>3, <1>4, <1>10, <3>2, <4>1
    <3>3. QED
      BY <3>1, <3>2
  <2>3. j = "describing" => oss'[m]["tf"] = Wrote(s)
    BY <1>3, <1>10
  <2>4. QED
    BY <1>1, <1>2, <1>11, <1>16, <2>1, <2>2, <2>3 DEF JobsWork, c
<1>21. QED
  BY <1>13, <1>14, <1>15, <1>17, <1>18, <1>19, <1>20 DEF Kept, Sound

\* What a job that ends well leaves, for every other statement and its own.
LEMMA JobEffects ==
    ASSUME TypeOK, NEW s \in Sessions, JobEffect(s), stmt' = stmt,
           stmt[s].kind = "explain" => ses[s].key \in DOMAIN figures
    PROVE  /\ oss' \in [Models -> [Objects -> [by : Sessions \cup {"before", "none"},
                                               est : Estimators \cup {"none"}]]]
           /\ offline' \in [Models -> Sessions \cup {"before", "none"}]
           /\ results' \in [Names -> {"absent", "old", "empty"} \cup Sessions]
           /\ figures' \in [{"u1", "u2"} \X Seconds -> Sessions \cup {"none"}]
           /\ \A m \in Models : \/ oss'[m] = oss[m] /\ offline'[m] = offline[m]
                                \/ stmt[s].kind = "train" /\ stmt[s].model = m
           /\ \A t \in Names : results'[t] = results[t] \/ stmt[s].into = t
           /\ \A k \in DOMAIN figures' :
                k \in DOMAIN figures /\ (figures'[k] = figures[k] \/ (figures'[k] = s /\ k = ses[s].key))
<1> DEFINE st == stmt[s]
           R == [by : Sessions \cup {"before", "none"}, est : Estimators \cup {"none"}]
<1>1. st.model \in Models /\ st.est \in Estimators /\ st.into \in Names \cup {"none"}
  BY StatementTypes DEF Statements
<1>2. oss \in [Models -> [Objects -> R]] /\ Wrote(s) \in R
  BY <1>1 DEF TypeOK, Wrote
<1>3. \/ oss' = oss
      \/ st.kind = "train" /\ \E o \in Objects : oss' = [oss EXCEPT ![st.model][o] = Wrote(s)]
  BY DEF JobEffect, SavesModel, Put, Objects
<1>4. offline' = offline \/ (st.kind = "train" /\ offline' = [offline EXCEPT ![st.model] = s])
  BY DEF JobEffect
<1>5. results' = results \/ (st.into # "none" /\ results' = [results EXCEPT ![st.into] = s])
  BY DEF JobEffect, Produces
<1>6. figures' = figures \/ (st.kind = "explain" /\ figures' = [figures EXCEPT ![ses[s].key] = s])
  BY DEF JobEffect
<1> HIDE DEF R
<1>7. oss' \in [Models -> [Objects -> R]] /\ \A m \in Models : oss'[m] = oss[m] \/ (st.kind = "train" /\ st.model = m)
  <2>1. CASE oss' = oss
    BY <1>2, <2>1
  <2>2. ASSUME st.kind = "train", NEW o \in Objects, oss' = [oss EXCEPT ![st.model][o] = Wrote(s)]
        PROVE  oss' \in [Models -> [Objects -> R]] /\ \A m \in Models : oss'[m] = oss[m] \/ st.model = m
    BY <1>1, <1>2, <2>2
  <2>3. QED
    BY <1>3, <2>1, <2>2
<1>8. /\ offline' \in [Models -> Sessions \cup {"before", "none"}]
      /\ \A m \in Models : offline'[m] = offline[m] \/ (st.kind = "train" /\ st.model = m)
  BY <1>1, <1>4 DEF TypeOK
<1>9. /\ results' \in [Names -> {"absent", "old", "empty"} \cup Sessions]
      /\ \A t \in Names : results'[t] = results[t] \/ st.into = t
  BY <1>1, <1>5 DEF TypeOK
<1>10. /\ figures' \in [{"u1", "u2"} \X Seconds -> Sessions \cup {"none"}]
       /\ \A k \in DOMAIN figures' :
            k \in DOMAIN figures /\ (figures'[k] = figures[k] \/ (figures'[k] = s /\ k = ses[s].key))
  <2> DEFINE K == {"u1", "u2"} \X Seconds
  <2>1. figures \in [K -> Sessions \cup {"none"}]
    BY DEF TypeOK
  <2> HIDE DEF K
  <2>2. /\ figures' \in [K -> Sessions \cup {"none"}]
        /\ \A k \in K : figures'[k] = figures[k] \/ (figures'[k] = s /\ k = ses[s].key)
    BY <1>6, <2>1
  <2>3. QED
    BY <2>1, <2>2 DEF K
<1>11. QED
  BY <1>7, <1>8, <1>9, <1>10 DEF R

\* A job that was not idle has done its work.
LEMMA WorkDone ==
    ASSUME TypeOK, NEW s \in Sessions, JobsWork(s), JobEffect(s), stmt' = stmt,
           ses[s].job = LastState(stmt[s])
    PROVE  DidWork(s)'
<1> DEFINE st == stmt[s]
           m == st.model
<1>1. m \in Models /\ st.est \in Estimators /\ st.into \in Names \cup {"none"}
  BY StatementTypes DEF Statements
<1>2. Wrote(s)' = Wrote(s) /\ (\A x \in Models : OtherTrains(s, x)' <=> OtherTrains(s, x))
  BY DEF Wrote, OtherTrains
<1>3. ASSUME st.kind = "train", st.sub # "alps", ~OtherTrains(s, m), TypeOf(st.est) = "PAIML"
      PROVE  offline'[m] = s
  BY <1>1, <1>3 DEF JobEffect, TypeOK
<1>4. ASSUME st.kind = "train", st.sub # "alps", ~OtherTrains(s, m), TypeOf(st.est) # "PAIML",
             NEW o \in SavedObjects(st.est)
      PROVE  oss'[m][o] = Wrote(s)
  <2> DEFINE last == IF TypeOf(st.est) = "TENSORFLOW" THEN "tf_estimator" ELSE "xgb"
  <2>1. SavesModel(st)
    BY <1>4 DEF SavesModel
  <2>2. oss' = [oss EXCEPT ![m][last] = Wrote(s)]
    BY <2>1 DEF JobEffect, Put
  <2>3. DOMAIN oss = Models /\ \A x \in Models : DOMAIN oss[x] = Objects
    BY DEF TypeOK
  <2>4. last \in Objects /\ o \in Objects
    BY <1>4 DEF Objects, SavedObjects
  <2> HIDE DEF last
  <2>5. oss'[m][o] = IF o = last THEN Wrote(s) ELSE oss[m][o]
    BY <1>1, <2>2, <2>3, <2>4
  <2>6. CASE TypeOf(st.est) = "TENSORFLOW"
    <3>1. ses[s].job = "describing"
      BY <2>1, <2>6 DEF LastState
    <3>2. oss[m]["model_save"] = Wrote(s) /\ oss[m]["tf"] = Wrote(s)
      BY <1>4, <2>6, <3>1 DEF JobsWork, Content
    <3>3. o \in {"model_save", "tf", "tf_estimator"} /\ last = "tf_estimator"
      BY <1>4, <2>6 DEF SavedObjects, last
    <3>4. QED
      BY <2>5, <3>2, <3>3
  <2>7. CASE TypeOf(st.est) # "TENSORFLOW"
    <3>1. ses[s].job = "saving" /\ TypeOf(st.est) = "XGBOOST"
      BY <1>4, <2>1, <2>7 DEF LastState, TypeOf
    <3>2. oss[m]["my_model"] = Wrote(s)
      BY <1>4, <2>7, <3>1 DEF JobsWork, Content
    <3>3. o \in {"my_model", "xgb"} /\ last = "xgb"
      BY <1>4, <2>7, <3>1 DEF SavedObjects, last
    <3>4. QED
      BY <2>5, <3>2, <3>3
  <2>8. QED
    BY <2>6, <2>7
<1>5. ASSUME Produces(st)
      PROVE  results'[st.into] = s
  <2>1. st.into \in Names
    BY <1>1, <1>5 DEF Produces
  <2>2. QED
    BY <1>5, <2>1 DEF JobEffect, TypeOK
<1>6. QED
  BY <1>1, <1>2, <1>3, <1>4, <1>5 DEF DidWork

\* A job that ends, well or not, has written what is its session's own.
LEMMA JobLeaves ==
    ASSUME TypeOK, NEW s \in Sessions, Place(s), At(s, "submit"),
           JobEffect(s) \/ UNCHANGED <<oss, offline, results, figures>>,
           ses'[s] \in SessionType(s), Others(s), ses'[s].key = ses[s].key,
           UNCHANGED <<stmt, tables, objects, file, env, archive, now>>
    PROVE  TypeOK' /\ Effects(s)
<1>1. ses[s].todo # <<>> /\ Head(ses[s].todo) = "submit" /\ ses[s] \in SessionType(s)
  BY StatementTypes DEF At
<1>2. stmt[s].kind = "explain" => ses[s].key \in DOMAIN figures
  <2>1. /\ "submit" \in Left(s) /\ Left(s) = {"submit"} \cup Range(Tail(ses[s].todo))
        /\ \A p \in Range(Tail(ses[s].todo)) : Follows("submit", p)
    BY <1>1, HeadFacts DEF Place
  <2>2. "codegen" \notin Left(s)
    <3>1. "codegen" \in Phases /\ "codegen" \notin {"download", "save", "draw"} \cup Ignored
      BY DEF Phases, Ignored
    <3>2. QED
      BY <2>1, <3>1, Follow
  <2>3. stmt[s].kind = "explain" => ses[s].key # <<>>
    BY <2>1, <2>2 DEF Place, FigureKeyed
  <2>4. ses[s].key \in ({"u1", "u2"} \X Seconds) \cup {<<>>}
    BY <1>1 DEF SessionType
  <2>5. DOMAIN figures = {"u1", "u2"} \X Seconds
    BY DEF TypeOK
  <2>6. QED
    BY <2>3, <2>4, <2>5
<1>3. /\ oss' \in [Models -> [Objects -> [by : Sessions \cup {"before", "none"},
                                          est : Estimators \cup {"none"}]]]
      /\ offline' \in [Models -> Sessions \cup {"before", "none"}]
      /\ results' \in [Names -> {"absent", "old", "empty"} \cup Sessions]
      /\ figures' \in [{"u1", "u2"} \X Seconds -> Sessions \cup {"none"}]
      /\ \A m \in Models : \/ oss'[m] = oss[m] /\ offline'[m] = offline[m]
                           \/ stmt[s].kind = "train" /\ stmt[s].model = m
      /\ \A t \in Names : results'[t] = results[t] \/ stmt[s].into = t
      /\ \A k \in DOMAIN figures' :
           k \in DOMAIN figures /\ (figures'[k] = figures[k] \/ (figures'[k] = s /\ k = ses[s].key))
  <2>1. CASE JobEffect(s)
    BY <1>2, <2>1, JobEffects
  <2>2. CASE UNCHANGED <<oss, offline, results, figures>>
    BY <2>2 DEF TypeOK
  <2>3. QED
    BY <2>1, <2>2
<1>4. TypeOK'
  BY <1>3 DEF TypeOK, Others
<1>5. Effects(s)
  BY <1>3 DEF Effects
<1>6. QED
  BY <1>4, <1>5

\* A job ends well, and has left its effect.
LEMMA JobEndKept ==
    ASSUME OwnInputs, NEW s \in Sessions, JobEnd(s)
    PROVE  Kept(s)
<1>1. /\ TypeOK /\ Place(s) /\ Sound(s) /\ stmt[s].model \in Models /\ ses[s] \in SessionType(s)
  BY StatementTypes DEF OwnInputs, Sound, FiguresInPlace, Statements
<1>2. /\ At(s, "submit") /\ Quiet /\ ses[s].todo # <<>> /\ Head(ses[s].todo) = "submit"
      /\ UNCHANGED <<stmt, tables, objects, file, env, archive, now>>
  BY DEF JobEnd, At, Quiet, process
<1> DEFINE r == [ses[s] EXCEPT !.job = "done"]
<1>3. r \in SessionType(s)
  BY <1>1, StateRecord
<1>4. /\ Alike(r, ses[s]) /\ r.job = "done" /\ r.key = ses[s].key /\ r.cmd = ses[s].cmd
      /\ r.shown = ses[s].shown /\ r.type = ses[s].type
  BY <1>1 DEF SessionType, Alike
<1>5. Go(s, r)
  BY DEF JobEnd
<1> HIDE DEF r
<1>6. Advanced(s, r)
  BY <1>1, <1>2, <1>3, <1>4, <1>5, GoNow DEF Alike
<1>7. Place(s)'
  BY <1>1, <1>2, <1>4, <1>6, DonePlace
<1>8. /\ ses'[s] \in SessionType(s) /\ Others(s) /\ ses'[s].key = ses[s].key /\ ses'[s].job = "done"
      /\ ses'[s].cmd = ses[s].cmd /\ ses'[s].shown = ses[s].shown /\ ses'[s].type = ses[s].type
  BY <1>4, <1>6 DEF Advanced, Rest
<1>9. Left(s)' \subseteq Left(s)
  BY <1>1, <1>2, <1>4, <1>6, AdvancedLeft DEF Place, Alike, Ignored
<1>10. JobEffect(s) \/ UNCHANGED <<oss, offline, results, figures>>
  BY DEF JobEnd
<1>11. TypeOK' /\ Effects(s)
  BY <1>1, <1>2, <1>8, <1>10, JobLeaves
<1>12. \A m \in Models : OtherTrains(s, m)' <=> OtherTrains(s, m)
  BY <1>2 DEF OtherTrains
<1>13. TypeBeingRead(s)' /\ TypeIsSaved(s)'
  BY <1>1, <1>2, <1>8, <1>9, <1>12 DEF Sound, TypeBeingRead, TypeIsSaved
<1>14. FigureIsOwn(s)' /\ (ses'[s].shown # "none" => ses'[s].key # <<>>)
  BY <1>1, <1>8, <1>11, ShownKept DEF Sound
<1>15. ModelWaits(s)' /\ ResumeFindsModel(s)'
  BY <1>8 DEF ModelWaits, ResumeFindsModel
<1>16. JobsWork(s)'
  <2>1. ses[s].job = "idle" => ses[s].cmd = "empty"
    BY <1>1 DEF Place, JobPlace
  <2>2. CASE ses[s].job = "idle"
    BY <1>8, <2>1, <2>2 DEF JobsWork
  <2>3. CASE ses[s].job # "idle"
    <3>1. ses[s].job = LastState(stmt[s]) /\ JobEffect(s)
      BY <2>3 DEF JobEnd
    <3>2. DidWork(s)'
      BY <1>1, <1>2, <3>1, WorkDone DEF Sound
    <3>3. QED
      BY <1>8, <3>2 DEF JobsWork
  <2>4. QED
    BY <2>2, <2>3
<1>17. QED
  BY <1>7, <1>11, <1>13, <1>14, <1>15, <1>16 DEF Kept, Sound

\* A job fails: what it may have done concerns nobody but its session, which
\* has not ended well.
LEMMA JobFailsKept ==
    ASSUME OwnInputs, NEW s \in Sessions, JobFails(s)
    PROVE  Kept(s)
<1>1. TypeOK /\ Place(s) /\ Sound(s) /\ ses[s] \in SessionType(s) /\ stmt[s].model \in Models
  BY StatementTypes DEF OwnInputs, Sound, FiguresInPlace, Statements
<1>2. /\ At(s, "submit") /\ ses[s].todo # <<>> /\ Head(ses[s].todo) = "submit" /\ Quiet
      /\ UNCHANGED <<stmt, tables, objects, file, env, archive, now>>
  BY DEF JobFails, At, Quiet, process
<1> DEFINE r == [ses[s] EXCEPT !.job = "failed"]
<1>3. r \in SessionType(s)
  BY <1>1, StateRecord
<1>4. /\ Alike(r, ses[s]) /\ r.job = "failed" /\ r.key = ses[s].key /\ r.cmd = ses[s].cmd
      /\ r.shown = ses[s].shown /\ r.type = ses[s].type
  BY <1>1 DEF SessionType, Alike
<1>5. FailedIn(r) = [FailedIn(ses[s]) EXCEPT !.job = "failed"]
  BY <1>1 DEF SessionType, FailedIn
<1>6. ses' = [ses EXCEPT ![s] = FailedIn(r)]
  BY <1>5 DEF JobFails
<1> HIDE DEF r
<1>7. Failed(s, r)
  BY <1>1, <1>2, <1>3, <1>4, <1>6, FailedNow DEF Alike
<1>8. Place(s)'
  <2>1. "submit" \notin Ignored \cup {"concat"}
    BY DEF Ignored
  <2>2. QED
    BY <1>1, <1>2, <1>3, <1>4, <1>7, <2>1, FailedPlace
<1>9. /\ ses'[s] \in SessionType(s) /\ Others(s) /\ ses'[s].key = ses[s].key /\ ses'[s].job = "failed"
      /\ ses'[s].shown = ses[s].shown /\ ses'[s].type = ses[s].type
  BY <1>3, <1>4, <1>7 DEF Failed, Rest, SessionType
<1>10. JobEffect(s) \/ UNCHANGED <<oss, offline, results, figures>>
  BY DEF JobFails
<1>11. TypeOK' /\ Effects(s)
  BY <1>1, <1>2, <1>9, <1>10, JobLeaves
<1>12. \A m \in Models : OtherTrains(s, m)' <=> OtherTrains(s, m)
  BY <1>2 DEF OtherTrains
<1>13. TypeBeingRead(s)' /\ TypeIsSaved(s)'
  <2>1. Left(s)' \subseteq Ignored
    BY <1>1, <1>2, <1>3, <1>4, <1>7, FailedLeft DEF Place, Alike
  <2>2. "read" \notin Left(s)' /\ "xgb" \notin Left(s)'
    BY <2>1 DEF Ignored
  <2>3. QED
    BY <1>1, <1>2, <1>9, <1>12, <2>2 DEF Sound, TypeBeingRead, TypeIsSaved
<1>14. FigureIsOwn(s)' /\ (ses'[s].shown # "none" => ses'[s].key # <<>>)
  BY <1>1, <1>9, <1>11, ShownKept DEF Sound
<1>15. ModelWaits(s)' /\ ResumeFindsModel(s)' /\ JobsWork(s)'
  BY <1>9 DEF ModelWaits, ResumeFindsModel, JobsWork
<1>16. QED
  BY <1>8, <1>11, <1>13, <1>14, <1>15 DEF Kept, Sound

-----------------------------------------------------------------------------
(* The deferred calls, and the invariant. *)

\* The record of a session that has ended.
LEMMA ResultRecord ==
    ASSUME NEW s, NEW r \in SessionType(s), NEW x \in {"running", "ok", "error"}
    PROVE  [r EXCEPT !.res = x] \in SessionType(s)
BY ZenonT(60) DEF SessionType

\* The statement returns, to its deferred calls or to its client.
LEMMA ReturnKept ==
    ASSUME OwnInputs, NEW s \in Sessions, Return(s)
    PROVE  Kept(s)
<1>1. TypeOK /\ Place(s) /\ Sound(s) /\ ses[s] \in SessionType(s)
  BY StatementTypes DEF OwnInputs, Sound, FiguresInPlace
<1>2. /\ ses[s].todo = <<>> /\ ses[s].res = "running" /\ Quiet /\ OwnResults(s)
      /\ UNCHANGED <<stmt, tables, results, oss, offline, objects, figures, file, env, archive, now>>
  BY DEF Return, Quiet, OwnResults, store, process
<1> DEFINE r == ses[s]
           x == IF r.bad \subseteq Ignored THEN "ok" ELSE "error"
           a == [r EXCEPT !.todo = r.defer, !.defer = <<>>]
           b == [r EXCEPT !.res = x]
           t == IF r.defer # <<>> THEN a ELSE b
<1>3. ses' = [ses EXCEPT ![s] = t]
  BY DEF Return
<1>4. r.defer \in Seq(Phases) /\ <<>> \in Seq(Ignored) /\ x \in {"ok", "error"}
  BY <1>1, DeferredPhases DEF SessionType
<1>5. /\ a \in SessionType(s) /\ a.todo = r.defer /\ a.defer = <<>> /\ a.res = r.res
      /\ a.names = r.names /\ a.bad = r.bad /\ a.cmd = r.cmd /\ a.key = r.key /\ a.job = r.job
      /\ a.shown = r.shown /\ a.type = r.type
  <2>1. a \in SessionType(s)
    BY <1>1, <1>4 DEF SessionType
  <2>2. QED
    BY <1>1, <2>1 DEF SessionType
<1>6. /\ b \in SessionType(s) /\ b.todo = r.todo /\ b.defer = r.defer /\ b.res = x
      /\ b.names = r.names /\ b.bad = r.bad /\ b.cmd = r.cmd /\ b.key = r.key /\ b.job = r.job
      /\ b.shown = r.shown /\ b.type = r.type
  <2>1. x \in {"running", "ok", "error"} /\ r \in SessionType(s)
    BY <1>1, <1>4
  <2> HIDE DEF x, r
  <2>2. b \in SessionType(s)
    BY <2>1, ResultRecord
  <2>3. QED
    BY <2>1, <2>2 DEF SessionType
<1>7. x = "ok" => r.bad \subseteq Ignored
  OBVIOUS
<1> HIDE DEF a, b, x
<1>8. /\ t \in SessionType(s) /\ t.todo = ses[s].defer /\ t.defer = <<>>
      /\ t.names = ses[s].names /\ t.bad = ses[s].bad /\ t.cmd = ses[s].cmd
      /\ t.key = ses[s].key /\ t.job = ses[s].job /\ t.shown = ses[s].shown /\ t.type = ses[s].type
      /\ t.res # "running" => ses[s].defer = <<>>
      /\ t.res = "ok" => ses[s].bad \subseteq Ignored
  BY <1>2, <1>5, <1>6, <1>7
<1> HIDE DEF t, r
<1>9. ses'[s] = t /\ Others(s)
  BY <1>1, <1>3, BecomesNow
<1>10. Place(s)'
  BY <1>1, <1>2, <1>8, <1>9, ReturnPlace
<1>11. TypeOK'
  BY <1>1, <1>2, <1>8, <1>9 DEF TypeOK, Others
<1>12. Effects(s)
  BY <1>1, <1>2, <1>8, <1>9, StillEffects
<1>13. Calm(s)
  <2>1. ses[s].job \in {"none", "done", "failed"}
    <3>1. ses[s].job \in Going \cup {"none", "failing", "done", "failed"}
      BY <1>1 DEF SessionType
    <3>2. QED
      BY <1>1, <1>2, <3>1 DEF Place, JobPlace, At
  <2>2. Left(s)' \subseteq Ignored
    BY <1>1, <1>8, <1>9, DeferredPhases DEF Left, SessionType
  <2>3. "read" \notin Left(s)' /\ "xgb" \notin Left(s)'
    BY <2>2 DEF Ignored
  <2>4. QED
    BY <1>2, <1>8, <1>9, <2>1, <2>3 DEF Calm
<1>14. QED
  BY <1>1, <1>10, <1>11, <1>12, <1>13, CalmSound DEF Kept

\* The record of a session one of whose deferred calls has failed.
LEMMA BadRecord ==
    ASSUME NEW s, NEW r \in SessionType(s), NEW p \in Phases
    PROVE  LET b == [r EXCEPT !.bad = @ \cup {p}]
           IN /\ b \in SessionType(s) /\ b.bad = r.bad \cup {p}
              /\ b.todo = r.todo /\ b.defer = r.defer /\ b.names = r.names /\ b.res = r.res
              /\ b.cmd = r.cmd /\ b.key = r.key /\ b.job = r.job
              /\ b.shown = r.shown /\ b.type = r.type
BY DEF SessionType

\* The same when nothing more will be dropped.
Nameless(r, p) == [r EXCEPT !.bad = @ \cup {p}, !.names = <<>>]

\* Its fields.
LEMMA NamelessRecord ==
    ASSUME NEW s, NEW r \in SessionType(s), NEW p \in Phases, NEW b, b = Nameless(r, p)
    PROVE  /\ b \in SessionType(s) /\ b.bad = r.bad \cup {p}
           /\ b.todo = r.todo /\ b.defer = r.defer /\ b.names = <<>> /\ b.res = r.res
           /\ b.cmd = r.cmd /\ b.key = r.key /\ b.job = r.job
           /\ b.shown = r.shown /\ b.type = r.type
<1> DEFINE c == [r EXCEPT !.bad = @ \cup {p}]
<1>1. c \in SessionType(s)
  BY BadRecord
<1>2. b = [c EXCEPT !.names = <<>>]
  BY DEF SessionType, Nameless
<1>3. [c EXCEPT !.names = <<>>] \in SessionType(s)
  <2>1. <<>> \in Seq({s} \X (1..2))
    OBVIOUS
  <2> HIDE DEF c
  <2>2. QED
    BY <1>1, <2>1, ZenonT(60) DEF SessionType
<1>4. /\ b.bad = r.bad \cup {p}
      /\ b.todo = r.todo /\ b.defer = r.defer /\ b.names = <<>> /\ b.res = r.res
      /\ b.cmd = r.cmd /\ b.key = r.key /\ b.job = r.job
      /\ b.shown = r.shown /\ b.type = r.type
  BY DEF SessionType, Nameless
<1>5. QED
  BY <1>2, <1>3, <1>4

\* A deferred call is over: what is left is as in UnwoundPlace.
LEMMA UnwoundKept ==
    ASSUME OwnInputs, NEW s \in Sessions, ses[s].todo # <<>>, Head(ses[s].todo) \in Ignored,
           NEW r \in SessionType(s), Go(s, r),
           \/ r = ses[s] \/ r = [ses[s] EXCEPT !.bad = @ \cup {Head(ses[s].todo)}]
           \/ /\ Head(ses[s].todo) = "drop"
              /\ r = Nameless(ses[s], Head(ses[s].todo)),
           Head(ses[s].todo) = "drop" => ses[s].names = <<>> \/ "drop" \in r.bad,
           \/ objects' = objects
           \/ \E o \in {"code", "params"} : objects' = objects \ {<<s, o>>},
           tables' = tables \/ (r.names = <<>> /\ \E n \in 1..2 : tables' = tables \ {Tmp(s, n)}),
           \A o \in {"code", "params"} :
               Head(ses[s].todo) = Deletion(o) /\ <<s, o>> \in objects' => Deletion(o) \in r.bad,
           UNCHANGED <<stmt, results, oss, offline, figures, file, env, archive, now>>
    PROVE  Kept(s)
<1>1. TypeOK /\ Place(s) /\ Sound(s) /\ ses[s] \in SessionType(s) /\ Head(ses[s].todo) \in Phases
  <2>1. TypeOK /\ Place(s) /\ Sound(s) /\ ses[s] \in SessionType(s)
    BY StatementTypes DEF OwnInputs, Sound, FiguresInPlace
  <2>2. QED
    BY <2>1, HeadFacts DEF Place
<1>2. /\ r.bad \in {ses[s].bad, ses[s].bad \cup {Head(ses[s].todo)}}
      /\ r.todo = ses[s].todo /\ r.defer = ses[s].defer
      /\ r.names = ses[s].names \/ (r.names = <<>> /\ "drop" \in r.bad)
      /\ r.res = ses[s].res /\ r.cmd = ses[s].cmd /\ r.key = ses[s].key /\ r.job = ses[s].job
      /\ r.shown = ses[s].shown /\ r.type = ses[s].type
  <2>1. CASE r = ses[s]
    BY <2>1
  <2>2. CASE r = [ses[s] EXCEPT !.bad = @ \cup {Head(ses[s].todo)}]
    BY <1>1, <2>2, BadRecord
  <2>3. CASE Head(ses[s].todo) = "drop" /\ r = Nameless(ses[s], Head(ses[s].todo))
    BY <1>1, <2>3, NamelessRecord
  <2>4. QED
    BY <2>1, <2>2, <2>3
<1>3. Advanced(s, r)
  BY <1>1, <1>2, GoNow
<1>4. objects' \subseteq objects /\ tables' \subseteq tables /\ (tables' = tables \/ r.names = <<>>)
  OBVIOUS
<1>5. Place(s)'
  BY <1>1, <1>2, <1>3, <1>4, UnwoundPlace
<1>6. ses'[s] \in SessionType(s) /\ Others(s) /\ ses'[s].key = ses[s].key
  BY <1>2, <1>3 DEF Advanced, Rest
<1>7. TypeOK'
  BY <1>1, <1>4, <1>6 DEF TypeOK, Others
<1>8. \A x \in Sessions \ {s} : \A c \in {"code", "params"} : <<x, c>> \in objects' <=> <<x, c>> \in objects
  OBVIOUS
<1>9. \A x \in Sessions \ {s} : \A n \in 1..2 : Tmp(x, n) \in tables' <=> Tmp(x, n) \in tables
  BY DEF Tmp
<1>10. Effects(s)
  BY <1>1, <1>6, <1>8, <1>9, StillEffects
<1>11. Calm(s)
  <2>1. Head(ses[s].todo) # "submit"
    BY DEF Ignored
  <2>2. QED
    BY <1>1, <1>2, <1>3, <2>1, AdvancedCalm DEF OwnResults
<1>12. QED
  BY <1>1, <1>5, <1>7, <1>10, <1>11, CalmSound DEF Kept

\* An object of the bucket has been deleted, or not.
LEMMA DeleteObjectKept ==
    ASSUME OwnInputs, NEW s \in Sessions, DeleteObject(s)
    PROVE  Kept(s)
<1>1. TypeOK /\ ses[s] \in SessionType(s)
  BY StatementTypes DEF OwnInputs
<1>2. PICK o \in {"code", "params"} :
         /\ At(s, Deletion(o))
         /\ \/ objects' = objects \ {<<s, o>>} /\ On(s)
            \/ /\ Go(s, [ses[s] EXCEPT !.bad = @ \cup {Deletion(o)}])
               /\ objects' \in {objects, objects \ {<<s, o>>}}
  BY DEF DeleteObject
<1>3. UNCHANGED <<stmt, tables, results, oss, offline, figures, file, env, archive, now>>
  BY DEF DeleteObject, process
<1>4. ses[s].todo # <<>> /\ Head(ses[s].todo) = Deletion(o)
  BY <1>2 DEF At
<1>5. /\ Deletion(o) \in Ignored /\ Deletion(o) \in Phases /\ Deletion(o) # "drop"
      /\ \A c \in {"code", "params"} : Deletion(c) = Deletion(o) => c = o
  <2>1. /\ Deletion("code") = "code object" /\ Deletion("params") = "params object"
    BY DEF Deletion
  <2>2. QED
    BY <2>1 DEF Ignored, Phases
<1>6. CASE objects' = objects \ {<<s, o>>} /\ On(s)
  <2>1. Go(s, ses[s])
    BY <1>6 DEF On
  <2>2. \A c \in {"code", "params"} : Head(ses[s].todo) = Deletion(c) => <<s, c>> \notin objects'
    BY <1>4, <1>5, <1>6
  <2>3. QED
    BY <1>1, <1>3, <1>4, <1>5, <1>6, <2>1, <2>2, UnwoundKept
<1>7. CASE /\ Go(s, [ses[s] EXCEPT !.bad = @ \cup {Deletion(o)}])
           /\ objects' \in {objects, objects \ {<<s, o>>}}
  <2> DEFINE r == [ses[s] EXCEPT !.bad = @ \cup {Deletion(o)}]
  <2>1. r \in SessionType(s) /\ r.bad = ses[s].bad \cup {Deletion(o)}
    BY <1>1, <1>5, BadRecord
  <2>2. r = [ses[s] EXCEPT !.bad = @ \cup {Head(ses[s].todo)}] /\ Go(s, r)
    BY <1>4, <1>7
  <2> HIDE DEF r
  <2>3. \A c \in {"code", "params"} : Head(ses[s].todo) = Deletion(c) => Deletion(c) \in r.bad
    BY <1>4, <2>1
  <2>4. QED
    BY <1>3, <1>4, <1>5, <1>7, <2>1, <2>2, <2>3, UnwoundKept
<1>8. QED
  BY <1>2, <1>6, <1>7

\* A temporary table has been dropped, or not.
LEMMA DropTmpKept ==
    ASSUME OwnInputs, NEW s \in Sessions, DropTmp(s)
    PROVE  Kept(s)
<1>1. TypeOK /\ Place(s) /\ Sound(s) /\ ses[s] \in SessionType(s)
  BY StatementTypes DEF OwnInputs, Sound, FiguresInPlace
<1>2. /\ ses[s].todo # <<>> /\ Head(ses[s].todo) = "drop" /\ OwnResults(s)
      /\ UNCHANGED <<stmt, results, oss, offline, objects, figures, file, env, archive, now>>
  BY DEF DropTmp, At, OwnResults, process
<1>3. /\ "drop" \in Ignored /\ "drop" \in Phases
      /\ \A c \in {"code", "params"} : Deletion(c) # "drop"
  BY DEF Ignored, Phases, Deletion
<1>4. CASE ses[s].names = <<>> /\ On(s) /\ UNCHANGED tables
  <2>1. Go(s, ses[s])
    BY <1>4 DEF On
  <2>2. QED
    BY <1>1, <1>2, <1>3, <1>4, <2>1, UnwoundKept
<1>5. CASE /\ Go(s, [ses[s] EXCEPT !.bad = @ \cup {"drop"}, !.names = <<>>])
           /\ ses[s].names # <<>> /\ tables' \in {tables, tables \ {Head(ses[s].names)}}
  <2> DEFINE r == Nameless(ses[s], "drop")
  <2>1. r \in SessionType(s) /\ r.bad = ses[s].bad \cup {"drop"} /\ r.names = <<>>
    BY <1>1, <1>3, NamelessRecord
  <2>2. r = Nameless(ses[s], Head(ses[s].todo)) /\ Go(s, r)
    BY <1>2, <1>5 DEF Nameless
  <2> HIDE DEF r
  <2>3. "drop" \in r.bad
    BY <2>1
  <2>4. Head(ses[s].names) \in {Tmp(s, 1), Tmp(s, 2)}
    BY <1>1, <1>5, NamesLeft DEF Place, TablesHeld
  <2>5. tables' = tables \/ \E n \in 1..2 : tables' = tables \ {Tmp(s, n)}
    BY <1>5, <2>4
  <2>6. QED
    BY <1>2, <1>3, <2>1, <2>2, <2>3, <2>5, UnwoundKept
<1>6. CASE /\ ses[s].names # <<>> /\ tables' = tables \ {Head(ses[s].names)}
           /\ ses' = [ses EXCEPT ![s].names = Tail(ses[s].names)]
  <2> DEFINE q == Tail(ses[s].names)
             t == [ses[s] EXCEPT !.names = q]
  <2>1. ses' = [ses EXCEPT ![s] = t]
    BY <1>6
  <2>2. q \in Seq({s} \X (1..2))
    BY <1>1, <1>6 DEF SessionType
  <2> HIDE DEF q
  <2>3. /\ t \in SessionType(s) /\ t.names = q /\ t.todo = ses[s].todo /\ t.defer = ses[s].defer
        /\ t.bad = ses[s].bad /\ t.res = ses[s].res /\ t.cmd = ses[s].cmd /\ t.key = ses[s].key
        /\ t.job = ses[s].job /\ t.shown = ses[s].shown /\ t.type = ses[s].type
    <3>1. t \in SessionType(s)
      BY <1>1, <2>2 DEF SessionType
    <3>2. QED
      BY <1>1, <3>1 DEF SessionType
  <2> HIDE DEF t
  <2>4. ses'[s] = t /\ Others(s)
    BY <1>1, <2>1, BecomesNow
  <2>5. Place(s)'
    BY <1>1, <1>2, <1>3, <1>6, <2>3, <2>4, DroppedPlace DEF q
  <2>6. TypeOK'
    BY <1>1, <1>2, <1>6, <2>3, <2>4 DEF TypeOK, Others
  <2>7. Head(ses[s].names) \in {Tmp(s, 1), Tmp(s, 2)}
    BY <1>1, <1>6, NamesLeft DEF Place, TablesHeld
  <2>8. \A x \in Sessions \ {s} : \A n \in 1..2 : Tmp(x, n) \in tables' <=> Tmp(x, n) \in tables
    BY <1>6, <2>7 DEF Tmp
  <2>9. Effects(s)
    BY <1>1, <1>2, <2>3, <2>4, <2>8, StillEffects
  <2>10. Calm(s)
    <3>1. ses[s].job \in {"none", "done", "failed"}
      BY <1>1, <1>2, JobAt
    <3>2. Left(s)' = Left(s)
      BY <2>3, <2>4 DEF Left
    <3>3. QED
      BY <1>2, <2>3, <2>4, <3>1, <3>2 DEF Calm
  <2>11. QED
    BY <1>1, <2>5, <2>6, <2>9, <2>10, CalmSound DEF Kept
<1>7. QED
  BY <1>4, <1>5, <1>6 DEF DropTmp

\* Every step of a session.
LEMMA StepKept ==
    ASSUME OwnInputs, NEW s \in Sessions, Step(s)
    PROVE  Kept(s)
<1>1. CASE Prepare(s)
  <2>1. CASE Open(s) \/ WriteHyperParams(s)
    BY <2>1, TriedKept DEF Open, WriteHyperParams
  <2>2. CASE CreateTmp(s) \/ CreateValid(s) \/ Concat(s) \/ Unsupported(s)
    BY <2>2, CreateTmpKept, CreateValidKept, ConcatKept, UnsupportedKept
  <2>3. CASE CleanSub(s) \/ CleanTop(s) \/ CleanupPAIModel(s)
    BY <2>3, CleanKept
  <2>4. CASE ReadType(s) \/ ReadEstimator(s) \/ AskXgboost(s)
    BY <2>4, ReadTypeKept, TypeReadKept
  <2>5. CASE ResultTable(s) \/ DropResult(s) \/ DropOld(s) \/ CreateNew(s) \/ Codegen(s)
    BY <2>5, ResultTableKept, CodegenKept
  <2>6. QED
    BY <1>1, <2>1, <2>2, <2>3, <2>4, <2>5 DEF Prepare
<1>2. CASE Submit(s)
  <2>1. CASE AchieveResource(s) \/ DownloadModel(s)
    BY <2>1, TriedKept DEF AchieveResource, DownloadModel
  <2>2. CASE UploadCode(s) \/ UploadParams(s) \/ SetEnv(s)
    BY <2>2, UploadKept, SetEnvKept
  <2>3. CASE JobStart(s) \/ JobSaves(s) \/ JobDescribes(s) \/ JobEnd(s) \/ JobFails(s)
    BY <2>3, JobStartKept, JobSavesKept, JobEndKept, JobFailsKept
  <2>4. CASE SaveModel(s) \/ Draw(s)
    BY <2>4, SaveModelKept, DrawKept
  <2>5. QED
    BY <1>2, <2>1, <2>2, <2>3, <2>4 DEF Submit
<1>3. CASE Unwind(s)
  BY <1>3, ReturnKept, DeleteObjectKept, DropTmpKept DEF Unwind
<1>4. QED
  BY <1>1, <1>2, <1>3 DEF Step

\* The clock, and steps of nobody.
LEMMA ClockKept ==
    ASSUME OwnInputs, now' \in Seconds, UNCHANGED <<stmt, ses, store, process, archive>>
    PROVE  OwnInputs'
<1>1. UNCHANGED <<stmt, ses, tables, results, oss, offline, objects, figures, file, env, archive>>
  BY DEF store, process
<1>2. TypeOK'
  BY <1>1 DEF OwnInputs, TypeOK
<1>3. FiguresInPlace' /\ ModelsUntouched'
  BY <1>1 DEF OwnInputs, FiguresInPlace, ModelsUntouched, StoredObject, StoredOffline, None
<1>4. ASSUME NEW s \in Sessions
      PROVE  Place(s)' /\ JobHasInputs(s)' /\ Sound(s)'
  <2>1. Place(s) /\ JobHasInputs(s) /\ Sound(s)
    BY DEF OwnInputs, Sound, FiguresInPlace
  <2>2. Left(s)' = Left(s) /\ Due(s)' = Due(s) /\ (Ended(s)' <=> Ended(s))
    BY <1>1 DEF Left, Due, Ended
  <2>3. \A m : OtherTrains(s, m)' <=> OtherTrains(s, m)
    BY <1>1 DEF OtherTrains
  <2>4. InOrder(s)' /\ TablesHeld(s)' /\ ObjectsHeld(s)'
    <3>1. InOrder(s)' /\ ObjectsHeld(s)'
      BY <1>1, <2>1, <2>2 DEF Place, InOrder, ObjectsHeld, ObjectMayStay
    <3>2. TablesHeld(s)'
      BY <1>1, <2>1, <2>2 DEF Place, TablesHeld, MayStay
    <3>3. QED
      BY <3>1, <3>2
  <2>5. PhasesOfKind(s)' /\ JobPlace(s)' /\ FigureKeyed(s)'
    <3>1. PhasesOfKind(s)' /\ FigureKeyed(s)'
      BY <1>1, <2>1, <2>2 DEF Place, PhasesOfKind, FigureKeyed
    <3>2. JobPlace(s)'
      BY <1>1, <2>1, <2>2 DEF Place, JobPlace, At
    <3>3. QED
      BY <3>1, <3>2
  <2>6. JobHasInputs(s)'
    BY <1>1, <2>1 DEF JobHasInputs, At
  <2>7. FigureIsOwn(s)' /\ ModelWaits(s)' /\ ResumeFindsModel(s)'
    BY <1>1, <2>1, <2>3 DEF Sound, FigureIsOwn, ModelWaits, ResumeFindsModel, StoredObject, None
  <2>8. TypeBeingRead(s)' /\ TypeIsSaved(s)'
    BY <1>1, <2>1, <2>2, <2>3 DEF Sound, TypeBeingRead, TypeIsSaved
  <2>9. JobsWork(s)'
    BY <1>1, <2>1, <2>3 DEF Sound, JobsWork, DidWork, Wrote
  <2>10. QED
    BY <1>1, <2>1, <2>4, <2>5, <2>6, <2>7, <2>8, <2>9 DEF Place, Sound
<1>5. QED
  BY <1>2, <1>3, <1>4 DEF OwnInputs, Sound

\* A session that has not begun.
LEMMA FreshPlace ==
    ASSUME Init, NEW s \in Sessions
    PROVE  ses[s] \in SessionType(s) /\ Place(s) /\ Sound(s)
<1> DEFINE st == stmt[s]
           f == Fresh(st)
           e == [k \in EnvKeys |-> "none"]
<1>1. st \in Statements /\ stmt \in Workloads
  BY JobsAssumption DEF Init
<1>2. /\ f.todo = Plan(st) /\ f.defer = <<>> /\ f.names = <<>> /\ f.top = {} /\ f.type = "none"
      /\ f.est = "none" /\ f.cmd = "none" /\ f.job = "none" /\ f.loaded = "none" /\ f.key = <<>>
      /\ f.shown = "none" /\ f.set = {} /\ f.ctx = e /\ f.bad = {}
      /\ f.res = IF st.kind = "idle" THEN "ok" ELSE "running"
  BY DEF Fresh
<1>3. ses[s] = f /\ tables = {} /\ objects = {}
  BY DEF Init
<1>4. PlanFits(st, Plan(st))
  BY <1>1, Plans
<1>5. f \in SessionType(s)
  <2>1. Plan(st) \in Seq(Phases) /\ <<>> \in Seq(Ignored) /\ <<>> \in Seq({s} \X (1..2))
    <3>1. Plan(st) \in Seq(Phases)
      BY <1>4 DEF PlanFits
    <3>2. QED
      BY <3>1
  <2>2. e \in [EnvKeys -> Sessions \cup {"none"}]
    OBVIOUS
  <2> DEFINE p == Plan(st)
             x == IF st.kind = "idle" THEN "ok" ELSE "running"
  <2>3. f = [todo |-> p, defer |-> <<>>, names |-> <<>>, top |-> {}, type |-> "none",
             est |-> "none", cmd |-> "none", job |-> "none", loaded |-> "none", key |-> <<>>,
             shown |-> "none", set |-> {}, ctx |-> e, bad |-> {}, res |-> x]
    BY DEF Fresh
  <2>4. x \in {"running", "ok", "error"}
    OBVIOUS
  <2> DEFINE K == ({"u1", "u2"} \X Seconds) \cup {<<>>}
             C == [EnvKeys -> Sessions \cup {"none"}]
             N == Seq({s} \X (1..2))
  <2>5. <<>> \in K /\ e \in C /\ <<>> \in N /\ p \in Seq(Phases) /\ <<>> \in Seq(Ignored)
    BY <2>1, <2>2
  <2>6. SessionType(s) =
          [todo : Seq(Phases), defer : Seq(Ignored), names : N,
           top : SUBSET Objects, type : {"none", "TENSORFLOW", "XGBOOST", "PAIML"},
           est : Estimators \cup {"none"}, cmd : {"none", "empty", "full"},
           job : Going \cup {"none", "failing", "done", "failed"},
           loaded : Sessions \cup {"before", "none"},
           key : K, shown : Sessions \cup {"none"},
           set : SUBSET EnvKeys, ctx : C,
           bad : SUBSET Phases, res : {"running", "ok", "error"}]
    BY DEF SessionType
  <2> HIDE DEF p, x, e, f, K, C, N
  <2>7. QED
    BY <2>3, <2>4, <2>5, <2>6
<1>6. /\ ses[s].todo = Plan(st) /\ ses[s].defer = <<>> /\ ses[s].names = <<>> /\ ses[s].bad = {}
      /\ ses[s].cmd = "none" /\ ses[s].job = "none" /\ ses[s].key = <<>> /\ ses[s].type = "none"
      /\ ses[s].shown = "none"
      /\ ses[s].res = IF st.kind = "idle" THEN "ok" ELSE "running"
  BY <1>2, <1>3
<1> HIDE DEF f, e
<1>7. /\ Left(s) = Range(Plan(st)) /\ Range(<<>>) = {}
      /\ (Ended(s) <=> st.kind = "idle")
  BY <1>6, NothingLeft DEF Left, Ended
<1>8. InOrder(s)
  <2>1. st.kind = "idle" => Plan(st) = <<>>
    BY DEF Plan
  <2>2. Ordered(ses[s].todo) /\ Left(s) \cap Ignored = {}
    BY <1>4, <1>6, <1>7 DEF PlanFits
  <2>3. QED
    BY <1>6, <1>7, <2>1, <2>2 DEF InOrder
<1>9. TablesHeld(s)
  <2>1. /\ Left(s) \cap {"tmp", "valid", "concat"} # {} => "submit" \in Left(s)
        /\ UsesTmp(st) /\ "submit" \in Left(s) => "tmp" \in Left(s)
        /\ "valid" \in Left(s) => "tmp" \in Left(s)
    <3>1. /\ Left(s) \cap {"tmp", "valid", "concat"} # {} => "submit" \in Left(s) /\ UsesTmp(st)
          /\ UsesTmp(st) /\ "submit" \in Left(s) => "tmp" \in Left(s)
      BY <1>4, <1>7 DEF PlanFits
    <3>2. QED
      BY <3>1
  <2>2. QED
    BY <1>3, <1>6, <1>7, <2>1 DEF TablesHeld
<1>10. ObjectsHeld(s)
  BY <1>3, <1>4, <1>7 DEF ObjectsHeld, PlanFits
<1>11. PhasesOfKind(s)
  BY <1>4, <1>7 DEF PhasesOfKind, PlanFits
<1>12. JobPlace(s)
  BY <1>4, <1>6, <1>7 DEF JobPlace, PlanFits, Going
<1>13. FigureKeyed(s)
  BY <1>4, <1>6, <1>7 DEF FigureKeyed, PlanFits
<1>14. Sound(s)
  <2>1. st.model \in Models
    BY <1>1 DEF Statements
  <2>2. \A o \in {"model_save", "my_model"} : oss[st.model][o] = StoredObject(st.model, o)
    BY <2>1 DEF Init, Objects
  <2>3. FigureIsOwn(s) /\ ModelWaits(s) /\ ResumeFindsModel(s)
    BY <1>6, <2>2 DEF FigureIsOwn, ModelWaits, ResumeFindsModel
  <2>4. TypeBeingRead(s)
    BY <1>4, <1>7 DEF TypeBeingRead, PlanFits
  <2>5. TypeIsSaved(s) /\ JobsWork(s)
    BY <1>6 DEF TypeIsSaved, JobsWork
  <2>6. QED
    BY <1>6, <2>3, <2>4, <2>5 DEF Sound
<1>15. QED
  BY <1>3, <1>5, <1>8, <1>9, <1>10, <1>11, <1>12, <1>13, <1>14 DEF Place

\* Before the first step.
LEMMA InitOwn == Init => OwnInputs
<1> SUFFICES ASSUME Init PROVE OwnInputs
  OBVIOUS
<1>1. ASSUME NEW s \in Sessions PROVE ses[s] \in SessionType(s) /\ Place(s) /\ Sound(s)
  BY FreshPlace
<1>2. TypeOK
  <2>1. stmt \in Workloads /\ DOMAIN ses = Sessions /\ tables = {} /\ objects = {}
    BY DEF Init
  <2>2. results \in [Names -> {"absent", "old", "empty"} \cup Sessions]
    BY DEF Init
  <2>3. oss \in [Models -> [Objects -> [by : Sessions \cup {"before", "none"},
                                        est : Estimators \cup {"none"}]]]
    <3> DEFINE R == [by : Sessions \cup {"before", "none"}, est : Estimators \cup {"none"}]
    <3>1. ASSUME NEW m \in Models, NEW o \in Objects PROVE StoredObject(m, o) \in R
      <4>1. Stored[m] \in Estimators \cup {"none"}
        BY JobsAssumption
      <4>2. None \in R /\ [by |-> "before", est |-> Stored[m]] \in R
        BY <4>1 DEF None
      <4> HIDE DEF R
      <4>3. QED
        BY <4>2 DEF StoredObject
    <3> HIDE DEF R
    <3>2. ASSUME NEW m \in Models PROVE [o \in Objects |-> StoredObject(m, o)] \in [Objects -> R]
      BY <3>1
    <3>3. oss = [m \in Models |-> [o \in Objects |-> StoredObject(m, o)]]
      BY DEF Init
    <3>4. oss \in [Models -> [Objects -> R]]
      BY <3>2, <3>3
    <3>5. QED
      BY <3>4 DEF R
  <2>4. offline \in [Models -> Sessions \cup {"before", "none"}]
    BY DEF Init, StoredOffline
  <2>5. figures \in [{"u1", "u2"} \X Seconds -> Sessions \cup {"none"}]
    <3> DEFINE K == {"u1", "u2"} \X Seconds
    <3>1. figures = [k \in K |-> "none"]
      BY DEF Init
    <3> HIDE DEF K
    <3>2. figures \in [K -> Sessions \cup {"none"}]
      BY <3>1
    <3>3. QED
      BY <3>2 DEF K
  <2>6. /\ file \in Estimators \cup {"none"} /\ env \in [EnvKeys -> Sessions \cup {"none"}]
        /\ archive \in [Models -> {"old", "model", "without model", "partial"}]
        /\ now \in Seconds
    BY DEF Init, Seconds
  <2>7. QED
    BY <1>1, <2>1, <2>2, <2>3, <2>4, <2>5, <2>6 DEF TypeOK
<1>3. FiguresInPlace
  <2>1. \A k \in DOMAIN figures : figures[k] = "none"
    <3> DEFINE K == {"u1", "u2"} \X Seconds
    <3>1. figures = [k \in K |-> "none"]
      BY DEF Init
    <3> HIDE DEF K
    <3>2. QED
      BY <3>1
  <2>2. QED
    BY <1>1, <2>1 DEF FiguresInPlace, Sound
<1>4. ModelsUntouched
  BY DEF Init, ModelsUntouched
<1>5. \A s \in Sessions : JobHasInputs(s)
  BY <1>1, <1>2, InputsHeld
<1>6. QED
  BY <1>1, <1>2, <1>3, <1>4, <1>5 DEF OwnInputs, Sound

\* A step of the system.
LEMMA NextOwn == OwnInputs /\ [Next]_vars => OwnInputs'
<1> SUFFICES ASSUME OwnInputs, [Next]_vars PROVE OwnInputs'
  OBVIOUS
<1>1. now \in Seconds
  BY DEF OwnInputs, TypeOK
<1>2. CASE Tick
  <2>1. now' \in Seconds
    BY <1>1, <1>2 DEF Tick, Seconds
  <2>2. QED
    BY <1>2, <2>1, ClockKept DEF Tick
<1>3. CASE UNCHANGED vars
  BY <1>1, <1>3, ClockKept DEF vars
<1>4. ASSUME NEW s \in Sessions, Step(s) PROVE OwnInputs'
  BY <1>4, StepKept, KeptInvariant
<1>5. QED
  BY <1>2, <1>3, <1>4 DEF Next

-----------------------------------------------------------------------------
(* The theorems. *)

\* Whatever sessions run whatever statements and whatever fails, a job has
\* the tables and the code it was sent, a training finds the model that it
\* continues, a model is taken for what it is, a figure is its statement's
\* own or that of the same user and second, and a job that is done has left
\* its effect.
THEOREM CloudInvariant == Spec => []OwnInputs
BY InitOwn, NextOwn, PTL DEF Spec

\* Whatever fails, a statement that has ended has left no temporary table
\* and no uploaded object, but for one whose own creation or deletion
\* failed, and the training table of a validation table that did.
THEOREM NothingLeftBehind == Spec => []NoLeftovers
<1>1. OwnInputs => NoLeftovers
  <2> SUFFICES ASSUME OwnInputs, NEW s \in Sessions, Ended(s)
               PROVE  /\ \A n \in 1..2 : Tmp(s, n) \in tables => MayStay(s, n)
                      /\ \A o \in {"code", "params"} : <<s, o>> \in objects => ObjectMayStay(s, o)
    BY DEF NoLeftovers
  <2>1. InOrder(s) /\ TablesHeld(s) /\ ObjectsHeld(s)
    BY DEF OwnInputs, Place
  <2>2. Left(s) = {} /\ Due(s) = {}
    BY <2>1, NothingLeft DEF InOrder, Left, Due
  <2>3. QED
    BY <2>1, <2>2 DEF TablesHeld, ObjectsHeld
<1>2. QED
  BY <1>1, CloudInvariant, PTL

\* A statement that ended well, and for which something was generated, did
\* its work.
THEOREM OkIsDone == Spec => []OkMeansDone
<1>1. OwnInputs => OkMeansDone
  <2> SUFFICES ASSUME OwnInputs, NEW s \in Sessions, ses[s].res = "ok", ses[s].cmd = "full"
               PROVE  DidWork(s)
    BY DEF OkMeansDone
  <2>1. InOrder(s) /\ JobPlace(s) /\ JobsWork(s)
    BY DEF OwnInputs, Place
  <2>2. Left(s) = {} /\ ses[s].bad \subseteq Ignored
    BY <2>1, NothingLeft DEF InOrder, Left, Ended
  <2>3. ses[s].job = "done"
    BY <2>1, <2>2 DEF JobPlace
  <2>4. QED
    BY <2>1, <2>3 DEF JobsWork
<1>2. QED
  BY <1>1, CloudInvariant, PTL
=============================================================================
