--------------------------- MODULE FrontendProofs ---------------------------
(***************************************************************************)
(* Theorems about Frontend, for any number of sessions and any programs.   *)
(* The sessions of a process start the Java parser server one at a time,   *)
(* whatever becomes of the processes.  A program that is accepted becomes  *)
(* its statements and these the steps of a workflow, and its dependency    *)
(* graph keeps the order of what touches a table.  What the parsers, the   *)
(* compiler and the analysis compute of programs of any length is proved   *)
(* by induction (Least, Induction).                                        *)
(***************************************************************************)
EXTENDS Frontend, SequenceTheorems, WellFoundedInduction, TLAPS

\* The sessions have a place, and processes are counted.
Counted ==
    /\ DOMAIN ses = Sessions /\ \A s \in Sessions : "pc" \in DOMAIN ses[s]
    /\ booting \in Nat /\ late \in Nat

\* What is inductive of ParserServerInv.
Server == Counted /\ MutexHeld /\ StartAwaited

\* The session s, and no other, has moved to pc.
MovedTo(s, pc) ==
    /\ DOMAIN ses' = Sessions /\ \A x \in Sessions \ {s} : ses'[x] = ses[x]
    /\ "pc" \in DOMAIN ses'[s] /\ ses'[s].pc = pc

\* A session is replaced by another record.
LEMMA Moved ==
    ASSUME Counted, NEW s \in Sessions, NEW r, Becomes(s, r), "pc" \in DOMAIN r
    PROVE  MovedTo(s, r.pc)
BY DEF Counted, Becomes, MovedTo

\* The assignment to its place.
LEMMA PlaceSet ==
    ASSUME Counted, NEW s \in Sessions
    PROVE  /\ \A pc : Go(s, pc) => MovedTo(s, pc)
           /\ \A why : Error(s, why) => MovedTo(s, "error")
<1>1. "pc" \in DOMAIN ses[s]
  BY DEF Counted
<1>2. ASSUME NEW pc, Go(s, pc) PROVE MovedTo(s, pc)
  <2> DEFINE r == [ses[s] EXCEPT !.pc = pc]
  <2>1. "pc" \in DOMAIN r /\ r.pc = pc /\ Becomes(s, r)
    BY <1>1, <1>2 DEF Go
  <2> HIDE DEF r
  <2>2. QED
    BY <2>1, Moved
<1>3. ASSUME NEW why, Error(s, why) PROVE MovedTo(s, "error")
  <2> DEFINE r == [ses[s] EXCEPT !.pc = "error", !.why = why]
  <2>1. "pc" \in DOMAIN r /\ r.pc = "error" /\ Becomes(s, r)
    BY <1>1, <1>3 DEF Error
  <2> HIDE DEF r
  <2>2. QED
    BY <2>1, Moved
<1>4. QED
  BY <1>2, <1>3

\* A step of a session that is not connecting, and does not begin to.
LEMMA Elsewhere ==
    ASSUME Server, NEW s \in Sessions, NEW pc, MovedTo(s, pc),
           ses[s].pc \notin Connecting, pc \notin Connecting, UNCHANGED java
    PROVE  Server'
<1>1. UNCHANGED <<lock, booting, up, late>>
  BY DEF java
<1>2. Counted'
  BY <1>1 DEF Server, Counted, MovedTo
<1>3. MutexHeld'
  BY <1>1 DEF Server, MutexHeld, MovedTo
<1>4. \A x \in Sessions : ses'[x].pc = "wait" <=> ses[x].pc = "wait"
  BY DEF MovedTo, Connecting
<1>5. StartAwaited'
  BY <1>1, <1>4 DEF Server, StartAwaited
<1>6. QED
  BY <1>2, <1>3, <1>5 DEF Server

\* Where the steps that are not about the server lead.
Places == {"start", "comments", "driver", "parse", "rpc", "extended", "parsed", "analyze",
           "analyzed", "resolve", "filler", "steps", "python", "done", "stopped", "error"}

\* The places of the parsers and of the compilers are apart from those of
\* connectToServer.
LEMMA Apart == \A pc \in Places : pc \notin Connecting
BY DEF Places, Connecting

\* Reading the text.
LEMMA TextSteps ==
    ASSUME Server, NEW s \in Sessions,
           RemoveComments(s) \/ RemoveLineComments(s) \/ ParseURL(s)
    PROVE  Server'
<1>1. Counted /\ "pc" \in DOMAIN ses[s] /\ UNCHANGED java
  BY DEF Server, Counted, RemoveComments, RemoveLineComments, ParseURL
<1>2. ses[s].pc \in Places
  BY DEF RemoveComments, RemoveLineComments, ParseURL, At, Places
<1>3. ASSUME NEW why, Error(s, why) PROVE \E pc \in Places : MovedTo(s, pc)
  BY <1>1, <1>3, PlaceSet DEF Places
<1>4. ASSUME NEW c, NEW pc \in Places, Becomes(s, [ses[s] EXCEPT !.pc = pc, !.clean = c])
      PROVE  \E p \in Places : MovedTo(s, p)
  <2> DEFINE r == [ses[s] EXCEPT !.pc = pc, !.clean = c]
  <2>1. "pc" \in DOMAIN r /\ r.pc = pc
    BY <1>1
  <2> HIDE DEF r
  <2>2. QED
    BY <1>1, <1>4, <2>1, Moved DEF r
<1>5. ASSUME NEW t, Becomes(s, [ses[s] EXCEPT !.pc = "parse", !.text = t])
      PROVE  \E p \in Places : MovedTo(s, p)
  <2> DEFINE r == [ses[s] EXCEPT !.pc = "parse", !.text = t]
  <2>1. "pc" \in DOMAIN r /\ r.pc = "parse"
    BY <1>1
  <2> HIDE DEF r
  <2>2. QED
    BY <1>1, <1>5, <2>1, Moved DEF r, Places
<1>6. "comments" \in Places /\ "driver" \in Places
  BY DEF Places
<1>7. \E p \in Places : MovedTo(s, p)
  <2>1. CASE RemoveComments(s)
    BY <1>3, <1>4, <1>6, <2>1 DEF RemoveComments
  <2>2. CASE RemoveLineComments(s)
    BY <1>3, <1>4, <1>6, <2>2 DEF RemoveLineComments
  <2>3. CASE ParseURL(s)
    BY <1>3, <1>5, <2>3 DEF ParseURL
  <2>4. QED
    BY <2>1, <2>2, <2>3
<1>8. QED
  BY <1>1, <1>2, <1>7, Apart, Elsewhere

\* A parser has answered.
LEMMA AcceptedPlace ==
    ASSUME Counted, NEW s \in Sessions, Becomes(s, Accepted(s))
    PROVE  \E p \in Places : MovedTo(s, p)
<1> DEFINE q == ThirdPartyParse(input[s].dialect, ses[s].text, ses[s].pos)
           pc == IF q.pos = 0 THEN "parsed" ELSE "extended"
           r == Accepted(s)
<1>1. "pc" \in DOMAIN ses[s]
  BY DEF Counted
<1>2. r = [ses[s] EXCEPT !.all = @ \o q.sqls, !.pos = IF q.pos = 0 THEN @ ELSE q.pos,
                         !.open = q.sqls # <<>> /\ Last(q.sqls).unfinished, !.pc = pc]
  BY DEF Accepted
<1> HIDE DEF q
<1>3. pc \in Places
  BY DEF Places
<1> HIDE DEF pc, r
<1>4. "pc" \in DOMAIN r /\ r.pc = pc
  BY <1>1, <1>2
<1>5. QED
  BY <1>3, <1>4, Moved DEF r

\* The parsers taking turns.
LEMMA ParseSteps ==
    ASSUME Server, NEW s \in Sessions,
           ParseWithTiDB(s) \/ ParseFirstSQLFlowStmt(s) \/ ParseWithJava(s)
    PROVE  Server'
<1>1. Counted /\ "pc" \in DOMAIN ses[s] /\ UNCHANGED java
  BY DEF Server, Counted, ParseWithTiDB, ParseFirstSQLFlowStmt, ParseWithJava
<1>2. ses[s].pc \in Places
  BY DEF ParseWithTiDB, ParseFirstSQLFlowStmt, ParseWithJava, At, Places
<1>3. ASSUME NEW why, Error(s, why) PROVE \E pc \in Places : MovedTo(s, pc)
  BY <1>1, <1>3, PlaceSet DEF Places
<1>4. ASSUME NEW a, NEW pc \in Places, Becomes(s, [ses[s] EXCEPT !.all = a, !.pos = @ + 1, !.pc = pc])
      PROVE  \E p \in Places : MovedTo(s, p)
  <2> DEFINE r == [ses[s] EXCEPT !.all = a, !.pos = @ + 1, !.pc = pc]
  <2>1. "pc" \in DOMAIN r /\ r.pc = pc
    BY <1>1
  <2> HIDE DEF r
  <2>2. QED
    BY <1>1, <1>4, <2>1, Moved DEF r
<1>5. "parsed" \in Places /\ "parse" \in Places
  BY DEF Places
<1>6. \E p \in Places : MovedTo(s, p)
  <2>1. CASE ParseWithTiDB(s)
    BY <1>1, <2>1, AcceptedPlace DEF ParseWithTiDB
  <2>2. CASE ParseWithJava(s)
    BY <1>1, <1>3, <2>2, AcceptedPlace DEF ParseWithJava
  <2>3. CASE ParseFirstSQLFlowStmt(s)
    <3>1. CASE Error(s, "syntax")
      BY <1>3, <3>1
    <3>2. CASE \E a : \E pc \in Places : Becomes(s, [ses[s] EXCEPT !.all = a, !.pos = @ + 1, !.pc = pc])
      BY <1>4, <3>2
    <3>3. QED
      BY <1>5, <2>3, <3>1, <3>2 DEF ParseFirstSQLFlowStmt
  <2>4. QED
    BY <2>1, <2>2, <2>3
<1>7. QED
  BY <1>1, <1>2, <1>6, Apart, Elsewhere

\* A record with the place pc and another field.
LEMMA Assigned ==
    ASSUME Counted, NEW s \in Sessions, NEW pc \in Places, NEW v, NEW w
    PROVE  /\ Becomes(s, [ses[s] EXCEPT !.pc = pc, !.graph = v]) => MovedTo(s, pc)
           /\ Becomes(s, [ses[s] EXCEPT !.pc = pc, !.all = v]) => MovedTo(s, pc)
           /\ Becomes(s, [ses[s] EXCEPT !.pc = pc, !.steps = v]) => MovedTo(s, pc)
           /\ Becomes(s, [ses[s] EXCEPT !.pc = pc, !.why = w, !.steps = v]) => MovedTo(s, pc)
<1>1. "pc" \in DOMAIN ses[s]
  BY DEF Counted
<1>2. LET r == [ses[s] EXCEPT !.pc = pc, !.graph = v] IN "pc" \in DOMAIN r /\ r.pc = pc
  BY <1>1
<1>3. LET r == [ses[s] EXCEPT !.pc = pc, !.all = v] IN "pc" \in DOMAIN r /\ r.pc = pc
  BY <1>1
<1>4. LET r == [ses[s] EXCEPT !.pc = pc, !.steps = v] IN "pc" \in DOMAIN r /\ r.pc = pc
  BY <1>1
<1>5. LET r == [ses[s] EXCEPT !.pc = pc, !.why = w, !.steps = v] IN "pc" \in DOMAIN r /\ r.pc = pc
  BY <1>1
<1>6. QED
  BY <1>2, <1>3, <1>4, <1>5, Moved

\* A record that keeps its place.
LEMMA Stays ==
    ASSUME Counted, NEW s \in Sessions, NEW v, NEW w
    PROVE  /\ Becomes(s, [ses[s] EXCEPT !.graph = v, !.nodes = w]) => MovedTo(s, ses[s].pc)
           /\ Becomes(s, [ses[s] EXCEPT !.steps = v]) => MovedTo(s, ses[s].pc)
           /\ Becomes(s, [ses[s] EXCEPT !.ran = v]) => MovedTo(s, ses[s].pc)
<1>1. "pc" \in DOMAIN ses[s]
  BY DEF Counted
<1>2. LET r == [ses[s] EXCEPT !.graph = v, !.nodes = w] IN "pc" \in DOMAIN r /\ r.pc = ses[s].pc
  BY <1>1
<1>3. LET r == [ses[s] EXCEPT !.steps = v] IN "pc" \in DOMAIN r /\ r.pc = ses[s].pc
  BY <1>1
<1>4. LET r == [ses[s] EXCEPT !.ran = v] IN "pc" \in DOMAIN r /\ r.pc = ses[s].pc
  BY <1>1
<1>5. QED
  BY <1>2, <1>3, <1>4, Moved

\* The compilers, and Argo.
LEMMA CompileSteps ==
    ASSUME Server, NEW s \in Sessions, Compile(s) \/ RunStep(s) \/ StepFails(s)
    PROVE  Server'
<1>1. Counted
  BY DEF Server
<1>2. ses[s].pc \in Places /\ UNCHANGED java
  <2>1. CASE AnalyzeStart(s) \/ AnalyzeStatement(s) \/ DrawGraphviz(s)
    BY <2>1 DEF AnalyzeStart, AnalyzeStatement, DrawGraphviz, At, Places
  <2>2. CASE Rewrite(s) \/ ResolveSQLProgram(s) \/ GenFiller(s)
    BY <2>2 DEF Rewrite, ResolveSQLProgram, GenFiller, At, Places
  <2>3. CASE GenerateStep(s) \/ CodeGenCouler(s) \/ GenYAML(s)
    BY <2>3 DEF GenerateStep, CodeGenCouler, GenYAML, At, Places
  <2>4. CASE RunStep(s) \/ StepFails(s)
    BY <2>4 DEF RunStep, StepFails, At, Places
  <2>5. QED
    BY <2>1, <2>2, <2>3, <2>4 DEF Compile
<1>3. \A pc \in Places : MovedTo(s, pc) => \E p \in Places : MovedTo(s, p)
  OBVIOUS
<1>4. ASSUME \E why : Error(s, why) PROVE \E p \in Places : MovedTo(s, p)
  <2>1. "error" \in Places
    BY DEF Places
  <2>2. QED
    BY <1>1, <1>4, <2>1, PlaceSet
<1>5. ASSUME \E pc \in Places : Go(s, pc) PROVE \E p \in Places : MovedTo(s, p)
  BY <1>1, <1>5, PlaceSet
<1>6. ASSUME \E pc \in Places : \E v :
               \/ Becomes(s, [ses[s] EXCEPT !.pc = pc, !.graph = v])
               \/ Becomes(s, [ses[s] EXCEPT !.pc = pc, !.all = v])
               \/ Becomes(s, [ses[s] EXCEPT !.pc = pc, !.steps = v])
               \/ \E w : Becomes(s, [ses[s] EXCEPT !.pc = pc, !.why = w, !.steps = v])
      PROVE  \E p \in Places : MovedTo(s, p)
  BY <1>1, <1>6, Assigned
<1>7. ASSUME \E v : \/ \E w : Becomes(s, [ses[s] EXCEPT !.graph = v, !.nodes = w])
                    \/ Becomes(s, [ses[s] EXCEPT !.steps = v])
                    \/ Becomes(s, [ses[s] EXCEPT !.ran = v])
      PROVE  \E p \in Places : MovedTo(s, p)
  BY <1>1, <1>2, <1>7, Stays
<1>8. \A p \in {"analyze", "analyzed", "resolve", "filler", "steps", "python", "done", "stopped"} : p \in Places
  BY DEF Places
<1>9. \E p \in Places : MovedTo(s, p)
  <2>1. CASE AnalyzeStart(s)
    BY <1>4, <1>5, <1>6, <1>8, <2>1 DEF AnalyzeStart
  <2>2. CASE AnalyzeStatement(s)
    BY <1>7, <2>2 DEF AnalyzeStatement
  <2>3. CASE DrawGraphviz(s)
    BY <1>4, <1>5, <1>8, <2>3 DEF DrawGraphviz
  <2>4. CASE Rewrite(s)
    BY <1>6, <1>8, <2>4 DEF Rewrite
  <2>5. CASE ResolveSQLProgram(s)
    BY <1>4, <1>5, <1>8, <2>5 DEF ResolveSQLProgram
  <2>6. CASE GenFiller(s)
    BY <1>4, <1>6, <1>8, <2>6 DEF GenFiller
  <2>7. CASE GenerateStep(s)
    BY <1>4, <1>7, <2>7 DEF GenerateStep
  <2>8. CASE CodeGenCouler(s)
    BY <1>4, <1>5, <1>8, <2>8 DEF CodeGenCouler
  <2>9. CASE GenYAML(s)
    BY <1>4, <1>5, <1>6, <1>8, <2>9 DEF GenYAML
  <2>10. CASE RunStep(s)
    BY <1>7, <2>10 DEF RunStep
  <2>11. CASE StepFails(s)
    BY <1>5, <1>8, <2>11 DEF StepFails
  <2>12. QED
    BY <2>1, <2>2, <2>3, <2>4, <2>5, <2>6, <2>7, <2>8, <2>9, <2>10, <2>11 DEF Compile
<1>10. QED
  BY <1>1, <1>2, <1>9, Apart, Elsewhere
-----------------------------------------------------------------------------
(* The server. *)

\* Only the holder of the mutex connects.
LEMMA OneConnects ==
    ASSUME Server, NEW s \in Sessions, ses[s].pc \in Connecting
    PROVE  lock = s /\ \A x \in Sessions \ {s} : ses[x].pc \notin Connecting
BY DEF Server, MutexHeld

\* The mutex is taken.
LEMMA LockStep ==
    ASSUME Server, NEW s \in Sessions, Lock(s)
    PROVE  Server'
<1>1. MovedTo(s, "check") /\ ses[s].pc = "parse" /\ lock = "none" /\ lock' = s
  BY PlaceSet DEF Server, Lock, At
<1>2. UNCHANGED <<booting, up, late>>
  BY DEF Lock
<1>3. Counted'
  BY <1>1, <1>2 DEF Server, Counted, MovedTo
<1>4. \A x \in Sessions : ses[x].pc \notin Connecting
  BY <1>1, FrontendAssumption DEF Server, MutexHeld
<1>5. MutexHeld'
  BY <1>1, <1>4 DEF MutexHeld, MovedTo, Connecting
<1>6. \A x \in Sessions : ses[x].pc # "wait"
  BY <1>4 DEF Connecting
<1>7. StartAwaited'
  BY <1>2, <1>3, <1>6 DEF Server, Counted, StartAwaited
<1>8. QED
  BY <1>3, <1>5, <1>7 DEF Server

\* The holder goes on, to wait or to dial, and may have started a process.
LEMMA Held ==
    ASSUME Server, NEW s \in Sessions, ses[s].pc \in Connecting, NEW pc \in {"wait", "dial"},
           MovedTo(s, pc), UNCHANGED <<lock, up, late>>, booting' \in Nat,
           pc = "dial" => up /\ booting' = booting,
           pc = "wait" => ~up /\ booting' <= late + 1
    PROVE  Server'
<1>1. lock = s /\ \A x \in Sessions \ {s} : ses[x].pc \notin Connecting
  BY OneConnects
<1>2. Counted'
  BY DEF Server, Counted, MovedTo
<1>3. MutexHeld'
  BY <1>1 DEF MutexHeld, MovedTo, Connecting
<1>4. \A x \in Sessions \ {s} : ses'[x].pc # "wait"
  BY <1>1 DEF MovedTo, Connecting
<1>5. StartAwaited'
  <2>1. CASE pc = "dial"
    <3>1. booting <= late
      BY <2>1 DEF Server, Counted, StartAwaited
    <3>2. QED
      BY <1>2, <2>1, <3>1 DEF Server, Counted, StartAwaited
  <2>2. CASE pc = "wait"
    <3>1. ses'[s].pc = "wait" /\ ~up'
      BY <2>2 DEF MovedTo
    <3>2. QED
      BY <2>2, <3>1 DEF StartAwaited
  <2>3. QED
    BY <2>1, <2>2
<1>6. QED
  BY <1>2, <1>3, <1>5 DEF Server

\* The holder gives the mutex back.  If it was still waiting it has given
\* up one process more.
LEMMA Released ==
    ASSUME Server, NEW s \in Sessions, ses[s].pc \in Connecting, NEW pc \in {"rpc", "error"},
           MovedTo(s, pc), lock' = "none", UNCHANGED <<booting, up>>,
           late' = IF ses[s].pc = "wait" THEN late + 1 ELSE late
    PROVE  Server'
<1>1. \A x \in Sessions \ {s} : ses[x].pc \notin Connecting
  BY OneConnects
<1>2. Counted'
  BY DEF Server, Counted, MovedTo
<1>3. \A x \in Sessions : ses'[x].pc \notin Connecting
  BY <1>1 DEF MovedTo, Connecting
<1>4. MutexHeld'
  BY <1>3, FrontendAssumption DEF MutexHeld
<1>5. StartAwaited'
  <2>1. booting <= late'
    <3>1. CASE ses[s].pc = "wait"
      BY <3>1 DEF Server, Counted, StartAwaited
    <3>2. CASE ses[s].pc # "wait"
      <4>1. \A x \in Sessions : ses[x].pc # "wait"
        BY <1>1, <3>2 DEF Connecting
      <4>2. QED
        BY <3>2, <4>1 DEF Server, Counted, StartAwaited
    <3>3. QED
      BY <3>1, <3>2
  <2>2. QED
    BY <1>2, <2>1 DEF StartAwaited, Counted
<1>6. QED
  BY <1>2, <1>4, <1>5 DEF Server

\* startServerIfNotUp.
LEMMA StartStep ==
    ASSUME Server, NEW s \in Sessions, StartServer(s)
    PROVE  Server'
<1>1. /\ Counted /\ ses[s].pc = "check" /\ ses[s].pc \in Connecting /\ booting \in Nat /\ late \in Nat
      /\ "pc" \in DOMAIN ses[s]
  BY DEF Server, Counted, StartServer, At, Connecting
<1>2. CASE up /\ Go(s, "dial") /\ UNCHANGED java
  <2>1. MovedTo(s, "dial") /\ UNCHANGED <<lock, booting, up, late>>
    BY <1>1, <1>2, PlaceSet DEF java
  <2>2. QED
    BY <1>1, <1>2, <2>1, Held
<1>3. CASE /\ ~up /\ Becomes(s, [ses[s] EXCEPT !.pc = "wait", !.tries = 3])
           /\ booting' = booting + 1 /\ UNCHANGED <<lock, up, late, conns>>
  <2>1. MovedTo(s, "wait")
    <3> DEFINE r == [ses[s] EXCEPT !.pc = "wait", !.tries = 3]
    <3>1. "pc" \in DOMAIN r /\ r.pc = "wait"
      BY <1>1
    <3> HIDE DEF r
    <3>2. QED
      BY <1>1, <1>3, <3>1, Moved DEF r
  <2>2. booting <= late
    <3>1. \A x \in Sessions : ses[x].pc # "wait"
      BY <1>1, OneConnects DEF Connecting
    <3>2. QED
      BY <1>1, <3>1 DEF Server, StartAwaited
  <2>3. booting' \in Nat /\ booting' <= late + 1
    BY <1>1, <1>3, <2>2
  <2>4. QED
    BY <1>1, <1>3, <2>1, <2>3, Held
<1>4. CASE Error(s, "java") /\ lock' = "none" /\ UNCHANGED <<booting, up, late, conns>>
  <2>1. MovedTo(s, "error")
    BY <1>1, <1>4, PlaceSet
  <2>2. QED
    BY <1>1, <1>4, <2>1, Released
<1>5. QED
  BY <1>2, <1>3, <1>4 DEF StartServer

\* The wait for the server.
LEMMA WaitStep ==
    ASSUME Server, NEW s \in Sessions, WaitForServer(s)
    PROVE  Server'
<1>1. /\ Counted /\ ses[s].pc = "wait" /\ ses[s].pc \in Connecting /\ booting \in Nat /\ late \in Nat
      /\ "pc" \in DOMAIN ses[s]
  BY DEF Server, Counted, WaitForServer, At, Connecting
<1>2. CASE up /\ Go(s, "dial") /\ UNCHANGED java
  <2>1. MovedTo(s, "dial") /\ UNCHANGED <<lock, booting, up, late>>
    BY <1>1, <1>2, PlaceSet DEF java
  <2>2. QED
    BY <1>1, <1>2, <2>1, Held
<1>3. CASE ~up /\ Becomes(s, [ses[s] EXCEPT !.tries = @ - 1]) /\ UNCHANGED java
  <2>1. MovedTo(s, "wait")
    <3> DEFINE r == [ses[s] EXCEPT !.tries = @ - 1]
    <3>1. "pc" \in DOMAIN r /\ r.pc = "wait"
      BY <1>1
    <3> HIDE DEF r
    <3>2. QED
      BY <1>1, <1>3, <3>1, Moved DEF r
  <2>2. UNCHANGED <<lock, booting, up, late>>
    BY <1>3 DEF java
  <2>3. booting <= late + 1
    BY <1>1 DEF Server, StartAwaited
  <2>4. QED
    BY <1>1, <1>3, <2>1, <2>2, <2>3, Held
<1>4. CASE Error(s, "java") /\ late' = late + 1 /\ lock' = "none" /\ UNCHANGED <<booting, up, conns>>
  <2>1. MovedTo(s, "error")
    BY <1>1, <1>4, PlaceSet
  <2>2. QED
    BY <1>1, <1>4, <2>1, Released
<1>5. QED
  BY <1>2, <1>3, <1>4 DEF WaitForServer

\* The connection.
LEMMA DialStep ==
    ASSUME Server, NEW s \in Sessions, Dial(s)
    PROVE  Server'
<1>1. Counted /\ ses[s].pc = "dial" /\ ses[s].pc \in Connecting
  BY DEF Server, Dial, At, Connecting
<1>2. MovedTo(s, "rpc") /\ lock' = "none" /\ UNCHANGED <<booting, up, late>>
  BY <1>1, PlaceSet DEF Dial
<1>3. QED
  BY <1>1, <1>2, Released

\* The processes themselves.
LEMMA ProcessStep ==
    ASSUME Server, ServerReady \/ ServerDies
    PROVE  Server'
<1>1. UNCHANGED <<ses, lock, late>> /\ booting \in Nat /\ late \in Nat
  BY DEF Server, Counted, ServerReady, ServerDies
<1>2. \/ booting > 0 /\ booting' = booting - 1
      \/ booting' = booting /\ ~up'
  BY DEF ServerReady, ServerDies
<1>3. Counted' /\ MutexHeld'
  BY <1>1, <1>2 DEF Server, Counted, MutexHeld
<1>4. CASE booting > 0 /\ booting' = booting - 1
  <2>1. booting <= late + 1
    BY <1>1 DEF Server, StartAwaited
  <2>2. booting' <= late
    BY <1>1, <1>4, <2>1
  <2>3. QED
    BY <1>1, <1>3, <2>2 DEF Server, Counted, StartAwaited
<1>5. CASE booting' = booting /\ ~up'
  BY <1>1, <1>3, <1>5 DEF Server, StartAwaited
<1>6. QED
  BY <1>2, <1>4, <1>5

\* Every step of the system.
LEMMA ServerStep == Server /\ [Next]_vars => Server'
<1> SUFFICES ASSUME Server, [Next]_vars PROVE Server'
  OBVIOUS
<1>1. ASSUME NEW s \in Sessions, Parse(s) PROVE Server'
  BY <1>1, TextSteps, ParseSteps, LockStep, StartStep, WaitStep, DialStep DEF Parse
<1>2. ASSUME NEW s \in Sessions, Compile(s) \/ RunStep(s) \/ StepFails(s) PROVE Server'
  BY <1>2, CompileSteps
<1>3. CASE ServerReady \/ ServerDies
  BY <1>3, ProcessStep
<1>4. CASE UNCHANGED vars
  BY <1>4 DEF vars, java, Server, Counted, MutexHeld, StartAwaited
<1>5. QED
  BY <1>1, <1>2, <1>3, <1>4 DEF Next

\* Nobody has begun.
LEMMA ServerInit == Init => Server
<1> SUFFICES ASSUME Init PROVE Server
  OBVIOUS
<1>1. DOMAIN ses = Sessions /\ \A s \in Sessions : "pc" \in DOMAIN ses[s] /\ ses[s].pc = "start"
  BY DEF Init, Fresh
<1>2. "start" \notin Connecting /\ lock = "none" /\ booting = 0 /\ late = 0
  BY DEF Init, Connecting
<1>3. QED
  BY <1>1, <1>2, FrontendAssumption DEF Server, Counted, MutexHeld, StartAwaited

\* At any time at most one session of the process starts the Java server or
\* waits for it; it holds the mutex, and every way out gives it back.  So,
\* however many sessions parse and however slowly or often the Java process
\* starts and dies, of the processes that do not listen yet at most one is
\* not among those that a call has given up.
THEOREM OneServerAtATime == Spec => []ParserServerInv
<1>1. Spec => []Server
  BY ServerInit, ServerStep, PTL DEF Spec
<1>2. Server => ServersBounded
  <2> SUFFICES ASSUME Server PROVE ServersBounded
    OBVIOUS
  <2>1. booting \in Nat /\ late \in Nat
    BY DEF Server, Counted
  <2>2. CASE \E s \in Sessions : ses[s].pc = "wait" /\ ~up
    <3>1. PICK s \in Sessions : ses[s].pc = "wait"
      BY <2>2
    <3>2. lock # "none"
      BY <3>1, OneConnects, FrontendAssumption DEF Connecting
    <3>3. QED
      BY <2>1, <2>2, <3>2 DEF Server, StartAwaited, ServersBounded
  <2>3. CASE ~\E s \in Sessions : ses[s].pc = "wait" /\ ~up
    BY <2>1, <2>3 DEF Server, StartAwaited, ServersBounded
  <2>4. QED
    BY <2>2, <2>3
<1>3. Server /\ ServersBounded => ParserServerInv
  BY DEF Server, ParserServerInv
<1>4. QED
  BY <1>1, <1>2, <1>3, PTL

-----------------------------------------------------------------------------
(* Induction over numbers, and lists in order. *)

\* A set of numbers has a least member: what an induction comes down to.
LEMMA Least ==
    ASSUME NEW T, T \subseteq Nat, T # {}
    PROVE  \E x \in T : \A y \in T : x <= y
<1>1. PICK x \in T : \A y \in T : <<y, x>> \notin OpToRel(<, Nat)
  BY NatLessThanWellFounded, WFMin
<1>2. \A y \in T : ~(y < x)
  BY <1>1 DEF OpToRel
<1>3. QED
  BY <1>2

\* Induction over the numbers up to n, for a set that holds the good ones.
LEMMA Induction ==
    ASSUME NEW n \in Nat, NEW G, 0 \in G, \A m \in 1..n : m - 1 \in G => m \in G
    PROVE  \A m \in 0..n : m \in G
<1> DEFINE T == {m \in 0..n : m \notin G}
<1>1. SUFFICES ASSUME T # {} PROVE FALSE
  OBVIOUS
<1>2. T \subseteq Nat
  OBVIOUS
<1> HIDE DEF T
<1>3. PICK m \in T : \A k \in T : m <= k
  BY <1>1, <1>2, Least
<1>4. m \in 1..n /\ m \notin G
  BY DEF T
<1>5. m - 1 \in 0..n /\ ~(m <= m - 1)
  BY <1>4
<1>6. m - 1 \in G
  BY <1>3, <1>5 DEF T
<1>7. QED
  BY <1>4, <1>6

\* What defines InOrder, at one position.
OrderStep(S, f, i) ==
    IF i = 0 THEN <<>> ELSE IF i \in S THEN Append(f[i - 1], i) ELSE f[i - 1]

\* The recursion of InOrder has a solution.
LEMMA OrderSolved ==
    ASSUME NEW S, NEW n \in Nat
    PROVE  \E f : f = [i \in 0..n |-> OrderStep(S, f, i)]
<1> DEFINE G == {m \in 0..n : \E f : f = [i \in 0..m |-> OrderStep(S, f, i)]}
<1>1. 0 \in G
  <2> DEFINE f == [i \in 0..0 |-> <<>>]
  <2>1. f = [i \in 0..0 |-> OrderStep(S, f, i)]
    BY DEF OrderStep
  <2>2. QED
    BY <2>1
<1>2. ASSUME NEW m \in 1..n, m - 1 \in G PROVE m \in G
  <2>1. PICK f : f = [i \in 0..m - 1 |-> OrderStep(S, f, i)]
    BY <1>2
  <2>2. \A i \in 0..m - 1 : f[i] = OrderStep(S, f, i)
    BY <2>1, Zenon
  <2> DEFINE g == [i \in 0..m |-> IF i = m THEN OrderStep(S, f, m) ELSE f[i]]
  <2>3. ASSUME NEW i \in 0..m PROVE g[i] = OrderStep(S, g, i)
    <3>1. CASE i = m
      BY <3>1 DEF OrderStep
    <3>2. CASE i < m
      BY <2>2, <3>2 DEF OrderStep
    <3>3. QED
      BY <3>1, <3>2
  <2>4. g = [i \in 0..m |-> OrderStep(S, g, i)]
    BY <2>3
  <2> HIDE DEF g
  <2>5. \E h : h = [i \in 0..m |-> OrderStep(S, h, i)]
    BY <2>4, Zenon
  <2>6. m \in 0..n
    OBVIOUS
  <2>7. QED
    BY <2>5, <2>6, Zenon
<1> HIDE DEF G
<1>3. n \in G
  BY <1>1, <1>2, Induction
<1>4. QED
  BY <1>3 DEF G

\* A list in order grows at its end.
LEMMA ListsAppend ==
    ASSUME NEW S, NEW q \in Seq(Nat), Lists(q, S), NEW x \in Nat, \A y \in S : y < x
    PROVE  Lists(Append(q, x), S \cup {x})
<1> DEFINE r == Append(q, x)
<1>1. /\ r \in Seq(Nat) /\ DOMAIN r = 1..Len(q) + 1 /\ DOMAIN q = 1..Len(q) /\ Len(q) \in Nat
      /\ r[Len(q) + 1] = x /\ \A i \in 1..Len(q) : r[i] = q[i]
  OBVIOUS
<1> HIDE DEF r
<1>2. \A i \in DOMAIN q : q[i] \in S /\ q[i] \in Nat
  BY <1>1 DEF Lists, Range
<1>3. Range(r) = S \cup {x}
  <2>1. \A y \in Range(r) : y \in S \cup {x}
    BY <1>1, <1>2 DEF Range
  <2>2. \A y \in S : y \in Range(r)
    <3> TAKE y \in S
    <3>1. PICK i \in DOMAIN q : q[i] = y
      BY DEF Lists, Range
    <3>2. QED
      BY <1>1, <3>1 DEF Range
  <2>3. x \in Range(r)
    BY <1>1 DEF Range
  <2>4. QED
    BY <2>1, <2>2, <2>3
<1>4. ASSUME NEW i \in DOMAIN r, NEW j \in DOMAIN r, i < j PROVE r[i] < r[j]
  <2>1. i \in DOMAIN q /\ r[i] = q[i]
    BY <1>1, <1>4
  <2>2. CASE j = Len(q) + 1
    BY <1>1, <1>2, <2>1, <2>2
  <2>3. CASE j # Len(q) + 1
    BY <1>1, <1>4, <2>1, <2>3 DEF Lists
  <2>4. QED
    BY <2>2, <2>3
<1>5. QED
  BY <1>3, <1>4 DEF Lists, r

\* The numbers of S up to n, in order.
LEMMA InOrderLists ==
    ASSUME NEW S, NEW n \in Nat
    PROVE  /\ InOrder(S, n) \in Seq(1..n)
           /\ Lists(InOrder(S, n), S \cap 1..n)
<1>1. PICK f : /\ \A i \in 0..n : f[i] = OrderStep(S, f, i)
               /\ InOrder(S, n) = f[n]
  <2> DEFINE f == CHOOSE f : f = [i \in 0..n |-> OrderStep(S, f, i)]
  <2>1. f = [i \in 0..n |-> OrderStep(S, f, i)]
    BY OrderSolved, Zenon
  <2>2. InOrder(S, n) = f[n]
    BY DEF InOrder, OrderStep
  <2> HIDE DEF f
  <2>3. \A i \in 0..n : f[i] = OrderStep(S, f, i)
    BY <2>1, Zenon
  <2>4. QED
    BY <2>2, <2>3
<1> DEFINE Good(m) == f[m] \in Seq(1..m) /\ Lists(f[m], S \cap 1..m)
           G == {m \in 0..n : Good(m)}
<1>2. 0 \in G
  <2>1. f[0] = <<>>
    BY <1>1 DEF OrderStep
  <2>2. Lists(<<>>, {})
    BY DEF Lists, Range
  <2>3. S \cap 1..0 = {} /\ <<>> \in Seq(1..0) /\ 0 \in 0..n
    OBVIOUS
  <2>4. QED
    BY <2>1, <2>2, <2>3, Zenon
<1>3. ASSUME NEW m \in 1..n, m - 1 \in G PROVE m \in G
  <2>0. m \in 0..n /\ m # 0
    OBVIOUS
  <2>1. f[m] = OrderStep(S, f, m)
    BY <1>1, <2>0
  <2>2. Good(m - 1)
    BY <1>3
  <2>3. Good(m)
    <3>1. CASE m \notin S
      <4>1. f[m] = f[m - 1]
        BY <2>0, <2>1, <3>1, Zenon DEF OrderStep
      <4>2. S \cap 1..m = S \cap 1..m - 1
        BY <3>1
      <4>3. f[m - 1] \in Seq(1..m)
        BY <2>2, SeqMonotonic
      <4>4. QED
        BY <2>2, <4>1, <4>2, <4>3, Zenon
    <3>2. CASE m \in S
      <4>1. f[m] = Append(f[m - 1], m)
        BY <2>0, <2>1, <3>2, Zenon DEF OrderStep
      <4>2. f[m - 1] \in Seq(1..m) /\ f[m - 1] \in Seq(Nat)
        BY <2>2, SeqMonotonic
      <4>3. S \cap 1..m = (S \cap 1..m - 1) \cup {m}
        BY <3>2
      <4>4. \A y \in S \cap 1..m - 1 : y < m
        OBVIOUS
      <4>5. Lists(f[m], S \cap 1..m)
        BY <2>2, <4>1, <4>2, <4>3, <4>4, ListsAppend
      <4>6. Append(f[m - 1], m) \in Seq(1..m)
        BY <4>2
      <4>7. QED
        BY <4>1, <4>5, <4>6, Zenon
    <3>3. QED
      BY <3>1, <3>2
  <2>4. QED
    BY <2>0, <2>3
<1> HIDE DEF G
<1>4. n \in G
  BY <1>2, <1>3, Induction
<1>5. QED
  BY <1>1, <1>4 DEF G

\* Min is the least member.
LEMMA MinIs ==
    ASSUME NEW T, T \subseteq Nat, T # {}
    PROVE  Min(T) \in T /\ \A y \in T : Min(T) <= y
BY Least DEF Min

\* Max is the greatest member of a set that has one.
LEMMA MaxIs ==
    ASSUME NEW T, NEW n \in Nat, T \subseteq 1..n, T # {}
    PROVE  Max(T) \in T /\ \A y \in T : y <= Max(T)
<1> DEFINE D == {d \in 0..n : n - d \in T}
<1>1. ASSUME NEW x \in T PROVE n - x \in D
  <2>1. n - x \in 0..n /\ n - (n - x) = x
    OBVIOUS
  <2>2. n - (n - x) \in T
    BY <2>1, Zenon
  <2>3. QED
    BY <2>1, <2>2, Zenon
<1>2. PICK d \in D : \A y \in D : d <= y
  <2>1. D \subseteq Nat
    OBVIOUS
  <2> HIDE DEF D
  <2>3. D # {}
    BY <1>1
  <2>2. QED
    BY <2>1, <2>3, Least
<1>3. ASSUME NEW y \in T PROVE y <= n - d
  <2>1. d <= n - y
    BY <1>1, <1>2
  <2>2. QED
    BY <2>1
<1>4. QED
  BY <1>3 DEF Max

\* Two lists in order, one after the other.
LEMMA ListsConcat ==
    ASSUME NEW S, NEW T, NEW q \in Seq(Nat), NEW r \in Seq(Nat), Lists(q, S), Lists(r, T),
           \A x \in S, y \in T : x < y
    PROVE  Lists(q \o r, S \cup T)
<1> DEFINE c == q \o r
<1>1. /\ c \in Seq(Nat) /\ DOMAIN c = 1..Len(q) + Len(r) /\ Len(q) \in Nat /\ Len(r) \in Nat
      /\ DOMAIN q = 1..Len(q) /\ DOMAIN r = 1..Len(r)
      /\ \A i \in 1..Len(q) : c[i] = q[i]
      /\ \A i \in 1..Len(r) : c[Len(q) + i] = r[i]
  OBVIOUS
<1> HIDE DEF c
<1>2. \A i \in DOMAIN q : q[i] \in S /\ q[i] \in Nat
  BY <1>1 DEF Lists, Range
<1>3. \A i \in DOMAIN r : r[i] \in T /\ r[i] \in Nat
  BY <1>1 DEF Lists, Range
<1>4. \A i \in DOMAIN c : i \in DOMAIN q \/ (i - Len(q) \in DOMAIN r /\ c[i] = r[i - Len(q)])
  <2> TAKE i \in DOMAIN c
  <2>1. CASE i > Len(q)
    <3>1. i - Len(q) \in 1..Len(r) /\ Len(q) + (i - Len(q)) = i
      BY <1>1, <2>1
    <3>2. QED
      BY <1>1, <3>1
  <2>2. QED
    BY <1>1, <2>1
<1>5. Range(c) = S \cup T
  <2>1. \A x \in Range(c) : x \in S \cup T
    BY <1>1, <1>2, <1>3, <1>4 DEF Range
  <2>2. \A x \in S : x \in Range(c)
    <3> TAKE x \in S
    <3>1. PICK i \in DOMAIN q : q[i] = x
      BY DEF Lists, Range
    <3>2. i \in DOMAIN c /\ c[i] = x
      BY <1>1, <3>1
    <3>3. QED
      BY <3>2 DEF Range
  <2>3. \A x \in T : x \in Range(c)
    <3> TAKE x \in T
    <3>1. PICK i \in DOMAIN r : r[i] = x
      BY DEF Lists, Range
    <3>2. Len(q) + i \in DOMAIN c /\ c[Len(q) + i] = x
      BY <1>1, <3>1
    <3>3. QED
      BY <3>2 DEF Range
  <2>4. QED
    BY <2>1, <2>2, <2>3
<1>6. ASSUME NEW i \in DOMAIN c, NEW j \in DOMAIN c, i < j PROVE c[i] < c[j]
  <2>1. CASE j \in DOMAIN q
    <3>1. i \in DOMAIN q /\ c[i] = q[i] /\ c[j] = q[j]
      BY <1>1, <1>6, <2>1
    <3>2. QED
      BY <1>6, <2>1, <3>1 DEF Lists
  <2>2. CASE i \in DOMAIN q /\ j \notin DOMAIN q
    BY <1>1, <1>2, <1>3, <1>4, <2>2
  <2>3. CASE i \notin DOMAIN q /\ j \notin DOMAIN q
    <3>1. i - Len(q) < j - Len(q)
      BY <1>1, <1>6
    <3>2. QED
      BY <1>4, <2>3, <3>1 DEF Lists
  <2>4. QED
    BY <1>1, <1>6, <2>1, <2>2, <2>3
<1>7. QED
  BY <1>5, <1>6 DEF Lists, c

\* One element.
LEMMA ListsOne == \A x \in Nat : Lists(<<x>>, {x})
BY DEF Lists, Range

\* The next token that is not a comment.
LEMMA LeadingCommentIs ==
    ASSUME NEW text \in Seq(Tokens), NEW i \in 1..Len(text) + 1, NEW j, j = LeadingComment(text, i)
    PROVE  /\ j \in i..Len(text) + 1
           /\ j <= Len(text) => text[j].k # "comment"
           /\ \A k \in i..j - 1 : text[k].k = "comment"
<1> DEFINE n == Len(text)
           T == {k \in i..n + 1 : k = n + 1 \/ text[k].k # "comment"}
<1>1. n \in Nat /\ T \subseteq Nat /\ n + 1 \in T
  OBVIOUS
<1>2. j \in T /\ \A y \in T : j <= y
  BY <1>1, MinIs DEF LeadingComment
<1>3. QED
  BY <1>1, <1>2

-----------------------------------------------------------------------------
(* The parsers of the dialects. *)

\* What a token is made of.
LEMMA TokenIs ==
    ASSUME NEW t \in Tokens
    PROVE  /\ t.k \in TokenKinds /\ t.from \in Tables \cup {"none"} /\ t.into \in Tables \cup {"none"}
           /\ t.image \in Images \cup {"default"}
           /\ t.clause \in Users \cup {"train"} => t.model \in Models
BY DEF Tokens

\* The statements the parsers of the dialects find.
LEMMA StatementIs ==
    ASSUME NEW d, NEW text \in Seq(Tokens), NEW i \in DOMAIN text
    PROVE  /\ Statement(d, text, i) \in Stmts /\ Unfinished(i) \in Stmts
           /\ Statement(d, text, i).at = i /\ Unfinished(i).at = i
           /\ Statement(d, text, i).ext = NoClause /\ Unfinished(i).ext = NoClause
           /\ ~Statement(d, text, i).unfinished /\ Unfinished(i).unfinished
<1>1. text[i] \in Tokens /\ i \in Nat
  OBVIOUS
<1>2. /\ text[i].from \in Tables \cup {"none"} /\ text[i].into \in Tables \cup {"none"}
      /\ <<>> \in Seq(Tables) /\ <<>> \in Seq(Nat)
  BY <1>1, TokenIs
<1>3. ParseInputsOutputs(d, text[i]).in \in Seq(Tables) /\ ParseInputsOutputs(d, text[i]).out \in Seq(Tables)
  <2>1. BareName \in [Tables -> Tables] /\ \A t \in Tables : <<t>> \in Seq(Tables)
    BY FrontendAssumption
  <2>2. Named(text[i].from) \in Seq(Tables) /\ (text[i].into # "none" => Named(BareName[text[i].into]) \in Seq(Tables))
    BY <1>2, <2>1 DEF Named
  <2>3. QED
    BY <1>2, <2>2 DEF ParseInputsOutputs
<1>4. QED
  BY <1>1, <1>2, <1>3 DEF Statement, Unfinished, Stmts

\* Two sequences of positions one after the other.
LEMMA ConcatNat ==
    ASSUME NEW s \in Seq(Nat), NEW u \in Seq(Nat)
    PROVE  /\ s \o u \in Seq(Nat) /\ Len(s \o u) = Len(s) + Len(u)
           /\ \A i \in 1..Len(s) + Len(u) : (s \o u)[i] = IF i <= Len(s) THEN s[i] ELSE u[i - Len(s)]
  BY ConcatProperties

\* The positions of joined statements.
LEMMA PositionsAre ==
    ASSUME NEW a \in Seq(Stmts)
    PROVE  /\ Positions(a) \in Seq(Nat) /\ DOMAIN Positions(a) = DOMAIN a
           /\ \A b \in Seq(Stmts) : Positions(a \o b) = Positions(a) \o Positions(b)
           /\ \A st \in Stmts : Positions(Append(a, st)) = Append(Positions(a), st.at)
<1>1. \A st \in Stmts : st.at \in Nat
  BY DEF Stmts
<1>2. \A c \in Seq(Stmts) : Positions(c) \in Seq(Nat) /\ Len(Positions(c)) = Len(c)
  BY <1>1 DEF Positions
<1>3. ASSUME NEW b \in Seq(Stmts) PROVE Positions(a \o b) = Positions(a) \o Positions(b)
  <2> DEFINE pa == Positions(a)
             pb == Positions(b)
             c == a \o b
             pc == Positions(c)
  <2>1. /\ pa \in Seq(Nat) /\ pb \in Seq(Nat) /\ Len(pa) = Len(a) /\ Len(pb) = Len(b)
        /\ \A i \in 1..Len(a) : pa[i] = a[i].at
        /\ \A i \in 1..Len(b) : pb[i] = b[i].at
    BY <1>2 DEF Positions
  <2>2. /\ c \in Seq(Stmts) /\ Len(c) = Len(a) + Len(b) /\ Len(a) \in Nat /\ Len(b) \in Nat
        /\ \A i \in 1..Len(a) + Len(b) : c[i] = IF i <= Len(a) THEN a[i] ELSE b[i - Len(a)]
    BY ConcatProperties
  <2> HIDE DEF c
  <2>3. /\ pc \in Seq(Nat) /\ Len(pc) = Len(c) /\ \A i \in 1..Len(c) : pc[i] = c[i].at
    <3>1. c \in Seq(Stmts)
      BY <2>2
    <3>2. pc \in Seq(Nat) /\ Len(pc) = Len(c)
      BY <1>2, <3>1
    <3>3. DOMAIN c = 1..Len(c)
      BY <3>1
    <3>4. \A i \in 1..Len(c) : pc[i] = c[i].at
      BY <3>3 DEF Positions
    <3>5. QED
      BY <3>2, <3>4
  <2> HIDE DEF pa, pb, pc
  <2>4. /\ pa \o pb \in Seq(Nat) /\ Len(pa \o pb) = Len(pa) + Len(pb)
        /\ \A i \in 1..Len(pa) + Len(pb) :
             (pa \o pb)[i] = IF i <= Len(pa) THEN pa[i] ELSE pb[i - Len(pa)]
    BY <2>1, ConcatNat
  <2> DEFINE m == Len(a)
             k == Len(b)
             u == pa \o pb
  <2>5. /\ m \in Nat /\ k \in Nat /\ Len(u) = m + k /\ Len(pc) = m + k
        /\ \A i \in 1..m : pa[i] = a[i].at
        /\ \A i \in 1..k : pb[i] = b[i].at
        /\ \A i \in 1..m + k : u[i] = IF i <= m THEN pa[i] ELSE pb[i - m]
        /\ \A i \in 1..m + k : pc[i] = (IF i <= m THEN a[i] ELSE b[i - m]).at
    BY <2>1, <2>2, <2>3, <2>4, Zenon
  <2> HIDE DEF m, k, u
  <2>6. ASSUME NEW i \in 1..m + k PROVE pc[i] = u[i]
    <3>1. CASE i <= m
      <4>1. i \in 1..m
        BY <2>5, <3>1
      <4>2. QED
        BY <2>5, <3>1, <4>1, Zenon
    <3>2. CASE ~(i <= m)
      <4>1. i - m \in 1..k
        BY <2>5, <3>2
      <4>2. QED
        BY <2>5, <3>2, <4>1, Zenon
    <3>3. QED
      BY <3>1, <3>2
  <2>7. u = pc
    BY <2>3, <2>4, <2>5, <2>6, SeqEqual DEF u
  <2>8. QED
    BY <2>7 DEF u, pa, pb, pc, c
<1>4. ASSUME NEW st \in Stmts PROVE Positions(Append(a, st)) = Append(Positions(a), st.at)
  <2>1. /\ Append(a, st) = a \o <<st>> /\ <<st>> \in Seq(Stmts)
        /\ Append(Positions(a), st.at) = Positions(a) \o <<st.at>>
    BY <1>1, <1>2
  <2>2. Positions(<<st>>) = <<st.at>>
    BY DEF Positions
  <2>3. QED
    BY <1>3, <2>1, <2>2
<1>5. QED
  BY <1>2, <1>3, <1>4 DEF Positions

\* The first token that the dialect does not take.
StopsAt(text, n, p, stop) ==
    stop = Min({i \in p..n + 1 : i = n + 1 \/ text[i].k \notin Standard \cup {"comment"}})

\* The token where the parser of a dialect stops.
LEMMA DialectStops ==
    ASSUME NEW text \in Seq(Tokens), NEW n \in Nat, n = Len(text), NEW p \in 1..n + 1, NEW stop,
           StopsAt(text, n, p, stop)
    PROVE  /\ stop \in p..n + 1 /\ \A i \in p..stop - 1 : text[i].k \in Standard \cup {"comment"}
           /\ stop <= n => text[stop].k \notin Standard \cup {"comment"}
<1> DEFINE T == {i \in p..n + 1 : i = n + 1 \/ text[i].k \notin Standard \cup {"comment"}}
<1>1. T \subseteq Nat /\ n + 1 \in T
  OBVIOUS
<1>2. /\ \A i \in p..n + 1 : i \in T <=> i = n + 1 \/ text[i].k \notin Standard \cup {"comment"}
      /\ T \subseteq p..n + 1 /\ stop = Min(T)
  BY Zenon DEF StopsAt
<1> HIDE DEF T
<1>3. T # {}
  BY <1>1
<1>4. stop \in T /\ \A y \in T : stop <= y
  BY <1>1, <1>2, <1>3, MinIs
<1>5. stop \in p..n + 1 /\ p \in Nat
  BY <1>2, <1>4
<1>6. ASSUME NEW i \in p..stop - 1 PROVE text[i].k \in Standard \cup {"comment"}
  <2>1. i \in p..n + 1 /\ ~(stop <= i)
    BY <1>5
  <2>2. QED
    BY <1>2, <1>4, <2>1
<1>7. stop <= n => text[stop].k \notin Standard \cup {"comment"}
  BY <1>2, <1>4, <1>5
<1>8. QED
  BY <1>5, <1>6, <1>7

\* The statements at some positions of the text.
StatementsOf(d, text, at) == [k \in DOMAIN at |-> Statement(d, text, at[k])]

\* They are statements, at those positions, and wait for no clause.
LEMMA StatementsAt ==
    ASSUME NEW d, NEW text \in Seq(Tokens), NEW S \in SUBSET (1..Len(text))
    PROVE  /\ StatementsOf(d, text, InOrder(S, Len(text))) \in Seq(Stmts)
           /\ Lists(Positions(StatementsOf(d, text, InOrder(S, Len(text)))), S)
           /\ \A i \in DOMAIN StatementsOf(d, text, InOrder(S, Len(text))) :
                /\ StatementsOf(d, text, InOrder(S, Len(text)))[i].ext = NoClause
                /\ ~StatementsOf(d, text, InOrder(S, Len(text)))[i].unfinished
<1> DEFINE n == Len(text)
           at == InOrder(S, n)
           sqls == StatementsOf(d, text, at)
<1>n. n \in Nat /\ S \subseteq 1..n /\ DOMAIN text = 1..n
  OBVIOUS
<1> HIDE DEF n
<1> SUFFICES /\ sqls \in Seq(Stmts) /\ Lists(Positions(sqls), S)
             /\ \A i \in DOMAIN sqls : sqls[i].ext = NoClause /\ ~sqls[i].unfinished
  BY DEF n
<1>0. sqls = [k \in DOMAIN at |-> Statement(d, text, at[k])]
  BY DEF StatementsOf
<1>1. at \in Seq(1..n) /\ Lists(at, S)
  <2>1. S \cap 1..n = S
    BY <1>n
  <2>2. QED
    BY <1>n, <2>1, InOrderLists
<1> HIDE DEF at, sqls
<1>2. at \in [1..Len(at) -> 1..n] /\ Len(at) \in Nat /\ DOMAIN at = 1..Len(at)
  BY <1>1, LenProperties
<1>3. DOMAIN text = 1..n
  BY <1>n
<1>4. ASSUME NEW k \in 1..Len(at)
      PROVE  /\ sqls[k] \in Stmts /\ sqls[k].at = at[k]
             /\ sqls[k].ext = NoClause /\ ~sqls[k].unfinished
  <2>1. at[k] \in DOMAIN text
    BY <1>2, <1>3
  <2>2. sqls[k] = Statement(d, text, at[k])
    BY <1>0, <1>2
  <2>3. QED
    BY <2>1, <2>2, StatementIs
<1>5. DOMAIN sqls = 1..Len(at) /\ sqls = [k \in 1..Len(at) |-> sqls[k]]
  BY <1>0, <1>2
<1>6. sqls \in Seq(Stmts)
  BY <1>2, <1>4, <1>5
<1>7. Positions(sqls) = at
  <2>1. Positions(sqls) = [k \in 1..Len(at) |-> at[k]]
    BY <1>4, <1>5 DEF Positions
  <2>2. QED
    BY <1>2, <2>1
<1>8. QED
  BY <1>1, <1>4, <1>5, <1>6, <1>7

\* What the parser of a dialect accepts from p on: standard statements up
\* to the token stop, and a SELECT there, which may wait for its clause.
SelectEnds(text, q, sqls, stop, st) ==
    /\ q.sqls = Append(sqls, st) /\ st.at = stop /\ st.ext = NoClause
    /\ \/ /\ ~st.unfinished /\ q.pos = 0
          /\ \A k \in stop + 1..Len(text) : text[k].k = "comment"
       \/ /\ st.unfinished /\ q.pos \in DOMAIN text
          /\ Follows(text, stop, q.pos)

\* The answer q of a parser that began at p and stopped at stop.
Accepts(text, p, q, stop, sqls) ==
    /\ \A i \in p..stop - 1 : text[i].k \in Standard \cup {"comment"}
    /\ Lists(Positions(sqls), {i \in p..stop - 1 : text[i].k \in Standard})
    /\ \A i \in DOMAIN sqls : sqls[i].ext = NoClause /\ ~sqls[i].unfinished
    /\ \/ stop = Len(text) + 1 /\ q.sqls = sqls /\ q.pos = 0
       \/ /\ stop \in DOMAIN text /\ text[stop].k \notin Standard \cup {"comment", "select"}
          /\ q.sqls = sqls /\ q.pos = stop
       \/ /\ stop \in DOMAIN text /\ text[stop].k = "select"
          /\ \E st \in Stmts : SelectEnds(text, q, sqls, stop, st)

\* ThirdPartyParse answers so.
LEMMA DialectAccepts ==
    ASSUME NEW d, NEW text \in Seq(Tokens), NEW p \in 1..Len(text) + 1,
           NEW q, q = ThirdPartyParse(d, text, p)
    PROVE  \E stop \in p..Len(text) + 1 : \E sqls \in Seq(Stmts) : Accepts(text, p, q, stop, sqls)
<1> DEFINE n == Len(text)
           stop == Min({i \in p..n + 1 : i = n + 1 \/ text[i].k \notin Standard \cup {"comment"}})
           S == {i \in p..stop - 1 : text[i].k \in Standard}
           at == InOrder(S, n)
           sqls == [k \in DOMAIN at |-> Statement(d, text, at[k])]
           next == LeadingComment(text, stop + 1)
<1>1. n \in Nat /\ DOMAIN text = 1..n /\ n = Len(text) /\ p \in 1..n + 1 /\ p \in Nat
  OBVIOUS
<1>4. q = IF stop > n THEN [sqls |-> sqls, pos |-> 0]
          ELSE IF text[stop].k # "select" THEN [sqls |-> sqls, pos |-> stop]
          ELSE IF next > n THEN [sqls |-> Append(sqls, Statement(d, text, stop)), pos |-> 0]
          ELSE [sqls |-> Append(sqls, Unfinished(stop)), pos |-> next]
  BY DEF ThirdPartyParse
<1> HIDE DEF n
<1>3. /\ stop \in p..n + 1 /\ \A i \in p..stop - 1 : text[i].k \in Standard \cup {"comment"}
      /\ stop <= n => text[stop].k \notin Standard \cup {"comment"}
  <2> HIDE DEF stop
  <2>1. StopsAt(text, n, p, stop)
    BY DEF stop, StopsAt
  <2>2. QED
    BY <1>1, <2>1, DialectStops
<1> HIDE DEF stop
<1>5. S \subseteq 1..n /\ stop \in Nat
  BY <1>1, <1>3
<1> HIDE DEF S
<1>6. /\ sqls \in Seq(Stmts) /\ Lists(Positions(sqls), S)
      /\ \A i \in DOMAIN sqls : sqls[i].ext = NoClause /\ ~sqls[i].unfinished
  <2>1. sqls = StatementsOf(d, text, InOrder(S, Len(text)))
    BY DEF StatementsOf, n
  <2>2. S \in SUBSET (1..Len(text))
    BY <1>1, <1>5
  <2> HIDE DEF at, sqls
  <2>3. QED
    BY <2>1, <2>2, StatementsAt, Zenon
<1> HIDE DEF at, sqls
<1> DEFINE Kept == /\ \A i \in p..stop - 1 : text[i].k \in Standard \cup {"comment"}
                   /\ Lists(Positions(sqls), {i \in p..stop - 1 : text[i].k \in Standard})
                   /\ \A i \in DOMAIN sqls : sqls[i].ext = NoClause /\ ~sqls[i].unfinished
<1>a. Kept
  BY <1>3, <1>6 DEF S
<1>b. stop \in p..Len(text) + 1 /\ sqls \in Seq(Stmts)
  BY <1>1, <1>3, <1>6
<1> HIDE DEF Kept
<1>7. CASE stop > n
  <2>1. stop = Len(text) + 1 /\ q.sqls = sqls /\ q.pos = 0
    BY <1>1, <1>3, <1>4, <1>7
  <2>2. QED
    BY <1>a, <1>b, <2>1, Zenon DEF Kept, Accepts, SelectEnds
<1>8. CASE stop <= n /\ text[stop].k # "select"
  <2>0. ~(stop > n) /\ stop \in DOMAIN text
    BY <1>1, <1>3, <1>5, <1>8
  <2>1. q.sqls = sqls /\ q.pos = stop
    BY <1>4, <1>8, <2>0
  <2>2. text[stop].k \notin Standard \cup {"comment", "select"}
    BY <1>3, <1>8
  <2>3. QED
    BY <1>a, <1>b, <2>0, <2>1, <2>2, Zenon DEF Kept, Accepts, SelectEnds
<1>9. CASE stop <= n /\ text[stop].k = "select"
  <2>1. stop \in DOMAIN text /\ stop + 1 \in 1..n + 1 /\ ~(stop > n)
    BY <1>1, <1>3, <1>5, <1>9
  <2>2. /\ next \in stop + 1..n + 1 /\ (next <= n => text[next].k # "comment")
        /\ \A k \in stop + 1..next - 1 : text[k].k = "comment"
    <3> HIDE DEF next
    <3>1. QED
      BY <1>1, <2>1, LeadingCommentIs DEF next
  <2> HIDE DEF next
  <2>3. next \in Nat
    BY <1>5, <2>2
  <2>4. CASE next > n
    <3> DEFINE st == Statement(d, text, stop)
    <3>1. \A k \in stop + 1..Len(text) : text[k].k = "comment"
      <4>1. next - 1 = n
        BY <1>1, <1>5, <2>2, <2>4
      <4>2. QED
        BY <1>1, <2>2, <4>1
    <3>2. q.sqls = Append(sqls, st) /\ q.pos = 0
      BY <1>4, <1>9, <2>1, <2>4
    <3>3. st \in Stmts /\ st.at = stop /\ st.ext = NoClause /\ ~st.unfinished
      BY <2>1, StatementIs
    <3> HIDE DEF st
    <3>4. QED
      BY <1>a, <1>b, <1>9, <2>1, <3>1, <3>2, <3>3, Zenon DEF Kept, Accepts, SelectEnds
  <2>5. CASE next <= n
    <3> DEFINE st == Unfinished(stop)
    <3>1. next \in DOMAIN text /\ Follows(text, stop, next) /\ ~(next > n)
      BY <1>1, <1>5, <2>2, <2>3, <2>5 DEF Follows
    <3>2. q.sqls = Append(sqls, st) /\ q.pos = next
      BY <1>4, <1>9, <2>1, <3>1
    <3>3. st \in Stmts /\ st.at = stop /\ st.ext = NoClause /\ st.unfinished
      BY <2>1, StatementIs
    <3> HIDE DEF st
    <3>4. q.pos \in DOMAIN text /\ Follows(text, stop, q.pos)
      BY <3>1, <3>2, Zenon
    <3>5. QED
      BY <1>a, <1>b, <1>9, <2>1, <3>2, <3>3, <3>4, Zenon DEF Kept, Accepts, SelectEnds
  <2>6. next > n \/ next <= n
    BY <1>1, <2>3
  <2>7. QED
    BY <2>4, <2>5, <2>6, Zenon
<1>10. stop > n \/ stop <= n
  BY <1>1, <1>5
<1>11. QED
  BY <1>7, <1>8, <1>9, <1>10, Zenon

\* Where the tokens before m are parsed, every statement begins at a token.
LEMMA ParsedAt ==
    ASSUME NEW text \in Seq(Tokens), NEW all \in Seq(Stmts), NEW m \in 1..Len(text) + 1, NEW b,
           ParsedTo(text, all, m, b), NEW i \in DOMAIN all
    PROVE  all[i].at \in Starts(text) /\ all[i].at < m /\ all[i].at \in 1..Len(text)
<1>1. Positions(all)[i] \in Range(Positions(all)) /\ Positions(all)[i] = all[i].at
  BY DEF Positions, Range
<1>2. all[i].at \in {j \in Starts(text) : j < m}
  BY <1>1 DEF ParsedTo, Lists
<1>3. QED
  BY <1>2 DEF Starts

\* A parser of a dialect goes on from m to e: standard statements and comments.
LEMMA StandardParsed ==
    ASSUME NEW text \in Seq(Tokens), NEW all \in Seq(Stmts), NEW n \in Nat, n = Len(text),
           NEW m \in 1..n + 1, NEW e \in m..n + 1, ParsedTo(text, all, m, 0),
           \A i \in m..e - 1 : text[i].k \in Standard \cup {"comment"},
           NEW sqls \in Seq(Stmts),
           Lists(Positions(sqls), {i \in m..e - 1 : text[i].k \in Standard}),
           \A i \in DOMAIN sqls : sqls[i].ext = NoClause
    PROVE  all \o sqls \in Seq(Stmts) /\ ParsedTo(text, all \o sqls, e, 0)
<1> DEFINE S == {i \in Starts(text) : i < m}
           T == {i \in m..e - 1 : text[i].k \in Standard}
           U == {i \in Starts(text) : i < e}
<1>1. m \in Nat /\ e \in Nat /\ DOMAIN text = 1..n /\ Len(all) \in Nat /\ Len(sqls) \in Nat
  OBVIOUS
<1>2. S \cup T = U
  <2>1. \A i \in T : i \in U
    BY <1>1 DEF Starts, Standard
  <2>2. ASSUME NEW i \in U, i \notin S PROVE i \in T
    <3>1. i \in m..e - 1 /\ text[i].k # "comment"
      BY <1>1, <2>2 DEF Starts
    <3>2. text[i].k \in Standard
      BY <3>1
    <3>3. QED
      BY <3>1, <3>2
  <2>3. \A i \in S : i \in U
    BY <1>1 DEF Starts
  <2>4. QED
    BY <2>1, <2>2, <2>3
<1>3. \A x \in S, y \in T : x < y
  BY <1>1 DEF Starts
<1>4. Lists(Positions(all), S) /\ Lists(Positions(sqls), T)
  BY DEF ParsedTo
<1> HIDE DEF S, T, U
<1>5. Lists(Positions(all \o sqls), U)
  <2>1. Positions(all \o sqls) = Positions(all) \o Positions(sqls)
    BY PositionsAre
  <2>2. Positions(all) \in Seq(Nat) /\ Positions(sqls) \in Seq(Nat)
    BY PositionsAre
  <2>3. Lists(Positions(all) \o Positions(sqls), S \cup T)
    BY <1>3, <1>4, <2>2, ListsConcat
  <2>4. QED
    BY <1>2, <2>1, <2>3, Zenon
<1>6. ASSUME NEW i \in 1..e - 1 PROVE ~Misplaced(text, i)
  <2>1. CASE i < m
    <3>1. i \in 1..m - 1 /\ i # 0
      BY <1>1, <2>1
    <3>2. QED
      BY <3>1 DEF ParsedTo
  <2>2. CASE ~(i < m)
    <3>1. text[i].k \in Standard \cup {"comment"}
      BY <1>1, <2>2
    <3>2. QED
      BY <3>1 DEF Misplaced, Standard
  <2>3. QED
    BY <2>1, <2>2
<1>7. ASSUME NEW i \in DOMAIN (all \o sqls) PROVE OwnClause(text, (all \o sqls)[i])
  <2>0. DOMAIN all = 1..Len(all) /\ DOMAIN sqls = 1..Len(sqls)
    OBVIOUS
  <2>1. i \in 1..Len(all) + Len(sqls)
       /\ (all \o sqls)[i] = IF i <= Len(all) THEN all[i] ELSE sqls[i - Len(all)]
    BY ConcatProperties
  <2>2. CASE i <= Len(all)
    <3>1. i \in DOMAIN all /\ (all \o sqls)[i] = all[i]
      BY <1>1, <2>0, <2>1, <2>2
    <3>2. all[i].at # 0
      BY <3>1, ParsedAt
    <3>3. OwnClause(text, all[i])
      BY <3>1, <3>2 DEF ParsedTo
    <3>4. QED
      BY <3>1, <3>3, Zenon
  <2>3. CASE ~(i <= Len(all))
    <3> DEFINE k == i - Len(all)
    <3>1. k \in DOMAIN sqls /\ (all \o sqls)[i] = sqls[k]
      BY <1>1, <2>0, <2>1, <2>3
    <3> HIDE DEF k
    <3>2. Positions(sqls)[k] \in Range(Positions(sqls)) /\ Positions(sqls)[k] = sqls[k].at
      BY <3>1 DEF Positions, Range
    <3>3. sqls[k].at \in T
      BY <1>4, <3>2 DEF Lists
    <3>4. text[sqls[k].at].k \in Standard /\ sqls[k].ext = NoClause
      BY <3>1, <3>3 DEF T
    <3>5. OwnClause(text, sqls[k])
      BY <3>4 DEF OwnClause, Standard
    <3>6. QED
      BY <3>1, <3>5, Zenon
  <2>4. QED
    BY <2>2, <2>3
<1>8. all \o sqls \in Seq(Stmts)
  BY ConcatProperties
<1> DEFINE c == all \o sqls
<1>9. Lists(Positions(c), {i \in Starts(text) : i < e})
  BY <1>5 DEF U
<1> HIDE DEF c
<1>10. ParsedTo(text, c, e, 0)
  BY <1>6, <1>7, <1>9, Zenon DEF ParsedTo, c
<1>11. QED
  BY <1>8, <1>10 DEF c

\* One statement more.
LEMMA AppendedOr ==
    ASSUME NEW S, NEW all \in Seq(S), NEW st \in S
    PROVE  /\ Append(all, st) \in Seq(S)
           /\ \A i \in DOMAIN Append(all, st) :
                Append(all, st)[i] = st \/ (i \in DOMAIN all /\ Append(all, st)[i] = all[i])
BY AppendProperties

\* A SELECT without its semicolon, and the comments behind it.
LEMMA SelectParsed ==
    ASSUME NEW text \in Seq(Tokens), NEW all \in Seq(Stmts),
           NEW m \in 1..Len(text), NEW e \in m + 1..Len(text) + 1, ParsedTo(text, all, m, 0),
           text[m].k = "select", \A i \in m + 1..e - 1 : text[i].k = "comment",
           NEW st \in Stmts, st.at = m
    PROVE  ParsedTo(text, Append(all, st), e, m)
<1> DEFINE S == {i \in Starts(text) : i < m}
           U == {i \in Starts(text) : i < e}
           c == Append(all, st)
           n == Len(text)
<1>1. m \in Nat /\ e \in Nat /\ DOMAIN text = 1..n /\ Len(all) \in Nat
  OBVIOUS
<1>2. S \cup {m} = U
  <2>1. m \in U
    BY <1>1 DEF Starts
  <2>2. ASSUME NEW i \in U, i \notin S PROVE i = m
    <3>1. i \in m..e - 1 /\ text[i].k # "comment"
      BY <1>1, <2>2 DEF Starts
    <3>2. QED
      BY <1>1, <3>1
  <2>3. \A i \in S : i \in U
    BY <1>1 DEF Starts
  <2>4. QED
    BY <2>1, <2>2, <2>3
<1>3. \A x \in S : x < m
  OBVIOUS
<1>4. Lists(Positions(all), S)
  BY DEF ParsedTo
<1> HIDE DEF S, U
<1>5. Lists(Positions(c), U)
  <2>1. Positions(c) = Append(Positions(all), m)
    BY PositionsAre
  <2>2. Positions(all) \in Seq(Nat)
    BY PositionsAre
  <2>3. Lists(Append(Positions(all), m), S \cup {m})
    BY <1>1, <1>3, <1>4, <2>2, ListsAppend
  <2>4. QED
    BY <1>2, <2>1, <2>3, Zenon
<1>6. ASSUME NEW i \in 1..e - 1, i # m PROVE ~Misplaced(text, i)
  <2>1. CASE i < m
    <3>1. i \in 1..m - 1 /\ i # 0
      BY <1>1, <2>1
    <3>2. QED
      BY <3>1 DEF ParsedTo
  <2>2. CASE ~(i < m)
    <3>1. text[i].k = "comment"
      BY <1>1, <1>6, <2>2
    <3>2. QED
      BY <3>1 DEF Misplaced
  <2>3. QED
    BY <2>1, <2>2
<1>7. \A i \in DOMAIN c : c[i] = st \/ (i \in DOMAIN all /\ c[i] = all[i])
  BY AppendedOr
<1>8. ASSUME NEW i \in DOMAIN c, c[i].at # m PROVE OwnClause(text, c[i])
  <2>1. i \in DOMAIN all /\ c[i] = all[i]
    BY <1>7, <1>8
  <2>2. all[i].at # 0
    BY <1>1, <2>1, ParsedAt
  <2>3. OwnClause(text, all[i])
    BY <2>1, <2>2 DEF ParsedTo
  <2>4. QED
    BY <2>1, <2>3, Zenon
<1>9. c \in Seq(Stmts)
  BY AppendProperties
<1> HIDE DEF c
<1>10. Lists(Positions(c), {i \in Starts(text) : i < e})
  BY <1>5 DEF U
<1>11. ParsedTo(text, c, e, m)
  BY <1>6, <1>8, <1>10, Zenon DEF ParsedTo
<1>12. QED
  BY <1>11 DEF c

-----------------------------------------------------------------------------
(* The parsers taking turns. *)

\* The last element.
LEMMA LastIs ==
    ASSUME NEW S, NEW q \in Seq(S), NEW x \in S
    PROVE  Last(Append(q, x)) = x /\ Append(q, x) # <<>>
BY AppendProperties DEF Last

\* A statement more after joined ones.
LEMMA AppendToConcat ==
    ASSUME NEW S, NEW a \in Seq(S), NEW b \in Seq(S), NEW x \in S
    PROVE  a \o Append(b, x) = Append(a \o b, x)
<1>1. Append(b, x) = b \o <<x>> /\ <<x>> \in Seq(S) /\ a \o b \in Seq(S)
  BY AppendIsConcat, ConcatProperties
<1>2. Append(a \o b, x) = (a \o b) \o <<x>>
  BY <1>1, AppendIsConcat
<1>3. QED
  BY <1>1, <1>2, ConcatAssociative

\* The statement that waits for a clause is complete when nothing follows.
LEMMA NothingFollows ==
    ASSUME NEW text \in Seq(Tokens), NEW all \in Seq(Stmts), NEW m \in 1..Len(text),
           ParsedTo(text, all, Len(text) + 1, m), text[m].k = "select",
           \A i \in m + 1..Len(text) : text[i].k = "comment",
           \A i \in DOMAIN all : all[i].at = m => all[i].ext = NoClause
    PROVE  ParsedTo(text, all, Len(text) + 1, 0)
<1>1. \A j \in DOMAIN text : ~Follows(text, m, j)
  BY DEF Follows
<1>2. ~Misplaced(text, m)
  BY <1>1 DEF Misplaced
<1>3. ASSUME NEW i \in DOMAIN all PROVE OwnClause(text, all[i])
  <2>1. CASE all[i].at = m
    BY <1>1, <2>1 DEF OwnClause
  <2>2. QED
    BY <2>1 DEF ParsedTo
<1>4. \A i \in 1..(Len(text) + 1) - 1 : ~Misplaced(text, i)
  BY <1>2 DEF ParsedTo
<1>5. QED
  BY <1>3, <1>4 DEF ParsedTo

\* No SELECT comes right before the token at which a dialect's parser stops.
LEMMA NoneOpen ==
    ASSUME NEW text \in Seq(Tokens), NEW p \in 1..Len(text) + 1, NEW stop \in p..Len(text),
           p = 1 \/ text[p - 1].k \in {"to", "show"},
           \A i \in p..stop - 1 : text[i].k \in Standard \cup {"comment"},
           NEW i \in DOMAIN text, Follows(text, i, stop)
    PROVE  text[i].k # "select"
<1>1. i \in 1..Len(text) /\ i < stop /\ \A k \in i + 1..stop - 1 : text[k].k = "comment"
  BY DEF Follows
<1>2. CASE i >= p
  BY <1>1, <1>2 DEF Standard
<1>3. CASE i < p - 1
  <2>1. p - 1 \in i + 1..stop - 1 /\ p # 1
    BY <1>1, <1>3
  <2>2. QED
    BY <1>1, <2>1
<1>4. CASE i = p - 1
  BY <1>1, <1>4
<1>5. QED
  BY <1>1, <1>2, <1>3, <1>4

\* What a turn of the parser of a dialect leaves.
TurnMade(text, all, q, c, open) ==
    /\ c \in Seq(Stmts)
    /\ \A i \in DOMAIN c : c[i].ext = NoClause \/ (i \in DOMAIN all /\ c[i] = all[i])
    /\ q.pos = 0 => ParsedTo(text, c, Len(text) + 1, 0)
    /\ q.pos # 0 => q.pos \in DOMAIN text
    /\ q.pos # 0 /\ open => Opened(text, c, q.pos)
    /\ q.pos # 0 /\ ~open => Stopped(text, c, q.pos)

\* So it is after every answer of a parser of a dialect.
LEMMA DialectTurn ==
    ASSUME NEW d, NEW text \in Seq(Tokens), NEW all \in Seq(Stmts), NEW p \in 1..Len(text) + 1,
           ParsedTo(text, all, p, 0), p = 1 \/ text[p - 1].k \in {"to", "show"},
           NEW q, q = ThirdPartyParse(d, text, p), NEW c, c = all \o q.sqls,
           NEW open, open = (q.sqls # <<>> /\ Last(q.sqls).unfinished)
    PROVE  TurnMade(text, all, q, c, open)
<1> USE DEF TurnMade
<1>1. PICK stop \in p..Len(text) + 1, sqls \in Seq(Stmts) : Accepts(text, p, q, stop, sqls)
  BY DialectAccepts
<1> DEFINE b == all \o sqls
<1>0. Len(text) \in Nat /\ DOMAIN text = 1..Len(text) /\ stop \in Nat /\ p \in Nat
  OBVIOUS
<1>2. b \in Seq(Stmts) /\ ParsedTo(text, b, stop, 0)
  BY <1>0, <1>1, StandardParsed DEF Accepts
<1>3. \A i \in DOMAIN b : b[i].ext = NoClause \/ (i \in DOMAIN all /\ b[i] = all[i])
  <2> TAKE i \in DOMAIN b
  <2>1. /\ DOMAIN all = 1..Len(all) /\ DOMAIN sqls = 1..Len(sqls) /\ Len(all) \in Nat /\ Len(sqls) \in Nat
        /\ i \in 1..Len(all) + Len(sqls)
        /\ b[i] = IF i <= Len(all) THEN all[i] ELSE sqls[i - Len(all)]
    BY ConcatProperties
  <2> HIDE DEF b
  <2>2. CASE i <= Len(all)
    BY <2>1, <2>2
  <2>3. CASE ~(i <= Len(all))
    <3>1. i - Len(all) \in DOMAIN sqls
      BY <2>1, <2>3
    <3>2. QED
      BY <1>1, <2>1, <2>3, <3>1 DEF Accepts
  <2>4. QED
    BY <2>2, <2>3
<1>4. CASE stop = Len(text) + 1 /\ q.sqls = sqls /\ q.pos = 0
  BY <1>2, <1>3, <1>4
<1>5. CASE /\ stop \in DOMAIN text /\ text[stop].k \notin Standard \cup {"comment", "select"}
           /\ q.sqls = sqls /\ q.pos = stop
  <2>1. ~open
    <3>1. CASE sqls # <<>>
      <4>1. Len(sqls) \in DOMAIN sqls
        BY <3>1
      <4>2. QED
        BY <1>1, <1>5, <4>1 DEF Last, Accepts
    <3>2. QED
      BY <1>5, <3>1
  <2>2. text[stop].k \in {"to", "show", "bad"}
    <3>1. text[stop] \in Tokens
      BY <1>5
    <3>2. text[stop].k \in TokenKinds
      BY <3>1, TokenIs
    <3>3. QED
      BY <1>5, <3>2 DEF TokenKinds, Standard
  <2>3. stop # 0 /\ stop \in p..Len(text)
    BY <1>0, <1>5
  <2>4. \A i \in DOMAIN text : Follows(text, i, stop) => text[i].k # "select"
    BY <1>1, <2>3, NoneOpen DEF Accepts
  <2>5. c = b
    BY <1>5
  <2> HIDE DEF b
  <2>6. Stopped(text, c, q.pos)
    BY <1>2, <1>5, <2>2, <2>4, <2>5 DEF Stopped
  <2>7. QED
    BY <1>2, <1>3, <1>5, <2>1, <2>3, <2>5, <2>6, Zenon
<1>6. CASE stop \in DOMAIN text /\ text[stop].k = "select"
  <2>1. PICK st \in Stmts : SelectEnds(text, q, sqls, stop, st)
    BY <1>1, <1>6 DEF Accepts
  <2>2. c = Append(b, st)
    BY <2>1, AppendToConcat DEF SelectEnds
  <2> HIDE DEF b
  <2>a. st.at = stop /\ st.ext = NoClause /\ q.sqls = Append(sqls, st)
    BY <2>1 DEF SelectEnds
  <2>3. Last(c) = st /\ c # <<>> /\ Last(q.sqls) = st /\ q.sqls # <<>>
    <3>1. Last(Append(b, st)) = st /\ Append(b, st) # <<>>
      BY <1>2, LastIs
    <3>2. Last(Append(sqls, st)) = st /\ Append(sqls, st) # <<>>
      BY LastIs
    <3>3. QED
      BY <2>2, <2>a, <3>1, <3>2, Zenon
  <2>4. open <=> st.unfinished
    BY <2>3, Zenon
  <2>5. stop \in 1..Len(text)
    BY <1>0, <1>6
  <2>6. CASE /\ ~st.unfinished /\ q.pos = 0
             /\ \A k \in stop + 1..Len(text) : text[k].k = "comment"
    <3>1. \A k \in stop + 1..(Len(text) + 1) - 1 : text[k].k = "comment"
      BY <1>0, <2>6
    <3>2. Len(text) + 1 \in stop + 1..Len(text) + 1
      BY <1>0, <2>5
    <3>3. /\ c \in Seq(Stmts) /\ ParsedTo(text, c, Len(text) + 1, stop)
          /\ \A i \in DOMAIN c : c[i] = st \/ (i \in DOMAIN b /\ c[i] = b[i])
      <4>1. ParsedTo(text, Append(b, st), Len(text) + 1, stop)
        BY <1>2, <1>6, <2>a, <2>5, <3>1, <3>2, SelectParsed
      <4>2. /\ Append(b, st) \in Seq(Stmts)
            /\ \A i \in DOMAIN Append(b, st) :
                 Append(b, st)[i] = st \/ (i \in DOMAIN b /\ Append(b, st)[i] = b[i])
        BY <1>2, AppendedOr
      <4>3. QED
        BY <2>2, <4>1, <4>2, Zenon
    <3>4. \A i \in DOMAIN c : c[i].at = stop => c[i].ext = NoClause
      <4> TAKE i \in DOMAIN c
      <4>1. CASE c[i] = st
        BY <2>a, <4>1
      <4>2. CASE i \in DOMAIN b /\ c[i] = b[i]
        <5>1. b[i].at < stop /\ b[i].at \in Nat
          BY <1>0, <1>2, <4>2, ParsedAt
        <5>2. QED
          BY <1>0, <4>2, <5>1
      <4>3. QED
        BY <3>3, <4>1, <4>2
    <3>5. ParsedTo(text, c, Len(text) + 1, 0)
      BY <1>6, <2>5, <2>6, <3>3, <3>4, NothingFollows
    <3>6. \A i \in DOMAIN c : c[i].ext = NoClause \/ (i \in DOMAIN all /\ c[i] = all[i])
      BY <1>3, <2>a, <3>3
    <3>7. QED
      BY <2>6, <3>3, <3>5, <3>6
  <2>7. CASE st.unfinished /\ q.pos \in DOMAIN text /\ Follows(text, stop, q.pos)
    <3>1. q.pos \in stop + 1..Len(text) + 1 /\ \A k \in stop + 1..q.pos - 1 : text[k].k = "comment"
      BY <1>0, <2>5, <2>7 DEF Follows
    <3>2. /\ c \in Seq(Stmts) /\ ParsedTo(text, c, q.pos, stop)
          /\ \A i \in DOMAIN c : c[i] = st \/ (i \in DOMAIN b /\ c[i] = b[i])
      <4>1. ParsedTo(text, Append(b, st), q.pos, stop)
        BY <1>2, <1>6, <2>a, <2>5, <3>1, SelectParsed
      <4>2. /\ Append(b, st) \in Seq(Stmts)
            /\ \A i \in DOMAIN Append(b, st) :
                 Append(b, st)[i] = st \/ (i \in DOMAIN b /\ Append(b, st)[i] = b[i])
        BY <1>2, AppendedOr
      <4>3. QED
        BY <2>2, <4>1, <4>2, Zenon
    <3>3. \A i \in DOMAIN c : c[i].ext = NoClause \/ (i \in DOMAIN all /\ c[i] = all[i])
      BY <1>3, <2>a, <3>2
    <3>4. Opened(text, c, q.pos)
      BY <1>6, <2>a, <2>3, <2>7, <3>2, Zenon DEF Opened
    <3>5. open /\ q.pos # 0
      BY <1>0, <2>4, <2>7
    <3>6. QED
      BY <2>7, <3>2, <3>3, <3>4, <3>5
  <2>8. QED
    BY <2>1, <2>6, <2>7 DEF SelectEnds
<1>7. QED
  BY <1>1, <1>4, <1>5, <1>6 DEF Accepts

\* One token follows another.
LEMMA FollowsOnce ==
    ASSUME NEW text \in Seq(Tokens), NEW i \in DOMAIN text, NEW j \in DOMAIN text, NEW k \in DOMAIN text,
           Follows(text, i, j), Follows(text, i, k)
    PROVE  j = k
<1>1. i \in Nat /\ j \in Nat /\ k \in Nat
  OBVIOUS
<1>2. ~(j < k)
  BY <1>1 DEF Follows
<1>3. ~(k < j)
  BY <1>1 DEF Follows
<1>4. QED
  BY <1>1, <1>2, <1>3

\* A statement's clause is replaced.
LEMMA WithClause ==
    ASSUME NEW st \in Stmts, NEW t \in Tokens, NEW w, w = [st EXCEPT !.ext = t]
    PROVE  w \in Stmts /\ w.at = st.at /\ w.ext = t
BY DEF Stmts

\* The statements c are those of all, and one has the clause at p.
ClauseTaken(text, all, p, c) ==
    /\ c \in Seq(Stmts) /\ ParsedTo(text, c, p + 1, 0)
    /\ \A i \in DOMAIN c : c[i].ext = text[p] \/ (i \in DOMAIN all /\ c[i] = all[i])

\* The clause of the SELECT that waits for one.
LEMMA ClauseCloses ==
    ASSUME NEW text \in Seq(Tokens), NEW all \in Seq(Stmts), NEW p \in DOMAIN text,
           Opened(text, all, p), text[p].k = "to", NEW c, c = [all EXCEPT ![Len(all)].ext = text[p]]
    PROVE  ClauseTaken(text, all, p, c)
<1> DEFINE l == Len(all)
           t == text[p]
           w == [all[l] EXCEPT !.ext = t]
           b == all[l].at
<1>1. /\ DOMAIN all = 1..l /\ l \in DOMAIN all /\ l \in Nat /\ Last(all) = all[l]
      /\ t \in Tokens /\ p \in 1..Len(text) /\ p \in Nat
  BY DEF Opened, Last
<1>2. /\ text[b].k = "select" /\ Follows(text, b, p) /\ ParsedTo(text, all, p, b)
  BY <1>1 DEF Opened
<1>3. w \in Stmts /\ w.at = b /\ w.ext = t
  <2>1. all[l] \in Stmts
    BY <1>1
  <2> HIDE DEF w, t
  <2>2. QED
    BY <1>1, <2>1, WithClause DEF w
<1>4. c = [all EXCEPT ![l] = w]
  BY <1>1
<1> HIDE DEF w, l
<1>5. /\ c \in Seq(Stmts) /\ DOMAIN c = DOMAIN all /\ c[l] = w /\ \A i \in DOMAIN all \ {l} : c[i] = all[i]
  BY <1>1, <1>3, <1>4
<1>6. \A i \in DOMAIN c : c[i].at = all[i].at
  BY <1>3, <1>5
<1>7. Positions(c) = Positions(all)
  BY <1>5, <1>6 DEF Positions
<1>8. b \in DOMAIN text
  BY <1>1, <1>2, ParsedAt
<1>9. {i \in Starts(text) : i < p} = {i \in Starts(text) : i < p + 1}
  <2>1. p \notin Starts(text)
    BY DEF Starts
  <2>2. \A i \in Starts(text) : i \in Nat
    BY DEF Starts
  <2>3. \A i \in Starts(text) : i < p <=> i < p + 1
    BY <1>1, <2>1, <2>2
  <2>4. QED
    BY <2>3
<1>10. Lists(Positions(c), {i \in Starts(text) : i < p + 1})
  BY <1>2, <1>7, <1>9 DEF ParsedTo
<1>11. \A j \in DOMAIN text : Follows(text, b, j) => j = p
  BY <1>2, <1>8, FollowsOnce
<1>12. ASSUME NEW i \in 1..(p + 1) - 1 PROVE ~Misplaced(text, i)
  <2>1. CASE i = b
    BY <1>2, <1>11, <2>1 DEF Misplaced
  <2>2. CASE i = p
    BY <1>2, <1>8, <2>2 DEF Misplaced
  <2>3. CASE i # b /\ i # p
    <3>1. i \in 1..p - 1
      BY <1>1, <2>3
    <3>2. QED
      BY <1>2, <2>3, <3>1 DEF ParsedTo
  <2>4. QED
    BY <2>1, <2>2, <2>3
<1>13. ASSUME NEW i \in DOMAIN c PROVE OwnClause(text, c[i])
  <2>1. CASE i = l
    <3>1. c[i] = w /\ w.at = b /\ w.ext = text[p]
      BY <1>3, <1>5, <2>1
    <3>2. OwnClause(text, w)
      BY <1>2, <1>3 DEF OwnClause
    <3>3. QED
      BY <3>1, <3>2, Zenon
  <2>2. CASE i # l
    <3>1. c[i] = all[i] /\ i \in DOMAIN all
      BY <1>5, <2>2
    <3>2. all[i].at # b
      <4> DEFINE q == Positions(all)
      <4>1. q[i] = all[i].at /\ q[l] = b /\ DOMAIN q = DOMAIN all
        BY <1>1, <3>1 DEF Positions
      <4>2. i < l
        BY <1>1, <2>2, <3>1
      <4>3. \A u, v \in DOMAIN q : u < v => q[u] < q[v]
        BY <1>2 DEF ParsedTo, Lists
      <4> HIDE DEF q, b
      <4>4. q[i] < q[l]
        BY <1>1, <3>1, <4>1, <4>2, <4>3
      <4>5. q[i] \in Nat /\ q[l] \in Nat
        <5>1. all[i] \in Stmts /\ b \in Nat
          BY <1>8, <3>1
        <5>2. all[i].at \in Nat
          BY <5>1 DEF Stmts
        <5>3. QED
          BY <4>1, <5>1, <5>2
      <4>6. QED
        BY <4>1, <4>4, <4>5
    <3>3. OwnClause(text, all[i])
      BY <1>2, <3>1, <3>2 DEF ParsedTo
    <3>4. QED
      BY <3>1, <3>3, Zenon
  <2>3. QED
    BY <2>1, <2>2
<1>14. ParsedTo(text, c, p + 1, 0)
  BY <1>10, <1>12, <1>13 DEF ParsedTo
<1>15. \A i \in DOMAIN c : c[i].ext = text[p] \/ (i \in DOMAIN all /\ c[i] = all[i])
  BY <1>3, <1>5
<1>16. QED
  BY <1>5, <1>14, <1>15 DEF ClauseTaken

\* SHOW TRAIN is a statement of its own.
LEMMA ClauseAlone ==
    ASSUME NEW text \in Seq(Tokens), NEW all \in Seq(Stmts), NEW p \in DOMAIN text,
           Stopped(text, all, p), text[p].k = "show",
           NEW c, c = Append(all, [Unfinished(p) EXCEPT !.ext = text[p], !.unfinished = FALSE])
    PROVE  ClauseTaken(text, all, p, c)
<1> DEFINE t == text[p]
           st == [Unfinished(p) EXCEPT !.ext = t, !.unfinished = FALSE]
           S == {i \in Starts(text) : i < p}
           U == {i \in Starts(text) : i < p + 1}
<1>1. /\ t \in Tokens /\ p \in 1..Len(text) /\ p \in Nat
      /\ <<>> \in Seq(Nat) /\ <<>> \in Seq(Tables)
  OBVIOUS
<1>2. st \in Stmts /\ st.at = p /\ st.ext = t
  <2> HIDE DEF t
  <2>1. QED
    BY <1>1 DEF Unfinished, Stmts
<1>3. c = Append(all, st)
  OBVIOUS
<1> HIDE DEF st
<1>4. c \in Seq(Stmts) /\ \A i \in DOMAIN c : c[i] = st \/ (i \in DOMAIN all /\ c[i] = all[i])
  BY <1>2, <1>3, AppendedOr
<1>5. ParsedTo(text, all, p, 0)
  BY DEF Stopped
<1>6. S \cup {p} = U
  <2>1. p \in U
    BY <1>1 DEF Starts
  <2>2. \A i \in Starts(text) : i \in Nat
    BY DEF Starts
  <2>3. \A i \in Starts(text) : i < p + 1 <=> i < p \/ i = p
    BY <1>1, <2>2
  <2>4. QED
    BY <2>1, <2>3
<1>7. Lists(Positions(all), S) /\ \A x \in S : x < p
  BY <1>5 DEF ParsedTo
<1> HIDE DEF S, U
<1>8. Lists(Positions(c), U)
  <2>1. Positions(c) = Append(Positions(all), p)
    BY <1>2, <1>3, PositionsAre
  <2>2. Positions(all) \in Seq(Nat)
    BY PositionsAre
  <2>3. Lists(Append(Positions(all), p), S \cup {p})
    BY <1>1, <1>7, <2>2, ListsAppend
  <2>4. QED
    BY <1>6, <2>1, <2>3, Zenon
<1>9. ASSUME NEW i \in 1..(p + 1) - 1 PROVE ~Misplaced(text, i)
  <2>1. CASE i = p
    BY <2>1 DEF Misplaced
  <2>2. CASE i # p
    <3>1. i \in 1..p - 1 /\ i # 0
      BY <1>1, <2>2
    <3>2. QED
      BY <1>5, <3>1 DEF ParsedTo
  <2>3. QED
    BY <2>1, <2>2
<1>10. ASSUME NEW i \in DOMAIN c PROVE OwnClause(text, c[i])
  <2>1. CASE c[i] = st
    <3>1. OwnClause(text, st)
      BY <1>2 DEF OwnClause
    <3>2. QED
      BY <2>1, <3>1, Zenon
  <2>2. CASE i \in DOMAIN all /\ c[i] = all[i]
    <3>1. all[i].at # 0
      BY <1>1, <1>5, <2>2, ParsedAt
    <3>2. OwnClause(text, all[i])
      BY <1>5, <2>2, <3>1 DEF ParsedTo
    <3>3. QED
      BY <2>2, <3>2, Zenon
  <2>3. QED
    BY <1>4, <2>1, <2>2
<1>11. Lists(Positions(c), {i \in Starts(text) : i < p + 1})
  BY <1>8 DEF U
<1>12. ParsedTo(text, c, p + 1, 0)
  BY <1>9, <1>10, <1>11 DEF ParsedTo
<1>13. \A i \in DOMAIN c : c[i].ext = text[p] \/ (i \in DOMAIN all /\ c[i] = all[i])
  BY <1>2, <1>4
<1>14. QED
  BY <1>4, <1>12, <1>13 DEF ClauseTaken

\* A clause that fits nowhere, or no clause: the text is not well formed.
LEMMA ClauseMisfit ==
    ASSUME NEW text \in Seq(Tokens), NEW all \in Seq(Stmts), NEW p \in DOMAIN text,
           NEW open \in BOOLEAN, ~Fits(open, text[p]),
           open => Opened(text, all, p), ~open => Stopped(text, all, p)
    PROVE  ~WellFormed(text)
<1>1. CASE open
  <2> DEFINE b == Last(all).at
  <2>1. text[b].k = "select" /\ Follows(text, b, p) /\ ParsedTo(text, all, p, b) /\ all # <<>>
    BY <1>1 DEF Opened
  <2>2. Len(all) \in DOMAIN all /\ Last(all) = all[Len(all)] /\ p \in 1..Len(text) + 1
    BY <2>1 DEF Last
  <2>3. b \in DOMAIN text
    BY <2>1, <2>2, ParsedAt
  <2>4. text[p].k # "to"
    BY <1>1 DEF Fits
  <2> HIDE DEF b
  <2>5. Misplaced(text, b)
    BY <2>1, <2>4 DEF Misplaced
  <2>6. QED
    BY <2>3, <2>5 DEF WellFormed
<1>2. CASE ~open
  <2>1. text[p].k \in {"to", "bad"}
    BY <1>2 DEF Stopped, Fits
  <2>2. Misplaced(text, p)
    BY <1>2, <2>1 DEF Stopped, Misplaced
  <2>3. QED
    BY <2>2 DEF WellFormed
<1>3. QED
  BY <1>1, <1>2

-----------------------------------------------------------------------------
(* Hints. *)

\* The elements of a sequence at some of its positions.
Picks(seq, at, out) == DOMAIN out = DOMAIN at /\ \A k \in DOMAIN at : out[k] = seq[at[k]]

\* Select picks them in order.
LEMMA SelectIs ==
    ASSUME NEW X, NEW seq \in Seq(X), NEW S \in SUBSET DOMAIN seq
    PROVE  /\ Select(seq, S) \in Seq(X)
           /\ \E at \in Seq(DOMAIN seq) : Lists(at, S) /\ Picks(seq, at, Select(seq, S))
<1> DEFINE n == Len(seq)
           at == InOrder(S, n)
           out == Select(seq, S)
<1>1. n \in Nat /\ DOMAIN seq = 1..n
  OBVIOUS
<1>2. at \in Seq(DOMAIN seq) /\ Lists(at, S)
  <2>1. S \cap 1..n = S
    BY <1>1
  <2> HIDE DEF n
  <2>2. QED
    BY <1>1, <2>1, InOrderLists
<1>3. out = [k \in DOMAIN at |-> seq[at[k]]]
  BY DEF Select
<1> HIDE DEF at, n, out
<1>4. Picks(seq, at, out)
  BY <1>3 DEF Picks
<1>5. Len(at) \in Nat /\ DOMAIN at = 1..Len(at) /\ \A k \in DOMAIN at : at[k] \in DOMAIN seq
  BY <1>2, LenProperties
<1>6. \A k \in DOMAIN at : seq[at[k]] \in X
  BY <1>1, <1>5, ElementOfSeq DEF n
<1>7. out \in Seq(X)
  BY <1>3, <1>5, <1>6
<1>8. QED
  BY <1>2, <1>4, <1>7 DEF out

\* A part of a list in order is in order.
LEMMA ListsThrough ==
    ASSUME NEW P, NEW q \in Seq(Nat), Lists(q, P), NEW S, NEW at \in Seq(DOMAIN q), Lists(at, S),
           NEW r, Picks(q, at, r)
    PROVE  Lists(r, {q[i] : i \in S})
<1>1. \A k \in DOMAIN at : at[k] \in DOMAIN q /\ at[k] \in Nat /\ at[k] \in S
  <2>1. \A k \in DOMAIN at : at[k] \in Range(at)
    BY DEF Range
  <2>2. DOMAIN q \subseteq Nat
    OBVIOUS
  <2>3. QED
    BY <2>1, <2>2 DEF Lists
<1>2. Range(r) = {q[i] : i \in S}
  <2>1. \A x \in Range(r) : x \in {q[i] : i \in S}
    BY <1>1 DEF Range, Picks
  <2>2. ASSUME NEW i \in S PROVE q[i] \in Range(r)
    <3>1. i \in Range(at)
      BY DEF Lists
    <3>2. PICK k \in DOMAIN at : at[k] = i
      BY <3>1 DEF Range
    <3>3. k \in DOMAIN r /\ r[k] = q[i]
      BY <3>2 DEF Picks
    <3>4. QED
      BY <3>3 DEF Range
  <2>3. QED
    BY <2>1, <2>2
<1>3. ASSUME NEW i \in DOMAIN r, NEW j \in DOMAIN r, i < j PROVE r[i] < r[j]
  <2>1. i \in DOMAIN at /\ j \in DOMAIN at /\ r[i] = q[at[i]] /\ r[j] = q[at[j]]
    BY DEF Picks
  <2>2. at[i] < at[j]
    BY <1>3, <2>1 DEF Lists
  <2>3. QED
    BY <1>1, <2>1, <2>2 DEF Lists
<1>4. QED
  BY <1>2, <1>3 DEF Lists

\* The hints of a program, once it is parsed.
LEMMA HintsAt ==
    ASSUME NEW d, NEW text \in Seq(Tokens), NEW all \in Seq(Stmts),
           ParsedTo(text, all, Len(text) + 1, 0), NEW i \in DOMAIN all
    PROVE  IsHint(d, text, all[i]) <=> all[i].at \in Hints(d, text)
<1>1. all[i].at \in Starts(text) /\ all[i].at # 0
  BY ParsedAt
<1>2. OwnClause(text, all[i])
  BY <1>1 DEF ParsedTo
<1>3. text[all[i].at].k = "set" => all[i].ext = NoClause
  BY <1>2 DEF OwnClause
<1>4. QED
  BY <1>1, <1>3 DEF IsHint, Hints

\* The statements that are selected from a parsed program.
LEMMA SelectedAt ==
    ASSUME NEW text \in Seq(Tokens), NEW all \in Seq(Stmts), ParsedTo(text, all, Len(text) + 1, 0),
           NEW T \in SUBSET Starts(text), NEW S \in SUBSET DOMAIN all,
           \A i \in DOMAIN all : i \in S <=> all[i].at \in T
    PROVE  /\ Select(all, S) \in Seq(Stmts)
           /\ Lists(Positions(Select(all, S)), T)
           /\ \A k \in DOMAIN Select(all, S) : \E i \in DOMAIN all : Select(all, S)[k] = all[i]
<1> DEFINE c == Select(all, S)
           q == Positions(all)
<1>1. c \in Seq(Stmts)
  BY SelectIs
<1>2. PICK at \in Seq(DOMAIN all) : Lists(at, S) /\ Picks(all, at, c)
  BY SelectIs
<1>3. \A k \in DOMAIN at : at[k] \in DOMAIN all
  OBVIOUS
<1> HIDE DEF c
<1>4. q \in Seq(Nat) /\ DOMAIN q = DOMAIN all /\ \A i \in DOMAIN all : q[i] = all[i].at
  BY PositionsAre DEF Positions
<1>5. Lists(q, {i \in Starts(text) : i < Len(text) + 1})
  BY DEF ParsedTo
<1>6. {i \in Starts(text) : i < Len(text) + 1} = Starts(text)
  BY DEF Starts
<1> HIDE DEF q
<1>7. Picks(q, at, Positions(c))
  <2>1. DOMAIN Positions(c) = DOMAIN at
    BY <1>2 DEF Positions, Picks
  <2>2. \A k \in DOMAIN at : Positions(c)[k] = c[k].at /\ c[k] = all[at[k]]
    BY <1>2 DEF Positions, Picks
  <2>3. \A k \in DOMAIN at : Positions(c)[k] = q[at[k]]
    BY <1>3, <1>4, <2>2
  <2>4. QED
    BY <2>1, <2>3 DEF Picks
<1>8. Lists(Positions(c), {q[i] : i \in S})
  <2>1. at \in Seq(DOMAIN q)
    BY <1>4
  <2>2. QED
    BY <1>2, <1>4, <1>5, <1>7, <2>1, ListsThrough
<1>9. {q[i] : i \in S} = T
  <2>1. \A i \in S : q[i] \in T
    BY <1>4
  <2>2. ASSUME NEW t \in T PROVE \E i \in S : q[i] = t
    <3>1. t \in Range(q)
      BY <1>5, <1>6 DEF Lists
    <3>2. PICK i \in DOMAIN q : q[i] = t
      BY <3>1 DEF Range
    <3>3. QED
      BY <1>4, <3>2
  <2>3. QED
    BY <2>1, <2>2
<1>10. \A k \in DOMAIN c : \E i \in DOMAIN all : c[k] = all[i]
  BY <1>2, <1>3 DEF Picks
<1>11. QED
  BY <1>1, <1>8, <1>9, <1>10 DEF c

\* Hints are moved in front of the statements of standard SQL.
Hinted(d, text, all, c) ==
    /\ c \in Seq(Stmts) /\ Lists(Positions(c), Starts(text) \ Hints(d, text))
    /\ \A i \in DOMAIN c : c[i].ext = NoClause => Lists(c[i].hints, Hints(d, text))
    /\ \A i \in DOMAIN c : \E j \in DOMAIN all : c[i].ext = all[j].ext

\* RewriteStatementsWithHints does that.
LEMMA HintsMoved ==
    ASSUME NEW d, NEW text \in Seq(Tokens), NEW all \in Seq(Stmts),
           ParsedTo(text, all, Len(text) + 1, 0),
           NEW c, c = RewriteStatementsWithHints(d, text, all)
    PROVE  Hinted(d, text, all, c)
<1> DEFINE S == {i \in DOMAIN all : IsHint(d, text, all[i])}
           hints == Select(all, S)
           sqls == Select(all, DOMAIN all \ S)
           h == [k \in DOMAIN hints |-> hints[k].at]
<1>1. c = [i \in DOMAIN sqls |-> IF sqls[i].ext = NoClause THEN [sqls[i] EXCEPT !.hints = h] ELSE sqls[i]]
  BY DEF RewriteStatementsWithHints
<1>2. /\ \A i \in DOMAIN all : i \in S <=> all[i].at \in Hints(d, text)
      /\ S \in SUBSET DOMAIN all /\ DOMAIN all \ S \in SUBSET DOMAIN all
  BY HintsAt
<1> HIDE DEF S
<1>3. Hints(d, text) \in SUBSET Starts(text)
  BY DEF Hints
<1>4. /\ hints \in Seq(Stmts) /\ Lists(Positions(hints), Hints(d, text))
  BY <1>2, <1>3, SelectedAt
<1>5. \A i \in DOMAIN all : i \in DOMAIN all \ S <=> all[i].at \in Starts(text) \ Hints(d, text)
  <2> TAKE i \in DOMAIN all
  <2>1. all[i].at \in Starts(text)
    BY ParsedAt
  <2>2. QED
    BY <1>2, <2>1
<1>6. Starts(text) \ Hints(d, text) \in SUBSET Starts(text)
  OBVIOUS
<1>7. /\ sqls \in Seq(Stmts) /\ Lists(Positions(sqls), Starts(text) \ Hints(d, text))
      /\ \A k \in DOMAIN sqls : \E i \in DOMAIN all : sqls[k] = all[i]
  <2> DEFINE R == DOMAIN all \ S
             T == Starts(text) \ Hints(d, text)
  <2>1. R \in SUBSET DOMAIN all /\ T \in SUBSET Starts(text) /\ \A i \in DOMAIN all : i \in R <=> all[i].at \in T
    BY <1>5
  <2>2. sqls = Select(all, R)
    OBVIOUS
  <2> HIDE DEF R, T, sqls
  <2>3. /\ Select(all, R) \in Seq(Stmts) /\ Lists(Positions(Select(all, R)), T)
        /\ \A k \in DOMAIN Select(all, R) : \E i \in DOMAIN all : Select(all, R)[k] = all[i]
    BY <2>1, SelectedAt
  <2>4. QED
    BY <2>2, <2>3, Zenon DEF T
<1> HIDE DEF hints, sqls
<1>8. h = Positions(hints) /\ h \in Seq(Nat)
  BY <1>4, PositionsAre DEF Positions
<1> HIDE DEF h
<1>9. /\ Len(sqls) \in Nat /\ DOMAIN sqls = 1..Len(sqls) /\ DOMAIN c = DOMAIN sqls
      /\ \A i \in DOMAIN sqls : sqls[i] \in Stmts
  BY <1>1, <1>7
<1>10. ASSUME NEW i \in DOMAIN sqls
       PROVE  /\ c[i] \in Stmts /\ c[i].at = sqls[i].at /\ c[i].ext = sqls[i].ext
              /\ c[i].ext = NoClause => c[i].hints = h
  <2>1. CASE sqls[i].ext = NoClause
    <3>1. c[i] = [sqls[i] EXCEPT !.hints = h] /\ sqls[i] \in Stmts
      BY <1>1, <1>9, <2>1
    <3>2. QED
      BY <1>8, <3>1 DEF Stmts
  <2>2. CASE sqls[i].ext # NoClause
    <3>1. c[i] = sqls[i] /\ sqls[i] \in Stmts
      BY <1>1, <1>9, <2>2
    <3>2. QED
      BY <2>2, <3>1
  <2>3. QED
    BY <2>1, <2>2
<1>11. c \in Seq(Stmts)
  <2>1. c = [i \in 1..Len(sqls) |-> c[i]]
    BY <1>1, <1>9
  <2>2. QED
    BY <1>9, <1>10, <2>1
<1>12. Positions(c) = Positions(sqls)
  BY <1>9, <1>10 DEF Positions
<1>13. \A i \in DOMAIN c : c[i].ext = NoClause => Lists(c[i].hints, Hints(d, text))
  BY <1>4, <1>8, <1>9, <1>10
<1>14. \A i \in DOMAIN c : \E j \in DOMAIN all : c[i].ext = all[j].ext
  <2> TAKE i \in DOMAIN c
  <2>1. PICK j \in DOMAIN all : sqls[i] = all[j]
    BY <1>7, <1>9
  <2>2. QED
    BY <1>9, <1>10, <2>1
<1>15. QED
  BY <1>7, <1>11, <1>12, <1>13, <1>14, Zenon DEF Hinted

-----------------------------------------------------------------------------
(* One session by itself. *)

\* What a session keeps.
Fields == {"pc", "text", "clean", "pos", "open", "all", "tries", "steps", "ran", "graph", "nodes", "why"}

\* Where it can be.
Pcs == Final \cup Parsing \cup Compiling \cup Reading \cup {"extended", "parsed", "analyze"}

\* What a step has found when it ran.
Ran == [image : Images \cup {"default", "absent", "none"}, by : Trainings]

\* TypeOK of one session.
Typed(r) ==
    /\ DOMAIN r = Fields /\ r.pc \in Pcs
    /\ r.text \in Seq(Tokens) /\ r.pos \in 1..Len(r.text) + 1
    /\ r.open \in BOOLEAN /\ r.tries \in 0..3
    /\ r.all \in Seq(Stmts) /\ r.steps \in Seq(Steps) /\ r.ran \in Seq(Ran)
    /\ Len(r.ran) <= Len(r.steps)

\* A syntax error has a cause.
Refused(r) == r.why = "syntax" => r.pc = "error" /\ ~WellFormed(r.text)

\* Turns of one session.
Handed(r) ==
    /\ r.pc \in Reading => r.all = <<>> /\ r.pos = 1
    /\ r.pc \in Parsing =>
         ParsedTo(r.text, r.all, r.pos, 0) /\ (r.pos = 1 \/ r.text[r.pos - 1].k \in {"to", "show"})
    /\ r.pc = "extended" =>
         IF r.open THEN Opened(r.text, r.all, r.pos) ELSE Stopped(r.text, r.all, r.pos)
    /\ r.pc \in {"parsed", "analyze", "analyzed"} => ParsedTo(r.text, r.all, Len(r.text) + 1, 0)

\* Stepwise of one session.
Follow(in, r) ==
    /\ \A i \in DOMAIN r.all : r.all[i].ext \in Range(r.text) \cup {NoClause}
    /\ r.pc \in Compiling =>
         /\ Lists(Positions(r.all), Starts(r.text) \ Hints(in.dialect, r.text))
         /\ \A i \in DOMAIN r.all : r.all[i].ext = NoClause => Lists(r.all[i].hints, Hints(in.dialect, r.text))
         /\ Len(r.steps) <= Len(r.all)
         /\ \A i \in DOMAIN r.steps : r.steps[i].stmt = r.all[i]
    /\ r.pc \in Executing \cup {"python"} /\ r.why # "write" => Len(r.steps) = Len(r.all)
    /\ r.pc = "filler" => in.mode # "experimental"
    /\ r.pc \notin Compiling \cup {"error"} => r.steps = <<>>
    /\ r.pc \notin Executing => r.ran = <<>>

\* All that a session must satisfy by itself.
Local(in, r) == Typed(r) /\ Refused(r) /\ Handed(r) /\ Follow(in, r)

\* The record u has these fields.
Has(u, pc, text, pos, open, all, tries, steps, ran, why) ==
    /\ DOMAIN u = Fields /\ u.pc = pc /\ u.text = text /\ u.pos = pos /\ u.open = open /\ u.all = all
    /\ u.tries = tries /\ u.steps = steps /\ u.ran = ran /\ u.why = why

\* Assignments to the fields of a session.
LEMMA Places1 ==
    ASSUME NEW r, DOMAIN r = Fields, NEW a, NEW b
    PROVE  /\ Has([r EXCEPT !.pc = a], a, r.text, r.pos, r.open, r.all, r.tries, r.steps, r.ran, r.why)
           /\ Has([r EXCEPT !.pc = a, !.why = b], a, r.text, r.pos, r.open, r.all, r.tries, r.steps, r.ran, b)
           /\ Has([r EXCEPT !.pc = a, !.clean = b], a, r.text, r.pos, r.open, r.all, r.tries, r.steps, r.ran, r.why)
           /\ Has([r EXCEPT !.pc = a, !.text = b], a, b, r.pos, r.open, r.all, r.tries, r.steps, r.ran, r.why)
           /\ Has([r EXCEPT !.pc = a, !.tries = b], a, r.text, r.pos, r.open, r.all, b, r.steps, r.ran, r.why)
           /\ Has([r EXCEPT !.tries = b], r.pc, r.text, r.pos, r.open, r.all, b, r.steps, r.ran, r.why)
           /\ Has([r EXCEPT !.pc = a, !.graph = b], a, r.text, r.pos, r.open, r.all, r.tries, r.steps, r.ran, r.why)
           /\ Has([r EXCEPT !.graph = a, !.nodes = b], r.pc, r.text, r.pos, r.open, r.all, r.tries, r.steps, r.ran, r.why)
           /\ Has([r EXCEPT !.pc = a, !.all = b], a, r.text, r.pos, r.open, b, r.tries, r.steps, r.ran, r.why)
           /\ Has([r EXCEPT !.pc = a, !.steps = b], a, r.text, r.pos, r.open, r.all, r.tries, b, r.ran, r.why)
           /\ Has([r EXCEPT !.steps = b], r.pc, r.text, r.pos, r.open, r.all, r.tries, b, r.ran, r.why)
           /\ Has([r EXCEPT !.ran = b], r.pc, r.text, r.pos, r.open, r.all, r.tries, r.steps, b, r.why)
<1>1. \A f \in Fields : f \in DOMAIN r
  OBVIOUS
<1>2. QED
  BY DEF Has, Fields

\* A session that ends with an error.
LEMMA LocalError ==
    ASSUME NEW in, NEW r, Local(in, r), r.pc \notin Executing, NEW why, NEW u,
           Has(u, "error", r.text, r.pos, r.open, r.all, r.tries, r.steps, r.ran, why),
           why = "syntax" => ~WellFormed(r.text)
    PROVE  Local(in, u)
<1>1. Typed(u)
  BY DEF Local, Typed, Has, Pcs, Final
<1>2. "error" \notin Reading \cup Parsing \cup {"extended", "parsed", "analyze", "analyzed"} \cup Compiling
  BY DEF Reading, Parsing, Connecting, Compiling, Executing
<1>3. "error" \notin Executing \cup {"python"}
  BY DEF Executing
<1>4. Handed(u)
  BY <1>2 DEF Handed, Has
<1>5. Follow(in, u)
  BY <1>2, <1>3 DEF Follow, Has, Local
<1>6. Refused(u)
  BY DEF Refused, Has
<1>7. QED
  BY <1>1, <1>4, <1>5, <1>6 DEF Local

\* From a to pc nothing is gained that a session at pc must have.
Passes(a, pc) ==
    /\ pc \in Pcs /\ a # "error" /\ pc # "error" /\ pc # "extended"
    /\ pc \in Reading => a \in Reading
    /\ pc \in Parsing => a \in Parsing
    /\ pc \in {"parsed", "analyze", "analyzed"} => a \in {"parsed", "analyze", "analyzed"}
    /\ pc \in Compiling <=> a \in Compiling
    /\ pc \notin Executing => a \notin Executing

\* A session that goes on with what it has.
LEMMA LocalMoves ==
    ASSUME NEW in, NEW r, Local(in, r), NEW pc, Passes(r.pc, pc), NEW tries \in 0..3, NEW u,
           Has(u, pc, r.text, r.pos, r.open, r.all, tries, r.steps, r.ran, r.why),
           pc \in Executing \cup {"python"} => r.pc \in Executing \cup {"python"} \/ Len(r.steps) = Len(r.all),
           pc = "filler" => in.mode # "experimental"
    PROVE  Local(in, u)
<1>0. u.pc \in Pcs
  BY DEF Passes, Has
<1>1. Typed(u)
  BY <1>0 DEF Local, Typed, Has
<1>2. Handed(u)
  BY DEF Handed, Has, Local, Passes
<1>3. Follow(in, u)
  BY DEF Follow, Has, Local, Passes
<1>4. Refused(u)
  BY DEF Refused, Has, Local, Passes
<1>5. QED
  BY <1>1, <1>2, <1>3, <1>4 DEF Local

\* The moves that are made.
LEMMA Moves ==
    /\ Passes("start", "comments") /\ Passes("comments", "driver")
    /\ Passes("parse", "check") /\ Passes("check", "dial") /\ Passes("check", "wait")
    /\ Passes("wait", "dial") /\ Passes("wait", "wait") /\ Passes("dial", "rpc")
    /\ Passes("parsed", "analyze") /\ Passes("parsed", "analyzed")
    /\ Passes("analyze", "analyze") /\ Passes("analyze", "analyzed")
    /\ Passes("resolve", "filler") /\ Passes("resolve", "steps") /\ Passes("steps", "python")
    /\ Passes("python", "done") /\ Passes("done", "stopped")
BY DEF Passes, Pcs, Final, Reading, Parsing, Connecting, Compiling, Executing

\* The text is there, and nothing is parsed yet.
LEMMA NothingParsed ==
    ASSUME NEW text \in Seq(Tokens)
    PROVE  ParsedTo(text, <<>>, 1, 0)
<1>1. {i \in Starts(text) : i < 1} = {}
  BY DEF Starts
<1>2. Lists(Positions(<<>>), {})
  <2>1. Positions(<<>>) = <<>>
    BY DEF Positions
  <2>2. Lists(<<>>, {})
    BY DEF Lists, Range
  <2>3. QED
    BY <2>1, <2>2
<1>3. Lists(Positions(<<>>), {i \in Starts(text) : i < 1})
  BY <1>1, <1>2, Zenon
<1>4. (\A i \in 1..1 - 1 : FALSE) /\ (\A i \in DOMAIN <<>> : FALSE)
  OBVIOUS
<1>5. QED
  BY <1>3, <1>4, Zenon DEF ParsedTo

\* A session has its text, and the parsers begin.
LEMMA LocalText ==
    ASSUME NEW in, NEW r, Local(in, r), r.pc \in Reading, NEW text \in Seq(Tokens), NEW u,
           Has(u, "parse", text, r.pos, r.open, r.all, r.tries, r.steps, r.ran, r.why)
    PROVE  Local(in, u)
<1>1. /\ r.pc \notin Compiling \cup {"error"} /\ r.pc \notin Executing
      /\ "parse" \notin Compiling \cup {"error", "extended", "parsed", "analyze", "analyzed", "python"} \cup Executing \cup Reading
      /\ "parse" \in Parsing
  BY DEF Reading, Parsing, Compiling, Executing
<1>2. r.all = <<>> /\ r.pos = 1
  BY DEF Local, Handed
<1>3. r.steps = <<>> /\ r.ran = <<>>
  BY <1>1 DEF Local, Follow
<1>4. Len(text) \in Nat /\ 1 \in 1..Len(text) + 1
  OBVIOUS
<1>5. Typed(u)
  BY <1>1, <1>2, <1>4 DEF Local, Typed, Has, Pcs
<1>6. Handed(u)
  BY <1>1, <1>2, NothingParsed DEF Handed, Has
<1>7. Follow(in, u)
  BY <1>1, <1>2, <1>3 DEF Follow, Has
<1>8. Refused(u)
  <2>1. r.pc # "error"
    BY <1>1
  <2>2. QED
    BY <2>1 DEF Refused, Has, Local
<1>9. QED
  BY <1>5, <1>6, <1>7, <1>8 DEF Local

\* A parser of the dialect has answered q.
AcceptedAs(r, q) ==
    [r EXCEPT !.all = @ \o q.sqls, !.pos = IF q.pos = 0 THEN @ ELSE q.pos,
              !.open = q.sqls # <<>> /\ Last(q.sqls).unfinished,
              !.pc = IF q.pos = 0 THEN "parsed" ELSE "extended"]

\* It is as it must be after the answer.
LEMMA LocalAccepted ==
    ASSUME NEW in, NEW r, Local(in, r), r.pc \in Parsing, NEW q, q = ThirdPartyParse(in.dialect, r.text, r.pos),
           NEW u, u = AcceptedAs(r, q)
    PROVE  /\ Local(in, u) /\ u.steps = r.steps /\ u.ran = r.ran /\ r.steps = <<>> /\ r.ran = <<>>
           /\ u.pc \in {"parsed", "extended"}
<1> DEFINE c == r.all \o q.sqls
           pos == IF q.pos = 0 THEN r.pos ELSE q.pos
           open == (q.sqls # <<>> /\ Last(q.sqls).unfinished)
           pc == IF q.pos = 0 THEN "parsed" ELSE "extended"
<1>1. /\ DOMAIN r = Fields /\ r.text \in Seq(Tokens) /\ r.all \in Seq(Stmts) /\ r.pos \in 1..Len(r.text) + 1
      /\ ParsedTo(r.text, r.all, r.pos, 0) /\ (r.pos = 1 \/ r.text[r.pos - 1].k \in {"to", "show"})
  BY DEF Local, Typed, Handed
<1>2. /\ c \in Seq(Stmts)
      /\ \A i \in DOMAIN c : c[i].ext = NoClause \/ (i \in DOMAIN r.all /\ c[i] = r.all[i])
      /\ q.pos = 0 => ParsedTo(r.text, c, Len(r.text) + 1, 0)
      /\ q.pos # 0 => q.pos \in DOMAIN r.text
      /\ q.pos # 0 /\ open => Opened(r.text, c, q.pos)
      /\ q.pos # 0 /\ ~open => Stopped(r.text, c, q.pos)
  <2> DEFINE text == r.text
             all == r.all
             p == r.pos
  <2>1. /\ text \in Seq(Tokens) /\ all \in Seq(Stmts) /\ p \in 1..Len(text) + 1
        /\ ParsedTo(text, all, p, 0) /\ (p = 1 \/ text[p - 1].k \in {"to", "show"})
        /\ q = ThirdPartyParse(in.dialect, text, p) /\ c = all \o q.sqls
    BY <1>1
  <2>2. open = (q.sqls # <<>> /\ Last(q.sqls).unfinished)
    OBVIOUS
  <2> HIDE DEF text, all, p, c, open
  <2>3. TurnMade(text, all, q, c, open)
    BY <2>1, <2>2, DialectTurn, Zenon
  <2>4. QED
    BY <2>3, Zenon DEF TurnMade, text, all
<1>3. open \in BOOLEAN
  BY Zenon
<1>4. Has(u, pc, r.text, pos, open, c, r.tries, r.steps, r.ran, r.why)
  <2> HIDE DEF pc, pos, open, c
  <2>1. u = [r EXCEPT !.all = c, !.pos = pos, !.open = open, !.pc = pc]
    BY DEF pc, pos, open, c, AcceptedAs
  <2>2. QED
    BY <1>1, <2>1 DEF Has, Fields
<1>5. pos \in 1..Len(r.text) + 1 /\ pc \in {"parsed", "extended"}
  BY <1>1, <1>2
<1>6. /\ r.pc \notin Compiling \cup {"error"} /\ r.pc \notin Executing
      /\ {"parsed", "extended"} \cap (Compiling \cup Executing \cup Reading \cup Parsing \cup {"python", "error"}) = {}
  BY DEF Parsing, Connecting, Reading, Compiling, Executing
<1>7. r.steps = <<>> /\ r.ran = <<>> /\ r.why # "syntax"
  BY <1>6 DEF Local, Follow, Refused
<1>8. Typed(u)
  BY <1>2, <1>3, <1>4, <1>5 DEF Local, Typed, Has, Pcs
<1>9. Handed(u)
  <2>0. /\ u.pc = pc /\ u.text = r.text /\ u.pos = pos /\ u.all = c /\ u.open = open
    BY <1>4 DEF Has
  <2> HIDE DEF c, open
  <2>1. CASE q.pos = 0
    <3>1. u.pc = "parsed" /\ ParsedTo(u.text, u.all, Len(u.text) + 1, 0)
      BY <1>2, <2>0, <2>1
    <3>2. QED
      BY <1>6, <3>1 DEF Handed
  <2>2. CASE q.pos # 0
    <3>1. /\ u.pc = "extended" /\ u.open \in BOOLEAN
          /\ u.open => Opened(u.text, u.all, u.pos)
          /\ ~u.open => Stopped(u.text, u.all, u.pos)
      BY <1>2, <1>3, <2>0, <2>2, Zenon
    <3>2. QED
      BY <1>6, <3>1 DEF Handed
  <2>3. QED
    BY <2>1, <2>2
<1>10. Follow(in, u)
  <2>1. \A i \in DOMAIN r.all : r.all[i].ext \in Range(r.text) \cup {NoClause}
    BY DEF Local, Follow
  <2> HIDE DEF c, pc
  <2>2. \A i \in DOMAIN c : c[i].ext \in Range(r.text) \cup {NoClause}
    BY <1>2, <2>1
  <2>3. QED
    BY <1>4, <1>5, <1>6, <1>7, <2>2 DEF Follow, Has
<1>11. Refused(u)
  BY <1>4, <1>7 DEF Refused, Has
<1>12. QED
  BY <1>4, <1>5, <1>7, <1>8, <1>9, <1>10, <1>11 DEF Local, Has

\* A clause t is parsed, or refused.
WithClauseOf(r, t) ==
    IF r.open THEN [r.all EXCEPT ![Len(r.all)].ext = t]
    ELSE Append(r.all, [Unfinished(r.pos) EXCEPT !.ext = t, !.unfinished = FALSE])

\* The session goes on behind the clause.
BehindClause(r, c) ==
    [r EXCEPT !.all = c, !.pos = @ + 1, !.pc = IF r.pos = Len(r.text) THEN "parsed" ELSE "parse"]

\* A clause that does not fit is an error of the program, any other is taken.
LEMMA LocalClause ==
    ASSUME NEW in, NEW r, Local(in, r), r.pc = "extended", NEW t, t = r.text[r.pos],
           NEW c, c = WithClauseOf(r, t), NEW u, u = BehindClause(r, c)
    PROVE  /\ ~Fits(r.open, t) => ~WellFormed(r.text)
           /\ r.steps = <<>> /\ r.ran = <<>>
           /\ Fits(r.open, t) => Local(in, u) /\ u.steps = r.steps /\ u.ran = r.ran
<1> DEFINE text == r.text
           p == r.pos
<1>1. /\ DOMAIN r = Fields /\ text \in Seq(Tokens) /\ r.all \in Seq(Stmts) /\ p \in 1..Len(text) + 1
      /\ r.open \in BOOLEAN
      /\ r.open => Opened(text, r.all, p)
      /\ ~r.open => Stopped(text, r.all, p)
  BY DEF Local, Typed, Handed
<1>2. p \in DOMAIN text
  BY <1>1 DEF Opened, Stopped
<1>3. "extended" \notin Compiling \cup {"error"} /\ "extended" \notin Executing
  BY DEF Compiling, Executing
<1>4. r.steps = <<>> /\ r.ran = <<>> /\ r.why # "syntax"
  BY <1>3 DEF Local, Follow, Refused
<1>5. ~Fits(r.open, t) => ~WellFormed(r.text)
  BY <1>1, <1>2, ClauseMisfit
<1>6. ASSUME Fits(r.open, t)
      PROVE  Local(in, u) /\ u.steps = r.steps /\ u.ran = r.ran
  <2> DEFINE pc == IF p = Len(text) THEN "parsed" ELSE "parse"
  <2>1. Has(u, pc, text, p + 1, r.open, c, r.tries, r.steps, r.ran, r.why)
    <3> HIDE DEF pc
    <3>1. u = [r EXCEPT !.all = c, !.pos = @ + 1, !.pc = pc]
      BY DEF pc, BehindClause
    <3>2. QED
      BY <1>1, <3>1 DEF Has, Fields
  <2>2. /\ c \in Seq(Stmts) /\ ParsedTo(text, c, p + 1, 0)
        /\ \A i \in DOMAIN c : c[i].ext = text[p] \/ (i \in DOMAIN r.all /\ c[i] = r.all[i])
    <3>1. CASE r.open
      <4>1. c = [r.all EXCEPT ![Len(r.all)].ext = text[p]] /\ text[p].k = "to"
        BY <1>6, <3>1 DEF Fits, WithClauseOf
      <4>2. QED
        <5>1. ClauseTaken(text, r.all, p, c)
          <6> HIDE DEF text, p
          <6>1. QED
            BY <1>1, <1>2, <3>1, <4>1, ClauseCloses, Zenon
        <5>2. QED
          BY <5>1, Zenon DEF ClauseTaken
    <3>2. CASE ~r.open
      <4>1. /\ c = Append(r.all, [Unfinished(p) EXCEPT !.ext = text[p], !.unfinished = FALSE])
            /\ text[p].k = "show"
        BY <1>6, <3>2 DEF Fits, WithClauseOf
      <4>2. QED
        <5>1. ClauseTaken(text, r.all, p, c)
          <6> HIDE DEF text, p
          <6>1. QED
            BY <1>1, <1>2, <3>2, <4>1, ClauseAlone, Zenon
        <5>2. QED
          BY <5>1, Zenon DEF ClauseTaken
    <3>3. QED
      BY <3>1, <3>2
  <2>3. text[p].k \in {"to", "show"}
    BY <1>6 DEF Fits
  <2>4. /\ p \in 1..Len(text) /\ Len(text) \in Nat /\ p + 1 \in 1..Len(text) + 1 /\ p + 1 - 1 = p
        /\ (p = Len(text) => p + 1 = Len(text) + 1)
    BY <1>1, <1>2
  <2>5. /\ {"parsed", "parse"} \cap (Compiling \cup Executing \cup Reading \cup {"python", "error", "extended", "analyze", "analyzed"}) = {}
        /\ "parsed" \notin Parsing /\ {"parsed", "parse"} \subseteq Pcs
    BY DEF Parsing, Connecting, Reading, Compiling, Executing, Pcs
  <2>6. Typed(u)
    BY <2>1, <2>2, <2>4, <2>5 DEF Local, Typed, Has
  <2>7. Handed(u)
    <3>1. CASE p = Len(text)
      BY <2>1, <2>2, <2>4, <2>5, <3>1 DEF Handed, Has
    <3>2. CASE p # Len(text)
      BY <2>1, <2>2, <2>3, <2>4, <2>5, <3>2 DEF Handed, Has
    <3>3. QED
      BY <3>1, <3>2
  <2>8. Follow(in, u)
    <3>1. \A i \in DOMAIN r.all : r.all[i].ext \in Range(text) \cup {NoClause}
      BY DEF Local, Follow
    <3>2. text[p] \in Range(text)
      BY <1>2 DEF Range
    <3>3. \A i \in DOMAIN c : c[i].ext \in Range(text) \cup {NoClause}
      BY <2>2, <3>1, <3>2
    <3>4. QED
      BY <1>4, <2>1, <2>5, <3>3 DEF Follow, Has
  <2>9. Refused(u)
    BY <1>4, <2>1 DEF Refused, Has
  <2>10. QED
    BY <2>1, <2>6, <2>7, <2>8, <2>9 DEF Local, Has
<1>7. QED
  BY <1>4, <1>5, <1>6

\* The hints are moved, and the workflow begins.
LEMMA LocalRewrite ==
    ASSUME NEW in, NEW r, Local(in, r), r.pc = "parsed", NEW c,
           c = RewriteStatementsWithHints(in.dialect, r.text, r.all), NEW u,
           Has(u, "resolve", r.text, r.pos, r.open, c, r.tries, r.steps, r.ran, r.why)
    PROVE  Local(in, u) /\ r.steps = <<>> /\ r.ran = <<>>
<1> DEFINE text == r.text
           all == r.all
           d == in.dialect
<1>1. /\ text \in Seq(Tokens) /\ all \in Seq(Stmts) /\ ParsedTo(text, all, Len(text) + 1, 0)
      /\ c = RewriteStatementsWithHints(d, text, all)
  BY DEF Local, Typed, Handed
<1> HIDE DEF text, all, d
<1>2. /\ c \in Seq(Stmts) /\ Lists(Positions(c), Starts(text) \ Hints(d, text))
      /\ \A i \in DOMAIN c : c[i].ext = NoClause => Lists(c[i].hints, Hints(d, text))
      /\ \A i \in DOMAIN c : \E j \in DOMAIN all : c[i].ext = all[j].ext
  <2>1. Hinted(d, text, all, c)
    BY <1>1, HintsMoved
  <2>2. QED
    BY <2>1, Zenon DEF Hinted
<1>3. /\ "parsed" \notin Compiling \cup {"error"} \cup Executing
      /\ "resolve" \notin Executing \cup Parsing \cup Reading \cup {"python", "extended", "parsed", "analyze", "analyzed", "error"}
      /\ "resolve" \in Compiling /\ "resolve" \in Pcs
  BY DEF Compiling, Executing, Parsing, Connecting, Reading, Pcs
<1>4. r.steps = <<>> /\ r.ran = <<>> /\ r.why # "syntax"
  BY <1>3 DEF Local, Follow, Refused
<1>5. Typed(u)
  BY <1>2, <1>3 DEF Local, Typed, Has
<1>6. Handed(u)
  BY <1>3 DEF Handed, Has
<1>7. Follow(in, u)
  <2>1. \A i \in DOMAIN all : all[i].ext \in Range(text) \cup {NoClause}
    BY DEF Local, Follow, all, text
  <2>2. \A i \in DOMAIN c : c[i].ext \in Range(text) \cup {NoClause}
    <3> TAKE i \in DOMAIN c
    <3>1. PICK j \in DOMAIN all : c[i].ext = all[j].ext
      BY <1>2
    <3>2. QED
      BY <2>1, <3>1
  <2>3. /\ u.pc = "resolve" /\ u.all = c /\ u.text = text /\ u.steps = <<>> /\ u.ran = <<>>
    BY <1>4 DEF Has, text
  <2>4. Len(u.steps) <= Len(u.all) /\ DOMAIN u.steps = {}
    BY <1>2, <2>3
  <2>5. QED
    BY <1>2, <1>3, <2>2, <2>3, <2>4 DEF Follow, d
<1>8. Refused(u)
  BY <1>4 DEF Refused, Has
<1>9. QED
  BY <1>4, <1>5, <1>6, <1>7, <1>8 DEF Local

\* The steps of a workflow are made, or cut off.
LEMMA LocalSteps ==
    ASSUME NEW in, NEW r, Local(in, r), r.pc \in {"filler", "steps", "python"}, NEW steps \in Seq(Steps),
           Len(steps) <= Len(r.all), \A i \in DOMAIN steps : steps[i].stmt = r.all[i],
           NEW pc \in {"steps", "python", "done"}, NEW why, why \in {r.why, "write"},
           pc # "steps" /\ why # "write" => Len(steps) = Len(r.all), NEW u,
           Has(u, pc, r.text, r.pos, r.open, r.all, r.tries, steps, r.ran, why)
    PROVE  Local(in, u) /\ r.ran = <<>>
<1>1. /\ {"filler", "steps", "python"} \cap (Executing \cup {"error"}) = {} /\ {"filler", "steps", "python"} \subseteq Compiling
      /\ {"steps", "python", "done"} \cap (Parsing \cup Reading \cup {"extended", "parsed", "analyze", "analyzed", "error"}) = {}
      /\ {"steps", "python", "done"} \subseteq Pcs \cap Compiling
      /\ "steps" \notin Executing \cup {"python"}
  BY DEF Compiling, Executing, Parsing, Connecting, Reading, Pcs
<1>2. r.ran = <<>> /\ r.why # "syntax" /\ why # "syntax"
  BY <1>1 DEF Local, Follow, Refused
<1>3. Typed(u)
  <2>1. Len(r.ran) <= Len(steps)
    BY <1>2
  <2>2. QED
    BY <1>1, <2>1 DEF Local, Typed, Has
<1>4. Handed(u)
  BY <1>1 DEF Handed, Has
<1>5. r.pc \in Compiling
  BY <1>1
<1>6. Follow(in, u)
  BY <1>1, <1>2, <1>5 DEF Follow, Has, Local
<1>7. Refused(u)
  BY <1>2 DEF Refused, Has
<1>8. QED
  BY <1>2, <1>3, <1>4, <1>6, <1>7 DEF Local

\* Argo runs a step.
LEMMA LocalRun ==
    ASSUME NEW in, NEW r, Local(in, r), r.pc = "done", NEW ran \in Seq(Ran), Len(ran) <= Len(r.steps), NEW u,
           Has(u, "done", r.text, r.pos, r.open, r.all, r.tries, r.steps, ran, r.why)
    PROVE  Local(in, u)
<1>1. "done" \in Executing
  BY DEF Executing
<1>2. Typed(u)
  BY DEF Local, Typed, Has
<1>3. Handed(u)
  BY DEF Handed, Has, Local
<1>4. Follow(in, u)
  BY <1>1 DEF Follow, Has, Local
<1>5. Refused(u)
  BY DEF Refused, Has, Local
<1>6. QED
  BY <1>2, <1>3, <1>4, <1>5 DEF Local

-----------------------------------------------------------------------------
(* Steps of a session. *)

\* What ImageKnown says of the i-th step of a session s that looks like r.
Known(s, r, i) ==
    LET step == r.steps[i]
        ext == step.stmt.ext
    IN /\ ext.clause = "train" => step.image = ext.image
       /\ ext.clause \in Users /\ input[s].mode = "experimental" =>
            IF Trainers(r.all, i) # {}
            THEN step.by = <<s, Max(Trainers(r.all, i))>> /\ step.image = r.all[Max(Trainers(r.all, i))].ext.image
            ELSE \/ step.by = Nobody /\ step.image = Stored[ext.model]
                 \/ RanAs(step.by, step.image)

\* The session s goes on as u, with the steps it has.
Idle(s, u) ==
    /\ Becomes(s, u) /\ Local(input[s], u)
    /\ u.steps = ses[s].steps /\ u.ran = ses[s].ran /\ u.all = ses[s].all

\* Its steps change, and none has run.
Plans(s, u) ==
    /\ Becomes(s, u) /\ Local(input[s], u)
    /\ ses[s].ran = <<>> /\ u.ran = <<>>
    /\ \A i \in DOMAIN u.steps : Known(s, u, i)

\* A step of s that runs no step of a workflow.
Quiet(s) == (\E u : Idle(s, u) \/ Plans(s, u)) /\ UNCHANGED <<input, trained>>

\* A failure.
LEMMA ErrorIdle ==
    ASSUME NEW s, Local(input[s], ses[s]), ses[s].pc \notin Executing, NEW why, Error(s, why),
           why = "syntax" => ~WellFormed(ses[s].text)
    PROVE  \E u : Idle(s, u)
<1> DEFINE r == ses[s]
           u == [r EXCEPT !.pc = "error", !.why = why]
<1>1. DOMAIN r = Fields
  BY DEF Local, Typed
<1>2. Becomes(s, u)
  BY DEF Error
<1>3. Has(u, "error", r.text, r.pos, r.open, r.all, r.tries, r.steps, r.ran, why)
  BY <1>1, Places1
<1> HIDE DEF u
<1>4. Local(input[s], u)
  BY <1>3, LocalError
<1>5. QED
  BY <1>2, <1>3, <1>4 DEF Idle, Has

\* A move.
LEMMA MoveIdle ==
    ASSUME NEW s, Local(input[s], ses[s]), NEW pc, Passes(ses[s].pc, pc), NEW tries \in 0..3, NEW u, Becomes(s, u),
           Has(u, pc, ses[s].text, ses[s].pos, ses[s].open, ses[s].all, tries, ses[s].steps, ses[s].ran, ses[s].why),
           pc \in Executing \cup {"python"} =>
               ses[s].pc \in Executing \cup {"python"} \/ Len(ses[s].steps) = Len(ses[s].all),
           pc = "filler" => input[s].mode # "experimental"
    PROVE  \E v : Idle(s, v)
<1>1. Local(input[s], u)
  BY LocalMoves
<1>2. Idle(s, u)
  BY <1>1 DEF Idle, Has
<1>3. QED
  BY <1>2

\* A move that changes nothing else.
LEMMA GoIdle ==
    ASSUME NEW s, Local(input[s], ses[s]), NEW pc, Go(s, pc), Passes(ses[s].pc, pc),
           pc \in Executing \cup {"python"} =>
               ses[s].pc \in Executing \cup {"python"} \/ Len(ses[s].steps) = Len(ses[s].all),
           pc = "filler" => input[s].mode # "experimental"
    PROVE  \E v : Idle(s, v)
<1> DEFINE r == ses[s]
           u == [r EXCEPT !.pc = pc]
<1>1. DOMAIN r = Fields /\ r.tries \in 0..3
  BY DEF Local, Typed
<1>2. Becomes(s, u)
  BY DEF Go
<1>3. Has(u, pc, r.text, r.pos, r.open, r.all, r.tries, r.steps, r.ran, r.why)
  BY <1>1, Places1
<1> HIDE DEF u
<1>4. QED
  BY <1>1, <1>2, <1>3, MoveIdle

\* Where the places belong.
LEMMA NotExecuting ==
    ASSUME NEW pc, pc \in Reading \cup Parsing \cup {"extended", "parsed", "analyze", "resolve", "filler", "steps", "python"}
    PROVE  pc \notin Executing
BY DEF Reading, Parsing, Connecting, Executing

\* Places before the workflow is complete.
LEMMA NotYet ==
    ASSUME NEW pc, pc \in Reading \cup Connecting \cup {"rpc", "analyze", "analyzed", "filler", "steps"}
    PROVE  pc \notin Executing \cup {"python"}
BY DEF Reading, Connecting, Executing

\* Reading the text.
LEMMA ReadingQuiet ==
    ASSUME NEW s \in Sessions, Local(input[s], ses[s]), input \in Workloads,
           RemoveComments(s) \/ RemoveLineComments(s) \/ ParseURL(s)
    PROVE  Quiet(s)
<1> DEFINE r == ses[s]
<1>1. DOMAIN r = Fields /\ r.tries \in 0..3
  BY DEF Local, Typed
<1>2. r.pc \in Reading /\ UNCHANGED <<input, trained>>
  BY DEF RemoveComments, RemoveLineComments, ParseURL, At, Reading
<1>3. r.pc \notin Executing
  BY <1>2, NotExecuting
<1>4. ASSUME NEW why, Error(s, why), why # "syntax" PROVE Quiet(s)
  BY <1>2, <1>3, <1>4, ErrorIdle DEF Quiet
<1>5. ASSUME NEW pc, NEW b, Becomes(s, [r EXCEPT !.pc = pc, !.clean = b]), Passes(r.pc, pc), pc \in Reading
      PROVE  Quiet(s)
  <2> DEFINE u == [r EXCEPT !.pc = pc, !.clean = b]
  <2>1. Has(u, pc, r.text, r.pos, r.open, r.all, r.tries, r.steps, r.ran, r.why) /\ Becomes(s, u)
    BY <1>1, <1>5, Places1
  <2> HIDE DEF u
  <2>2. pc \notin Executing \cup {"python"} /\ pc # "filler"
    BY <1>5, NotYet DEF Reading
  <2>3. QED
    BY <1>1, <1>2, <1>5, <2>1, <2>2, MoveIdle DEF Quiet
<1>6. ASSUME NEW t \in Seq(Tokens), Becomes(s, [r EXCEPT !.pc = "parse", !.text = t])
      PROVE  Quiet(s)
  <2> DEFINE u == [r EXCEPT !.pc = "parse", !.text = t]
  <2>1. Has(u, "parse", t, r.pos, r.open, r.all, r.tries, r.steps, r.ran, r.why) /\ Becomes(s, u)
    BY <1>1, <1>6, Places1
  <2> HIDE DEF u
  <2>2. Local(input[s], u)
    BY <1>2, <2>1, LocalText
  <2>3. Idle(s, u)
    BY <2>1, <2>2 DEF Idle, Has
  <2>4. QED
    BY <1>2, <2>3 DEF Quiet
<1>7. CASE RemoveComments(s)
  <2>1. r.pc = "start" /\ "comments" \in Reading
    BY <1>7 DEF RemoveComments, At, Reading
  <2>2. QED
    BY <1>4, <1>5, <1>7, <2>1, Moves DEF RemoveComments
<1>8. CASE RemoveLineComments(s)
  <2>1. r.pc = "comments" /\ "driver" \in Reading
    BY <1>8 DEF RemoveLineComments, At, Reading
  <2>2. QED
    BY <1>4, <1>5, <1>8, <2>1, Moves DEF RemoveLineComments
<1>9. CASE ParseURL(s)
  <2> DEFINE text == input[s].text
             S == {i \in DOMAIN text : text[i].k # "comment"}
  <2>1. text \in Seq(Tokens)
    BY FrontendAssumption
  <2>2. Select(text, S) \in Seq(Tokens)
    <3>1. S \in SUBSET DOMAIN text
      OBVIOUS
    <3> HIDE DEF S, text
    <3>2. QED
      BY <2>1, <3>1, SelectIs
  <2>3. \/ Error(s, "url")
        \/ Becomes(s, [r EXCEPT !.pc = "parse", !.text = Select(text, S)])
        \/ Becomes(s, [r EXCEPT !.pc = "parse", !.text = text])
    BY <1>9 DEF ParseURL
  <2> HIDE DEF S, text
  <2>4. QED
    BY <1>4, <1>6, <2>1, <2>2, <2>3
<1>10. QED
  BY <1>7, <1>8, <1>9

\* The Java server.
LEMMA JavaQuiet ==
    ASSUME NEW s \in Sessions, Local(input[s], ses[s]),
           Lock(s) \/ StartServer(s) \/ WaitForServer(s) \/ Dial(s)
    PROVE  Quiet(s)
<1> DEFINE r == ses[s]
<1>1. DOMAIN r = Fields /\ r.tries \in 0..3
  BY DEF Local, Typed
<1>2. r.pc \in Parsing /\ UNCHANGED <<input, trained>>
  BY DEF Lock, StartServer, WaitForServer, Dial, At, Parsing, Connecting
<1>3. r.pc \notin Executing
  BY <1>2, NotExecuting
<1>4. ASSUME NEW why, Error(s, why), why # "syntax" PROVE Quiet(s)
  BY <1>2, <1>3, <1>4, ErrorIdle DEF Quiet
<1>5. \A pc \in {"check", "wait", "dial", "rpc"} : pc \notin Executing \cup {"python"}
  BY NotYet DEF Connecting
<1>6. ASSUME NEW pc \in {"check", "wait", "dial", "rpc"}, Go(s, pc), Passes(r.pc, pc) PROVE Quiet(s)
  BY <1>2, <1>5, <1>6, GoIdle DEF Quiet
<1>7. ASSUME NEW b \in 0..3, Becomes(s, [r EXCEPT !.pc = "wait", !.tries = b]), Passes(r.pc, "wait")
      PROVE  Quiet(s)
  <2> DEFINE u == [r EXCEPT !.pc = "wait", !.tries = b]
  <2>1. Has(u, "wait", r.text, r.pos, r.open, r.all, b, r.steps, r.ran, r.why) /\ Becomes(s, u)
    BY <1>1, <1>7, Places1
  <2> HIDE DEF u
  <2>2. QED
    BY <1>2, <1>5, <1>7, <2>1, MoveIdle DEF Quiet
<1>8. ASSUME NEW b \in 0..3, Becomes(s, [r EXCEPT !.tries = b]), r.pc = "wait"
      PROVE  Quiet(s)
  <2> DEFINE u == [r EXCEPT !.tries = b]
  <2>1. Has(u, "wait", r.text, r.pos, r.open, r.all, b, r.steps, r.ran, r.why) /\ Becomes(s, u)
    BY <1>1, <1>8, Places1
  <2> HIDE DEF u
  <2>2. QED
    BY <1>2, <1>5, <1>8, <2>1, MoveIdle, Moves DEF Quiet
<1>9. CASE Lock(s)
  BY <1>6, <1>9, Moves DEF Lock, At
<1>10. CASE StartServer(s)
  <2>1. r.pc = "check"
    BY <1>10 DEF StartServer, At
  <2>2. QED
    BY <1>4, <1>6, <1>7, <1>10, <2>1, Moves DEF StartServer
<1>11. CASE WaitForServer(s)
  <2>1. r.pc = "wait"
    BY <1>11 DEF WaitForServer, At
  <2>2. r.tries > 1 => r.tries - 1 \in 0..3
    BY <1>1
  <2>3. QED
    BY <1>4, <1>6, <1>8, <1>11, <2>1, <2>2, Moves DEF WaitForServer
<1>12. CASE Dial(s)
  BY <1>6, <1>12, Moves DEF Dial, At
<1>13. QED
  BY <1>9, <1>10, <1>11, <1>12

\* A parser of the dialect has answered.
LEMMA AcceptedQuiet ==
    ASSUME NEW s \in Sessions, Local(input[s], ses[s]), ses[s].pc \in Parsing, Becomes(s, Accepted(s))
    PROVE  \E u : Plans(s, u)
<1> DEFINE q == ThirdPartyParse(input[s].dialect, ses[s].text, ses[s].pos)
           u == AcceptedAs(ses[s], q)
<1>1. u = Accepted(s)
  BY DEF Accepted, AcceptedAs
<1>2. /\ Local(input[s], u) /\ u.steps = ses[s].steps /\ u.ran = ses[s].ran
      /\ ses[s].steps = <<>> /\ ses[s].ran = <<>>
  BY LocalAccepted
<1> HIDE DEF u
<1>3. Plans(s, u)
  BY <1>1, <1>2 DEF Plans
<1>4. QED
  BY <1>3

\* The parsers taking turns.
LEMMA ParsingQuiet ==
    ASSUME NEW s \in Sessions, Local(input[s], ses[s]),
           ParseWithTiDB(s) \/ ParseWithJava(s) \/ ParseFirstSQLFlowStmt(s)
    PROVE  Quiet(s)
<1> DEFINE r == ses[s]
<1>1. UNCHANGED <<input, trained>>
  BY DEF ParseWithTiDB, ParseWithJava, ParseFirstSQLFlowStmt
<1>2. CASE ParseWithTiDB(s) \/ ParseWithJava(s)
  <2>1. r.pc \in Parsing
    BY <1>2 DEF ParseWithTiDB, ParseWithJava, At, Parsing
  <2>2. r.pc \notin Executing
    BY <2>1, NotExecuting
  <2>3. CASE Becomes(s, Accepted(s))
    BY <1>1, <2>1, <2>3, AcceptedQuiet DEF Quiet
  <2>4. CASE Error(s, "java")
    BY <1>1, <2>2, <2>4, ErrorIdle DEF Quiet
  <2>5. QED
    BY <1>2, <2>3, <2>4 DEF ParseWithTiDB, ParseWithJava
<1>3. CASE ParseFirstSQLFlowStmt(s)
  <2> DEFINE t == r.text[r.pos]
             c == WithClauseOf(r, t)
             u == BehindClause(r, c)
  <2>1. r.pc = "extended"
    BY <1>3 DEF ParseFirstSQLFlowStmt, At
  <2>2. \/ ~Fits(r.open, t) /\ Error(s, "syntax")
        \/ Fits(r.open, t) /\ Becomes(s, u)
    BY <1>3 DEF ParseFirstSQLFlowStmt, WithClauseOf, BehindClause
  <2>3. /\ ~Fits(r.open, t) => ~WellFormed(r.text)
        /\ r.steps = <<>> /\ r.ran = <<>>
        /\ Fits(r.open, t) => Local(input[s], u) /\ u.steps = r.steps /\ u.ran = r.ran
    BY <2>1, LocalClause
  <2> HIDE DEF t, u
  <2>4. r.pc \notin Executing
    BY <2>1, NotExecuting
  <2>5. CASE ~Fits(r.open, t) /\ Error(s, "syntax")
    BY <1>1, <2>3, <2>4, <2>5, ErrorIdle DEF Quiet
  <2>6. CASE Fits(r.open, t) /\ Becomes(s, u)
    <3>1. Plans(s, u)
      BY <2>3, <2>6 DEF Plans
    <3>2. QED
      BY <1>1, <3>1 DEF Quiet
  <2>7. QED
    BY <2>2, <2>5, <2>6
<1>4. QED
  BY <1>2, <1>3

\* Analyze.
LEMMA AnalyzeQuiet ==
    ASSUME NEW s \in Sessions, Local(input[s], ses[s]),
           AnalyzeStart(s) \/ AnalyzeStatement(s) \/ DrawGraphviz(s)
    PROVE  Quiet(s)
<1> DEFINE r == ses[s]
<1>1. DOMAIN r = Fields /\ r.tries \in 0..3
  BY DEF Local, Typed
<1>2. r.pc \in {"parsed", "analyze"} /\ UNCHANGED <<input, trained>>
  BY DEF AnalyzeStart, AnalyzeStatement, DrawGraphviz, At
<1>3. r.pc \notin Executing
  BY <1>2, NotExecuting
<1>4. ASSUME NEW why, Error(s, why), why # "syntax" PROVE Quiet(s)
  BY <1>2, <1>3, <1>4, ErrorIdle DEF Quiet
<1>5. "analyze" \notin Executing \cup {"python"} /\ "analyzed" \notin Executing \cup {"python"}
  BY NotYet
<1>6. ASSUME NEW pc \in {"analyze", "analyzed"}, Go(s, pc) PROVE Quiet(s)
  <2>1. Passes(r.pc, pc)
    BY <1>2, Moves
  <2>2. QED
    BY <1>2, <1>5, <1>6, <2>1, GoIdle DEF Quiet
<1>7. ASSUME NEW b, Becomes(s, [r EXCEPT !.pc = "analyzed", !.graph = b]) PROVE Quiet(s)
  <2> DEFINE u == [r EXCEPT !.pc = "analyzed", !.graph = b]
  <2>1. Has(u, "analyzed", r.text, r.pos, r.open, r.all, r.tries, r.steps, r.ran, r.why) /\ Becomes(s, u)
    BY <1>1, <1>7, Places1
  <2>2. Passes(r.pc, "analyzed")
    BY <1>2, Moves
  <2> HIDE DEF u
  <2>3. QED
    BY <1>1, <1>2, <1>5, <2>1, <2>2, MoveIdle DEF Quiet
<1>8. ASSUME NEW a, NEW b, Becomes(s, [r EXCEPT !.graph = a, !.nodes = b]), r.pc = "analyze" PROVE Quiet(s)
  <2> DEFINE u == [r EXCEPT !.graph = a, !.nodes = b]
  <2>1. Has(u, "analyze", r.text, r.pos, r.open, r.all, r.tries, r.steps, r.ran, r.why) /\ Becomes(s, u)
    <3>1. Has(u, r.pc, r.text, r.pos, r.open, r.all, r.tries, r.steps, r.ran, r.why)
      BY <1>1, Places1
    <3>2. QED
      BY <1>8, <3>1
  <2>2. Passes(r.pc, "analyze")
    BY <1>2, Moves
  <2> HIDE DEF u
  <2>3. QED
    BY <1>1, <1>2, <1>5, <2>1, <2>2, MoveIdle DEF Quiet
<1>9. CASE AnalyzeStart(s)
  BY <1>4, <1>6, <1>7, <1>9 DEF AnalyzeStart
<1>10. CASE AnalyzeStatement(s)
  BY <1>8, <1>10 DEF AnalyzeStatement, At
<1>11. CASE DrawGraphviz(s)
  BY <1>4, <1>6, <1>11 DEF DrawGraphviz
<1>12. QED
  BY <1>9, <1>10, <1>11

\* The compilers, but for the images of the steps.
LEMMA CompilerQuiet ==
    ASSUME NEW s \in Sessions, Local(input[s], ses[s]),
           Rewrite(s) \/ ResolveSQLProgram(s) \/ CodeGenCouler(s) \/ StepFails(s)
    PROVE  Quiet(s)
<1> DEFINE r == ses[s]
<1>1. DOMAIN r = Fields /\ r.tries \in 0..3
  BY DEF Local, Typed
<1>2. UNCHANGED <<input, trained>>
  BY DEF Rewrite, ResolveSQLProgram, CodeGenCouler, StepFails
<1>3. ASSUME NEW why, Error(s, why), why # "syntax", r.pc \notin Executing PROVE Quiet(s)
  BY <1>2, <1>3, ErrorIdle DEF Quiet
<1>4. CASE Rewrite(s)
  <2> DEFINE c == RewriteStatementsWithHints(input[s].dialect, r.text, r.all)
             u == [r EXCEPT !.pc = "resolve", !.all = c]
  <2>1. r.pc = "parsed" /\ Becomes(s, u)
    BY <1>4 DEF Rewrite, At
  <2>2. Has(u, "resolve", r.text, r.pos, r.open, c, r.tries, r.steps, r.ran, r.why)
    <3> HIDE DEF c
    <3>1. QED
      BY <1>1, Places1
  <2> HIDE DEF u
  <2>3. Local(input[s], u) /\ r.steps = <<>> /\ r.ran = <<>>
    BY <2>1, <2>2, LocalRewrite
  <2>4. Plans(s, u)
    BY <2>1, <2>2, <2>3 DEF Plans, Has
  <2>5. QED
    BY <1>2, <2>4 DEF Quiet
<1>5. CASE ResolveSQLProgram(s)
  <2>1. r.pc = "resolve"
    BY <1>5 DEF ResolveSQLProgram, At
  <2>2. /\ r.pc \notin Executing /\ "steps" \notin Executing \cup {"python"}
        /\ "filler" \notin Executing \cup {"python"}
    BY <2>1, NotExecuting, NotYet
  <2>3. CASE Go(s, "steps")
    BY <1>2, <2>1, <2>2, <2>3, GoIdle, Moves DEF Quiet
  <2>4. CASE Go(s, "filler") /\ input[s].mode # "experimental"
    BY <1>2, <2>1, <2>2, <2>4, GoIdle, Moves DEF Quiet
  <2>5. QED
    BY <1>3, <1>5, <2>2, <2>3, <2>4 DEF ResolveSQLProgram
<1>6. CASE CodeGenCouler(s)
  <2>1. r.pc = "steps" /\ Len(r.steps) = Len(r.all)
    BY <1>6 DEF CodeGenCouler, At
  <2>2. r.pc \notin Executing
    BY <2>1, NotExecuting
  <2>3. CASE Go(s, "python")
    BY <1>2, <2>1, <2>3, GoIdle, Moves DEF Quiet
  <2>4. QED
    BY <1>3, <1>6, <2>2, <2>3 DEF CodeGenCouler
<1>7. CASE StepFails(s)
  <2>1. r.pc = "done" /\ Go(s, "stopped") /\ "done" \in Executing
    BY <1>7 DEF StepFails, At, Executing
  <2>2. QED
    BY <1>2, <2>1, GoIdle, Moves DEF Quiet
<1>8. QED
  BY <1>4, <1>5, <1>6, <1>7

\* The clauses of the statements.
LEMMA ClauseIs ==
    ASSUME NEW st \in Stmts
    PROVE  /\ LegacyImage(st) \in Images \cup {"default"}
           /\ st.ext.clause = "train" => LegacyImage(st) = st.ext.image
           /\ st.ext.clause \in Users \cup {"train"} =>
                st.ext \in Tokens /\ st.ext.model \in Models /\ st.ext.image \in Images \cup {"default"}
<1>1. st.ext \in Tokens \cup {NoClause}
  BY DEF Stmts
<1>2. NoClause.clause = "none" /\ NoClause.image = "default"
  BY DEF NoClause
<1>3. st.ext.image \in Images \cup {"default"}
  BY <1>1, <1>2, TokenIs
<1>4. "none" \notin Users \cup {"train"}
  BY DEF Users
<1>5. st.ext.clause \in Users \cup {"train"} => st.ext \in Tokens
  BY <1>1, <1>2, <1>4
<1>6. QED
  BY <1>3, <1>5, TokenIs DEF LegacyImage

\* A step of a workflow.
NewStep(st, by, image) == [stmt |-> st, by |-> by, image |-> image]

\* It has the type of a step.
LEMMA StepIs ==
    ASSUME NEW st \in Stmts, NEW by \in Trainings, NEW image \in Images \cup {"default"}
    PROVE  NewStep(st, by, image) \in Steps
BY DEF Steps, NewStep

\* What it is made of.
LEMMA StepHas ==
    ASSUME NEW st, NEW by, NEW image, NEW x, x = NewStep(st, by, image)
    PROVE  x.stmt = st /\ x.by = by /\ x.image = image
BY DEF NewStep

\* No session is the trainer of a model that was there before.
LEMMA NobodyIs == Nobody \in Trainings /\ Nobody[1] = "none" /\ Nobody[1] \notin Sessions
BY FrontendAssumption DEF Nobody, Trainings

\* GenFiller makes all the steps.
LEMMA FillerQuiet ==
    ASSUME NEW s \in Sessions, Local(input[s], ses[s]), GenFiller(s)
    PROVE  Quiet(s)
<1> DEFINE r == ses[s]
           pc == IF input[s].mode = "couler" THEN "done" ELSE "python"
           steps == [i \in DOMAIN r.all |->
                       [stmt |-> r.all[i], by |-> Nobody, image |-> LegacyImage(r.all[i])]]
           u == [r EXCEPT !.pc = pc, !.steps = steps]
<1>1. DOMAIN r = Fields /\ r.all \in Seq(Stmts)
  BY DEF Local, Typed
<1>2. r.pc = "filler" /\ UNCHANGED <<input, trained>> /\ pc \in {"done", "python"}
  BY DEF GenFiller, At
<1>3. r.pc \notin Executing
  BY <1>2, NotExecuting
<1>4. Becomes(s, u) \/ Error(s, "config")
  BY DEF GenFiller
<1>5. Has(u, pc, r.text, r.pos, r.open, r.all, r.tries, steps, r.ran, r.why)
  <2> HIDE DEF steps, pc
  <2>1. QED
    BY <1>1, Places1
<1>6. /\ DOMAIN steps = DOMAIN r.all /\ Len(r.all) \in Nat /\ DOMAIN r.all = 1..Len(r.all)
      /\ \A i \in DOMAIN r.all : r.all[i] \in Stmts
  BY <1>1
<1>7. ASSUME NEW i \in DOMAIN r.all
      PROVE  /\ steps[i] \in Steps /\ steps[i].stmt = r.all[i] /\ steps[i].image = LegacyImage(r.all[i])
  <2>1. steps[i] = NewStep(r.all[i], Nobody, LegacyImage(r.all[i]))
    BY DEF NewStep
  <2>2. r.all[i] \in Stmts /\ LegacyImage(r.all[i]) \in Images \cup {"default"} /\ Nobody \in Trainings
    BY <1>6, ClauseIs, NobodyIs
  <2> HIDE DEF steps
  <2>3. QED
    BY <2>1, <2>2, StepIs, StepHas
<1>8. steps \in Seq(Steps) /\ Len(steps) = Len(r.all)
  <2>1. steps = [i \in 1..Len(r.all) |-> steps[i]]
    BY <1>6
  <2> HIDE DEF steps
  <2>2. steps \in [1..Len(r.all) -> Steps]
    BY <1>6, <1>7, <2>1
  <2>3. QED
    BY <1>6, <2>2
<1> HIDE DEF u, steps, pc
<1>9. Local(input[s], u) /\ r.ran = <<>>
  <2>1. /\ r.pc \in {"filler", "steps", "python"} /\ pc \in {"steps", "python", "done"} /\ r.why \in {r.why, "write"}
        /\ Len(steps) <= Len(r.all) /\ DOMAIN steps = DOMAIN r.all
    BY <1>2, <1>6, <1>8
  <2>2. \A i \in DOMAIN steps : steps[i].stmt = r.all[i]
    BY <1>7, <2>1
  <2>3. QED
    BY <1>5, <1>8, <2>1, <2>2, LocalSteps
<1>10. input[s].mode # "experimental"
  BY <1>2 DEF Local, Follow
<1>11. ASSUME NEW i \in DOMAIN u.steps PROVE Known(s, u, i)
  <2>1. u.steps = steps /\ u.all = r.all /\ i \in DOMAIN r.all
    BY <1>5, <1>6 DEF Has
  <2>2. u.steps[i].stmt.ext.clause = "train" => u.steps[i].image = u.steps[i].stmt.ext.image
    BY <1>6, <1>7, <2>1, ClauseIs
  <2>3. QED
    BY <1>10, <2>2 DEF Known
<1>12. CASE Becomes(s, u)
  <2>1. Plans(s, u)
    BY <1>5, <1>9, <1>11, <1>12 DEF Plans, Has
  <2>2. QED
    BY <1>2, <2>1 DEF Quiet
<1>13. CASE Error(s, "config")
  BY <1>2, <1>3, <1>13, ErrorIdle DEF Quiet
<1>14. QED
  BY <1>4, <1>12, <1>13

\* The Couler program is run, and may have been cut off.
LEMMA YAMLQuiet ==
    ASSUME NEW s \in Sessions, Local(input[s], ses[s]), GenYAML(s),
           \A i \in DOMAIN ses[s].steps : Known(s, ses[s], i)
    PROVE  Quiet(s)
<1> DEFINE r == ses[s]
<1>1. DOMAIN r = Fields /\ r.all \in Seq(Stmts) /\ r.steps \in Seq(Steps)
  BY DEF Local, Typed
<1>2. r.pc = "python" /\ UNCHANGED <<input, trained>>
  BY DEF GenYAML, At
<1>3. r.pc \notin Executing /\ r.pc \in Compiling
  BY <1>2, NotExecuting DEF Compiling
<1>4. CASE Go(s, "done")
  BY <1>2, <1>4, GoIdle, Moves DEF Quiet
<1>5. CASE Error(s, "python")
  BY <1>2, <1>3, <1>5, ErrorIdle DEF Quiet
<1>6. ASSUME NEW n \in 0..Len(r.steps),
             Becomes(s, [r EXCEPT !.pc = "done", !.why = "write", !.steps = SubSeq(@, 1, n)])
      PROVE  Quiet(s)
  <2> DEFINE steps == SubSeq(r.steps, 1, n)
             u == [r EXCEPT !.pc = "done", !.why = "write", !.steps = steps]
  <2>1. Becomes(s, u)
    BY <1>6
  <2>2. /\ steps \in Seq(Steps) /\ Len(steps) = n /\ DOMAIN steps = 1..n /\ n \in Nat
        /\ n <= Len(r.steps) /\ DOMAIN r.steps = 1..Len(r.steps)
        /\ \A i \in 1..n : steps[i] = r.steps[i] /\ i \in DOMAIN r.steps
    BY <1>1
  <2>3. Has(u, "done", r.text, r.pos, r.open, r.all, r.tries, steps, r.ran, "write")
    <3> HIDE DEF steps
    <3>1. QED
      BY <1>1 DEF Has, Fields
  <2>4. Len(r.steps) <= Len(r.all) /\ \A i \in DOMAIN r.steps : r.steps[i].stmt = r.all[i]
    BY <1>3 DEF Local, Follow
  <2>5. Len(steps) <= Len(r.all) /\ Len(r.all) \in Nat /\ \A i \in DOMAIN steps : steps[i].stmt = r.all[i]
    BY <1>1, <2>2, <2>4
  <2> HIDE DEF steps, u
  <2>6. Local(input[s], u) /\ r.ran = <<>>
    BY <1>2, <2>2, <2>3, <2>5, LocalSteps
  <2>7. ASSUME NEW i \in DOMAIN u.steps PROVE Known(s, u, i)
    <3>1. u.steps[i] = r.steps[i] /\ u.all = r.all /\ i \in DOMAIN r.steps
      BY <2>2, <2>3 DEF Has
    <3>2. Known(s, r, i)
      BY <3>1
    <3>3. QED
      BY <3>1, <3>2, Zenon DEF Known
  <2>8. Plans(s, u)
    BY <2>1, <2>3, <2>6, <2>7 DEF Plans, Has
  <2>9. QED
    BY <1>2, <2>8 DEF Quiet
<1>7. QED
  BY <1>4, <1>5, <1>6 DEF GenYAML

\* The models have images.
TrainedTyped == trained \in [Models -> [image : Images \cup {"default", "absent"}, by : Trainings]]

\* The trainings before a statement.
LEMMA TrainersAre ==
    ASSUME NEW all \in Seq(Stmts), NEW i \in 1..Len(all), Trainers(all, i) # {}
    PROVE  /\ Max(Trainers(all, i)) \in Trainers(all, i)
           /\ \A j \in Trainers(all, i) : j <= Max(Trainers(all, i)) /\ j \in 1..i - 1
<1> DEFINE T == Trainers(all, i)
<1>1. T \subseteq 1..i - 1 /\ i - 1 \in Nat
  BY DEF Trainers
<1> HIDE DEF T
<1>2. T # {}
  BY DEF T
<1>3. Max(T) \in T /\ \A y \in T : y <= Max(T)
  BY <1>1, <1>2, MaxIs
<1>4. QED
  BY <1>1, <1>3 DEF T

\* The experimental compiler makes one step more.
WithStep(r, x) == [r EXCEPT !.steps = Append(@, x)]

\* It may be made.
Making(s) ==
    /\ Local(input[s], ses[s]) /\ ses[s].pc = "steps"
    /\ \A i \in DOMAIN ses[s].steps : Known(s, ses[s], i)
    /\ UNCHANGED <<input, trained>>
    /\ Len(ses[s].steps) + 1 <= Len(ses[s].all)

\* It is the i-th step x, and the session becomes u.
Makes(s, i, x, u) ==
    /\ i = Len(ses[s].steps) + 1 /\ u = WithStep(ses[s], x) /\ Becomes(s, u)
    /\ \E image \in Images \cup {"default"}, by \in Trainings : x = NewStep(ses[s].all[i], by, image)
    /\ u.steps[i] = x /\ u.all = ses[s].all => Known(s, u, i)

\* A step that is made as it should be leaves the session as it must be.
LEMMA StepMade ==
    ASSUME NEW s \in Sessions, Making(s), NEW i, NEW x, NEW u, Makes(s, i, x, u)
    PROVE  Quiet(s)
<1> DEFINE r == ses[s]
           steps == Append(r.steps, x)
<1>0. /\ Local(input[s], r) /\ r.pc = "steps" /\ (\A j \in DOMAIN r.steps : Known(s, r, j)) /\ UNCHANGED <<input, trained>>
      /\ i = Len(r.steps) + 1 /\ i <= Len(r.all) /\ u = WithStep(r, x) /\ Becomes(s, u)
      /\ (u.steps[i] = x /\ u.all = r.all => Known(s, u, i))
  BY DEF Making, Makes
<1>1. DOMAIN r = Fields /\ r.all \in Seq(Stmts) /\ r.steps \in Seq(Steps)
  BY <1>0 DEF Local, Typed
<1>2. Len(r.steps) \in Nat /\ Len(r.all) \in Nat /\ i \in 1..Len(r.all) /\ DOMAIN r.steps = 1..Len(r.steps)
  BY <1>0, <1>1
<1>3. r.all[i] \in Stmts
  BY <1>1, <1>2
<1>4. x \in Steps /\ x.stmt = r.all[i]
  BY <1>3, StepIs, StepHas DEF Makes
<1>5. Has(u, r.pc, r.text, r.pos, r.open, r.all, r.tries, steps, r.ran, r.why)
  <2>1. u = [r EXCEPT !.steps = steps]
    BY <1>0 DEF WithStep
  <2> HIDE DEF steps
  <2>2. Has([r EXCEPT !.steps = steps], r.pc, r.text, r.pos, r.open, r.all, r.tries, steps, r.ran, r.why)
    BY <1>1, Places1
  <2>3. QED
    BY <2>1, <2>2, Zenon
<1>6. /\ steps \in Seq(Steps) /\ Len(steps) = i /\ DOMAIN steps = 1..i /\ steps[i] = x
      /\ \A j \in 1..Len(r.steps) : steps[j] = r.steps[j]
  BY <1>0, <1>1, <1>2, <1>4, AppendProperties
<1> HIDE DEF steps
<1>7. r.pc \in Compiling
  BY <1>0 DEF Compiling
<1>8. \A j \in DOMAIN r.steps : r.steps[j].stmt = r.all[j]
  BY <1>0, <1>7 DEF Local, Follow
<1>9. \A j \in DOMAIN steps : steps[j].stmt = r.all[j]
  <2> TAKE j \in DOMAIN steps
  <2>1. CASE j = i
    BY <1>4, <1>6, <2>1
  <2>2. CASE j # i
    <3>1. j \in 1..Len(r.steps)
      BY <1>0, <1>2, <1>6, <2>2
    <3>2. QED
      BY <1>2, <1>6, <1>8, <3>1
  <2>3. QED
    BY <2>1, <2>2
<1>10. Local(input[s], u) /\ r.ran = <<>>
  <2>1. /\ r.pc \in {"filler", "steps", "python"} /\ "steps" \in {"steps", "python", "done"} /\ r.why \in {r.why, "write"}
        /\ Len(steps) <= Len(r.all)
    BY <1>0, <1>6
  <2>2. QED
    BY <1>0, <1>5, <1>6, <1>9, <2>1, LocalSteps
<1>11. ASSUME NEW j \in DOMAIN u.steps PROVE Known(s, u, j)
  <2>1. u.steps = steps /\ u.all = r.all
    BY <1>5 DEF Has
  <2>2. CASE j = i
    BY <1>0, <1>6, <2>1, <2>2
  <2>3. CASE j # i
    <3>1. j \in DOMAIN r.steps
      BY <1>0, <1>2, <1>6, <2>1, <2>3
    <3>2. u.steps[j] = r.steps[j]
      BY <1>2, <1>6, <2>1, <3>1
    <3>3. Known(s, r, j)
      BY <1>0, <3>1
    <3>4. QED
      BY <2>1, <3>2, <3>3, Zenon DEF Known
  <2>4. QED
    BY <2>2, <2>3
<1>12. Plans(s, u)
  BY <1>0, <1>5, <1>10, <1>11 DEF Plans, Has
<1>13. QED
  BY <1>0, <1>12 DEF Quiet

\* GenerateStepCodeAndImage makes such a step in each of its cases, or fails.
LEMMA GenerateQuiet ==
    ASSUME NEW s \in Sessions, Local(input[s], ses[s]), GenerateStep(s), TrainedTyped, TrainedLast,
           \A i \in DOMAIN ses[s].steps : Known(s, ses[s], i)
    PROVE  Quiet(s)
<1> DEFINE r == ses[s]
           i == Len(r.steps) + 1
           st == r.all[i]
<1>1. DOMAIN r = Fields /\ r.all \in Seq(Stmts) /\ r.steps \in Seq(Steps)
  BY DEF Local, Typed
<1>2. r.pc = "steps" /\ UNCHANGED <<input, trained>> /\ i <= Len(r.all)
  BY DEF GenerateStep, At
<1>m. Making(s)
  BY <1>2 DEF Making, i
<1>3. r.pc \notin Executing
  BY <1>2, NotExecuting
<1>4. i \in 1..Len(r.all) /\ st \in Stmts
  BY <1>1, <1>2
<1> HIDE DEF i
<1>i. i = Len(r.steps) + 1
  BY DEF i
<1>5. CASE /\ st.ext.clause \notin Users
           /\ Becomes(s, [r EXCEPT !.steps = Append(@, [stmt |-> st, by |-> Nobody, image |-> LegacyImage(st)])])
  <2> DEFINE x == NewStep(st, Nobody, LegacyImage(st))
             u == WithStep(r, x)
  <2>1. x.stmt = st /\ x.image = LegacyImage(st)
    BY StepHas
  <2>2. Becomes(s, u)
    BY <1>5 DEF NewStep, WithStep
  <2> HIDE DEF u, x
  <2>3. ASSUME u.steps[i] = x PROVE Known(s, u, i)
    BY <1>4, <1>5, <2>1, <2>3, ClauseIs DEF Known
  <2>4. LegacyImage(st) \in Images \cup {"default"} /\ Nobody \in Trainings
    BY <1>4, ClauseIs, NobodyIs
  <2>5. x = NewStep(r.all[i], Nobody, LegacyImage(st)) /\ u = WithStep(r, x)
    BY DEF u, x
  <2>6. u.steps[i] = x /\ u.all = r.all => Known(s, u, i)
    BY <2>3
  <2> HIDE DEF st
  <2>7. Makes(s, i, x, u)
    BY <1>i, <2>2, <2>4, <2>5, <2>6, Zenon DEF Makes
  <2>8. QED
    BY <1>m, <2>7, StepMade
<1>6. ASSUME NEW j, j = Max(Trainers(r.all, i)), st.ext.clause \in Users, Trainers(r.all, i) # {},
             Becomes(s, [r EXCEPT !.steps = Append(@, [stmt |-> st, by |-> <<s, j>>, image |-> r.all[j].ext.image])])
      PROVE  Quiet(s)
  <2> DEFINE by == <<s, j>>
             image == r.all[j].ext.image
             x == NewStep(st, by, image)
             u == WithStep(r, x)
  <2>0. j \in Trainers(r.all, i) /\ j \in 1..i - 1
    BY <1>1, <1>4, <1>6, TrainersAre
  <2>1. j \in 1..Len(r.all) /\ j \in Nat /\ r.all[j] \in Stmts /\ r.all[j].ext.clause = "train"
    BY <1>1, <1>4, <2>0 DEF Trainers
  <2>2. image \in Images \cup {"default"} /\ by \in Trainings
    BY <2>1, ClauseIs DEF Trainings
  <2>3. x.stmt = st /\ x.by = by /\ x.image = image /\ Becomes(s, u)
    BY <1>6 DEF NewStep, WithStep
  <2> HIDE DEF u, x
  <2>4. ASSUME u.steps[i] = x, u.all = r.all PROVE Known(s, u, i)
    <3>1. st.ext.clause # "train"
      BY <1>6 DEF Users
    <3>2. Trainers(u.all, i) # {} /\ u.steps[i].by = <<s, Max(Trainers(u.all, i))>>
      BY <1>6, <2>3, <2>4
    <3>3. u.steps[i].image = u.all[Max(Trainers(u.all, i))].ext.image
      BY <1>6, <2>3, <2>4
    <3>4. u.steps[i].stmt.ext.clause # "train"
      BY <2>3, <2>4, <3>1
    <3>5. QED
      BY <3>2, <3>3, <3>4, Zenon DEF Known
  <2> HIDE DEF by, image
  <2>5. x = NewStep(r.all[i], by, image) /\ u = WithStep(r, x)
    BY DEF u, x
  <2>6. u.steps[i] = x /\ u.all = r.all => Known(s, u, i)
    BY <2>4
  <2>7. Makes(s, i, x, u)
    BY <1>i, <2>2, <2>3, <2>5, <2>6, Zenon DEF Makes
  <2>8. QED
    BY <1>m, <2>7, StepMade
<1>7. ASSUME st.ext.clause \in Users, Trainers(r.all, i) = {}, trained[st.ext.model].image # "absent",
             Becomes(s, [r EXCEPT !.steps = Append(@, [stmt |-> st, by |-> trained[st.ext.model].by,
                                                       image |-> trained[st.ext.model].image])])
      PROVE  Quiet(s)
  <2> DEFINE m == st.ext.model
             by == trained[m].by
             image == trained[m].image
             x == NewStep(st, by, image)
             u == WithStep(r, x)
  <2>1. m \in Models
    BY <1>4, <1>7, ClauseIs
  <2>2. image \in Images \cup {"default"} /\ by \in Trainings
    <3>1. trained[m] \in [image : Images \cup {"default", "absent"}, by : Trainings]
      BY <2>1 DEF TrainedTyped
    <3>2. QED
      BY <1>7, <3>1
  <2>3. x.stmt = st /\ x.by = by /\ x.image = image /\ Becomes(s, u)
    BY <1>7 DEF NewStep, WithStep
  <2>4. (by = Nobody /\ image = Stored[m]) \/ RanAs(by, image)
    BY <2>1 DEF TrainedLast
  <2> HIDE DEF u, x, by, image
  <2>5. ASSUME u.steps[i] = x, u.all = r.all PROVE Known(s, u, i)
    <3>1. st.ext.clause # "train"
      BY <1>7 DEF Users
    <3>2. u.steps[i].stmt.ext.clause # "train" /\ Trainers(u.all, i) = {}
      BY <1>7, <2>3, <2>5, <3>1
    <3>3. \/ u.steps[i].by = Nobody /\ u.steps[i].image = Stored[u.steps[i].stmt.ext.model]
          \/ RanAs(u.steps[i].by, u.steps[i].image)
      BY <2>3, <2>4, <2>5
    <3>4. QED
      BY <3>2, <3>3, Zenon DEF Known
  <2>6. x = NewStep(r.all[i], by, image) /\ u = WithStep(r, x)
    BY DEF u, x
  <2>7. u.steps[i] = x /\ u.all = r.all => Known(s, u, i)
    BY <2>5
  <2>8. Makes(s, i, x, u)
    BY <1>i, <2>2, <2>3, <2>6, <2>7, Zenon DEF Makes
  <2>9. QED
    BY <1>m, <2>8, StepMade
<1>8. CASE Error(s, "model")
  BY <1>2, <1>3, <1>8, ErrorIdle DEF Quiet
<1>9. QED
  BY <1>5, <1>6, <1>7, <1>8 DEF GenerateStep, FindModelGenerationTrainStmt, i

-----------------------------------------------------------------------------
(* Images of the steps, across sessions. *)

\* A session that is assigned.
LEMMA Replaced ==
    ASSUME DOMAIN ses = Sessions, NEW s \in Sessions, NEW u, Becomes(s, u)
    PROVE  DOMAIN ses' = Sessions /\ ses'[s] = u /\ \A o \in Sessions : o # s => ses'[o] = ses[o]
BY DEF Becomes

\* The steps that have run are still there.
RunKept ==
    \A o \in Sessions : \A i \in DOMAIN ses[o].ran :
        i \in DOMAIN ses'[o].ran /\ ses'[o].steps[i] = ses[o].steps[i]

\* RanAs and Trains after a step.
RanNext(by, image) ==
    /\ by[1] \in Sessions /\ by[2] \in DOMAIN ses'[by[1]].ran
    /\ ses'[by[1]].steps[by[2]].image = image

\* The same of Trains.
TrainsNext(s, i, m) ==
    ses'[s].steps[i].stmt.ext.clause = "train" /\ ses'[s].steps[i].stmt.ext.model = m

\* A training that was run stays one.
LEMMA RanKept ==
    ASSUME RunKept, NEW by, NEW image, RanAs(by, image)
    PROVE  RanNext(by, image)
<1>1. by[1] \in Sessions /\ by[2] \in DOMAIN ses[by[1]].ran /\ ses[by[1]].steps[by[2]].image = image
  BY DEF RanAs
<1>2. by[2] \in DOMAIN ses'[by[1]].ran /\ ses'[by[1]].steps[by[2]] = ses[by[1]].steps[by[2]]
  BY <1>1 DEF RunKept
<1>3. QED
  BY <1>1, <1>2 DEF RanNext

\* What is known of the steps stays known.
LEMMA KnownKept ==
    ASSUME RunKept, input' = input,
           \A o \in Sessions : \A i \in DOMAIN ses'[o].steps : Known(o, ses'[o], i)
    PROVE  ImageKnown'
<1> SUFFICES ASSUME NEW o \in Sessions, NEW i \in DOMAIN ses'[o].steps
    PROVE LET step == ses'[o].steps[i]
              ext == step.stmt.ext
              all == ses'[o].all
          IN /\ ext.clause = "train" => step.image = ext.image
             /\ ext.clause \in Users /\ input'[o].mode = "experimental" =>
                  IF Trainers(all, i) # {}
                  THEN step.by = <<o, Max(Trainers(all, i))>> /\ step.image = all[Max(Trainers(all, i))].ext.image
                  ELSE \/ step.by = Nobody /\ step.image = Stored[ext.model]
                       \/ RanNext(step.by, step.image)
  BY DEF ImageKnown, RanAs, RanNext
<1>1. Known(o, ses'[o], i)
  OBVIOUS
<1>2. RanAs(ses'[o].steps[i].by, ses'[o].steps[i].image) => RanNext(ses'[o].steps[i].by, ses'[o].steps[i].image)
  BY RanKept
<1>3. QED
  BY <1>1, <1>2 DEF Known

\* ImageKnown in those terms.
LEMMA KnownAll == ImageKnown <=> \A o \in Sessions : \A i \in DOMAIN ses[o].steps : Known(o, ses[o], i)
BY DEF ImageKnown, Known

\* The images of the models and of the steps.
ImagesInv == TrainedTyped /\ ImageFits /\ TrainedLast /\ ImageKnown

\* The same steps have run.
SameRan == \A o \in Sessions : ses'[o].ran = ses[o].ran /\ (ses[o].ran # <<>> => ses'[o].steps = ses[o].steps)

\* Where no step is run, the images stay right.
LEMMA SameImages ==
    ASSUME SameRan, (\A o \in Sessions : ses[o].ran \in Seq(Ran)), UNCHANGED <<input, trained>>, ImagesInv,
           \A o \in Sessions : \A i \in DOMAIN ses'[o].steps : Known(o, ses'[o], i)
    PROVE  ImagesInv'
<1>1. \A o \in Sessions : \A i \in DOMAIN ses[o].ran : ses[o].ran # <<>>
  OBVIOUS
<1>2. \A o \in Sessions : \A i \in DOMAIN ses[o].ran : ses'[o].steps = ses[o].steps
  BY <1>1 DEF SameRan
<1>3. RunKept
  BY <1>2 DEF RunKept, SameRan
<1>4. ImageKnown'
  BY <1>3, KnownKept
<1>5. TrainedTyped'
  BY DEF ImagesInv, TrainedTyped
<1>6. ImageFits'
  <2> SUFFICES ASSUME NEW o \in Sessions, NEW i \in DOMAIN ses'[o].ran
      PROVE LET step == ses'[o].steps[i]
                now == ses'[o].ran[i]
            IN input'[o].mode = "experimental" /\ step.stmt.ext.clause \in Users
                 /\ (now.by = step.by \/ now.by[1] = o) => step.image = now.image
    BY DEF ImageFits
  <2>1. ses'[o].ran = ses[o].ran /\ ses'[o].steps = ses[o].steps /\ i \in DOMAIN ses[o].ran
    BY <1>2 DEF SameRan
  <2>2. QED
    BY <2>1 DEF ImagesInv, ImageFits
<1>7. TrainedLast'
  <2> SUFFICES ASSUME NEW m \in Models
      PROVE LET by == trained'[m].by
            IN \/ by = Nobody /\ trained'[m].image = Stored[m]
               \/ /\ RanNext(by, trained'[m].image) /\ TrainsNext(by[1], by[2], m)
                  /\ \A i \in by[2] + 1..Len(ses'[by[1]].ran) : ~TrainsNext(by[1], i, m)
    BY DEF TrainedLast, RanAs, RanNext, Trains, TrainsNext
  <2> DEFINE by == trained[m].by
             image == trained[m].image
  <2>1. trained'[m].by = by /\ trained'[m].image = image
    OBVIOUS
  <2>2. CASE by = Nobody /\ image = Stored[m]
    BY <2>1, <2>2
  <2>3. CASE /\ RanAs(by, image) /\ Trains(by[1], by[2], m)
             /\ \A i \in by[2] + 1..Len(ses[by[1]].ran) : ~Trains(by[1], i, m)
    <3> HIDE DEF by, image
    <3>1. RanNext(by, image)
      BY <1>3, <2>3, RanKept
    <3>2. ses'[by[1]].ran = ses[by[1]].ran /\ ses'[by[1]].steps = ses[by[1]].steps
      BY <1>2, <2>3 DEF RanAs, SameRan
    <3>3. \A i : TrainsNext(by[1], i, m) <=> Trains(by[1], i, m)
      BY <3>2 DEF Trains, TrainsNext
    <3>4. QED
      BY <2>1, <2>3, <3>1, <3>2, <3>3
  <2>4. QED
    BY <2>2, <2>3 DEF ImagesInv, TrainedLast
<1>8. QED
  BY <1>4, <1>5, <1>6, <1>7 DEF ImagesInv

\* The sessions, each by itself.
LocalInv == DOMAIN ses = Sessions /\ \A o \in Sessions : Local(input[o], ses[o])

\* A quiet step.
LEMMA QuietStep ==
    ASSUME LocalInv, ImagesInv, NEW s \in Sessions, Quiet(s)
    PROVE  LocalInv' /\ ImagesInv'
<1>1. PICK u : Idle(s, u) \/ Plans(s, u)
  BY DEF Quiet
<1>2. UNCHANGED <<input, trained>>
  BY DEF Quiet
<1>3. Becomes(s, u) /\ Local(input[s], u) /\ u.ran = ses[s].ran /\ (ses[s].ran # <<>> => u.steps = ses[s].steps)
  BY <1>1 DEF Idle, Plans
<1>4. DOMAIN ses' = Sessions /\ ses'[s] = u /\ \A o \in Sessions : o # s => ses'[o] = ses[o]
  BY <1>3, Replaced DEF LocalInv
<1>5. \A o \in Sessions : Local(input'[o], ses'[o])
  BY <1>2, <1>3, <1>4 DEF LocalInv
<1>6. SameRan
  BY <1>3, <1>4 DEF SameRan
<1>7. \A o \in Sessions : ses[o].ran \in Seq(Ran)
  BY DEF LocalInv, Local, Typed
<1>8. \A o \in Sessions : \A i \in DOMAIN ses[o].steps : Known(o, ses[o], i)
  BY KnownAll DEF ImagesInv
<1>9. \A i \in DOMAIN u.steps : Known(s, u, i)
  <2>1. CASE Plans(s, u)
    BY <2>1 DEF Plans
  <2>2. CASE Idle(s, u)
    <3>1. u.steps = ses[s].steps /\ u.all = ses[s].all
      BY <2>2 DEF Idle
    <3> TAKE i \in DOMAIN u.steps
    <3>2. Known(s, ses[s], i)
      BY <1>8, <3>1
    <3>3. QED
      BY <3>1, <3>2 DEF Known
  <2>3. QED
    BY <1>1, <2>1, <2>2
<1>10. \A o \in Sessions : \A i \in DOMAIN ses'[o].steps : Known(o, ses'[o], i)
  BY <1>4, <1>8, <1>9
<1>11. ImagesInv'
  BY <1>2, <1>6, <1>7, <1>10, SameImages
<1>12. QED
  BY <1>4, <1>5, <1>11 DEF LocalInv

\* A model of a user is of the last training of its own session before it,
\* of the training the compiler found, or of another one.
LEMMA RunFits ==
    ASSUME LocalInv, ImagesInv, NEW s \in Sessions, ses[s].pc = "done", NEW k,
           k = Len(ses[s].ran) + 1, k <= Len(ses[s].steps), NEW m \in Models, NEW now, now = trained[m],
           input[s].mode = "experimental", ses[s].steps[k].stmt.ext.clause \in Users,
           ses[s].steps[k].stmt.ext.model = m, now.by = ses[s].steps[k].by \/ now.by[1] = s
    PROVE  ses[s].steps[k].image = now.image
<1> DEFINE r == ses[s]
           step == r.steps[k]
           by == now.by
<1>1. /\ r.steps \in Seq(Steps) /\ r.all \in Seq(Stmts) /\ r.ran \in Seq(Ran)
      /\ Len(r.steps) <= Len(r.all) /\ \A i \in DOMAIN r.steps : r.steps[i].stmt = r.all[i]
  BY DEF LocalInv, Local, Typed, Follow, Compiling, Executing
<1>2. k \in 1..Len(r.all) /\ DOMAIN r.ran = 1..k - 1 /\ k \in DOMAIN r.steps /\ DOMAIN r.steps = 1..Len(r.steps)
  BY <1>1
<1>3. \A i \in DOMAIN r.steps : Known(s, r, i)
  BY KnownAll DEF ImagesInv
<1>4. /\ r.all[k].ext.model = m
      /\ IF Trainers(r.all, k) # {}
         THEN step.by = <<s, Max(Trainers(r.all, k))>> /\ step.image = r.all[Max(Trainers(r.all, k))].ext.image
         ELSE (step.by = Nobody /\ step.image = Stored[m]) \/ RanAs(step.by, step.image)
  BY <1>1, <1>2, <1>3 DEF Known
<1>5. \/ by = Nobody /\ now.image = Stored[m]
      \/ /\ RanAs(by, now.image) /\ Trains(by[1], by[2], m)
         /\ \A i \in by[2] + 1..Len(ses[by[1]].ran) : ~Trains(by[1], i, m)
  BY DEF ImagesInv, TrainedLast
<1> HIDE DEF by, step
<1>6. by = step.by \/ by[1] = s
  BY DEF by, step
<1>7. Nobody[1] \notin Sessions
  BY NobodyIs
<1>8. CASE by = Nobody /\ now.image = Stored[m]
  <2>1. step.by = Nobody
    BY <1>6, <1>7, <1>8
  <2>2. Trainers(r.all, k) = {}
    BY <1>4, <1>7, <2>1
  <2>3. ~RanAs(step.by, step.image)
    BY <1>7, <2>1 DEF RanAs
  <2>4. QED
    BY <1>4, <1>8, <2>2, <2>3 DEF step
<1>9. CASE RanAs(by, now.image) /\ by[1] # s
  <2>1. step.by = by
    BY <1>6, <1>9
  <2>2. Trainers(r.all, k) = {}
    BY <1>4, <1>9, <2>1
  <2>3. step.by # Nobody
    BY <1>7, <1>9, <2>1 DEF RanAs
  <2>4. RanAs(by, step.image)
    BY <1>4, <2>1, <2>2, <2>3
  <2>5. QED
    BY <1>9, <2>4 DEF RanAs, step
<1>10. ASSUME RanAs(by, now.image), Trains(by[1], by[2], m), by[1] = s,
              \A i \in by[2] + 1..Len(ses[by[1]].ran) : ~Trains(by[1], i, m)
       PROVE  step.image = now.image
  <2> DEFINE b == by[2]
             j == Max(Trainers(r.all, k))
  <2>1. b \in 1..k - 1 /\ r.steps[b].image = now.image
    BY <1>2, <1>10 DEF RanAs
  <2>2. b \in DOMAIN r.steps /\ Known(s, r, b) /\ r.steps[b].stmt = r.all[b]
    BY <1>1, <1>2, <1>3, <2>1
  <2>3. r.steps[b].stmt.ext.clause = "train" /\ r.steps[b].stmt.ext.model = m
    BY <1>10 DEF Trains
  <2>4. r.all[b].ext.clause = "train" /\ r.all[b].ext.model = m /\ now.image = r.all[b].ext.image
    BY <2>1, <2>2, <2>3 DEF Known
  <2>5. b \in Trainers(r.all, k)
    BY <1>4, <2>1, <2>4 DEF Trainers
  <2>6. j \in Trainers(r.all, k) /\ b <= j /\ j \in 1..k - 1
    BY <1>1, <1>2, <2>5, TrainersAre
  <2>7. j = b
    <3> HIDE DEF j
    <3>1. r.all[j].ext.clause = "train" /\ r.all[j].ext.model = m /\ j \in DOMAIN r.steps
      BY <1>2, <1>4, <2>6 DEF Trainers
    <3>2. Trains(s, j, m)
      BY <1>1, <3>1 DEF Trains
    <3>3. j \notin b + 1..Len(r.ran)
      BY <1>10, <3>2
    <3>4. QED
      BY <1>1, <2>1, <2>6, <3>3
  <2>8. QED
    BY <1>4, <2>4, <2>5, <2>7
<1>11. QED
  BY <1>5, <1>8, <1>9, <1>10 DEF step

\* The next step runs.
LEMMA RunLocal ==
    ASSUME LocalInv, ImagesInv, NEW s \in Sessions, RunStep(s)
    PROVE  \E k, now, u, step :
             /\ k = Len(ses[s].ran) + 1 /\ k \in DOMAIN ses[s].steps /\ step = ses[s].steps[k]
             /\ now = IF step.stmt.ext.clause \in Users
                      THEN trained[step.stmt.ext.model] ELSE [image |-> "none", by |-> Nobody]
             /\ Becomes(s, u) /\ Local(input[s], u)
             /\ u.steps = ses[s].steps /\ u.all = ses[s].all /\ u.ran = Append(ses[s].ran, now)
             /\ trained' = IF step.stmt.ext.clause = "train"
                           THEN [trained EXCEPT ![step.stmt.ext.model] = [image |-> step.image, by |-> <<s, k>>]]
                           ELSE trained
             /\ step \in Steps /\ now \in Ran
<1> DEFINE r == ses[s]
           k == Len(r.ran) + 1
           step == r.steps[k]
           now == IF step.stmt.ext.clause \in Users
                  THEN trained[step.stmt.ext.model] ELSE [image |-> "none", by |-> Nobody]
           ran == Append(r.ran, now)
           u == [r EXCEPT !.ran = ran]
<1>1. DOMAIN r = Fields /\ r.steps \in Seq(Steps) /\ r.ran \in Seq(Ran) /\ Local(input[s], r)
  BY DEF LocalInv, Local, Typed
<1>2. r.pc = "done" /\ Len(r.ran) < Len(r.steps)
  BY DEF RunStep, At
<1>3. k \in DOMAIN r.steps /\ step \in Steps /\ k \in Nat
  BY <1>1, <1>2
<1>4. /\ Becomes(s, u)
      /\ trained' = IF step.stmt.ext.clause = "train"
                    THEN [trained EXCEPT ![step.stmt.ext.model] = [image |-> step.image, by |-> <<s, k>>]]
                    ELSE trained
  BY DEF RunStep
<1>5. now \in Ran
  <2>1. CASE step.stmt.ext.clause \in Users
    <3>1. step.stmt \in Stmts
      BY <1>3 DEF Steps
    <3>2. step.stmt.ext.model \in Models
      BY <2>1, <3>1, ClauseIs
    <3>3. QED
      BY <2>1, <3>2 DEF ImagesInv, TrainedTyped, Ran
  <2>2. CASE step.stmt.ext.clause \notin Users
    BY <2>2, NobodyIs DEF Ran
  <2>3. QED
    BY <2>1, <2>2
<1> HIDE DEF now
<1>6. ran \in Seq(Ran) /\ Len(ran) <= Len(r.steps)
  BY <1>1, <1>2, <1>5, AppendProperties
<1> HIDE DEF ran
<1>7. Has(u, "done", r.text, r.pos, r.open, r.all, r.tries, r.steps, ran, r.why)
  BY <1>1, <1>2, Places1
<1> HIDE DEF u
<1>8. Local(input[s], u)
  BY <1>1, <1>2, <1>6, <1>7, LocalRun
<1>9. u.steps = r.steps /\ u.all = r.all /\ u.ran = Append(r.ran, now)
  BY <1>7 DEF Has, ran
<1> HIDE DEF k, step
<1>10. /\ k = Len(r.ran) + 1 /\ step = r.steps[k]
       /\ now = IF step.stmt.ext.clause \in Users
                THEN trained[step.stmt.ext.model] ELSE [image |-> "none", by |-> Nobody]
  BY DEF k, step, now
<1>11. QED
  BY <1>3, <1>4, <1>5, <1>8, <1>9, <1>10, ZenonT(60)

\* Running it keeps the sessions and the images right.
LEMMA RunStepKeeps ==
    ASSUME LocalInv, ImagesInv, NEW s \in Sessions, RunStep(s)
    PROVE  LocalInv' /\ ImagesInv'
<1> DEFINE r == ses[s]
<1>1. PICK k, now, u, step :
             /\ k = Len(r.ran) + 1 /\ k \in DOMAIN r.steps /\ step = r.steps[k]
             /\ now = IF step.stmt.ext.clause \in Users
                      THEN trained[step.stmt.ext.model] ELSE [image |-> "none", by |-> Nobody]
             /\ Becomes(s, u) /\ Local(input[s], u)
             /\ u.steps = r.steps /\ u.all = r.all /\ u.ran = Append(r.ran, now)
             /\ trained' = IF step.stmt.ext.clause = "train"
                           THEN [trained EXCEPT ![step.stmt.ext.model] = [image |-> step.image, by |-> <<s, k>>]]
                           ELSE trained
             /\ step \in Steps /\ now \in Ran
  BY RunLocal
<1>2. input' = input /\ r.pc = "done"
  BY DEF RunStep, At
<1>3. DOMAIN ses' = Sessions /\ ses'[s] = u /\ \A o \in Sessions : o # s => ses'[o] = ses[o]
  BY <1>1, Replaced DEF LocalInv
<1>4. /\ \A o \in Sessions : ses[o].ran \in Seq(Ran) /\ ses[o].steps \in Seq(Steps)
      /\ \A o \in Sessions : DOMAIN ses[o].ran = 1..Len(ses[o].ran) /\ Len(ses[o].ran) \in Nat
  <2>1. \A o \in Sessions : ses[o].ran \in Seq(Ran) /\ ses[o].steps \in Seq(Steps)
    BY DEF LocalInv, Local, Typed
  <2>2. QED
    BY <2>1
<1>5. LocalInv'
  BY <1>1, <1>2, <1>3 DEF LocalInv
<1>6. /\ DOMAIN u.ran = 1..k /\ Len(u.ran) = k /\ u.ran[k] = now /\ k \in Nat /\ 1 <= k
      /\ \A i \in 1..k - 1 : u.ran[i] = r.ran[i]
      /\ DOMAIN r.ran = 1..k - 1
  <2> DEFINE ran == r.ran
  <2>1. /\ ran \in Seq(Ran) /\ DOMAIN ran = 1..Len(ran) /\ Len(ran) \in Nat /\ now \in Ran
        /\ u.ran = Append(ran, now) /\ k = Len(ran) + 1
    BY <1>1, <1>4
  <2> HIDE DEF ran
  <2>2. QED
    BY <2>1, AppendProperties DEF ran
<1>7. \A o \in Sessions : ses'[o].steps = ses[o].steps /\ ses'[o].all = ses[o].all
  BY <1>1, <1>3
<1>8. RunKept
  <2> SUFFICES ASSUME NEW o \in Sessions, NEW i \in DOMAIN ses[o].ran PROVE i \in DOMAIN ses'[o].ran
    BY <1>7 DEF RunKept
  <2>1. QED
    BY <1>3, <1>6
<1>9. ImageKnown'
  <2>1. \A o \in Sessions : \A i \in DOMAIN ses[o].steps : Known(o, ses[o], i)
    BY KnownAll DEF ImagesInv
  <2>2. ASSUME NEW o \in Sessions, NEW i \in DOMAIN ses'[o].steps PROVE Known(o, ses'[o], i)
    <3>1. Known(o, ses[o], i)
      BY <1>7, <2>1
    <3>2. QED
      BY <1>7, <3>1 DEF Known
  <2>3. QED
    BY <1>2, <1>8, <2>2, KnownKept
<1>10. step.stmt \in Stmts /\ step.image \in Images \cup {"default"}
  BY <1>1 DEF Steps
<1>11. step.stmt.ext.clause = "train" => step.stmt.ext.model \in Models /\ <<s, k>> \in Trainings
  BY <1>6, <1>10, ClauseIs DEF Trainings
<1>12. trained \in [Models -> [image : Images \cup {"default", "absent"}, by : Trainings]]
  BY DEF ImagesInv, TrainedTyped
<1>13. TrainedTyped'
  <2>1. CASE step.stmt.ext.clause = "train"
    BY <1>1, <1>10, <1>11, <1>12, <2>1 DEF TrainedTyped
  <2>2. CASE step.stmt.ext.clause # "train"
    BY <1>1, <1>12, <2>2 DEF TrainedTyped
  <2>3. QED
    BY <2>1, <2>2
<1>14. ImageFits'
  <2> SUFFICES ASSUME NEW o \in Sessions, NEW i \in DOMAIN ses'[o].ran,
                      input'[o].mode = "experimental", ses'[o].steps[i].stmt.ext.clause \in Users,
                      ses'[o].ran[i].by = ses'[o].steps[i].by \/ ses'[o].ran[i].by[1] = o
      PROVE ses'[o].steps[i].image = ses'[o].ran[i].image
    BY DEF ImageFits
  <2>1. CASE i \in DOMAIN ses[o].ran
    <3>1. ses'[o].ran[i] = ses[o].ran[i]
      BY <1>3, <1>6, <2>1
    <3>2. QED
      BY <1>2, <1>7, <2>1, <3>1 DEF ImagesInv, ImageFits
  <2>2. CASE i \notin DOMAIN ses[o].ran
    <3>1. o = s /\ i = k /\ ses'[o].ran[i] = now
      BY <1>3, <1>6, <2>2
    <3>2. step.stmt.ext.model \in Models /\ now = trained[step.stmt.ext.model]
      BY <1>1, <1>7, <1>10, <3>1, ClauseIs
    <3>3. r.steps \in Seq(Steps) /\ k \in DOMAIN r.steps
      BY <1>1, <1>4
    <3>4. k <= Len(r.steps)
      BY <3>3
    <3>5. /\ input[s].mode = "experimental" /\ ses[s].steps[k].stmt.ext.clause \in Users
          /\ ses[s].steps[k].stmt.ext.model = step.stmt.ext.model
          /\ now.by = ses[s].steps[k].by \/ now.by[1] = s
      BY <1>1, <1>2, <1>7, <3>1
    <3>6. ses[s].steps[k].image = now.image
      BY <1>1, <1>2, <3>2, <3>4, <3>5, RunFits
    <3>7. QED
      BY <1>7, <3>1, <3>6
  <2>3. QED
    BY <2>1, <2>2
<1>15. TrainedLast'
  <2> SUFFICES ASSUME NEW m \in Models
      PROVE LET by == trained'[m].by
            IN \/ by = Nobody /\ trained'[m].image = Stored[m]
               \/ /\ RanNext(by, trained'[m].image) /\ TrainsNext(by[1], by[2], m)
                  /\ \A i \in by[2] + 1..Len(ses'[by[1]].ran) : ~TrainsNext(by[1], i, m)
    BY DEF TrainedLast, RanAs, RanNext, Trains, TrainsNext
  <2>1. CASE step.stmt.ext.clause = "train" /\ step.stmt.ext.model = m
    <3>1. trained'[m] = [image |-> step.image, by |-> <<s, k>>]
      BY <1>1, <1>12, <2>1
    <3>2. RanNext(<<s, k>>, step.image)
      <4>0. k \in 1..k
        BY <1>6
      <4>1. k \in 1..k /\ ses'[s].ran = u.ran /\ ses'[s].steps[k] = step
        BY <1>1, <1>3, <1>7, <4>0, Zenon
      <4>2. k \in DOMAIN ses'[s].ran
        BY <1>6, <4>1
      <4>3. <<s, k>>[1] = s /\ <<s, k>>[2] = k
        OBVIOUS
      <4>4. QED
        BY <4>1, <4>2, <4>3 DEF RanNext
    <3>3. TrainsNext(s, k, m)
      BY <1>1, <1>7, <2>1 DEF TrainsNext
    <3>4. k + 1..Len(ses'[s].ran) = {}
      BY <1>3, <1>6
    <3>5. QED
      BY <3>1, <3>2, <3>3, <3>4
  <2>2. CASE ~(step.stmt.ext.clause = "train" /\ step.stmt.ext.model = m)
    <3>1. trained'[m] = trained[m]
      BY <1>1, <1>12, <2>2
    <3>2. PICK by, image : by = trained[m].by /\ image = trained[m].image
      OBVIOUS
    <3>3. CASE by = Nobody /\ image = Stored[m]
      BY <3>1, <3>2, <3>3
    <3>4. CASE /\ RanAs(by, image) /\ Trains(by[1], by[2], m)
               /\ \A i \in by[2] + 1..Len(ses[by[1]].ran) : ~Trains(by[1], i, m)
      <4>1. RanNext(by, image)
        BY <1>8, <3>4, RanKept
      <4>2. by[1] \in Sessions /\ by[2] \in DOMAIN ses[by[1]].ran
        BY <3>4 DEF RanAs
      <4>3. \A i : TrainsNext(by[1], i, m) <=> Trains(by[1], i, m)
        BY <1>7, <4>2 DEF TrainsNext, Trains
      <4>4. ~Trains(s, k, m)
        BY <1>1, <2>2 DEF Trains
      <4>5. ASSUME NEW i \in by[2] + 1..Len(ses'[by[1]].ran) PROVE ~Trains(by[1], i, m)
        <5>1. CASE by[1] = s /\ i = k
          BY <4>4, <5>1
        <5>2. CASE by[1] = s /\ i # k
          BY <1>3, <1>4, <1>6, <3>4, <4>2, <5>2
        <5>3. CASE by[1] # s
          BY <1>3, <3>4, <4>2, <5>3
        <5>4. QED
          BY <5>1, <5>2, <5>3
      <4>6. QED
        BY <3>1, <3>2, <3>4, <4>1, <4>3, <4>5
    <3>5. QED
      BY <3>2, <3>3, <3>4 DEF ImagesInv, TrainedLast
  <2>3. QED
    BY <2>1, <2>2
<1>16. QED
  BY <1>5, <1>9, <1>13, <1>14, <1>15 DEF ImagesInv

-----------------------------------------------------------------------------
(* WorkflowIsProgram. *)

\* The types of the Java server.
ServerTypes ==
    /\ lock \in Sessions \cup {"none"}
    /\ booting \in Nat /\ up \in BOOLEAN /\ late \in Nat /\ conns \in Nat

\* What is inductive of WorkflowIsProgram.
Sound == input \in Workloads /\ LocalInv /\ ImagesInv /\ ServerTypes

\* It holds at the start.
LEMMA SoundInit == Init => Sound
<1> SUFFICES ASSUME Init PROVE Sound
  OBVIOUS
<1>1. \A s \in Sessions : ses[s] = Fresh
  BY DEF Init
<1>2. /\ DOMAIN Fresh = Fields /\ Fresh.pc = "start" /\ Fresh.text = <<>> /\ Fresh.pos = 1 /\ Fresh.open = FALSE
      /\ Fresh.all = <<>> /\ Fresh.tries = 0 /\ Fresh.steps = <<>> /\ Fresh.ran = <<>> /\ Fresh.why = "none"
  BY DEF Fresh, Fields
<1>3. /\ "start" \in Pcs /\ "start" \in Reading
      /\ "start" \notin Parsing \cup Compiling \cup Executing \cup {"extended", "parsed", "analyze", "analyzed", "python"}
  BY DEF Pcs, Reading, Parsing, Connecting, Compiling, Executing
<1>4. ASSUME NEW s \in Sessions PROVE Local(input[s], ses[s])
  <2>0. Len(Fresh.text) = 0 /\ Fresh.text \in Seq(Tokens) /\ Len(Fresh.ran) = 0 /\ Len(Fresh.steps) = 0
    BY <1>2
  <2>00. Fresh.pos \in 1..Len(Fresh.text) + 1 /\ Len(Fresh.ran) <= Len(Fresh.steps) /\ Fresh.tries \in 0..3
    BY <1>2, <2>0
  <2>01. Fresh.all \in Seq(Stmts) /\ Fresh.steps \in Seq(Steps) /\ Fresh.ran \in Seq(Ran)
    BY <1>2
  <2>02. Fresh.open \in BOOLEAN
    BY <1>2
  <2>1. Typed(Fresh)
    BY <1>2, <1>3, <2>0, <2>00, <2>01, <2>02, Zenon DEF Typed
  <2>2. Refused(Fresh)
    BY <1>2 DEF Refused
  <2>3. Handed(Fresh)
    BY <1>2, <1>3 DEF Handed
  <2>4. Follow(input[s], Fresh)
    BY <1>2, <1>3 DEF Follow
  <2>5. QED
    BY <1>1, <2>1, <2>2, <2>3, <2>4 DEF Local
<1>5. LocalInv
  BY <1>4 DEF LocalInv, Init
<1>6. trained = [m \in Models |-> [image |-> Stored[m], by |-> Nobody]]
  BY DEF Init
<1>7. TrainedTyped
  BY <1>6, NobodyIs, FrontendAssumption DEF TrainedTyped
<1>8. TrainedLast
  BY <1>6 DEF TrainedLast
<1>9. ImageFits /\ ImageKnown
  BY <1>1, <1>2 DEF ImageFits, ImageKnown
<1>10. QED
  BY <1>5, <1>7, <1>8, <1>9 DEF Sound, ImagesInv, Init, ServerTypes

\* The server keeps its types.
LEMMA ServerTyped ==
    ASSUME ServerTypes, [Next]_vars
    PROVE  ServerTypes'
<1>1. CASE UNCHANGED java
  BY <1>1 DEF java, ServerTypes
<1>2. ASSUME NEW s \in Sessions, Lock(s) PROVE ServerTypes'
  BY <1>2 DEF Lock, ServerTypes
<1>3. ASSUME NEW s \in Sessions, StartServer(s) PROVE ServerTypes'
  BY <1>3 DEF StartServer, ServerTypes, java
<1>4. ASSUME NEW s \in Sessions, WaitForServer(s) PROVE ServerTypes'
  BY <1>4 DEF WaitForServer, ServerTypes, java
<1>5. ASSUME NEW s \in Sessions, Dial(s) PROVE ServerTypes'
  BY <1>5 DEF Dial, ServerTypes
<1>6. CASE ServerReady
  BY <1>6 DEF ServerReady, ServerTypes
<1>7. CASE ServerDies
  <2>1. UNCHANGED <<lock, late, conns>> /\ ((up' = FALSE /\ booting' = booting) \/ (booting > 0 /\ booting' = booting - 1 /\ up' = up))
    BY <1>7 DEF ServerDies
  <2>2. booting' \in Nat /\ up' \in BOOLEAN
    <3>1. CASE up' = FALSE /\ booting' = booting
      BY <3>1 DEF ServerTypes
    <3>2. CASE booting > 0 /\ booting' = booting - 1 /\ up' = up
      <4>1. booting' \in Nat
        BY <3>2 DEF ServerTypes
      <4>2. up' \in BOOLEAN
        BY <3>2, Zenon DEF ServerTypes
      <4>3. QED
        BY <4>1, <4>2
    <3>3. QED
      BY <2>1, <3>1, <3>2
  <2>3. QED
    BY <2>1, <2>2, Zenon DEF ServerTypes
<1>8. ASSUME NEW s \in Sessions, Parse(s) PROVE ServerTypes'
  <2>1. RemoveComments(s) \/ RemoveLineComments(s) \/ ParseURL(s) \/ ParseWithTiDB(s) \/ ParseFirstSQLFlowStmt(s)
        \/ ParseWithJava(s) => UNCHANGED java
    BY DEF RemoveComments, RemoveLineComments, ParseURL, ParseWithTiDB, ParseFirstSQLFlowStmt, ParseWithJava
  <2>2. QED
    BY <1>1, <1>2, <1>3, <1>4, <1>5, <1>8, <2>1 DEF Parse
<1>9. ASSUME NEW s \in Sessions, Compile(s) \/ RunStep(s) \/ StepFails(s) PROVE ServerTypes'
  BY <1>1, <1>9 DEF Compile, AnalyzeStart, AnalyzeStatement, DrawGraphviz, Rewrite, ResolveSQLProgram, GenFiller,
       GenerateStep, CodeGenCouler, GenYAML, RunStep, StepFails
<1>10. CASE UNCHANGED vars
  BY <1>1, <1>10 DEF vars, java
<1>11. QED
  BY <1>6, <1>7, <1>8, <1>9, <1>10 DEF Next

\* Every step keeps it.
LEMMA SoundStep == Sound /\ [Next]_vars => Sound'
<1> SUFFICES ASSUME Sound, [Next]_vars PROVE Sound'
  OBVIOUS
<1>1. LocalInv /\ ImagesInv /\ ServerTypes /\ input \in Workloads
  BY DEF Sound
<1>2. ASSUME NEW s \in Sessions PROVE Local(input[s], ses[s]) /\ \A i \in DOMAIN ses[s].steps : Known(s, ses[s], i)
  BY <1>1, KnownAll DEF LocalInv, ImagesInv
<1>3. ASSUME NEW s \in Sessions, Parse(s) PROVE Quiet(s)
  BY <1>1, <1>2, <1>3, ReadingQuiet, JavaQuiet, ParsingQuiet DEF Parse
<1>4. ASSUME NEW s \in Sessions, Compile(s) PROVE Quiet(s)
  <2>1. TrainedTyped /\ TrainedLast
    BY <1>1 DEF ImagesInv
  <2>2. CASE AnalyzeStart(s) \/ AnalyzeStatement(s) \/ DrawGraphviz(s)
    BY <1>2, <2>2, AnalyzeQuiet
  <2>3. CASE Rewrite(s) \/ ResolveSQLProgram(s) \/ CodeGenCouler(s)
    BY <1>2, <2>3, CompilerQuiet
  <2>4. CASE GenFiller(s)
    BY <1>2, <2>4, FillerQuiet
  <2>5. CASE GenYAML(s)
    BY <1>2, <2>5, YAMLQuiet
  <2>6. CASE GenerateStep(s)
    BY <1>2, <2>1, <2>6, GenerateQuiet
  <2>7. QED
    BY <1>4, <2>2, <2>3, <2>4, <2>5, <2>6 DEF Compile
<1>5. ASSUME NEW s \in Sessions, StepFails(s) PROVE Quiet(s)
  BY <1>2, <1>5, CompilerQuiet
<1>6. ASSUME NEW s \in Sessions, Parse(s) \/ Compile(s) \/ RunStep(s) \/ StepFails(s)
      PROVE  LocalInv' /\ ImagesInv'
  <2>1. CASE RunStep(s)
    BY <1>1, <2>1, RunStepKeeps
  <2>2. CASE Parse(s) \/ Compile(s) \/ StepFails(s)
    BY <1>1, <1>3, <1>4, <1>5, <2>2, QuietStep
  <2>3. QED
    BY <1>6, <2>1, <2>2
<1>7. ASSUME UNCHANGED <<input, ses, trained>> PROVE LocalInv' /\ ImagesInv'
  <2>1. LocalInv'
    BY <1>1, <1>7 DEF LocalInv
  <2>2. TrainedTyped' /\ ImageFits'
    BY <1>1, <1>7 DEF ImagesInv, TrainedTyped, ImageFits
  <2>3. TrainedLast'
    BY <1>1, <1>7 DEF ImagesInv, TrainedLast, RanAs, Trains
  <2>4. ImageKnown'
    <3>1. RunKept
      BY <1>7 DEF RunKept
    <3>2. \A o \in Sessions : \A i \in DOMAIN ses'[o].steps : Known(o, ses'[o], i)
      BY <1>2, <1>7
    <3>3. QED
      BY <1>7, <3>1, <3>2, KnownKept
  <2>5. QED
    BY <2>1, <2>2, <2>3, <2>4 DEF ImagesInv
<1>8. ASSUME ServerReady \/ ServerDies \/ UNCHANGED vars PROVE LocalInv' /\ ImagesInv'
  <2>1. UNCHANGED <<input, ses, trained>>
    BY <1>8 DEF ServerReady, ServerDies, vars
  <2>2. QED
    BY <1>7, <2>1
<1>9. LocalInv' /\ ImagesInv'
  BY <1>6, <1>8 DEF Next
<1>10. input' = input
  <2>1. ASSUME NEW s \in Sessions, Parse(s) \/ Compile(s) \/ RunStep(s) \/ StepFails(s) PROVE input' = input
    <3>1. CASE RunStep(s)
      BY <3>1 DEF RunStep
    <3>2. CASE Parse(s) \/ Compile(s) \/ StepFails(s)
      BY <1>3, <1>4, <1>5, <3>2 DEF Quiet
    <3>3. QED
      BY <2>1, <3>1, <3>2
  <2>2. CASE ServerReady \/ ServerDies \/ UNCHANGED vars
    BY <2>2 DEF ServerReady, ServerDies, vars
  <2>3. QED
    BY <2>1, <2>2 DEF Next
<1>11. ServerTypes'
  BY <1>1, ServerTyped
<1>12. QED
  BY <1>1, <1>9, <1>10, <1>11 DEF Sound

\* A session that is done parsing or compiling.
LEMMA LocalDone ==
    ASSUME NEW in, NEW r, Local(in, r)
    PROVE  /\ r.pc \in {"parsed", "analyzed"} =>
                /\ WellFormed(r.text)
                /\ Lists(Positions(r.all), Starts(r.text))
                /\ \A i \in DOMAIN r.all : OwnClause(r.text, r.all[i])
           /\ r.pc \in Executing /\ r.why # "write" =>
                /\ Lists([i \in DOMAIN r.steps |-> r.steps[i].stmt.at], Starts(r.text) \ Hints(in.dialect, r.text))
                /\ \A i \in DOMAIN r.steps :
                     r.steps[i].stmt.ext = NoClause => Lists(r.steps[i].stmt.hints, Hints(in.dialect, r.text))
<1>1. ASSUME r.pc \in {"parsed", "analyzed"}
      PROVE  /\ WellFormed(r.text)
             /\ Lists(Positions(r.all), Starts(r.text))
             /\ \A i \in DOMAIN r.all : OwnClause(r.text, r.all[i])
  <2> DEFINE text == r.text
             all == r.all
  <2>1. text \in Seq(Tokens) /\ all \in Seq(Stmts) /\ ParsedTo(text, all, Len(text) + 1, 0)
    BY <1>1 DEF Local, Typed, Handed
  <2> HIDE DEF text, all
  <2>2. {i \in Starts(text) : i < Len(text) + 1} = Starts(text)
    BY <2>1 DEF Starts
  <2>3. Lists(Positions(all), Starts(text))
    BY <2>1, <2>2, Zenon DEF ParsedTo
  <2>4. /\ \A i \in 1..Len(text) + 1 - 1 : i # 0 => ~Misplaced(text, i)
        /\ \A i \in DOMAIN all : all[i].at # 0 => OwnClause(text, all[i])
    BY <2>1 DEF ParsedTo
  <2>5. WellFormed(text)
    BY <2>1, <2>4 DEF WellFormed
  <2>6. \A i \in DOMAIN all : all[i].at # 0
    <3> TAKE i \in DOMAIN all
    <3>1. DOMAIN Positions(all) = DOMAIN all /\ Positions(all)[i] = all[i].at
      BY DEF Positions
    <3> DEFINE q == Positions(all)
    <3> HIDE DEF q
    <3>2. q[i] \in Range(q) /\ Range(q) = Starts(text)
      BY <2>3, <3>1 DEF Lists, Range, q
    <3>3. q[i] \in DOMAIN text
      BY <3>2 DEF Starts
    <3>4. QED
      BY <2>1, <3>1, <3>3 DEF q
  <2>7. QED
    BY <2>3, <2>4, <2>5, <2>6 DEF text, all
<1>2. ASSUME r.pc \in Executing, r.why # "write"
      PROVE  /\ Lists([i \in DOMAIN r.steps |-> r.steps[i].stmt.at], Starts(r.text) \ Hints(in.dialect, r.text))
             /\ \A i \in DOMAIN r.steps :
                  r.steps[i].stmt.ext = NoClause => Lists(r.steps[i].stmt.hints, Hints(in.dialect, r.text))
  <2>1. /\ Lists(Positions(r.all), Starts(r.text) \ Hints(in.dialect, r.text))
        /\ \A i \in DOMAIN r.all : r.all[i].ext = NoClause => Lists(r.all[i].hints, Hints(in.dialect, r.text))
        /\ \A i \in DOMAIN r.steps : r.steps[i].stmt = r.all[i]
        /\ Len(r.steps) = Len(r.all) /\ r.all \in Seq(Stmts) /\ r.steps \in Seq(Steps)
    BY <1>2 DEF Local, Follow, Typed, Compiling
  <2>2. DOMAIN r.steps = DOMAIN r.all
    BY <2>1
  <2>3. [i \in DOMAIN r.steps |-> r.steps[i].stmt.at] = Positions(r.all)
    BY <2>1, <2>2 DEF Positions
  <2>4. QED
    BY <2>1, <2>2, <2>3
<1>3. QED
  BY <1>1, <1>2

\* It implies the invariant that TLC checks.
LEMMA SoundWorkflow == Sound => WorkflowIsProgram
<1> SUFFICES ASSUME Sound PROVE WorkflowIsProgram
  OBVIOUS
<1>1. LocalInv /\ ImagesInv /\ ServerTypes
  BY DEF Sound
<1>2. TypeOK
  <2>1. DOMAIN Fresh = Fields
    BY DEF Fresh, Fields
  <2>2. QED
    BY <1>1, <2>1 DEF TypeOK, LocalInv, Local, Typed, Pcs, Ran, ImagesInv, TrainedTyped, ServerTypes
<1>3. ParsedExactly
  BY <1>1, LocalDone DEF ParsedExactly, LocalInv, Local, Refused
<1>4. StepsAreProgram
  BY <1>1, LocalDone DEF StepsAreProgram, LocalInv
<1>5. Turns
  BY <1>1 DEF Turns, LocalInv, Local, Handed
<1>6. Stepwise
  BY <1>1 DEF Stepwise, LocalInv, Local, Follow
<1>7. QED
  BY <1>1, <1>2, <1>3, <1>4, <1>5, <1>6 DEF WorkflowIsProgram, ImagesInv

\* Every compilation, of any program by any number of sessions, whatever
\* fails in between: only a program that is not well formed is refused as a
\* syntax error, an accepted one becomes its statements, each once, in order
\* and with its own clause (Parse, sqlflow_parser.go:59); the workflow has a
\* step for each of them (CompileToYAML, workflow.go:33); and a step that
\* uses a model runs in the image that trained the one it finds, unless
\* another session has trained it in between (findModelGenerationTrainStmt,
\* codegen_step.go:144).
THEOREM WorkflowFollowsProgram == Spec => []WorkflowIsProgram
<1>1. Init => Sound
  BY SoundInit
<1>2. Sound /\ [Next]_vars => Sound'
  BY SoundStep
<1>3. Sound => WorkflowIsProgram
  BY SoundWorkflow
<1>4. QED
  BY <1>1, <1>2, <1>3, PTL DEF Spec

-----------------------------------------------------------------------------
(***************************************************************************)
(* The dependency graph.  It is built statement by statement               *)
(* (AnalyzeStatement) in three loops: over the tables it reads, over those *)
(* it writes, and for each of these back over the statements before        *)
(* (resolveHazard).  Each loop has an invariant, proved by Induction;      *)
(* together they show that one more statement keeps the analysis right.    *)
(***************************************************************************)

\* The elements of a sequence.
LEMMA RangeIs ==
    ASSUME NEW s, NEW x
    PROVE  x \in Range(s) <=> \E i \in DOMAIN s : s[i] = x
BY DEF Range

\* One more.
LEMMA RangeAppended ==
    ASSUME NEW A, NEW s \in Seq(A), NEW x \in A
    PROVE  Append(s, x) \in Seq(A) /\ Range(Append(s, x)) = Range(s) \cup {x}
<1> DEFINE r == Append(s, x)
<1>1. /\ r \in Seq(A) /\ DOMAIN r = 1..Len(s) + 1 /\ DOMAIN s = 1..Len(s) /\ Len(s) \in Nat
      /\ r[Len(s) + 1] = x /\ \A i \in 1..Len(s) : r[i] = s[i]
  OBVIOUS
<1> HIDE DEF r
<1>2. \A y : y \in Range(r) <=> y \in Range(s) \/ y = x
  <2> TAKE y
  <2>1. y \in Range(r) <=> \E i \in 1..Len(s) + 1 : r[i] = y
    BY <1>1, RangeIs
  <2>2. y \in Range(s) <=> \E i \in 1..Len(s) : s[i] = y
    BY <1>1, RangeIs
  <2>3. QED
    BY <1>1, <2>1, <2>2
<1>3. QED
  BY <1>1, <1>2 DEF r

\* contains looks at the tables of the nodes.
LEMMA ContainsIs ==
    ASSUME NEW s, NEW t
    PROVE  ContainsTable(s, t) <=> \E x \in Range(s) : x[1] = t
BY DEF ContainsTable, Range


\* A statement of the graph.
Entries == [in : Seq(Nodes), out : Seq(Nodes)]
\* A build: the graph so far, the statement that is read, and the nodes.
Builds == [graph : Seq(Entries), in : Seq(Nodes), out : Seq(Nodes), nodes : [Tables -> Seq(Nodes)]]

\* The nodes of the i-th statement; the last is the one that is read.
Ins(b, i) == IF i = Len(b.graph) + 1 THEN Range(b.in) ELSE Range(b.graph[i].in)
\* And those it writes.
Outs(b, i) == IF i = Len(b.graph) + 1 THEN Range(b.out) ELSE Range(b.graph[i].out)
\* The statements, the one that is read included.
Spots(b) == 1..Len(b.graph) + 1

\* The nodes are numbered, and these are all there are.
Counts(b) ==
    /\ b \in Builds
    /\ \A t \in Tables : \A k \in DOMAIN b.nodes[t] : b.nodes[t][k] = <<t, k - 1>>
    /\ \A i \in Spots(b) : \A x \in Ins(b, i) \cup Outs(b, i) : x \in Nodes /\ x[2] < Len(b.nodes[x[1]])

\* Edges go forward, and a node comes from one statement.
Ahead(b) ==
    \A i, j \in Spots(b) :
        /\ Outs(b, i) \cap Ins(b, j) # {} => i < j
        /\ i # j => Outs(b, i) \cap Outs(b, j) = {}

\* What every build satisfies.
Fit(b) == Counts(b) /\ Ahead(b)

\* From b to c nodes are added, and only those of tables that are read.
Grows(b, c) ==
    /\ Len(c.graph) = Len(b.graph)
    /\ \A i \in DOMAIN b.graph : c.graph[i].in = b.graph[i].in
    /\ \A i \in Spots(b) : Outs(b, i) \subseteq Outs(c, i)
    /\ Range(b.in) \subseteq Range(c.in)
    /\ \A i \in DOMAIN b.graph : \A x \in Outs(c, i) : x \in Outs(b, i) \/ ContainsTable(b.graph[i].in, x[1])

\* What a build is made of.
LEMMA BuildIs ==
    ASSUME NEW b \in Builds
    PROVE  /\ b.graph \in Seq(Entries) /\ Len(b.graph) \in Nat /\ DOMAIN b.graph = 1..Len(b.graph)
           /\ b.in \in Seq(Nodes) /\ b.out \in Seq(Nodes)
           /\ \A t \in Tables : b.nodes[t] \in Seq(Nodes) /\ Len(b.nodes[t]) \in Nat
           /\ \A i \in DOMAIN b.graph : b.graph[i] \in Entries /\ b.graph[i].in \in Seq(Nodes) /\ b.graph[i].out \in Seq(Nodes)
           /\ Ins(b, Len(b.graph) + 1) = Range(b.in) /\ Outs(b, Len(b.graph) + 1) = Range(b.out)
           /\ \A i \in DOMAIN b.graph : i # Len(b.graph) + 1 /\ i \in Spots(b)
           /\ \A i \in DOMAIN b.graph : Ins(b, i) = Range(b.graph[i].in) /\ Outs(b, i) = Range(b.graph[i].out)
           /\ Len(b.graph) + 1 \in Spots(b)
           /\ \A i \in Spots(b) : i = Len(b.graph) + 1 \/ i \in DOMAIN b.graph
<1>1. b.graph \in Seq(Entries) /\ b.in \in Seq(Nodes) /\ b.out \in Seq(Nodes) /\ b.nodes \in [Tables -> Seq(Nodes)]
  BY DEF Builds
<1>2. Len(b.graph) \in Nat /\ DOMAIN b.graph = 1..Len(b.graph)
  BY <1>1
<1>3. \A t \in Tables : b.nodes[t] \in Seq(Nodes) /\ Len(b.nodes[t]) \in Nat
  BY <1>1
<1>4. \A i \in DOMAIN b.graph : b.graph[i] \in Entries
  BY <1>1
<1>5. \A i \in DOMAIN b.graph : b.graph[i].in \in Seq(Nodes) /\ b.graph[i].out \in Seq(Nodes)
  BY <1>4 DEF Entries
<1>6. QED
  BY <1>1, <1>2, <1>3, <1>4, <1>5 DEF Ins, Outs, Spots

\* Nodes that are added after those of b keep the numbers and the direction.
LEMMA FitKept ==
    ASSUME NEW b, Fit(b), NEW c \in Builds, Len(c.graph) = Len(b.graph), NEW n, n = Len(b.graph) + 1,
           \A t \in Tables : \A k \in DOMAIN c.nodes[t] : c.nodes[t][k] = <<t, k - 1>>,
           \A t \in Tables : Len(b.nodes[t]) <= Len(c.nodes[t]),
           \A i \in DOMAIN b.graph : Ins(c, i) = Ins(b, i),
           \A x \in Ins(c, n) : x \in Ins(b, n) \/ (x \in Nodes /\ x[2] < Len(c.nodes[x[1]])),
           \A x \in Ins(c, n) : x \notin Outs(c, n),
           \A i \in Spots(b) : \A x \in Outs(c, i) : x \in Outs(b, i) \/
               (x \in Nodes /\ Len(b.nodes[x[1]]) <= x[2] /\ x[2] < Len(c.nodes[x[1]])),
           \A i, j \in Spots(b) : i # j => \A x \in Outs(c, i) \cap Outs(c, j) : x \in Outs(b, i) \cup Outs(b, j)
    PROVE  Fit(c)
<1>1. b \in Builds /\ Spots(c) = Spots(b)
  BY DEF Fit, Counts, Spots
<1>2. \A x \in Nodes : x[1] \in Tables /\ x[2] \in Nat /\ Len(b.nodes[x[1]]) \in Nat /\ Len(c.nodes[x[1]]) \in Nat
  BY <1>1, BuildIs DEF Nodes
<1>3. \A i \in Spots(b) : i = n \/ i \in DOMAIN b.graph
  BY <1>1, BuildIs
<1>4. \A i \in Spots(b) : \A x \in Ins(b, i) \cup Outs(b, i) : x \in Nodes /\ x[2] < Len(b.nodes[x[1]])
  BY DEF Fit, Counts
<1>5. \A i \in Spots(b) : \A x \in Ins(c, i) \cup Outs(c, i) : x \in Nodes /\ x[2] < Len(c.nodes[x[1]])
  <2> SUFFICES ASSUME NEW i \in Spots(b), NEW x \in Ins(c, i) \cup Outs(c, i)
      PROVE x \in Nodes /\ x[2] < Len(c.nodes[x[1]])
    OBVIOUS
  <2>1. CASE x \in Ins(b, i) \cup Outs(b, i)
    <3>1. x \in Nodes /\ x[2] < Len(b.nodes[x[1]])
      BY <1>4, <2>1
    <3>2. x[1] \in Tables /\ Len(b.nodes[x[1]]) <= Len(c.nodes[x[1]])
      BY <1>2, <3>1
    <3>3. QED
      BY <1>2, <3>1, <3>2
  <2>2. CASE x \notin Ins(b, i) \cup Outs(b, i)
    BY <1>3, <2>2
  <2>3. QED
    BY <2>1, <2>2
<1>6. Counts(c)
  BY <1>1, <1>5 DEF Counts
<1>7. ASSUME NEW i \in Spots(b), NEW j \in Spots(b), NEW x, x \in Outs(c, i), x \in Ins(c, j) PROVE i < j
  <2>1. CASE j = n
    <3>1. i # n
      BY <1>7, <2>1
    <3>2. i \in 1..n /\ n \in Nat
      BY <1>1, BuildIs DEF Spots
    <3>3. QED
      BY <2>1, <3>1, <3>2
  <2>2. CASE j \in DOMAIN b.graph
    <3>1. x \in Ins(b, j)
      BY <1>7, <2>2
    <3>2. x \in Nodes /\ x[2] < Len(b.nodes[x[1]])
      BY <1>4, <3>1
    <3>3. x \in Outs(b, i)
      BY <1>2, <1>7, <3>2
    <3>4. QED
      BY <1>7, <3>1, <3>3 DEF Fit, Ahead
  <2>3. QED
    BY <1>3, <2>1, <2>2
<1>8. ASSUME NEW i \in Spots(b), NEW j \in Spots(b), i # j, NEW x, x \in Outs(c, i), x \in Outs(c, j) PROVE FALSE
  <2>1. x \in Outs(b, i) \cup Outs(b, j)
    BY <1>8
  <2>2. x \in Nodes /\ x[2] < Len(b.nodes[x[1]])
    BY <1>4, <2>1
  <2>3. x \in Outs(b, i) /\ x \in Outs(b, j)
    BY <1>2, <1>8, <2>2
  <2>4. QED
    BY <1>8, <2>3 DEF Fit, Ahead
<1>9. Ahead(c)
  <2> SUFFICES ASSUME NEW i \in Spots(b), NEW j \in Spots(b)
      PROVE  /\ Outs(c, i) \cap Ins(c, j) # {} => i < j
             /\ i # j => Outs(c, i) \cap Outs(c, j) = {}
    BY <1>1 DEF Ahead
  <2>1. Outs(c, i) \cap Ins(c, j) # {} => i < j
    BY <1>7
  <2>2. i # j => Outs(c, i) \cap Outs(c, j) = {}
    BY <1>8
  <2>3. QED
    BY <2>1, <2>2
<1>10. QED
  BY <1>6, <1>9 DEF Fit

\* A build, field by field.
Is(c, graph, in, out, nodes) ==
    c \in Builds /\ c.graph = graph /\ c.in = in /\ c.out = out /\ c.nodes = nodes

\* Assignments to the fields.
LEMMA BuildPut ==
    ASSUME NEW b \in Builds, NEW graph \in Seq(Entries), NEW in \in Seq(Nodes), NEW out \in Seq(Nodes),
           NEW nodes \in [Tables -> Seq(Nodes)]
    PROVE  /\ Is([b EXCEPT !.in = in], b.graph, in, b.out, b.nodes)
           /\ Is([b EXCEPT !.in = in, !.nodes = nodes], b.graph, in, b.out, nodes)
           /\ Is([b EXCEPT !.graph = graph, !.in = in, !.nodes = nodes], graph, in, b.out, nodes)
           /\ Is([b EXCEPT !.out = out, !.nodes = nodes], b.graph, b.in, out, nodes)
BY DEF Is, Builds

\* The nodes of t with one more.
WithNode(nodes, t) == [nodes EXCEPT ![t] = Append(@, <<t, Len(nodes[t])>>)]

\* The numbers go on.
NodesGo(nodes, t, new) ==
    /\ new \in [Tables -> Seq(Nodes)]
    /\ \A u \in Tables : \A k \in DOMAIN new[u] : new[u][k] = <<u, k - 1>>
    /\ \A u \in Tables : u # t => new[u] = nodes[u]
    /\ Len(new[t]) = Len(nodes[t]) + 1 /\ new[t] # <<>> /\ Last(new[t]) = <<t, Len(nodes[t])>>
    /\ \A u \in Tables : Len(nodes[u]) <= Len(new[u])

\* WithNode does that.
LEMMA NodeAdded ==
    ASSUME NEW nodes \in [Tables -> Seq(Nodes)], NEW t \in Tables,
           \A u \in Tables : \A k \in DOMAIN nodes[u] : nodes[u][k] = <<u, k - 1>>
    PROVE  <<t, Len(nodes[t])>> \in Nodes /\ NodesGo(nodes, t, WithNode(nodes, t))
<1> DEFINE new == WithNode(nodes, t)
           q == nodes[t]
           x == <<t, Len(q)>>
           r == Append(q, x)
<1>1. q \in Seq(Nodes) /\ Len(q) \in Nat /\ DOMAIN q = 1..Len(q)
  OBVIOUS
<1>2. x \in Nodes
  BY <1>1 DEF Nodes
<1>3. \A k \in DOMAIN q : q[k] = <<t, k - 1>>
  OBVIOUS
<1>4. new = [nodes EXCEPT ![t] = r]
  BY DEF WithNode
<1> HIDE DEF q, x
<1>5. /\ r \in Seq(Nodes) /\ Len(r) = Len(q) + 1 /\ DOMAIN r = 1..Len(q) + 1 /\ r[Len(q) + 1] = x /\ r # <<>>
      /\ \A k \in 1..Len(q) : r[k] = q[k]
  BY <1>1, <1>2
<1>6. \A k \in DOMAIN r : r[k] = <<t, k - 1>>
  <2> TAKE k \in DOMAIN r
  <2>1. CASE k = Len(q) + 1
    <3>1. k - 1 = Len(q)
      BY <1>1, <2>1
    <3>2. QED
      BY <1>5, <2>1, <3>1 DEF x
  <2>2. CASE k # Len(q) + 1
    BY <1>1, <1>3, <1>5, <2>2
  <2>3. QED
    BY <2>1, <2>2
<1>7. Last(r) = x
  BY <1>5 DEF Last
<1> HIDE DEF r, new
<1>8. new[t] = r /\ \A u \in Tables : u # t => new[u] = nodes[u]
  BY <1>4
<1>9. new \in [Tables -> Seq(Nodes)]
  BY <1>4, <1>5
<1>10. \A u \in Tables : Len(nodes[u]) <= Len(new[u])
  <2> TAKE u \in Tables
  <2>1. Len(nodes[u]) \in Nat
    OBVIOUS
  <2>2. CASE u = t
    BY <1>1, <1>5, <1>8, <2>2 DEF q
  <2>3. CASE u # t
    BY <1>8, <2>1, <2>3
  <2>4. QED
    BY <2>2, <2>3
<1>11. \A u \in Tables : \A k \in DOMAIN new[u] : new[u][k] = <<u, k - 1>>
  BY <1>6, <1>8
<1>12. QED
  BY <1>2, <1>5, <1>7, <1>8, <1>9, <1>10, <1>11 DEF NodesGo, q, x, new

\* The last node of a table, and the next.
LEMMA NextIs ==
    ASSUME NEW b, Counts(b), NEW t \in Tables
    PROVE  /\ b.nodes[t] # <<>> => /\ NextNode(b.nodes, t) = <<t, Len(b.nodes[t])>>
                                   /\ Last(b.nodes[t]) = <<t, Len(b.nodes[t]) - 1>>
                                   /\ Last(b.nodes[t]) \in Nodes /\ Len(b.nodes[t]) > 0
           /\ b.nodes[t] = <<>> => Len(b.nodes[t]) = 0
           /\ \A x \in Nodes : x[1] = t /\ x[2] < Len(b.nodes[t]) => b.nodes[t] # <<>>
<1> DEFINE q == b.nodes[t]
<1>1. q \in Seq(Nodes) /\ \A k \in DOMAIN q : q[k] = <<t, k - 1>>
  BY BuildIs DEF Counts
<1>2. Len(q) \in Nat /\ DOMAIN q = 1..Len(q)
  BY <1>1
<1>3. ASSUME q # <<>>
      PROVE /\ NextNode(b.nodes, t) = <<t, Len(q)>> /\ Last(q) = <<t, Len(q) - 1>> /\ Last(q) \in Nodes /\ Len(q) > 0
  <2>1. Len(q) \in DOMAIN q /\ Len(q) > 0
    BY <1>1, <1>2, <1>3
  <2>2. Last(q) = q[Len(q)] /\ Last(q) \in Nodes
    BY <1>1, <2>1 DEF Last
  <2>3. Last(q) = <<t, Len(q) - 1>>
    BY <1>1, <2>1, <2>2
  <2>4. Last(q)[2] + 1 = Len(q)
    BY <1>2, <2>3
  <2>5. NextNode(b.nodes, t) = <<t, Last(q)[2] + 1>>
    BY DEF NextNode
  <2>6. QED
    BY <2>1, <2>2, <2>3, <2>4, <2>5
<1>4. q = <<>> => Len(q) = 0
  OBVIOUS
<1>5. \A x \in Nodes : x[1] = t /\ x[2] < Len(q) => q # <<>>
  BY <1>4 DEF Nodes
<1>6. QED
  BY <1>3, <1>4, <1>5

\* The statement that is read gets the node y of t as an input, and t has
\* the nodes it had or its first one.
GetsInput(b, t, c, y) ==
    /\ Fit(c) /\ c.graph = b.graph /\ c.out = b.out /\ y[1] = t
    /\ Range(c.in) = Range(b.in) \cup {y}
    /\ \A u \in Tables : u # t \/ b.nodes[t] # <<>> => c.nodes[u] = b.nodes[u]
    /\ b.nodes[t] # <<>> => y = Last(b.nodes[t])

\* connectStatementInputs does that for one table.
LEMMA InputConnected ==
    ASSUME NEW b, Fit(b), b.out = <<>>, NEW t \in Tables
    PROVE  \E y : GetsInput(b, t, ConnectInput(b, t), y)
<1> DEFINE n == Len(b.graph) + 1
           y == IF b.nodes[t] = <<>> THEN <<t, 0>> ELSE Last(b.nodes[t])
           in == Append(b.in, y)
           nodes == IF b.nodes[t] = <<>> THEN WithNode(b.nodes, t) ELSE b.nodes
           c == ConnectInput(b, t)
<1>1. /\ b \in Builds /\ Counts(b) /\ b.nodes \in [Tables -> Seq(Nodes)] /\ b.in \in Seq(Nodes) /\ b.graph \in Seq(Entries)
      /\ \A u \in Tables : \A k \in DOMAIN b.nodes[u] : b.nodes[u][k] = <<u, k - 1>>
  BY DEF Fit, Counts, Builds
<1>2. /\ b.nodes[t] # <<>> => /\ Last(b.nodes[t]) = <<t, Len(b.nodes[t]) - 1>> /\ Last(b.nodes[t]) \in Nodes
                              /\ Len(b.nodes[t]) > 0
      /\ b.nodes[t] = <<>> => Len(b.nodes[t]) = 0
      /\ Len(b.nodes[t]) \in Nat
  BY <1>1, NextIs, BuildIs
<1>3. y \in Nodes /\ y[1] = t
  <2>1. CASE b.nodes[t] = <<>>
    BY <2>1 DEF Nodes
  <2>2. CASE b.nodes[t] # <<>>
    BY <1>2, <2>2
  <2>3. QED
    BY <2>1, <2>2
<1>4. in \in Seq(Nodes) /\ Range(in) = Range(b.in) \cup {y}
  <2> HIDE DEF y
  <2>1. QED
    BY <1>1, <1>3, RangeAppended
<1>5. /\ nodes \in [Tables -> Seq(Nodes)]
      /\ \A u \in Tables : \A k \in DOMAIN nodes[u] : nodes[u][k] = <<u, k - 1>>
      /\ \A u \in Tables : u # t \/ b.nodes[t] # <<>> => nodes[u] = b.nodes[u]
      /\ \A u \in Tables : Len(b.nodes[u]) <= Len(nodes[u])
      /\ y[2] < Len(nodes[t])
  <2>1. CASE b.nodes[t] = <<>>
    <3>1. NodesGo(b.nodes, t, nodes) /\ y[2] = 0
      BY <1>1, <2>1, NodeAdded
    <3> HIDE DEF nodes, y
    <3>2. Len(nodes[t]) = 1
      BY <1>2, <2>1, <3>1 DEF NodesGo
    <3>3. QED
      BY <2>1, <3>1, <3>2 DEF NodesGo
  <2>2. CASE b.nodes[t] # <<>>
    <3>1. nodes = b.nodes /\ y = <<t, Len(b.nodes[t]) - 1>>
      BY <1>2, <2>2
    <3>2. y[2] < Len(nodes[t])
      BY <1>2, <3>1
    <3>3. \A u \in Tables : Len(b.nodes[u]) \in Nat
      BY <1>1, BuildIs
    <3>4. QED
      BY <1>1, <3>1, <3>2, <3>3
  <2>3. QED
    BY <2>1, <2>2
<1>6. Is(c, b.graph, in, b.out, nodes)
  <2>1. CASE b.nodes[t] = <<>>
    <3>1. nodes = [b.nodes EXCEPT ![t] = <<<<t, 0>>>>]
      BY <1>2, <2>1 DEF WithNode
    <3>2. c = [b EXCEPT !.in = in, !.nodes = nodes]
      BY <2>1, <3>1 DEF ConnectInput
    <3> HIDE DEF nodes, c, in
    <3>3. QED
      BY <1>1, <1>4, <1>5, <3>2, BuildPut
  <2>2. CASE b.nodes[t] # <<>>
    <3>1. c = [b EXCEPT !.in = in] /\ nodes = b.nodes
      BY <2>2 DEF ConnectInput
    <3> HIDE DEF nodes, c, in
    <3>2. QED
      BY <1>1, <1>4, <1>5, <3>1, BuildPut
  <2>3. QED
    BY <2>1, <2>2
<1> HIDE DEF c, y, in, nodes
<1>7. c \in Builds /\ c.graph = b.graph /\ c.in = in /\ c.out = b.out /\ c.nodes = nodes
  BY <1>6 DEF Is
<1>8. /\ \A i : Outs(c, i) = Outs(b, i)
      /\ \A i \in DOMAIN b.graph : Ins(c, i) = Ins(b, i)
      /\ Ins(c, n) = Ins(b, n) \cup {y} /\ Outs(c, n) = {}
  <2>1. Range(<<>>) = {}
    BY DEF Range
  <2>2. Ins(c, n) = Range(in) /\ Ins(b, n) = Range(b.in) /\ Outs(c, n) = Range(b.out)
    BY <1>7 DEF Ins, Outs
  <2>3. \A i \in DOMAIN b.graph : i # n
    BY <1>1, BuildIs
  <2>4. \A i \in DOMAIN b.graph : Ins(c, i) = Ins(b, i)
    BY <1>7, <2>3 DEF Ins
  <2>5. \A i : Outs(c, i) = Outs(b, i)
    BY <1>7 DEF Outs
  <2>6. QED
    BY <1>4, <2>1, <2>2, <2>4, <2>5
<1>9. Fit(c)
  <2>1. Len(c.graph) = Len(b.graph)
    BY <1>7
  <2>2. \A u \in Tables : \A k \in DOMAIN c.nodes[u] : c.nodes[u][k] = <<u, k - 1>>
    BY <1>5, <1>7
  <2>3. \A u \in Tables : Len(b.nodes[u]) <= Len(c.nodes[u])
    BY <1>5, <1>7
  <2>4. \A x \in Ins(c, n) : x \in Ins(b, n) \/ (x \in Nodes /\ x[2] < Len(c.nodes[x[1]]))
    BY <1>3, <1>5, <1>7, <1>8
  <2>5. \A x \in Ins(c, n) : x \notin Outs(c, n)
    BY <1>8
  <2> HIDE DEF n
  <2>6. n = Len(b.graph) + 1
    BY DEF n
  <2>7. QED
    BY <1>7, <1>8, <2>1, <2>2, <2>3, <2>4, <2>5, <2>6, FitKept
<1>10. b.nodes[t] # <<>> => y = Last(b.nodes[t])
  BY DEF y
<1>11. GetsInput(b, t, c, y)
  BY <1>3, <1>4, <1>5, <1>7, <1>9, <1>10 DEF GetsInput
<1>12. QED
  BY <1>11 DEF c

\* The statement that is read writes a new node of t.
GetsOutput(b, t, c) ==
    /\ Fit(c) /\ c.graph = b.graph /\ c.in = b.in /\ Range(b.out) \subseteq Range(c.out)
    /\ c.nodes[t] # <<>> /\ Last(c.nodes[t]) \in Range(c.out)
    /\ \A x \in Range(c.out) : x \in Range(b.out) \/ x[1] = t
    /\ ContainsTable(c.out, t)
    /\ \A u \in Tables : u # t => c.nodes[u] = b.nodes[u]

\* NewVersion does that.
LEMMA VersionAdded ==
    ASSUME NEW b, Fit(b), NEW t \in Tables
    PROVE  GetsOutput(b, t, NewVersion(b, t))
<1> DEFINE n == Len(b.graph) + 1
           x == <<t, Len(b.nodes[t])>>
           out == Append(b.out, x)
           nodes == WithNode(b.nodes, t)
           c == NewVersion(b, t)
<1>1. /\ b \in Builds /\ Counts(b) /\ b.nodes \in [Tables -> Seq(Nodes)] /\ b.in \in Seq(Nodes) /\ b.out \in Seq(Nodes)
      /\ b.graph \in Seq(Entries)
      /\ \A u \in Tables : \A k \in DOMAIN b.nodes[u] : b.nodes[u][k] = <<u, k - 1>>
  BY DEF Fit, Counts, Builds
<1>2. /\ b.nodes[t] # <<>> => NextNode(b.nodes, t) = x
      /\ b.nodes[t] = <<>> => Len(b.nodes[t]) = 0
      /\ Len(b.nodes[t]) \in Nat
  BY <1>1, NextIs, BuildIs
<1>3. x \in Nodes /\ NodesGo(b.nodes, t, nodes)
  BY <1>1, NodeAdded
<1>4. c = [b EXCEPT !.out = out, !.nodes = nodes]
  <2>1. x = IF b.nodes[t] = <<>> THEN <<t, 0>> ELSE NextNode(b.nodes, t)
    BY <1>2
  <2>2. c = [b EXCEPT !.out = Append(@, x), !.nodes[t] = Append(@, x)]
    BY <2>1, Zenon DEF NewVersion
  <2>3. QED
    BY <2>2 DEF WithNode
<1>5. x[1] = t /\ x[2] = Len(b.nodes[t])
  OBVIOUS
<1> HIDE DEF x, nodes, c
<1>6. out \in Seq(Nodes) /\ Range(out) = Range(b.out) \cup {x}
  BY <1>1, <1>3, RangeAppended
<1> HIDE DEF out
<1>7. c \in Builds /\ c.graph = b.graph /\ c.in = b.in /\ c.out = out /\ c.nodes = nodes
  <2>1. nodes \in [Tables -> Seq(Nodes)]
    BY <1>3 DEF NodesGo
  <2>2. Is(c, b.graph, b.in, out, nodes)
    BY <1>1, <1>4, <1>6, <2>1, BuildPut
  <2>3. QED
    BY <2>2 DEF Is
<1>8. /\ \A i : Ins(c, i) = Ins(b, i)
      /\ \A i \in DOMAIN b.graph : Outs(c, i) = Outs(b, i)
      /\ Outs(c, n) = Outs(b, n) \cup {x}
  <2>1. Outs(c, n) = Range(out) /\ Outs(b, n) = Range(b.out)
    BY <1>7 DEF Outs
  <2>2. \A i \in DOMAIN b.graph : i # n
    BY <1>1, BuildIs
  <2>3. \A i \in DOMAIN b.graph : Outs(c, i) = Outs(b, i)
    BY <1>7, <2>2 DEF Outs
  <2>4. \A i : Ins(c, i) = Ins(b, i)
    BY <1>7 DEF Ins
  <2>5. QED
    BY <1>6, <2>1, <2>3, <2>4
<1>9. \A i \in Spots(b) : x \notin Ins(b, i) \cup Outs(b, i)
  BY <1>1, <1>2, <1>5 DEF Counts
<1>10. n \in Spots(b) /\ \A i \in Spots(b) : i = n \/ i \in DOMAIN b.graph
  BY <1>1, BuildIs
<1>11. Fit(c)
  <2>1. Len(c.graph) = Len(b.graph)
    BY <1>7
  <2>2. \A u \in Tables : \A k \in DOMAIN c.nodes[u] : c.nodes[u][k] = <<u, k - 1>>
    BY <1>3, <1>7 DEF NodesGo
  <2>3. \A u \in Tables : Len(b.nodes[u]) <= Len(c.nodes[u])
    BY <1>3, <1>7 DEF NodesGo
  <2>4. \A y \in Ins(c, n) : y \in Ins(b, n)
    BY <1>8
  <2>5. \A y \in Ins(c, n) : y \notin Outs(c, n)
    <3> SUFFICES ASSUME NEW y \in Ins(b, n), y \in Outs(b, n) PROVE FALSE
      BY <1>8, <1>9, <1>10
    <3>1. n < n
      BY <1>10 DEF Fit, Ahead
    <3>2. n \in Nat
      BY <1>1, BuildIs
    <3>3. QED
      BY <3>1, <3>2
  <2>6. Len(b.nodes[x[1]]) <= x[2] /\ x[2] < Len(c.nodes[x[1]])
    BY <1>2, <1>3, <1>5, <1>7 DEF NodesGo
  <2>7. \A i \in Spots(b) : \A y \in Outs(c, i) : y \in Outs(b, i) \/
               (y \in Nodes /\ Len(b.nodes[y[1]]) <= y[2] /\ y[2] < Len(c.nodes[y[1]]))
    BY <1>3, <1>8, <1>10, <2>6
  <2>8. \A i, j \in Spots(b) : i # j => \A y \in Outs(c, i) \cap Outs(c, j) : y \in Outs(b, i) \cup Outs(b, j)
    BY <1>8, <1>10
  <2> HIDE DEF n
  <2>9. n = Len(b.graph) + 1
    BY DEF n
  <2>10. \A i \in DOMAIN b.graph : Ins(c, i) = Ins(b, i)
    BY <1>8
  <2>11. QED
    BY <1>7, <2>1, <2>2, <2>3, <2>4, <2>5, <2>7, <2>8, <2>9, <2>10, FitKept
<1>12. c.nodes[t] # <<>> /\ Last(c.nodes[t]) = x /\ \A u \in Tables : u # t => c.nodes[u] = b.nodes[u]
  BY <1>3, <1>7 DEF NodesGo, x
<1>13. ContainsTable(c.out, t)
  BY <1>5, <1>6, <1>7, ContainsIs
<1>14. QED
  BY <1>5, <1>6, <1>7, <1>11, <1>12, <1>13 DEF GetsOutput, c

-----------------------------------------------------------------------------
(* resolveHazard, one statement before. *)

\* What the k-th statement has to do with t is settled.
Settled(b, k, t, c) ==
    LET n == Len(b.graph) + 1
    IN /\ Fit(c) /\ Grows(b, c) /\ c.out = b.out
       /\ c.nodes[t] # <<>> /\ \A u \in Tables : u # t => c.nodes[u] = b.nodes[u]
       /\ \A p \in DOMAIN b.graph : p # k => c.graph[p] = b.graph[p]
       /\ \A x \in Range(c.in) : x \in Range(b.in) \/ x[1] = t
       /\ ContainsTable(b.graph[k].out, t) => Outs(c, k) \cap Ins(c, n) # {}
       /\ ContainsTable(b.graph[k].in, t) /\ ~ContainsTable(b.in, t) => Outs(c, k) \cap Ins(c, n) # {}
       /\ ~ContainsTable(b.graph[k].out, t) /\ ~ContainsTable(b.graph[k].in, t) => c = b

\* The first node of a table.
LEMMA FirstIs ==
    ASSUME NEW list \in Seq(Nodes), NEW t, ContainsTable(list, t)
    PROVE  GetFirstInList(list, t) \in Range(list) /\ GetFirstInList(list, t)[1] = t
<1> DEFINE T == {i \in DOMAIN list : list[i][1] = t}
<1>1. T \subseteq Nat /\ T # {}
  BY DEF ContainsTable
<1>2. GetFirstInList(list, t) = list[Min(T)]
  BY DEF GetFirstInList
<1> HIDE DEF T
<1>3. Min(T) \in T
  BY <1>1, MinIs
<1>4. QED
  BY <1>2, <1>3 DEF T, Range

\* Write after write.
LEMMA WriteSettled ==
    ASSUME NEW b, Fit(b), NEW k \in DOMAIN b.graph, NEW t \in Tables, b.nodes[t] # <<>>, ContainsTable(b.graph[k].out, t)
    PROVE  Settled(b, k, t, WriteAfterWrite(b, k, t))
<1> DEFINE n == Len(b.graph) + 1
           y == GetFirstInList(b.graph[k].out, t)
           in == Append(b.in, y)
           c == WriteAfterWrite(b, k, t)
<1>1. /\ b \in Builds /\ Counts(b) /\ b.in \in Seq(Nodes) /\ b.graph \in Seq(Entries) /\ b.out \in Seq(Nodes)
      /\ b.nodes \in [Tables -> Seq(Nodes)]
  BY DEF Fit, Counts, Builds
<1>2. b.graph[k].out \in Seq(Nodes) /\ k \in Spots(b) /\ Outs(b, k) = Range(b.graph[k].out) /\ n \in Spots(b) /\ k # n
      /\ Ins(b, n) = Range(b.in) /\ Outs(b, n) = Range(b.out)
  BY <1>1, BuildIs
<1>3. y \in Outs(b, k) /\ y[1] = t
  BY <1>2, FirstIs
<1>4. c = [b EXCEPT !.in = in]
  BY DEF WriteAfterWrite
<1> HIDE DEF y, c
<1>5. y \in Nodes /\ y[2] < Len(b.nodes[y[1]]) /\ y \notin Outs(b, n)
  BY <1>1, <1>2, <1>3 DEF Fit, Counts, Ahead
<1>6. in \in Seq(Nodes) /\ Range(in) = Range(b.in) \cup {y}
  BY <1>1, <1>5, RangeAppended
<1> HIDE DEF in
<1>7. c \in Builds /\ c.graph = b.graph /\ c.in = in /\ c.out = b.out /\ c.nodes = b.nodes
  <2>1. Is(c, b.graph, in, b.out, b.nodes)
    BY <1>1, <1>4, <1>6, BuildPut
  <2>2. QED
    BY <2>1 DEF Is
<1>8. /\ \A i : Outs(c, i) = Outs(b, i)
      /\ \A i \in DOMAIN b.graph : Ins(c, i) = Ins(b, i)
      /\ Ins(c, n) = Ins(b, n) \cup {y}
  <2>1. Ins(c, n) = Range(in)
    BY <1>7 DEF Ins
  <2>2. \A i \in DOMAIN b.graph : i # n
    BY <1>1, BuildIs
  <2>3. \A i \in DOMAIN b.graph : Ins(c, i) = Ins(b, i)
    BY <1>7, <2>2 DEF Ins
  <2>4. \A i : Outs(c, i) = Outs(b, i)
    BY <1>7 DEF Outs
  <2>5. QED
    BY <1>2, <1>6, <2>1, <2>3, <2>4
<1>9. \A x \in Ins(b, n) : x \notin Outs(b, n)
  <2> SUFFICES ASSUME NEW x \in Ins(b, n), x \in Outs(b, n) PROVE FALSE
    OBVIOUS
  <2>1. n < n
    BY <1>2 DEF Fit, Ahead
  <2>2. n \in Nat
    BY <1>1, BuildIs
  <2>3. QED
    BY <2>1, <2>2
<1>10. Fit(c)
  <2>1. Len(c.graph) = Len(b.graph)
    BY <1>7
  <2>2. \A u \in Tables : \A j \in DOMAIN c.nodes[u] : c.nodes[u][j] = <<u, j - 1>>
    BY <1>1, <1>7 DEF Counts
  <2>3. \A u \in Tables : Len(b.nodes[u]) <= Len(c.nodes[u])
    <3>1. \A u \in Tables : Len(b.nodes[u]) \in Nat
      BY <1>1, BuildIs
    <3>2. QED
      BY <1>7, <3>1
  <2>4. \A x \in Ins(c, n) : x \in Ins(b, n) \/ (x \in Nodes /\ x[2] < Len(c.nodes[x[1]]))
    BY <1>5, <1>7, <1>8
  <2>5. \A x \in Ins(c, n) : x \notin Outs(c, n)
    BY <1>5, <1>8, <1>9
  <2> HIDE DEF n
  <2>6. n = Len(b.graph) + 1
    BY DEF n
  <2>7. QED
    BY <1>7, <1>8, <2>1, <2>2, <2>3, <2>4, <2>5, <2>6, FitKept
<1>11. Grows(b, c)
  BY <1>6, <1>7, <1>8 DEF Grows
<1>12. Outs(c, k) \cap Ins(c, n) # {}
  BY <1>3, <1>8
<1>13. \A x \in Range(c.in) : x \in Range(b.in) \/ x[1] = t
  BY <1>3, <1>6, <1>7
<1>14. QED
  BY <1>7, <1>10, <1>11, <1>12, <1>13 DEF Settled, c

\* The k-th statement gets one output more.
WithOut(graph, k, x) == [graph EXCEPT ![k].out = Append(@, x)]

\* What is left of it and what is new.
OutGiven(graph, k, x, g) ==
    /\ g \in Seq(Entries) /\ Len(g) = Len(graph) /\ DOMAIN g = DOMAIN graph
    /\ \A p \in DOMAIN graph : p # k => g[p] = graph[p]
    /\ g[k].in = graph[k].in /\ Range(g[k].out) = Range(graph[k].out) \cup {x}

\* WithOut does that.
LEMMA OutAdded ==
    ASSUME NEW graph \in Seq(Entries), NEW k \in DOMAIN graph, NEW x \in Nodes
    PROVE  OutGiven(graph, k, x, WithOut(graph, k, x))
<1> DEFINE g == WithOut(graph, k, x)
           e == graph[k]
           out == Append(e.out, x)
           f == [e EXCEPT !.out = out]
<1>1. e \in Entries /\ e.in \in Seq(Nodes) /\ e.out \in Seq(Nodes)
  <2>1. e \in Entries
    OBVIOUS
  <2> HIDE DEF e
  <2>2. QED
    BY <2>1 DEF Entries
<1>2. out \in Seq(Nodes) /\ Range(out) = Range(e.out) \cup {x}
  BY <1>1, RangeAppended
<1>3. g = [graph EXCEPT ![k] = f]
  BY DEF WithOut
<1> HIDE DEF g, e, out
<1>4. f \in Entries /\ f.in = e.in /\ f.out = out
  BY <1>1, <1>2 DEF Entries
<1> HIDE DEF f
<1>5. g \in Seq(Entries) /\ Len(g) = Len(graph) /\ DOMAIN g = DOMAIN graph /\ g[k] = f
      /\ \A p \in DOMAIN graph : p # k => g[p] = graph[p]
  BY <1>3, <1>4
<1>6. QED
  BY <1>2, <1>4, <1>5 DEF OutGiven, e, g

\* Write after read.
LEMMA ReadSettled ==
    ASSUME NEW b, Fit(b), NEW k \in DOMAIN b.graph, NEW t \in Tables, b.nodes[t] # <<>>,
           ~ContainsTable(b.graph[k].out, t), ContainsTable(b.graph[k].in, t)
    PROVE  Settled(b, k, t, WriteAfterRead(b, k, t))
<1> DEFINE n == Len(b.graph) + 1
           x == <<t, Len(b.nodes[t])>>
           graph == WithOut(b.graph, k, x)
           in == IF ContainsTable(b.in, t) THEN b.in ELSE Append(b.in, x)
           nodes == WithNode(b.nodes, t)
           c == WriteAfterRead(b, k, t)
<1>1. /\ b \in Builds /\ Counts(b) /\ b.in \in Seq(Nodes) /\ b.graph \in Seq(Entries) /\ b.out \in Seq(Nodes)
      /\ b.nodes \in [Tables -> Seq(Nodes)]
      /\ \A u \in Tables : \A j \in DOMAIN b.nodes[u] : b.nodes[u][j] = <<u, j - 1>>
  BY DEF Fit, Counts, Builds
<1>2. /\ k \in Spots(b) /\ Outs(b, k) = Range(b.graph[k].out) /\ n \in Spots(b) /\ k # n
      /\ Ins(b, n) = Range(b.in) /\ Outs(b, n) = Range(b.out) /\ n \in Nat
      /\ \A i \in DOMAIN b.graph : i # n /\ i \in Spots(b)
      /\ \A i \in Spots(b) : i = n \/ i \in DOMAIN b.graph
      /\ Len(b.nodes[t]) \in Nat
  BY <1>1, BuildIs
<1>3. NextNode(b.nodes, t) = x
  BY <1>1, NextIs
<1>4. x \in Nodes /\ NodesGo(b.nodes, t, nodes) /\ x[1] = t /\ x[2] = Len(b.nodes[t])
  BY <1>1, NodeAdded
<1>5. c = [b EXCEPT !.graph = graph, !.in = in, !.nodes = nodes]
  <2>1. c = [b EXCEPT !.graph[k].out = Append(@, x), !.in = IF ContainsTable(@, t) THEN @ ELSE Append(@, x),
                      !.nodes[t] = Append(@, x)]
    BY <1>3, Zenon DEF WriteAfterRead
  <2>2. QED
    BY <2>1 DEF WithOut, WithNode
<1> HIDE DEF x, nodes, c
<1>6. /\ graph \in Seq(Entries) /\ Len(graph) = Len(b.graph) /\ DOMAIN graph = DOMAIN b.graph
      /\ \A p \in DOMAIN b.graph : p # k => graph[p] = b.graph[p]
      /\ graph[k].in = b.graph[k].in /\ Range(graph[k].out) = Range(b.graph[k].out) \cup {x}
  <2>1. OutGiven(b.graph, k, x, graph)
    BY <1>1, <1>4, OutAdded
  <2> HIDE DEF graph
  <2>2. QED
    BY <2>1 DEF OutGiven
<1> HIDE DEF graph
<1>7. /\ in \in Seq(Nodes) /\ Range(b.in) \subseteq Range(in) /\ Range(in) \subseteq Range(b.in) \cup {x}
      /\ ~ContainsTable(b.in, t) => x \in Range(in)
  <2>1. CASE ContainsTable(b.in, t)
    BY <1>1, <2>1
  <2>2. CASE ~ContainsTable(b.in, t)
    <3>1. Append(b.in, x) \in Seq(Nodes) /\ Range(Append(b.in, x)) = Range(b.in) \cup {x}
      BY <1>1, <1>4, RangeAppended
    <3>2. in = Append(b.in, x)
      BY <2>2
    <3>3. QED
      BY <3>1, <3>2
  <2>3. QED
    BY <2>1, <2>2
<1> HIDE DEF in
<1>8. c \in Builds /\ c.graph = graph /\ c.in = in /\ c.out = b.out /\ c.nodes = nodes
  <2>1. nodes \in [Tables -> Seq(Nodes)]
    BY <1>4 DEF NodesGo
  <2>2. Is(c, graph, in, b.out, nodes)
    BY <1>1, <1>5, <1>6, <1>7, <2>1, BuildPut
  <2>3. QED
    BY <2>2 DEF Is
<1>9. /\ \A i \in DOMAIN b.graph : Ins(c, i) = Ins(b, i)
      /\ \A i \in Spots(b) : i # k => Outs(c, i) = Outs(b, i)
      /\ Outs(c, k) = Outs(b, k) \cup {x}
      /\ Ins(c, n) = Range(in)
  <2>1. ASSUME NEW i \in DOMAIN b.graph PROVE Ins(c, i) = Ins(b, i) /\ Outs(c, i) = Range(graph[i].out) /\ Outs(b, i) = Range(b.graph[i].out)
    <3>1. c.graph[i].in = b.graph[i].in
      BY <1>6, <1>8
    <3>2. i # Len(c.graph) + 1 /\ i # Len(b.graph) + 1
      BY <1>2, <1>6, <1>8
    <3>3. QED
      BY <1>8, <3>1, <3>2 DEF Ins, Outs
  <2>2. Ins(c, n) = Range(in) /\ Outs(c, n) = Outs(b, n)
    BY <1>6, <1>8 DEF Ins, Outs
  <2>3. QED
    BY <1>2, <1>6, <2>1, <2>2
<1>10. \A i \in Spots(b) : x \notin Ins(b, i) \cup Outs(b, i)
  BY <1>1, <1>2, <1>4 DEF Counts
<1>11. Fit(c)
  <2>1. Len(c.graph) = Len(b.graph)
    BY <1>6, <1>8
  <2>2. \A u \in Tables : \A j \in DOMAIN c.nodes[u] : c.nodes[u][j] = <<u, j - 1>>
    BY <1>4, <1>8 DEF NodesGo
  <2>3. \A u \in Tables : Len(b.nodes[u]) <= Len(c.nodes[u])
    BY <1>4, <1>8 DEF NodesGo
  <2>4. Len(b.nodes[x[1]]) <= x[2] /\ x[2] < Len(c.nodes[x[1]])
    BY <1>2, <1>4, <1>8 DEF NodesGo
  <2>5. \A y \in Ins(c, n) : y \in Ins(b, n) \/ (y \in Nodes /\ y[2] < Len(c.nodes[y[1]]))
    BY <1>2, <1>4, <1>7, <1>9, <2>4
  <2>6. \A y \in Ins(c, n) : y \notin Outs(c, n)
    <3> SUFFICES ASSUME NEW y \in Ins(b, n), y \in Outs(b, n) PROVE FALSE
      BY <1>2, <1>7, <1>9, <1>10
    <3>1. n < n
      BY <1>2 DEF Fit, Ahead
    <3>2. QED
      BY <1>2, <3>1
  <2>7. \A i \in Spots(b) : \A y \in Outs(c, i) : y \in Outs(b, i) \/
               (y \in Nodes /\ Len(b.nodes[y[1]]) <= y[2] /\ y[2] < Len(c.nodes[y[1]]))
    BY <1>4, <1>9, <2>4
  <2>8. \A i, j \in Spots(b) : i # j => \A y \in Outs(c, i) \cap Outs(c, j) : y \in Outs(b, i) \cup Outs(b, j)
    BY <1>9
  <2> HIDE DEF n
  <2>9. n = Len(b.graph) + 1
    BY DEF n
  <2>10. QED
    BY <1>8, <1>9, <2>1, <2>2, <2>3, <2>5, <2>6, <2>7, <2>8, <2>9, FitKept
<1>12. Grows(b, c)
  <2>1. \A i \in DOMAIN b.graph : c.graph[i].in = b.graph[i].in
    BY <1>6, <1>8
  <2>2. \A i \in DOMAIN b.graph : \A y \in Outs(c, i) : y \in Outs(b, i) \/ ContainsTable(b.graph[i].in, y[1])
    BY <1>2, <1>4, <1>9
  <2>3. QED
    BY <1>6, <1>7, <1>8, <1>9, <2>1, <2>2 DEF Grows
<1>13. ~ContainsTable(b.in, t) => Outs(c, k) \cap Ins(c, n) # {}
  BY <1>7, <1>9
<1>14. \A y \in Range(c.in) : y \in Range(b.in) \/ y[1] = t
  BY <1>4, <1>7, <1>8
<1>15. c.nodes[t] # <<>> /\ \A u \in Tables : u # t => c.nodes[u] = b.nodes[u]
  BY <1>4, <1>8 DEF NodesGo
<1>16. QED
  BY <1>6, <1>8, <1>11, <1>12, <1>13, <1>14, <1>15 DEF Settled, c

\* A build stays as it is.
LEMMA GrowsSame == \A b : Grows(b, b)
BY DEF Grows

\* One statement of resolveHazard.
LEMMA StatementSettled ==
    ASSUME NEW b, Fit(b), NEW k \in DOMAIN b.graph, NEW t \in Tables, b.nodes[t] # <<>>
    PROVE  Settled(b, k, t, ResolveWith(b, k, t))
<1>1. CASE ContainsTable(b.graph[k].out, t)
  <2>1. ResolveWith(b, k, t) = WriteAfterWrite(b, k, t)
    BY <1>1, Zenon DEF ResolveWith
  <2>2. QED
    BY <1>1, <2>1, WriteSettled
<1>2. CASE ~ContainsTable(b.graph[k].out, t) /\ ContainsTable(b.graph[k].in, t)
  <2>1. ResolveWith(b, k, t) = WriteAfterRead(b, k, t)
    BY <1>2 DEF ResolveWith
  <2>2. QED
    BY <1>2, <2>1, ReadSettled
<1>3. CASE ~ContainsTable(b.graph[k].out, t) /\ ~ContainsTable(b.graph[k].in, t)
  <2>1. ResolveWith(b, k, t) = b
    BY <1>3 DEF ResolveWith
  <2>2. Settled(b, k, t, b)
    BY <1>3, GrowsSame DEF Settled
  <2>3. QED
    BY <2>1, <2>2
<1>4. QED
  BY <1>1, <1>2, <1>3

-----------------------------------------------------------------------------
(* The three loops. *)

\* One turn of each of the three loops.
NextBuild(loop, q, b, i) ==
    CASE loop = "back" -> ResolveWith(b, q.n - i + 1, q.t)
      [] loop = "in" -> ConnectInput(b, q[i])
      [] OTHER -> ConnectOutput(b, q[i])

\* What defines them, at one turn.
Loop(loop, q, b, f, i) == IF i = 0 THEN b ELSE NextBuild(loop, q, f[i - 1], i)

\* The recursion of a loop has a solution.
LEMMA LoopSolved ==
    ASSUME NEW loop, NEW q, NEW b, NEW n \in Nat
    PROVE  \E f : f = [i \in 0..n |-> Loop(loop, q, b, f, i)]
<1> DEFINE G == {m \in 0..n : \E f : f = [i \in 0..m |-> Loop(loop, q, b, f, i)]}
<1>1. 0 \in G
  <2> DEFINE f == [i \in 0..0 |-> b]
  <2>1. f = [i \in 0..0 |-> Loop(loop, q, b, f, i)]
    BY DEF Loop
  <2>2. QED
    BY <2>1
<1>2. ASSUME NEW m \in 1..n, m - 1 \in G PROVE m \in G
  <2>1. PICK f : f = [i \in 0..m - 1 |-> Loop(loop, q, b, f, i)]
    BY <1>2
  <2>2. \A i \in 0..m - 1 : f[i] = Loop(loop, q, b, f, i)
    BY <2>1, Zenon
  <2> DEFINE g == [i \in 0..m |-> IF i = m THEN Loop(loop, q, b, f, m) ELSE f[i]]
  <2>3. ASSUME NEW i \in 0..m PROVE g[i] = Loop(loop, q, b, g, i)
    <3>1. CASE i = m
      BY <3>1 DEF Loop
    <3>2. CASE i < m
      BY <2>2, <3>2 DEF Loop
    <3>3. QED
      BY <3>1, <3>2
  <2>4. g = [i \in 0..m |-> Loop(loop, q, b, g, i)]
    BY <2>3
  <2> HIDE DEF g
  <2>5. \E h : h = [i \in 0..m |-> Loop(loop, q, b, h, i)]
    BY <2>4, Zenon
  <2>6. m \in 0..n
    OBVIOUS
  <2>7. QED
    BY <2>5, <2>6, Zenon
<1> HIDE DEF G
<1>3. n \in G
  BY <1>1, <1>2, Induction
<1>4. QED
  BY <1>3 DEF G

\* The turns of resolveHazard, of connectStatementInputs and of
\* connectStatementOutputs, as they are written.
BackTurn(n, t, b0, f, j) ==
    IF j = 0 THEN b0 ELSE CHOOSE r \in {ResolveWith(b, n - j + 1, t) : b \in {f[j - 1]}} : TRUE
\* The same of connectStatementInputs.
InTurn(tables, b0, f, i) ==
    IF i = 0 THEN b0 ELSE CHOOSE r \in {ConnectInput(b, tables[i]) : b \in {f[i - 1]}} : TRUE
\* The same of connectStatementOutputs.
OutTurn(tables, b0, f, i) ==
    IF i = 0 THEN b0 ELSE CHOOSE r \in {ConnectOutput(b, tables[i]) : b \in {f[i - 1]}} : TRUE

\* They are those turns.
LEMMA BackTurnIs ==
    ASSUME NEW n, NEW t, NEW b0, NEW f, NEW j
    PROVE  BackTurn(n, t, b0, f, j) = Loop("back", [n |-> n, t |-> t], b0, f, j)
<1>1. CASE j = 0
  BY <1>1 DEF BackTurn, Loop
<1>2. CASE j # 0
  <2> DEFINE y == ResolveWith(f[j - 1], n - j + 1, t)
  <2>1. {ResolveWith(b, n - j + 1, t) : b \in {f[j - 1]}} = {y}
    OBVIOUS
  <2>2. NextBuild("back", [n |-> n, t |-> t], f[j - 1], j) = y
    BY DEF NextBuild
  <2> HIDE DEF y
  <2>3. (CHOOSE r \in {y} : TRUE) = y
    OBVIOUS
  <2>4. QED
    BY <1>2, <2>1, <2>2, <2>3 DEF BackTurn, Loop
<1>3. QED
  BY <1>1, <1>2

\* Likewise of connectStatementInputs.
LEMMA InTurnIs ==
    ASSUME NEW tables, NEW b0, NEW f, NEW i
    PROVE  InTurn(tables, b0, f, i) = Loop("in", tables, b0, f, i)
<1>1. CASE i = 0
  BY <1>1 DEF InTurn, Loop
<1>2. CASE i # 0
  <2> DEFINE y == ConnectInput(f[i - 1], tables[i])
  <2>1. {ConnectInput(b, tables[i]) : b \in {f[i - 1]}} = {y}
    OBVIOUS
  <2>2. NextBuild("in", tables, f[i - 1], i) = y
    BY DEF NextBuild
  <2> HIDE DEF y
  <2>3. (CHOOSE r \in {y} : TRUE) = y
    OBVIOUS
  <2>4. QED
    BY <1>2, <2>1, <2>2, <2>3 DEF InTurn, Loop
<1>3. QED
  BY <1>1, <1>2

\* Likewise of connectStatementOutputs.
LEMMA OutTurnIs ==
    ASSUME NEW tables, NEW b0, NEW f, NEW i
    PROVE  OutTurn(tables, b0, f, i) = Loop("out", tables, b0, f, i)
<1>1. CASE i = 0
  BY <1>1 DEF OutTurn, Loop
<1>2. CASE i # 0
  <2> DEFINE y == ConnectOutput(f[i - 1], tables[i])
  <2>1. {ConnectOutput(b, tables[i]) : b \in {f[i - 1]}} = {y}
    OBVIOUS
  <2>2. NextBuild("out", tables, f[i - 1], i) = y
    BY DEF NextBuild
  <2> HIDE DEF y
  <2>3. (CHOOSE r \in {y} : TRUE) = y
    OBVIOUS
  <2>4. QED
    BY <1>2, <2>1, <2>2, <2>3 DEF OutTurn, Loop
<1>3. QED
  BY <1>1, <1>2

\* The turns of a loop, and where it ends.
Turned(loop, q, b, n, f) == \A i \in 0..n : f[i] = Loop(loop, q, b, f, i)

\* resolveHazard is such a loop.
LEMMA BackTurned ==
    ASSUME NEW b, NEW t, Len(b.graph) \in Nat
    PROVE  \E f : /\ Turned("back", [n |-> Len(b.graph), t |-> t], b, Len(b.graph), f)
                  /\ ResolveHazard(b, t) = f[Len(b.graph)]
<1> DEFINE n == Len(b.graph)
           q == [n |-> n, t |-> t]
           g == CHOOSE f : f = [j \in 0..n |-> BackTurn(n, t, b, f, j)]
<1> HIDE DEF q
<1>1. PICK f : f = [i \in 0..n |-> Loop("back", q, b, f, i)]
  <2>1. n \in Nat
    OBVIOUS
  <2> HIDE DEF n
  <2>2. \E f : f = [i \in 0..n |-> Loop("back", q, b, f, i)]
    BY <2>1, LoopSolved
  <2>3. QED
    BY <2>2, Zenon
<1>2. f = [j \in 0..n |-> BackTurn(n, t, b, f, j)]
  <2>1. \A j \in 0..n : BackTurn(n, t, b, f, j) = Loop("back", q, b, f, j)
    BY BackTurnIs DEF q
  <2>2. [j \in 0..n |-> BackTurn(n, t, b, f, j)] = [j \in 0..n |-> Loop("back", q, b, f, j)]
    BY <2>1, Zenon
  <2>3. QED
    BY <1>1, <2>2, Zenon
<1>3. g = [j \in 0..n |-> BackTurn(n, t, b, g, j)]
  BY <1>2, Zenon
<1>4. ResolveHazard(b, t) = g[n]
  BY DEF ResolveHazard, BackTurn
<1> HIDE DEF g
<1>5. \A j \in 0..n : g[j] = BackTurn(n, t, b, g, j)
  BY <1>3, Zenon
<1>6. \A j \in 0..n : g[j] = Loop("back", q, b, g, j)
  BY <1>5, BackTurnIs DEF q
<1>7. QED
  BY <1>4, <1>6 DEF Turned, q

\* connectStatementInputs is one.
LEMMA InTurned ==
    ASSUME NEW b, NEW tables, Len(tables) \in Nat
    PROVE  \E f : Turned("in", tables, b, Len(tables), f) /\ ConnectStatementInputs(b, tables) = f[Len(tables)]
<1> DEFINE n == Len(tables)
           g == CHOOSE f : f = [i \in 0..n |-> InTurn(tables, b, f, i)]
<1>1. PICK f : f = [i \in 0..n |-> Loop("in", tables, b, f, i)]
  BY LoopSolved
<1>2. f = [i \in 0..n |-> InTurn(tables, b, f, i)]
  <2>1. [i \in 0..n |-> InTurn(tables, b, f, i)] = [i \in 0..n |-> Loop("in", tables, b, f, i)]
    BY InTurnIs
  <2>2. QED
    BY <1>1, <2>1, Zenon
<1>3. g = [i \in 0..n |-> InTurn(tables, b, g, i)]
  BY <1>2, Zenon
<1>4. ConnectStatementInputs(b, tables) = g[n]
  BY DEF ConnectStatementInputs, InTurn
<1> HIDE DEF g
<1>5. \A i \in 0..n : g[i] = InTurn(tables, b, g, i)
  BY <1>3, Zenon
<1>6. \A i \in 0..n : g[i] = Loop("in", tables, b, g, i)
  BY <1>5, InTurnIs
<1>7. QED
  BY <1>4, <1>6 DEF Turned

\* And connectStatementOutputs.
LEMMA OutTurned ==
    ASSUME NEW b, NEW tables, Len(tables) \in Nat
    PROVE  \E f : Turned("out", tables, b, Len(tables), f) /\ ConnectStatementOutputs(b, tables) = f[Len(tables)]
<1> DEFINE n == Len(tables)
           g == CHOOSE f : f = [i \in 0..n |-> OutTurn(tables, b, f, i)]
<1>1. PICK f : f = [i \in 0..n |-> Loop("out", tables, b, f, i)]
  BY LoopSolved
<1>2. f = [i \in 0..n |-> OutTurn(tables, b, f, i)]
  <2>1. [i \in 0..n |-> OutTurn(tables, b, f, i)] = [i \in 0..n |-> Loop("out", tables, b, f, i)]
    BY OutTurnIs
  <2>2. QED
    BY <1>1, <2>1, Zenon
<1>3. g = [i \in 0..n |-> OutTurn(tables, b, g, i)]
  BY <1>2, Zenon
<1>4. ConnectStatementOutputs(b, tables) = g[n]
  BY DEF ConnectStatementOutputs, OutTurn
<1> HIDE DEF g
<1>5. \A i \in 0..n : g[i] = OutTurn(tables, b, g, i)
  BY <1>3, Zenon
<1>6. \A i \in 0..n : g[i] = Loop("out", tables, b, g, i)
  BY <1>5, OutTurnIs
<1>7. QED
  BY <1>4, <1>6 DEF Turned

\* The first turn changes nothing, and the others follow the one before.
TurnByTurn(loop, q, b, n, f) == f[0] = b /\ \A i \in 1..n : f[i] = NextBuild(loop, q, f[i - 1], i)

\* So it is in each of them.
LEMMA TurnIs ==
    ASSUME NEW loop, NEW q, NEW b, NEW n \in Nat, NEW f, Turned(loop, q, b, n, f)
    PROVE  TurnByTurn(loop, q, b, n, f)
<1>1. 0 \in 0..n /\ \A i \in 1..n : i \in 0..n /\ i # 0
  OBVIOUS
<1>2. QED
  BY <1>1, Zenon DEF Turned, Loop, TurnByTurn

\* The first i tables that are read have been connected.
ReadUpTo(b, tables, i, c) ==
    /\ Fit(c) /\ c.graph = b.graph /\ c.out = <<>>
    /\ \A x \in Range(c.in) : x[1] \in Range(tables)
    /\ \A j \in 1..i : /\ ContainsTable(c.in, tables[j])
                       /\ b.nodes[tables[j]] # <<>> => Last(b.nodes[tables[j]]) \in Range(c.in)
    /\ \A u \in Tables : b.nodes[u] # <<>> => c.nodes[u] = b.nodes[u]

\* One more.
LEMMA ReadOne ==
    ASSUME NEW b, NEW tables \in Seq(Tables), NEW i \in 1..Len(tables), NEW c, ReadUpTo(b, tables, i - 1, c)
    PROVE  ReadUpTo(b, tables, i, ConnectInput(c, tables[i]))
<1> DEFINE t == tables[i]
           d == ConnectInput(c, t)
<1>1. t \in Tables /\ t \in Range(tables)
  <2>1. i \in DOMAIN tables
    OBVIOUS
  <2>2. QED
    BY <2>1, RangeIs
<1>2. Fit(c) /\ c.out = <<>>
  BY DEF ReadUpTo
<1> HIDE DEF t
<1>3. PICK y : GetsInput(c, t, d, y)
  BY <1>1, <1>2, InputConnected
<1> HIDE DEF d
<1>4. /\ Fit(d) /\ d.graph = c.graph /\ d.out = c.out /\ y[1] = t
      /\ Range(d.in) = Range(c.in) \cup {y}
      /\ \A u \in Tables : u # t \/ c.nodes[t] # <<>> => d.nodes[u] = c.nodes[u]
      /\ c.nodes[t] # <<>> => y = Last(c.nodes[t])
  BY <1>3 DEF GetsInput
<1>5. \A u : ContainsTable(c.in, u) => ContainsTable(d.in, u)
  BY <1>4, ContainsIs
<1>6. ContainsTable(d.in, t)
  BY <1>4, ContainsIs
<1>7. b.nodes[t] # <<>> => c.nodes[t] = b.nodes[t] /\ y = Last(b.nodes[t])
  BY <1>1, <1>4 DEF ReadUpTo
<1>8. ASSUME NEW j \in 1..i
      PROVE /\ ContainsTable(d.in, tables[j])
            /\ b.nodes[tables[j]] # <<>> => Last(b.nodes[tables[j]]) \in Range(d.in)
  <2>1. CASE j = i
    BY <1>4, <1>6, <1>7, <2>1 DEF t
  <2>2. CASE j # i
    <3>1. j \in 1..i - 1
      BY <2>2
    <3>2. QED
      BY <1>4, <1>5, <3>1 DEF ReadUpTo
  <2>3. QED
    BY <2>1, <2>2
<1>9. \A u \in Tables : b.nodes[u] # <<>> => d.nodes[u] = b.nodes[u]
  BY <1>4 DEF ReadUpTo
<1>10. d.graph = b.graph /\ d.out = <<>>
  BY <1>4 DEF ReadUpTo
<1>11. \A x \in Range(d.in) : x[1] \in Range(tables)
  BY <1>1, <1>4 DEF ReadUpTo
<1>12. QED
  BY <1>4, <1>8, <1>9, <1>10, <1>11 DEF ReadUpTo, d, t

\* connectStatementInputs, all tables.
LEMMA AllRead ==
    ASSUME NEW b, Fit(b), b.in = <<>>, b.out = <<>>, NEW tables \in Seq(Tables)
    PROVE  ReadUpTo(b, tables, Len(tables), ConnectStatementInputs(b, tables))
<1> DEFINE n == Len(tables)
<1>1. n \in Nat
  OBVIOUS
<1>2. PICK f : Turned("in", tables, b, n, f) /\ ConnectStatementInputs(b, tables) = f[n]
  BY <1>1, InTurned
<1>3. f[0] = b /\ \A i \in 1..n : f[i] = ConnectInput(f[i - 1], tables[i])
  <2>1. f[0] = b /\ \A i \in 1..n : f[i] = NextBuild("in", tables, f[i - 1], i)
    <3> HIDE DEF n
    <3>1. n \in Nat /\ Turned("in", tables, b, n, f)
      BY <1>1, <1>2
    <3>2. TurnByTurn("in", tables, b, n, f)
      BY <3>1, TurnIs
    <3>3. QED
      BY <3>2 DEF TurnByTurn
  <2>2. \A c, i : NextBuild("in", tables, c, i) = ConnectInput(c, tables[i])
    BY DEF NextBuild
  <2>3. QED
    BY <2>1, <2>2
<1> HIDE DEF n
<1> DEFINE G == {m \in 0..n : ReadUpTo(b, tables, m, f[m])}
<1>4. 0 \in G
  <2>1. Range(<<>>) = {}
    BY DEF Range
  <2>2. ReadUpTo(b, tables, 0, b)
    BY <2>1 DEF ReadUpTo
  <2>3. 0 \in 0..n
    BY <1>1
  <2>4. QED
    BY <1>3, <2>2, <2>3
<1>5. ASSUME NEW m \in 1..n, m - 1 \in G PROVE m \in G
  <2>1. m \in 1..Len(tables) /\ m \in 0..n
    BY <1>1 DEF n
  <2>2. ReadUpTo(b, tables, m - 1, f[m - 1])
    BY <1>5
  <2>3. ReadUpTo(b, tables, m, f[m])
    BY <1>3, <2>1, <2>2, ReadOne
  <2>4. QED
    BY <2>1, <2>3
<1> HIDE DEF G
<1>6. n \in 0..n
  BY <1>1
<1>7. n \in G
  BY <1>1, <1>4, <1>5, <1>6, Induction
<1>8. QED
  BY <1>2, <1>7 DEF G, n

\* There is an edge from the p-th statement to the one that is read.
Joined(b, p) == Outs(b, p) \cap Ins(b, Len(b.graph) + 1) # {}

\* The p-th statement has to do with t.
Reads(b, p, t) == ContainsTable(b.graph[p].in, t)
\* And writes it.
Writes(b, p, t) == ContainsTable(b.graph[p].out, t)

\* Nodes are only added.
LEMMA GrowsOn ==
    ASSUME NEW a \in Builds, NEW b \in Builds, NEW c \in Builds, Grows(a, b), Grows(b, c)
    PROVE  Grows(a, c)
<1>1. Len(b.graph) = Len(a.graph) /\ Len(c.graph) = Len(b.graph)
  BY DEF Grows
<1>2. DOMAIN b.graph = DOMAIN a.graph /\ Spots(b) = Spots(a)
  BY <1>1, BuildIs DEF Spots
<1>3. \A i \in DOMAIN a.graph : c.graph[i].in = a.graph[i].in /\ b.graph[i].in = a.graph[i].in
  BY <1>2 DEF Grows
<1>4. \A i \in Spots(a) : Outs(a, i) \subseteq Outs(c, i)
  BY <1>2 DEF Grows
<1>5. Range(a.in) \subseteq Range(c.in)
  BY DEF Grows
<1>6. ASSUME NEW i \in DOMAIN a.graph, NEW x \in Outs(c, i) PROVE x \in Outs(a, i) \/ ContainsTable(a.graph[i].in, x[1])
  <2>1. x \in Outs(b, i) \/ ContainsTable(b.graph[i].in, x[1])
    BY <1>2 DEF Grows
  <2>2. CASE x \in Outs(b, i)
    BY <2>2 DEF Grows
  <2>3. CASE ContainsTable(b.graph[i].in, x[1])
    BY <1>3, <2>3
  <2>4. QED
    BY <2>1, <2>2, <2>3
<1>7. QED
  BY <1>1, <1>3, <1>4, <1>5, <1>6 DEF Grows

\* What that means for one statement.
LEMMA GrowsAt ==
    ASSUME NEW b \in Builds, NEW c \in Builds, Grows(b, c), NEW p \in DOMAIN b.graph
    PROVE  /\ Joined(b, p) => Joined(c, p)
           /\ DOMAIN c.graph = DOMAIN b.graph /\ Len(c.graph) = Len(b.graph)
           /\ \A t : Writes(b, p, t) => Writes(c, p, t)
           /\ \A t : Reads(c, p, t) <=> Reads(b, p, t)
           /\ \A t : Writes(c, p, t) => Writes(b, p, t) \/ Reads(b, p, t)
<1>1. Len(c.graph) = Len(b.graph) /\ c.graph[p].in = b.graph[p].in
  BY DEF Grows
<1>2. DOMAIN c.graph = DOMAIN b.graph
  BY <1>1, BuildIs
<1>3. /\ Ins(b, Len(b.graph) + 1) = Range(b.in) /\ Ins(c, Len(c.graph) + 1) = Range(c.in)
      /\ p \in Spots(b) /\ Outs(b, p) = Range(b.graph[p].out) /\ Outs(c, p) = Range(c.graph[p].out)
  BY <1>2, BuildIs
<1>4. Outs(b, p) \subseteq Outs(c, p) /\ Range(b.in) \subseteq Range(c.in)
  BY <1>3 DEF Grows
<1>5. Joined(b, p) => Joined(c, p)
  BY <1>3, <1>4 DEF Joined
<1>6. \A t : Writes(b, p, t) => Writes(c, p, t)
  BY <1>3, <1>4, ContainsIs DEF Writes
<1>7. \A t : Reads(c, p, t) <=> Reads(b, p, t)
  BY <1>1 DEF Reads
<1>8. ASSUME NEW t, Writes(c, p, t) PROVE Writes(b, p, t) \/ Reads(b, p, t)
  <2>1. PICK x \in Outs(c, p) : x[1] = t
    BY <1>3, <1>8, ContainsIs DEF Writes
  <2>2. x \in Outs(b, p) \/ ContainsTable(b.graph[p].in, t)
    BY <2>1 DEF Grows
  <2>3. CASE x \in Outs(b, p)
    BY <1>3, <2>1, <2>3, ContainsIs DEF Writes
  <2>4. CASE ContainsTable(b.graph[p].in, t)
    BY <2>4 DEF Reads
  <2>5. QED
    BY <2>2, <2>3, <2>4
<1>9. QED
  BY <1>1, <1>2, <1>5, <1>6, <1>7, <1>8

\* The last j statements before have been settled.
Backed(b, t, j, c) ==
    LET n == Len(b.graph)
    IN /\ Fit(c) /\ Grows(b, c) /\ c.out = b.out
       /\ c.nodes[t] # <<>> /\ \A u \in Tables : u # t => c.nodes[u] = b.nodes[u]
       /\ \A p \in 1..n - j : c.graph[p] = b.graph[p]
       /\ \A x \in Range(c.in) : x \in Range(b.in) \/ x[1] = t
       /\ \A p \in n - j + 1..n : Writes(b, p, t) => Joined(c, p)

\* And the one before them.
LEMMA BackOne ==
    ASSUME NEW b \in Builds, NEW t \in Tables, NEW j \in 1..Len(b.graph), NEW c, Backed(b, t, j - 1, c)
    PROVE  Backed(b, t, j, ResolveWith(c, Len(b.graph) - j + 1, t))
<1> DEFINE n == Len(b.graph)
           k == n - j + 1
           d == ResolveWith(c, k, t)
<1>1. n \in Nat /\ DOMAIN b.graph = 1..n /\ n - (j - 1) = k /\ n - (j - 1) + 1 = k + 1 /\ k \in 1..n /\ n - j = k - 1 /\ k \in Nat
  BY BuildIs
<1>2. /\ Fit(c) /\ Grows(b, c) /\ c.out = b.out
      /\ c.nodes[t] # <<>> /\ \A u \in Tables : u # t => c.nodes[u] = b.nodes[u]
      /\ \A p \in 1..k : c.graph[p] = b.graph[p]
      /\ \A x \in Range(c.in) : x \in Range(b.in) \/ x[1] = t
      /\ \A p \in k + 1..n : Writes(b, p, t) => Joined(c, p)
  BY <1>1 DEF Backed
<1> HIDE DEF n, k
<1>3. c \in Builds /\ Len(c.graph) = n /\ DOMAIN c.graph = 1..n
  <2>1. c \in Builds
    BY <1>2 DEF Fit, Counts
  <2>2. QED
    BY <1>1, <1>2, <2>1, GrowsAt, BuildIs DEF Grows, n
<1>4. Settled(c, k, t, d)
  BY <1>1, <1>2, <1>3, StatementSettled
<1> HIDE DEF d
<1>5. /\ Fit(d) /\ Grows(c, d) /\ d.out = c.out
      /\ d.nodes[t] # <<>> /\ \A u \in Tables : u # t => d.nodes[u] = c.nodes[u]
      /\ \A p \in 1..n : p # k => d.graph[p] = c.graph[p]
      /\ \A x \in Range(d.in) : x \in Range(c.in) \/ x[1] = t
      /\ Writes(c, k, t) => Outs(d, k) \cap Ins(d, n + 1) # {}
  BY <1>3, <1>4, Zenon DEF Settled, Writes
<1>6. d \in Builds
  BY <1>5 DEF Fit, Counts
<1>7. Grows(b, d) /\ Len(d.graph) = n
  <2>1. Grows(b, d)
    BY <1>2, <1>3, <1>5, <1>6, GrowsOn
  <2>2. Len(d.graph) = Len(c.graph)
    BY <1>5 DEF Grows
  <2>3. QED
    BY <1>3, <2>1, <2>2
<1>8. Joined(d, k) <=> Outs(d, k) \cap Ins(d, n + 1) # {}
  BY <1>7 DEF Joined
<1>9. Writes(c, k, t) <=> Writes(b, k, t)
  BY <1>1, <1>2 DEF Writes
<1>10. \A p \in 1..n : Joined(c, p) => Joined(d, p)
  BY <1>3, <1>5, <1>6, GrowsAt
<1>11. \A p \in 1..k - 1 : d.graph[p] = b.graph[p]
  BY <1>1, <1>2, <1>5
<1>12. \A x \in Range(d.in) : x \in Range(b.in) \/ x[1] = t
  BY <1>2, <1>5
<1>13. \A p \in k..n : p = k \/ p \in k + 1..n
  BY <1>1
<1>14. \A p \in k + 1..n : p \in 1..n
  BY <1>1
<1>15. \A p \in k..n : Writes(b, p, t) => Joined(d, p)
  BY <1>2, <1>5, <1>8, <1>9, <1>10, <1>13, <1>14
<1>16. d.out = b.out /\ d.nodes[t] # <<>> /\ \A u \in Tables : u # t => d.nodes[u] = b.nodes[u]
  BY <1>2, <1>5
<1>17. n - j + 1 = k /\ n - j = k - 1
  BY <1>1 DEF k
<1>18. Backed(b, t, j, d)
  BY <1>5, <1>7, <1>11, <1>12, <1>15, <1>16, <1>17, Zenon DEF Backed, n
<1>19. QED
  BY <1>18 DEF d, k, n

\* resolveHazard.
LEMMA HazardResolved ==
    ASSUME NEW b, Fit(b), NEW t \in Tables, b.nodes[t] # <<>>
    PROVE  Backed(b, t, Len(b.graph), ResolveHazard(b, t))
<1> DEFINE n == Len(b.graph)
           q == [n |-> n, t |-> t]
<1>1. b \in Builds /\ n \in Nat
  BY BuildIs DEF Fit, Counts
<1>2. PICK f : Turned("back", q, b, n, f) /\ ResolveHazard(b, t) = f[n]
  BY <1>1, BackTurned
<1>3. f[0] = b /\ \A i \in 1..n : f[i] = ResolveWith(f[i - 1], n - i + 1, t)
  <2>1. f[0] = b /\ \A i \in 1..n : f[i] = NextBuild("back", q, f[i - 1], i)
    <3>1. TurnByTurn("back", q, b, n, f)
      BY <1>1, <1>2, TurnIs
    <3>2. QED
      BY <3>1 DEF TurnByTurn
  <2>2. q.n = n /\ q.t = t
    OBVIOUS
  <2> HIDE DEF q
  <2>3. QED
    BY <2>1, <2>2 DEF NextBuild
<1> HIDE DEF n, q
<1> DEFINE G == {m \in 0..n : Backed(b, t, m, f[m])}
<1>4. 0 \in G
  <2>1. Backed(b, t, 0, b)
    <3>1. \A p \in n - 0 + 1..n : FALSE
      BY <1>1
    <3>2. QED
      BY <3>1, GrowsSame DEF Backed, n
  <2>2. 0 \in 0..n
    BY <1>1
  <2>3. QED
    BY <1>3, <2>1, <2>2
<1>5. ASSUME NEW m \in 1..n, m - 1 \in G PROVE m \in G
  <2>1. m \in 1..Len(b.graph) /\ m \in 0..n
    BY <1>1 DEF n
  <2>2. Backed(b, t, m - 1, f[m - 1])
    BY <1>5
  <2>3. Backed(b, t, m, ResolveWith(f[m - 1], n - m + 1, t))
    BY <1>1, <2>1, <2>2, BackOne DEF n
  <2>4. Backed(b, t, m, f[m])
    BY <1>3, <2>3
  <2>5. QED
    BY <2>1, <2>4
<1> HIDE DEF G
<1>6. n \in 0..n
  BY <1>1
<1>7. n \in G
  BY <1>1, <1>4, <1>5, <1>6, Induction
<1>8. QED
  BY <1>2, <1>7 DEF G, n

-----------------------------------------------------------------------------
(* One table that is written. *)

\* A table that is written follows all who wrote it.
Follower(b, t, c) == \A p \in DOMAIN b.graph : Writes(b, p, t) => Joined(c, p)

\* What connectStatementOutputs does for one table.
OneWritten(b, t, c) ==
    /\ Fit(c) /\ Grows(b, c) /\ Follower(b, t, c)
    /\ c.nodes[t] # <<>> /\ Last(c.nodes[t]) \in Range(c.out) /\ ContainsTable(c.out, t)
    /\ \A u \in Tables : u # t => c.nodes[u] = b.nodes[u]
    /\ \A x \in Range(c.in) : x \in Range(b.in) \/ x[1] = t
    /\ \A x \in Range(c.out) : x \in Range(b.out) \/ x[1] = t

\* A new version leaves the statements before as they are.
LEMMA VersionGrows ==
    ASSUME NEW b, Fit(b), NEW c, NEW t, GetsOutput(b, t, c)
    PROVE  Grows(b, c)
<1>1. b \in Builds /\ c \in Builds /\ c.graph = b.graph /\ c.in = b.in /\ Range(b.out) \subseteq Range(c.out)
  BY DEF GetsOutput, Fit, Counts
<1>2. \A i \in DOMAIN b.graph : Outs(c, i) = Outs(b, i)
  BY <1>1, BuildIs
<1>3. Outs(b, Len(b.graph) + 1) \subseteq Outs(c, Len(b.graph) + 1)
  BY <1>1, BuildIs
<1>4. \A i \in Spots(b) : i = Len(b.graph) + 1 \/ i \in DOMAIN b.graph
  BY <1>1, BuildIs
<1>5. \A i \in Spots(b) : Outs(b, i) \subseteq Outs(c, i)
  BY <1>2, <1>3, <1>4
<1>6. QED
  BY <1>1, <1>2, <1>5 DEF Grows

\* A table without nodes is in no statement.
LEMMA NodelessUnused ==
    ASSUME NEW b, Fit(b), NEW t \in Tables, b.nodes[t] = <<>>
    PROVE  \A p \in DOMAIN b.graph : ~Reads(b, p, t) /\ ~Writes(b, p, t)
<1> SUFFICES ASSUME NEW p \in DOMAIN b.graph, Reads(b, p, t) \/ Writes(b, p, t) PROVE FALSE
  OBVIOUS
<1>1. b \in Builds
  BY DEF Fit, Counts
<1>2. p \in Spots(b) /\ Ins(b, p) = Range(b.graph[p].in) /\ Outs(b, p) = Range(b.graph[p].out)
  BY <1>1, BuildIs
<1>3. \E x \in Ins(b, p) \cup Outs(b, p) : x[1] = t
  BY <1>2, ContainsIs DEF Reads, Writes
<1>4. PICK x \in Ins(b, p) \cup Outs(b, p) : x[1] = t
  BY <1>3
<1>5. x \in Nodes /\ x[2] < Len(b.nodes[x[1]])
  BY <1>2 DEF Fit, Counts
<1>6. Counts(b)
  BY DEF Fit
<1>7. b.nodes[t] # <<>>
  BY <1>4, <1>5, <1>6, NextIs
<1>8. QED
  BY <1>7

\* It does that.
LEMMA OutputConnected ==
    ASSUME NEW b, Fit(b), NEW t \in Tables
    PROVE  OneWritten(b, t, ConnectOutput(b, t))
<1> DEFINE m == IF b.nodes[t] = <<>> THEN b ELSE ResolveHazard(b, t)
           c == NewVersion(m, t)
           n == Len(b.graph)
<1>1. b \in Builds /\ n \in Nat /\ DOMAIN b.graph = 1..n
  BY BuildIs DEF Fit, Counts
<1>2. ConnectOutput(b, t) = c
  BY DEF ConnectOutput
<1>3. /\ Fit(m) /\ Grows(b, m) /\ m.out = b.out
      /\ \A u \in Tables : u # t => m.nodes[u] = b.nodes[u]
      /\ \A x \in Range(m.in) : x \in Range(b.in) \/ x[1] = t
      /\ Follower(b, t, m)
  <2>1. CASE b.nodes[t] = <<>>
    <3>1. m = b
      BY <2>1
    <3> HIDE DEF m
    <3>2. Follower(b, t, m)
      BY <2>1, NodelessUnused DEF Follower
    <3>3. QED
      BY <3>1, <3>2, GrowsSame
  <2>2. CASE b.nodes[t] # <<>>
    <3>1. Backed(b, t, n, m)
      BY <2>2, HazardResolved
    <3> HIDE DEF m
    <3>2. n - n + 1 = 1
      BY <1>1
    <3>3. Follower(b, t, m)
      BY <1>1, <3>1, <3>2, Zenon DEF Backed, Follower
    <3>4. QED
      BY <3>1, <3>3, Zenon DEF Backed
  <2>3. QED
    BY <2>1, <2>2
<1> HIDE DEF m
<1>4. GetsOutput(m, t, c)
  BY <1>3, VersionAdded
<1> HIDE DEF c
<1>5. /\ Fit(c) /\ c.graph = m.graph /\ c.in = m.in
      /\ c.nodes[t] # <<>> /\ Last(c.nodes[t]) \in Range(c.out)
      /\ \A x \in Range(c.out) : x \in Range(m.out) \/ x[1] = t
      /\ ContainsTable(c.out, t)
      /\ \A u \in Tables : u # t => c.nodes[u] = m.nodes[u]
  BY <1>4 DEF GetsOutput
<1>6. Grows(m, c) /\ m \in Builds /\ c \in Builds
  BY <1>3, <1>4, <1>5, VersionGrows DEF Fit, Counts
<1>7. Grows(b, c)
  BY <1>1, <1>3, <1>6, GrowsOn
<1>8. DOMAIN m.graph = DOMAIN b.graph
  BY <1>1, <1>3, <1>6, BuildIs DEF Grows
<1>9. \A p \in DOMAIN b.graph : Joined(m, p) => Joined(c, p)
  BY <1>6, <1>8, GrowsAt
<1>10. Follower(b, t, c)
  BY <1>3, <1>9 DEF Follower
<1>11. \A u \in Tables : u # t => c.nodes[u] = b.nodes[u]
  BY <1>3, <1>5
<1>12. \A x \in Range(c.in) : x \in Range(b.in) \/ x[1] = t
  BY <1>3, <1>5
<1>13. \A x \in Range(c.out) : x \in Range(b.out) \/ x[1] = t
  BY <1>3, <1>5
<1>14. OneWritten(b, t, c)
  BY <1>5, <1>7, <1>10, <1>11, <1>12, <1>13 DEF OneWritten
<1>15. QED
  BY <1>2, <1>14

\* The first i tables that are written have been connected.
WrittenUpTo(b, tables, i, c) ==
    /\ Fit(c) /\ Grows(b, c)
    /\ \A x \in Range(c.in) : x \in Range(b.in) \/ \E j \in 1..i : x[1] = tables[j]
    /\ \A x \in Range(c.out) : \E j \in 1..i : x[1] = tables[j]
    /\ \A j \in 1..i : /\ Follower(b, tables[j], c) /\ ContainsTable(c.out, tables[j])
                       /\ c.nodes[tables[j]] # <<>> /\ Last(c.nodes[tables[j]]) \in Range(c.out)
    /\ \A u \in Tables : (\A j \in 1..i : tables[j] # u) => c.nodes[u] = b.nodes[u]

\* One more.
LEMMA WriteOne ==
    ASSUME NEW b \in Builds, NEW tables \in Seq(Tables), NEW i \in 1..Len(tables), NEW c,
           WrittenUpTo(b, tables, i - 1, c)
    PROVE  WrittenUpTo(b, tables, i, ConnectOutput(c, tables[i]))
<1> DEFINE t == tables[i]
           d == ConnectOutput(c, t)
<1>1. t \in Tables /\ \A j \in 1..i : tables[j] \in Tables
  OBVIOUS
<1>2. /\ Fit(c) /\ Grows(b, c)
      /\ \A x \in Range(c.in) : x \in Range(b.in) \/ \E j \in 1..i - 1 : x[1] = tables[j]
      /\ \A x \in Range(c.out) : \E j \in 1..i - 1 : x[1] = tables[j]
      /\ \A j \in 1..i - 1 : /\ Follower(b, tables[j], c) /\ ContainsTable(c.out, tables[j])
                             /\ c.nodes[tables[j]] # <<>> /\ Last(c.nodes[tables[j]]) \in Range(c.out)
      /\ \A u \in Tables : (\A j \in 1..i - 1 : tables[j] # u) => c.nodes[u] = b.nodes[u]
  BY DEF WrittenUpTo
<1>3. i \in 1..i /\ (\A j \in 1..i - 1 : j \in 1..i) /\ \A j \in 1..i : j = i \/ j \in 1..i - 1
  OBVIOUS
<1> HIDE DEF t
<1>4. OneWritten(c, t, d)
  BY <1>1, <1>2, OutputConnected
<1> HIDE DEF d
<1>5. /\ Fit(d) /\ Grows(c, d) /\ Follower(c, t, d)
      /\ d.nodes[t] # <<>> /\ Last(d.nodes[t]) \in Range(d.out) /\ ContainsTable(d.out, t)
      /\ \A u \in Tables : u # t => d.nodes[u] = c.nodes[u]
      /\ \A x \in Range(d.in) : x \in Range(c.in) \/ x[1] = t
      /\ \A x \in Range(d.out) : x \in Range(c.out) \/ x[1] = t
  BY <1>4 DEF OneWritten
<1>6. c \in Builds /\ d \in Builds
  BY <1>2, <1>5 DEF Fit, Counts
<1>7. Grows(b, d)
  BY <1>2, <1>5, <1>6, GrowsOn
<1>8. Len(c.graph) = Len(b.graph) /\ DOMAIN c.graph = DOMAIN b.graph /\ DOMAIN b.graph = 1..Len(b.graph) /\ Len(b.graph) \in Nat
  BY <1>2, <1>6, BuildIs DEF Grows
<1>9. \A p \in DOMAIN b.graph : Joined(c, p) => Joined(d, p)
  BY <1>5, <1>6, <1>8, GrowsAt
<1>10. \A p \in DOMAIN b.graph : \A u : Writes(b, p, u) => Writes(c, p, u)
  BY <1>2, <1>6, GrowsAt
<1>11. Range(c.out) \subseteq Range(d.out)
  <2>1. /\ Outs(c, Len(c.graph) + 1) = Range(c.out) /\ Len(c.graph) + 1 \in Spots(c)
        /\ Outs(d, Len(d.graph) + 1) = Range(d.out) /\ Len(d.graph) = Len(c.graph)
    BY <1>5, <1>6, BuildIs DEF Grows
  <2>2. QED
    BY <1>5, <2>1 DEF Grows
<1>12. \A u : Follower(b, u, c) => Follower(b, u, d)
  BY <1>9 DEF Follower
<1>14. Follower(b, t, d)
  BY <1>5, <1>8, <1>10 DEF Follower
<1>15. \A u : ContainsTable(c.out, u) => ContainsTable(d.out, u)
  BY <1>11, ContainsIs
<1>16. ASSUME NEW j \in 1..i
       PROVE /\ Follower(b, tables[j], d) /\ ContainsTable(d.out, tables[j])
             /\ d.nodes[tables[j]] # <<>> /\ Last(d.nodes[tables[j]]) \in Range(d.out)
  <2>1. CASE tables[j] = t
    BY <1>5, <1>14, <2>1
  <2>2. CASE tables[j] # t
    <3>1. j \in 1..i - 1
      BY <1>3, <2>2 DEF t
    <3>2. d.nodes[tables[j]] = c.nodes[tables[j]]
      BY <1>1, <1>5, <2>2
    <3>3. QED
      BY <1>2, <1>11, <1>12, <1>15, <3>1, <3>2
  <2>3. QED
    BY <2>1, <2>2
<1>17. ASSUME NEW u \in Tables, \A j \in 1..i : tables[j] # u PROVE d.nodes[u] = b.nodes[u]
  <2>1. u # t /\ \A j \in 1..i - 1 : tables[j] # u
    BY <1>3, <1>17 DEF t
  <2>2. QED
    BY <1>2, <1>5, <2>1
<1>18. \A x \in Range(d.in) : x \in Range(b.in) \/ \E j \in 1..i : x[1] = tables[j]
  BY <1>2, <1>3, <1>5 DEF t
<1>19. \A x \in Range(d.out) : \E j \in 1..i : x[1] = tables[j]
  BY <1>2, <1>3, <1>5 DEF t
<1>20. WrittenUpTo(b, tables, i, d)
  BY <1>5, <1>7, <1>16, <1>17, <1>18, <1>19 DEF WrittenUpTo
<1>21. QED
  BY <1>20 DEF d, t

\* connectStatementOutputs, all tables.
LEMMA AllWritten ==
    ASSUME NEW b, Fit(b), b.out = <<>>, NEW tables \in Seq(Tables)
    PROVE  WrittenUpTo(b, tables, Len(tables), ConnectStatementOutputs(b, tables))
<1> DEFINE n == Len(tables)
<1>1. n \in Nat /\ b \in Builds
  BY DEF Fit, Counts
<1>2. PICK f : Turned("out", tables, b, n, f) /\ ConnectStatementOutputs(b, tables) = f[n]
  BY <1>1, OutTurned
<1>3. f[0] = b /\ \A i \in 1..n : f[i] = ConnectOutput(f[i - 1], tables[i])
  <2>1. f[0] = b /\ \A i \in 1..n : f[i] = NextBuild("out", tables, f[i - 1], i)
    <3> HIDE DEF n
    <3>1. n \in Nat /\ Turned("out", tables, b, n, f)
      BY <1>1, <1>2
    <3>2. TurnByTurn("out", tables, b, n, f)
      BY <3>1, TurnIs
    <3>3. QED
      BY <3>2 DEF TurnByTurn
  <2>2. \A c, i : NextBuild("out", tables, c, i) = ConnectOutput(c, tables[i])
    BY DEF NextBuild
  <2>3. QED
    BY <2>1, <2>2
<1> HIDE DEF n
<1> DEFINE G == {m \in 0..n : WrittenUpTo(b, tables, m, f[m])}
<1>4. 0 \in G
  <2>1. Range(<<>>) = {}
    BY DEF Range
  <2>2. WrittenUpTo(b, tables, 0, b)
    BY <2>1, GrowsSame DEF WrittenUpTo
  <2>3. 0 \in 0..n
    BY <1>1
  <2>4. QED
    BY <1>3, <2>2, <2>3
<1>5. ASSUME NEW m \in 1..n, m - 1 \in G PROVE m \in G
  <2>1. m \in 1..Len(tables) /\ m \in 0..n
    BY <1>1 DEF n
  <2>2. WrittenUpTo(b, tables, m - 1, f[m - 1])
    BY <1>5
  <2>3. WrittenUpTo(b, tables, m, f[m])
    BY <1>1, <1>3, <2>1, <2>2, WriteOne
  <2>4. QED
    BY <2>1, <2>3
<1> HIDE DEF G
<1>6. n \in 0..n
  BY <1>1
<1>7. n \in G
  BY <1>1, <1>4, <1>5, <1>6, Induction
<1>8. QED
  BY <1>2, <1>7 DEF G, n

-----------------------------------------------------------------------------
(* One statement more. *)

\* The tables of statements.
Tabled(all) ==
    /\ Len(all) \in Nat /\ DOMAIN all = 1..Len(all)
    /\ \A i \in DOMAIN all : all[i].in \in Seq(Tables) /\ all[i].out \in Seq(Tables)

\* What Analyze has made of the first statements of a program.
Analysis(all, graph, nodes) ==
    /\ graph \in Seq(Entries) /\ Numbered(graph, nodes) /\ Connected(graph, nodes, all)
    /\ Forward(graph) /\ WritersLinked(graph, all) /\ InSequence(graph, all)

\* It is a build in which the next statement has no nodes yet.
LEMMA BuildBegins ==
    ASSUME NEW all, NEW graph, NEW nodes, Analysis(all, graph, nodes), NEW b,
           b = [graph |-> graph, in |-> <<>>, out |-> <<>>, nodes |-> nodes]
    PROVE  Fit(b)
<1>1. b.graph = graph /\ b.in = <<>> /\ b.out = <<>> /\ b.nodes = nodes
  OBVIOUS
<1>2. graph \in Seq(Entries) /\ nodes \in [Tables -> Seq(Nodes)] /\ Len(graph) \in Nat /\ DOMAIN graph = 1..Len(graph)
  BY DEF Analysis, Numbered
<1>3. b \in Builds
  <2>1. <<>> \in Seq(Nodes)
    OBVIOUS
  <2>2. QED
    BY <1>2, <2>1 DEF Builds
<1>4. Range(<<>>) = {}
  BY DEF Range
<1>5. /\ \A i \in DOMAIN graph : Ins(b, i) = Range(graph[i].in) /\ Outs(b, i) = Range(graph[i].out)
      /\ \A i \in Spots(b) : i \in DOMAIN graph \/ (Ins(b, i) = {} /\ Outs(b, i) = {})
  BY <1>1, <1>3, <1>4, BuildIs
<1>6. \A t \in Tables : \A k \in DOMAIN nodes[t] : nodes[t][k] = <<t, k - 1>>
  BY DEF Analysis, Numbered
<1>7. ASSUME NEW i \in DOMAIN graph, NEW x \in Range(graph[i].in) \cup Range(graph[i].out)
      PROVE  x \in Nodes /\ x[2] < Len(nodes[x[1]])
  <2>1. graph[i].in \in Seq(Nodes) /\ graph[i].out \in Seq(Nodes) /\ x[2] < Len(nodes[x[1]])
    BY DEF Analysis, Numbered
  <2>2. x \in Nodes
    BY <2>1 DEF Range
  <2>3. QED
    BY <2>1, <2>2
<1>8. Counts(b)
  BY <1>1, <1>3, <1>5, <1>6, <1>7 DEF Counts
<1>9. ASSUME NEW i \in Spots(b), NEW j \in Spots(b)
      PROVE  /\ Outs(b, i) \cap Ins(b, j) # {} => i < j
             /\ i # j => Outs(b, i) \cap Outs(b, j) = {}
  <2>1. CASE i \in DOMAIN graph /\ j \in DOMAIN graph
    BY <1>5, <2>1 DEF Analysis, Forward, Edge
  <2>2. CASE ~(i \in DOMAIN graph /\ j \in DOMAIN graph)
    BY <1>5, <2>2
  <2>3. QED
    BY <2>1, <2>2
<1>10. QED
  BY <1>8, <1>9 DEF Fit, Ahead

\* A build whose last statement is complete.
LEMMA BuildEnds ==
    ASSUME NEW c, Fit(c), NEW g, g = Append(c.graph, [in |-> c.in, out |-> c.out])
    PROVE  /\ g \in Seq(Entries) /\ Len(g) = Len(c.graph) + 1 /\ DOMAIN g = Spots(c)
           /\ \A i \in Spots(c) : Range(g[i].in) = Ins(c, i) /\ Range(g[i].out) = Outs(c, i)
           /\ \A i \in DOMAIN c.graph : g[i] = c.graph[i]
           /\ g[Len(c.graph) + 1].in = c.in /\ g[Len(c.graph) + 1].out = c.out
           /\ Numbered(g, c.nodes) /\ Forward(g)
<1> DEFINE e == [in |-> c.in, out |-> c.out]
           n == Len(c.graph)
<1>1. c \in Builds /\ c.graph \in Seq(Entries) /\ c.nodes \in [Tables -> Seq(Nodes)]
  BY DEF Fit, Counts, Builds
<1>2. n \in Nat /\ DOMAIN c.graph = 1..n /\ c.in \in Seq(Nodes) /\ c.out \in Seq(Nodes)
  BY <1>1, BuildIs
<1>3. e \in Entries /\ e.in = c.in /\ e.out = c.out
  BY <1>2 DEF Entries
<1>4. g = Append(c.graph, e)
  OBVIOUS
<1> HIDE DEF e
<1>5. g \in Seq(Entries) /\ Len(g) = n + 1 /\ DOMAIN g = 1..n + 1 /\ g[n + 1] = e /\ \A i \in 1..n : g[i] = c.graph[i]
  BY <1>1, <1>2, <1>3, <1>4
<1>6. DOMAIN g = Spots(c)
  BY <1>5 DEF Spots
<1>7. \A i \in DOMAIN c.graph : g[i] = c.graph[i]
  BY <1>2, <1>5
<1>8. ASSUME NEW i \in Spots(c) PROVE Range(g[i].in) = Ins(c, i) /\ Range(g[i].out) = Outs(c, i)
  <2>1. CASE i = n + 1
    BY <1>3, <1>5, <2>1 DEF Ins, Outs
  <2>2. CASE i \in DOMAIN c.graph
    BY <1>1, <1>7, <2>2, BuildIs
  <2>3. QED
    BY <1>1, <2>1, <2>2, BuildIs
<1>9. \A i \in DOMAIN g : g[i].in \in Seq(Nodes) /\ g[i].out \in Seq(Nodes)
  <2>1. \A i \in DOMAIN g : g[i] \in Entries
    BY <1>5
  <2>2. QED
    BY <2>1 DEF Entries
<1>10. Numbered(g, c.nodes)
  BY <1>1, <1>6, <1>8, <1>9 DEF Numbered, Fit, Counts
<1>11. Forward(g)
  <2> SUFFICES ASSUME NEW i \in Spots(c), NEW j \in Spots(c)
      PROVE  /\ Edge(g, i, j) => i < j
             /\ i # j => Range(g[i].out) \cap Range(g[j].out) = {}
    BY <1>6 DEF Forward
  <2>1. Range(g[j].in) = Ins(c, j) /\ Range(g[i].out) = Outs(c, i) /\ Range(g[j].out) = Outs(c, j)
    BY <1>8
  <2>2. QED
    BY <2>1 DEF Edge, Fit, Ahead
<1>12. QED
  BY <1>3, <1>5, <1>6, <1>7, <1>8, <1>10, <1>11

\* The last statement is connected with those before as it should be.
Linked(all, graph, nodes, c1, c) ==
    /\ Fit(c1) /\ c1.graph = graph
    /\ ReadUpTo([graph |-> graph, in |-> <<>>, out |-> <<>>, nodes |-> nodes], all[Len(graph) + 1].in,
                Len(all[Len(graph) + 1].in), c1)
    /\ WrittenUpTo(c1, all[Len(graph) + 1].out, Len(all[Len(graph) + 1].out), c)
    /\ Fit(c) /\ Grows(c1, c)

\* So connectStatementInputs and connectStatementOutputs leave it.
LEMMA StatementLinked ==
    ASSUME NEW all, Tabled(all), NEW graph, NEW nodes, Analysis(all, graph, nodes), Len(graph) + 1 \in DOMAIN all,
           NEW b, b = [graph |-> graph, in |-> <<>>, out |-> <<>>, nodes |-> nodes],
           NEW c1, c1 = ConnectStatementInputs(b, all[Len(graph) + 1].in),
           NEW c, c = ConnectStatementOutputs(c1, all[Len(graph) + 1].out)
    PROVE  Linked(all, graph, nodes, c1, c)
<1> DEFINE st == all[Len(graph) + 1]
<1>1. st.in \in Seq(Tables) /\ st.out \in Seq(Tables)
  BY DEF Tabled
<1>2. b.graph = graph /\ b.in = <<>> /\ b.out = <<>> /\ Fit(b)
  BY BuildBegins
<1> HIDE DEF st
<1>3. ReadUpTo(b, st.in, Len(st.in), c1)
  BY <1>1, <1>2, AllRead DEF st
<1>4. Fit(c1) /\ c1.graph = graph /\ c1.out = <<>>
  BY <1>2, <1>3 DEF ReadUpTo
<1>5. WrittenUpTo(c1, st.out, Len(st.out), c)
  BY <1>1, <1>4, AllWritten DEF st
<1>6. Fit(c) /\ Grows(c1, c)
  BY <1>5 DEF WrittenUpTo
<1>7. QED
  BY <1>3, <1>4, <1>5, <1>6, Zenon DEF Linked, st

\* Linked, in terms of the tables of the statement st that was read last.
LinkedSo(graph, nodes, st, c1, c) ==
    /\ \A t \in Range(st.in) : ContainsTable(c.in, t)
    /\ \A t \in Range(st.in) : nodes[t] # <<>> => Last(nodes[t]) \in Range(c.in)
    /\ \A t : ContainsTable(c1.in, t) => t \in Range(st.in)
    /\ \A t : ContainsTable(c.in, t) => t \in Range(st.in) \cup Range(st.out)
    /\ \A t : ContainsTable(c.out, t) => t \in Range(st.out)
    /\ \A t \in Range(st.out) : /\ ContainsTable(c.out, t) /\ Follower(c1, t, c)
                                /\ c.nodes[t] # <<>> /\ Last(c.nodes[t]) \in Range(c.out)
    /\ \A t \in Tables : t \notin Range(st.out) /\ nodes[t] # <<>> => c.nodes[t] = nodes[t]

\* What Linked comes down to.
LEMMA LinkedIs ==
    ASSUME NEW all, Tabled(all), NEW graph, NEW nodes, Len(graph) + 1 \in DOMAIN all, NEW c1, NEW c,
           Linked(all, graph, nodes, c1, c)
    PROVE  LinkedSo(graph, nodes, all[Len(graph) + 1], c1, c)
<1> DEFINE st == all[Len(graph) + 1]
           b == [graph |-> graph, in |-> <<>>, out |-> <<>>, nodes |-> nodes]
           p == Len(st.in)
           q == Len(st.out)
<1>1. st.in \in Seq(Tables) /\ st.out \in Seq(Tables)
  BY DEF Tabled
<1>2. ReadUpTo(b, st.in, p, c1) /\ WrittenUpTo(c1, st.out, q, c) /\ b.nodes = nodes
  BY DEF Linked
<1> HIDE DEF b, st
<1>3. DOMAIN st.in = 1..p /\ DOMAIN st.out = 1..q
  BY <1>1
<1> HIDE DEF p, q
<1>4. /\ \A t : t \in Range(st.in) <=> \E j \in 1..p : t = st.in[j]
      /\ \A t : t \in Range(st.out) <=> \E j \in 1..q : t = st.out[j]
  BY <1>3, RangeIs
<1>5. /\ \A x \in Range(c1.in) : x[1] \in Range(st.in)
      /\ \A j \in 1..p : /\ ContainsTable(c1.in, st.in[j])
                         /\ nodes[st.in[j]] # <<>> => Last(nodes[st.in[j]]) \in Range(c1.in)
      /\ \A u \in Tables : nodes[u] # <<>> => c1.nodes[u] = nodes[u]
  BY <1>2 DEF ReadUpTo
<1>6. /\ \A x \in Range(c.in) : x \in Range(c1.in) \/ \E j \in 1..q : x[1] = st.out[j]
      /\ \A x \in Range(c.out) : \E j \in 1..q : x[1] = st.out[j]
      /\ \A j \in 1..q : /\ Follower(c1, st.out[j], c) /\ ContainsTable(c.out, st.out[j])
                         /\ c.nodes[st.out[j]] # <<>> /\ Last(c.nodes[st.out[j]]) \in Range(c.out)
      /\ \A u \in Tables : (\A j \in 1..q : st.out[j] # u) => c.nodes[u] = c1.nodes[u]
      /\ Range(c1.in) \subseteq Range(c.in)
  BY <1>2 DEF WrittenUpTo, Grows
<1>7. \A t : ContainsTable(c1.in, t) => ContainsTable(c.in, t)
  BY <1>6, ContainsIs
<1>8. \A t \in Range(st.in) : ContainsTable(c.in, t)
  BY <1>4, <1>5, <1>7
<1>9. \A t \in Range(st.in) : nodes[t] # <<>> => Last(nodes[t]) \in Range(c.in)
  BY <1>4, <1>5, <1>6
<1>10. \A t : ContainsTable(c1.in, t) => t \in Range(st.in)
  BY <1>5, ContainsIs
<1>11. \A t : ContainsTable(c.in, t) => t \in Range(st.in) \cup Range(st.out)
  BY <1>4, <1>5, <1>6, ContainsIs
<1>12. \A t : ContainsTable(c.out, t) => t \in Range(st.out)
  BY <1>4, <1>6, ContainsIs
<1>13. \A t \in Range(st.out) : /\ ContainsTable(c.out, t) /\ Follower(c1, t, c)
                                /\ c.nodes[t] # <<>> /\ Last(c.nodes[t]) \in Range(c.out)
  BY <1>4, <1>6
<1>14. \A t \in Tables : t \notin Range(st.out) /\ nodes[t] # <<>> => c.nodes[t] = nodes[t]
  BY <1>4, <1>5, <1>6
<1>15. QED
  BY <1>8, <1>9, <1>10, <1>11, <1>12, <1>13, <1>14 DEF LinkedSo, st

\* The graph with the statement that was read last.
WithLast(c) == Append(c.graph, [in |-> c.in, out |-> c.out])

\* How the old graph relates to the new one.
Extends(graph, c1, c, g) ==
    LET n == Len(graph)
    IN /\ n \in Nat /\ DOMAIN graph = 1..n /\ DOMAIN g = 1..n + 1 /\ Len(g) = n + 1
       /\ \A i \in 1..n : Range(graph[i].out) \subseteq Range(g[i].out) /\ Range(g[i].in) = Range(graph[i].in)
       /\ \A i \in 1..n : \A t : ContainsTable(g[i].in, t) <=> ContainsTable(graph[i].in, t)
       /\ \A i \in 1..n : \A t : ContainsTable(graph[i].out, t) => ContainsTable(g[i].out, t)
       /\ \A i \in 1..n : \A t : ContainsTable(g[i].out, t) =>
            ContainsTable(graph[i].out, t) \/ ContainsTable(graph[i].in, t)
       /\ \A i \in 1..n : \A t : (Reads(c1, i, t) <=> ContainsTable(graph[i].in, t))
                              /\ (Writes(c1, i, t) <=> ContainsTable(graph[i].out, t))
       /\ \A i \in 1..n : Joined(c, i) => Edge(g, i, n + 1)
       /\ g[n + 1].in = c.in /\ g[n + 1].out = c.out
       /\ c1.graph = graph

\* WithLast extends the graph.
LEMMA GraphExtends ==
    ASSUME NEW graph, NEW c1, Fit(c1), c1.graph = graph, NEW c, Fit(c), Grows(c1, c)
    PROVE  Extends(graph, c1, c, WithLast(c))
<1> DEFINE n == Len(graph)
           g == WithLast(c)
<1>1. c1 \in Builds /\ c \in Builds
  BY DEF Fit, Counts
<1>2. n \in Nat /\ DOMAIN graph = 1..n /\ Len(c.graph) = n /\ DOMAIN c.graph = 1..n /\ Spots(c) = 1..n + 1
  BY <1>1, BuildIs DEF Grows, Spots
<1> HIDE DEF n
<1>3. /\ Len(g) = n + 1 /\ DOMAIN g = 1..n + 1
      /\ \A i \in 1..n + 1 : Range(g[i].in) = Ins(c, i) /\ Range(g[i].out) = Outs(c, i)
      /\ \A i \in 1..n : g[i] = c.graph[i]
      /\ g[n + 1].in = c.in /\ g[n + 1].out = c.out
  <2>1. g = Append(c.graph, [in |-> c.in, out |-> c.out])
    BY DEF WithLast
  <2> HIDE DEF g
  <2>2. /\ Len(g) = Len(c.graph) + 1 /\ DOMAIN g = Spots(c)
        /\ \A i \in Spots(c) : Range(g[i].in) = Ins(c, i) /\ Range(g[i].out) = Outs(c, i)
        /\ \A i \in DOMAIN c.graph : g[i] = c.graph[i]
        /\ g[Len(c.graph) + 1].in = c.in /\ g[Len(c.graph) + 1].out = c.out
    BY <2>1, BuildEnds
  <2>3. QED
    BY <1>2, <2>2
<1> HIDE DEF g
<1>4. /\ \A p \in 1..n : \A t : Writes(c1, p, t) => Writes(c, p, t)
      /\ \A p \in 1..n : \A t : Reads(c, p, t) <=> Reads(c1, p, t)
      /\ \A p \in 1..n : \A t : Writes(c, p, t) => Writes(c1, p, t) \/ Reads(c1, p, t)
  BY <1>1, <1>2, GrowsAt
<1>5. \A i \in 1..n : Range(graph[i].out) \subseteq Range(g[i].out) /\ Range(g[i].in) = Range(graph[i].in)
  <2> TAKE i \in 1..n
  <2>1. i \in 1..n + 1 /\ i \in DOMAIN c1.graph /\ i \in DOMAIN c.graph /\ i \in Spots(c1)
    BY <1>1, <1>2, BuildIs
  <2>2. Outs(c1, i) = Range(graph[i].out) /\ Outs(c1, i) \subseteq Outs(c, i)
    BY <1>1, <2>1, BuildIs DEF Grows
  <2>3. c.graph[i].in = graph[i].in
    BY <2>1 DEF Grows
  <2>4. QED
    BY <1>3, <2>1, <2>2, <2>3
<1>6. \A i \in 1..n : Joined(c, i) => Edge(g, i, n + 1)
  <2> TAKE i \in 1..n
  <2>1. i \in 1..n + 1 /\ n + 1 \in 1..n + 1
    BY <1>2
  <2>2. Range(g[i].out) = Outs(c, i) /\ Range(g[n + 1].in) = Ins(c, n + 1)
    BY <1>3, <2>1
  <2>3. QED
    BY <1>2, <2>2 DEF Joined, Edge
<1>7. \A i \in 1..n : \A t : /\ Reads(c, i, t) <=> ContainsTable(g[i].in, t)
                             /\ Writes(c, i, t) <=> ContainsTable(g[i].out, t)
                             /\ Reads(c1, i, t) <=> ContainsTable(graph[i].in, t)
                             /\ Writes(c1, i, t) <=> ContainsTable(graph[i].out, t)
  BY <1>3 DEF Reads, Writes
<1>8. QED
  BY <1>2, <1>3, <1>4, <1>5, <1>6, <1>7, Zenon DEF Extends, g, n

\* Edges stay.
LEMMA EdgesStay ==
    ASSUME NEW graph, NEW c1, NEW c, NEW g, Extends(graph, c1, c, g), NEW i \in DOMAIN graph, NEW j \in DOMAIN graph,
           Edge(graph, i, j)
    PROVE  Edge(g, i, j)
BY DEF Extends, Edge

\* A statement is added to an analysis.
Adds(all, graph, nodes, c1, c, g) ==
    /\ Tabled(all) /\ Analysis(all, graph, nodes) /\ Len(graph) + 1 \in DOMAIN all
    /\ LinkedSo(graph, nodes, all[Len(graph) + 1], c1, c)
    /\ Extends(graph, c1, c, g)

\* Positions in the new graph.
AddedSo(all, graph, c, g, n) ==
    /\ n \in Nat /\ DOMAIN graph = 1..n /\ DOMAIN g = 1..n + 1 /\ Len(g) = n + 1
    /\ \A j \in 1..n + 1 : j = n + 1 \/ j \in 1..n
    /\ \A j \in 1..n + 1 : \A i \in 1..j - 1 : i \in 1..n /\ i \in Nat
    /\ g[n + 1].in = c.in /\ g[n + 1].out = c.out
    /\ \A i, j \in 1..n : Edge(graph, i, j) => Edge(g, i, j)
    /\ \A i \in 1..n : Joined(c, i) => Edge(g, i, n + 1)
    /\ \A i \in 1..n : Range(graph[i].out) \subseteq Range(g[i].out)
    /\ \A t \in Range(all[n + 1].in) \cup Range(all[n + 1].out) : t \in Tables
    /\ \A i \in 1..n : \A t \in Range(all[i].out) : t \in Tables

\* So they are.
LEMMA AddedAt ==
    ASSUME NEW all, NEW graph, NEW nodes, NEW c1, NEW c, NEW g, Adds(all, graph, nodes, c1, c, g), NEW n, Len(graph) = n
    PROVE  AddedSo(all, graph, c, g, n)
<1>1. /\ n \in Nat /\ DOMAIN graph = 1..n /\ DOMAIN g = 1..n + 1 /\ Len(g) = n + 1
      /\ g[n + 1].in = c.in /\ g[n + 1].out = c.out
      /\ \A i \in 1..n : Joined(c, i) => Edge(g, i, n + 1)
      /\ \A i \in 1..n : Range(graph[i].out) \subseteq Range(g[i].out)
  BY DEF Adds, Extends
<1>2. \A i, j \in 1..n : Edge(graph, i, j) => Edge(g, i, j)
  BY <1>1, EdgesStay DEF Adds
<1>3. /\ \A j \in 1..n + 1 : j = n + 1 \/ j \in 1..n
      /\ \A j \in 1..n + 1 : \A i \in 1..j - 1 : i \in 1..n /\ i \in Nat
  BY <1>1
<1>4. ASSUME NEW i \in DOMAIN all, NEW t \in Range(all[i].in) \cup Range(all[i].out) PROVE t \in Tables
  <2>1. all[i].in \in Seq(Tables) /\ all[i].out \in Seq(Tables)
    BY DEF Adds, Tabled
  <2>2. QED
    BY <2>1 DEF Range
<1>5. n + 1 \in DOMAIN all /\ \A i \in 1..n : i \in DOMAIN all
  BY <1>1 DEF Adds, Tabled
<1>6. QED
  BY <1>1, <1>2, <1>3, <1>4, <1>5 DEF AddedSo

\* A statement has nodes of the tables it touches, and the newest node of a
\* table comes from its last writer.
LEMMA ConnectedNow ==
    ASSUME NEW all, NEW graph, NEW nodes, NEW c1, NEW c, NEW g, Adds(all, graph, nodes, c1, c, g)
    PROVE  Connected(g, c.nodes, all)
<1> DEFINE n == Len(graph)
           st == all[n + 1]
<1>1. /\ n \in Nat /\ DOMAIN graph = 1..n /\ DOMAIN g = 1..n + 1 /\ Len(g) = n + 1
      /\ \A j \in 1..n + 1 : j = n + 1 \/ j \in 1..n
      /\ g[n + 1].in = c.in /\ g[n + 1].out = c.out
      /\ \A i \in 1..n : Range(graph[i].out) \subseteq Range(g[i].out)
      /\ \A i \in 1..n : \A t \in Range(all[i].out) : t \in Tables
  <2>1. Len(graph) = n
    OBVIOUS
  <2> HIDE DEF n
  <2>2. AddedSo(all, graph, c, g, n)
    BY <2>1, AddedAt
  <2>3. QED
    BY <2>2 DEF AddedSo
<1>2. LinkedSo(graph, nodes, st, c1, c) /\ Extends(graph, c1, c, g) /\ Connected(graph, nodes, all)
  BY DEF Adds, Analysis
<1>3. /\ \A i \in 1..n : \A t : ContainsTable(g[i].in, t) <=> ContainsTable(graph[i].in, t)
      /\ \A i \in 1..n : \A t : ContainsTable(graph[i].out, t) => ContainsTable(g[i].out, t)
      /\ \A i \in 1..n : \A t : ContainsTable(g[i].out, t) =>
            ContainsTable(graph[i].out, t) \/ ContainsTable(graph[i].in, t)
  BY <1>2 DEF Extends
<1> HIDE DEF n
<1>4. ASSUME NEW i \in 1..n, NEW t \in Tables
      PROVE  /\ t \in Range(all[i].in) => ContainsTable(g[i].in, t)
             /\ t \in Range(all[i].out) => ContainsTable(g[i].out, t)
             /\ ContainsTable(g[i].in, t) \/ ContainsTable(g[i].out, t) => Touches(all, i, t)
  <2>1. /\ t \in Range(all[i].in) => ContainsTable(graph[i].in, t)
        /\ t \in Range(all[i].out) => ContainsTable(graph[i].out, t)
        /\ ContainsTable(graph[i].in, t) \/ ContainsTable(graph[i].out, t) => Touches(all, i, t)
    BY <1>1, <1>2 DEF Connected
  <2>2. QED
    BY <1>3, <2>1
<1>5. ASSUME NEW t \in Tables
      PROVE  /\ t \in Range(st.in) => ContainsTable(c.in, t)
             /\ t \in Range(st.out) => ContainsTable(c.out, t)
             /\ ContainsTable(c.in, t) \/ ContainsTable(c.out, t) => Touches(all, n + 1, t)
  BY <1>2 DEF LinkedSo, Touches
<1>6. ASSUME NEW i \in DOMAIN g, NEW t \in Tables
      PROVE  /\ t \in Range(all[i].in) => ContainsTable(g[i].in, t)
             /\ t \in Range(all[i].out) => ContainsTable(g[i].out, t)
             /\ ContainsTable(g[i].in, t) \/ ContainsTable(g[i].out, t) => Touches(all, i, t)
  <2>1. CASE i = n + 1
    BY <1>1, <1>5, <2>1
  <2>2. CASE i \in 1..n
    BY <1>4, <2>2
  <2>3. QED
    BY <1>1, <2>1, <2>2
<1>7. ASSUME NEW w \in DOMAIN g, NEW t \in Range(all[w].out), \A k \in w + 1..n + 1 : t \notin Range(all[k].out)
      PROVE  c.nodes[t] # <<>> /\ Last(c.nodes[t]) \in Range(g[w].out)
  <2>1. CASE w = n + 1
    BY <1>1, <1>2, <2>1 DEF LinkedSo
  <2>2. CASE w \in 1..n
    <3>1. n + 1 \in w + 1..n + 1 /\ \A k \in w + 1..n : k \in w + 1..n + 1
      BY <1>1, <2>2
    <3>2. t \notin Range(st.out) /\ \A k \in w + 1..n : t \notin Range(all[k].out)
      BY <1>7, <3>1
    <3>3. nodes[t] # <<>> /\ Last(nodes[t]) \in Range(graph[w].out)
      BY <1>1, <1>2, <1>7, <2>2, <3>2 DEF Connected, n
    <3>5. t \in Tables
      BY <1>1, <1>7, <2>2
    <3>6. c.nodes[t] = nodes[t]
      BY <1>2, <3>2, <3>3, <3>5 DEF LinkedSo
    <3>7. QED
      BY <1>1, <2>2, <3>3, <3>6
  <2>3. QED
    BY <1>1, <2>1, <2>2
<1>8. QED
  BY <1>1, <1>6, <1>7 DEF Connected

\* A writer follows the earlier writers of the table.
LEMMA WritersLinkedNow ==
    ASSUME NEW all, NEW graph, NEW nodes, NEW c1, NEW c, NEW g, Adds(all, graph, nodes, c1, c, g)
    PROVE  WritersLinked(g, all)
<1> DEFINE n == Len(graph)
<1>1. AddedSo(all, graph, c, g, n)
  <2>1. Len(graph) = n
    OBVIOUS
  <2> HIDE DEF n
  <2>2. QED
    BY <2>1, AddedAt
<1>2. /\ LinkedSo(graph, nodes, all[n + 1], c1, c) /\ Extends(graph, c1, c, g) /\ Connected(graph, nodes, all)
      /\ WritersLinked(graph, all)
  BY DEF Adds, Analysis
<1>3. \A i \in 1..n : \A t : Writes(c1, i, t) <=> ContainsTable(graph[i].out, t)
  BY <1>2 DEF Extends
<1>4. DOMAIN c1.graph = 1..n
  BY <1>2 DEF Extends
<1> HIDE DEF n
<1>5. ASSUME NEW j \in 1..n, NEW i \in 1..j - 1, Range(all[i].out) \cap Range(all[j].out) # {} PROVE Edge(g, i, j)
  <2>1. j \in DOMAIN graph /\ i \in 1..n
    BY <1>1 DEF AddedSo
  <2>2. Edge(graph, i, j)
    BY <1>2, <1>5, <2>1 DEF WritersLinked
  <2>3. QED
    BY <1>1, <2>1, <2>2 DEF AddedSo
<1>6. ASSUME NEW i \in 1..n, NEW t, t \in Range(all[i].out), t \in Range(all[n + 1].out) PROVE Edge(g, i, n + 1)
  <2>1. t \in Tables /\ i \in DOMAIN graph
    BY <1>1, <1>6 DEF AddedSo
  <2>2. ContainsTable(graph[i].out, t)
    BY <1>2, <1>6, <2>1 DEF Connected
  <2>3. Follower(c1, t, c)
    BY <1>2, <1>6 DEF LinkedSo
  <2>4. Joined(c, i)
    BY <1>3, <1>4, <2>2, <2>3 DEF Follower
  <2>5. QED
    BY <1>1, <2>4 DEF AddedSo
<1>7. SUFFICES ASSUME NEW j \in DOMAIN g, NEW i \in 1..j - 1, Range(all[i].out) \cap Range(all[j].out) # {}
      PROVE Edge(g, i, j)
  BY DEF WritersLinked
<1>8. i \in 1..n /\ (j = n + 1 \/ j \in 1..n)
  BY <1>1 DEF AddedSo
<1>9. PICK t \in Range(all[i].out) : t \in Range(all[j].out)
  BY <1>7
<1>10. QED
  BY <1>5, <1>6, <1>7, <1>8, <1>9

\* A statement that reads a table follows its last writer.
LEMMA ReadsLast ==
    ASSUME NEW all, NEW graph, NEW nodes, NEW c1, NEW c, NEW g, Adds(all, graph, nodes, c1, c, g), NEW n, Len(graph) = n,
           NEW w \in 1..n, NEW t, t \in Range(all[w].out), t \in Range(all[n + 1].in),
           \A k \in w + 1..n : t \notin Range(all[k].out)
    PROVE  Edge(g, w, n + 1)
<1>1. AddedSo(all, graph, c, g, n)
  BY AddedAt
<1>2. LinkedSo(graph, nodes, all[n + 1], c1, c) /\ Connected(graph, nodes, all) /\ w \in DOMAIN graph
  BY <1>1 DEF Adds, Analysis, AddedSo
<1>3. nodes[t] # <<>> /\ Last(nodes[t]) \in Range(graph[w].out)
  BY <1>2 DEF Connected
<1>4. Last(nodes[t]) \in Range(c.in)
  BY <1>2, <1>3 DEF LinkedSo
<1>5. Range(graph[w].out) \subseteq Range(g[w].out) /\ g[n + 1].in = c.in
  BY <1>1 DEF AddedSo
<1>6. QED
  BY <1>3, <1>4, <1>5 DEF Edge

\* The order of the program is kept.
LEMMA InSequenceNow ==
    ASSUME NEW all, NEW graph, NEW nodes, NEW c1, NEW c, NEW g, Adds(all, graph, nodes, c1, c, g)
    PROVE  InSequence(g, all)
<1> DEFINE n == Len(graph)
<1>1. AddedSo(all, graph, c, g, n)
  <2>1. Len(graph) = n
    OBVIOUS
  <2> HIDE DEF n
  <2>2. QED
    BY <2>1, AddedAt
<1>2. InSequence(graph, all) /\ WritersLinked(graph, all)
  BY DEF Adds, Analysis
<1>3. WritersLinked(g, all)
  BY WritersLinkedNow
<1>4. Len(graph) = n
  OBVIOUS
<1> HIDE DEF n
<1>5. /\ n \in Nat /\ DOMAIN graph = 1..n /\ DOMAIN g = 1..n + 1 /\ n + 1 \in DOMAIN g
      /\ \A i, j \in 1..n : Edge(graph, i, j) => Edge(g, i, j)
      /\ \A i \in 1..n : i \in DOMAIN g
  BY <1>1 DEF AddedSo
<1> DEFINE Two(i, j) == Edge(g, i, j) \/ \E k \in DOMAIN g : Edge(g, i, k) /\ Edge(g, k, j)
<1>6. ASSUME NEW j \in 1..n, NEW i \in 1..j - 1
      PROVE  RawOrWaw(all, i, j) => Two(i, j)
  <2>1. i \in 1..n
    BY <1>5
  <2>2. RawOrWaw(all, i, j) => Edge(graph, i, j) \/ \E k \in DOMAIN graph : Edge(graph, i, k) /\ Edge(graph, k, j)
    BY <1>2, <1>5 DEF InSequence
  <2>3. QED
    BY <1>5, <2>1, <2>2
<1>7. ASSUME NEW i \in 1..n, NEW t, t \in Range(all[i].out), t \in Range(all[n + 1].in) PROVE Two(i, n + 1)
  <2> DEFINE W == {w \in 1..n : t \in Range(all[w].out)}
             w == Max(W)
  <2>1. W \subseteq 1..n /\ W # {} /\ i \in W
    BY <1>7
  <2> HIDE DEF W
  <2>2. w \in W /\ \A y \in W : y <= w
    BY <1>5, <2>1, MaxIs
  <2> HIDE DEF w
  <2>3. w \in 1..n /\ t \in Range(all[w].out)
    BY <2>2 DEF W
  <2>4. \A k \in w + 1..n : t \notin Range(all[k].out)
    <3> SUFFICES ASSUME NEW k \in w + 1..n, t \in Range(all[k].out) PROVE FALSE
      OBVIOUS
    <3>1. k \in W
      BY <1>5, <2>3 DEF W
    <3>2. QED
      BY <1>5, <2>2, <2>3, <3>1
  <2>5. Edge(g, w, n + 1)
    BY <1>4, <1>7, <2>3, <2>4, ReadsLast
  <2>6. CASE i = w
    BY <2>5, <2>6
  <2>7. CASE i # w
    <3>1. i \in 1..w - 1
      BY <1>5, <2>1, <2>2, <2>3, <2>7
    <3>2. Edge(g, i, w)
      BY <1>3, <1>5, <1>7, <2>3, <3>1 DEF WritersLinked
    <3>3. QED
      BY <1>5, <2>3, <2>5, <3>2
  <2>8. QED
    BY <2>6, <2>7
<1>8. ASSUME NEW i \in 1..n, RawOrWaw(all, i, n + 1) PROVE Two(i, n + 1)
  <2>1. PICK t \in Range(all[i].out) : t \in Range(all[n + 1].in) \/ t \in Range(all[n + 1].out)
    BY <1>8 DEF RawOrWaw
  <2>2. CASE t \in Range(all[n + 1].in)
    BY <1>7, <2>1, <2>2
  <2>3. CASE t \in Range(all[n + 1].out)
    <3>1. i \in 1..(n + 1) - 1 /\ Range(all[i].out) \cap Range(all[n + 1].out) # {}
      BY <1>5, <2>1, <2>3
    <3>2. Edge(g, i, n + 1)
      BY <1>3, <1>5, <3>1 DEF WritersLinked
    <3>3. QED
      BY <3>2
  <2>4. QED
    BY <2>1, <2>2, <2>3
<1>10. \A j \in DOMAIN g : \A i \in 1..j - 1 : i \in 1..n /\ (j = n + 1 \/ j \in 1..n)
  BY <1>1, <1>5 DEF AddedSo
<1>11. \A j \in DOMAIN g : \A i \in 1..j - 1 : RawOrWaw(all, i, j) => Two(i, j)
  <2> HIDE DEF Two
  <2>1. QED
    BY <1>6, <1>8, <1>10
<1>12. QED
  BY <1>11 DEF InSequence

\* AnalyzeStatement keeps the analysis right.
LEMMA AnalysisGoes ==
    ASSUME NEW all, Tabled(all), NEW graph, NEW nodes, Analysis(all, graph, nodes), Len(graph) + 1 \in DOMAIN all,
           NEW c1, NEW c, Linked(all, graph, nodes, c1, c)
    PROVE  Analysis(all, WithLast(c), c.nodes) /\ Len(WithLast(c)) = Len(graph) + 1
<1> DEFINE g == WithLast(c)
<1>1. Fit(c1) /\ c1.graph = graph /\ Fit(c) /\ Grows(c1, c)
  BY DEF Linked
<1>2. Extends(graph, c1, c, g)
  BY <1>1, GraphExtends
<1>3. LinkedSo(graph, nodes, all[Len(graph) + 1], c1, c)
  BY LinkedIs
<1>4. g \in Seq(Entries) /\ Numbered(g, c.nodes) /\ Forward(g)
  BY <1>1, BuildEnds DEF WithLast
<1> HIDE DEF g
<1>5. Adds(all, graph, nodes, c1, c, g)
  BY <1>2, <1>3 DEF Adds
<1>6. Connected(g, c.nodes, all) /\ WritersLinked(g, all) /\ InSequence(g, all)
  BY <1>5, ConnectedNow, WritersLinkedNow, InSequenceNow
<1>7. Len(g) = Len(graph) + 1
  BY <1>2 DEF Extends
<1>8. QED
  BY <1>4, <1>6, <1>7 DEF Analysis, g

-----------------------------------------------------------------------------
(* The steps of a session. *)

\* The graph of u is that of r.
SameGraph(u, pc, r) == u.pc = pc /\ u.graph = r.graph /\ u.nodes = r.nodes

\* Assignments to the other fields.
LEMMA GraphLeft ==
    ASSUME NEW r, DOMAIN r = Fields, NEW a, NEW b, NEW c, NEW d
    PROVE  /\ SameGraph([r EXCEPT !.pc = a], a, r)
           /\ SameGraph([r EXCEPT !.pc = a, !.why = b], a, r)
           /\ SameGraph([r EXCEPT !.pc = a, !.clean = b], a, r)
           /\ SameGraph([r EXCEPT !.pc = a, !.text = b], a, r)
           /\ SameGraph([r EXCEPT !.pc = a, !.tries = b], a, r)
           /\ SameGraph([r EXCEPT !.pc = a, !.all = b], a, r)
           /\ SameGraph([r EXCEPT !.pc = a, !.steps = b], a, r)
           /\ SameGraph([r EXCEPT !.pc = a, !.why = b, !.steps = c], a, r)
           /\ SameGraph([r EXCEPT !.all = b, !.pos = c, !.pc = a], a, r)
           /\ SameGraph([r EXCEPT !.all = b, !.pos = c, !.open = d, !.pc = a], a, r)
           /\ SameGraph([r EXCEPT !.tries = b], r.pc, r)
           /\ SameGraph([r EXCEPT !.steps = b], r.pc, r)
           /\ SameGraph([r EXCEPT !.ran = b], r.pc, r)
<1>1. \A f \in Fields : f \in DOMAIN r
  OBVIOUS
<1>2. QED
  BY DEF SameGraph, Fields

\* A step outside of Analyze.
Aside(s) ==
    \E u : /\ Becomes(s, u) /\ SameGraph(u, u.pc, ses[s])
           /\ ses[s].pc \notin {"analyze", "analyzed", "error"} /\ u.pc \notin {"analyze", "analyzed"}

\* The parsers leave the graph alone.
LEMMA ParseElsewhere ==
    ASSUME NEW s, DOMAIN ses[s] = Fields, Parse(s)
    PROVE  Aside(s)
<1> DEFINE r == ses[s]
           Off(pc) == pc \notin {"analyze", "analyzed", "error"}
<1>1. ASSUME NEW why, Error(s, why), Off(r.pc) PROVE Aside(s)
  <2> DEFINE u == [r EXCEPT !.pc = "error", !.why = why]
  <2>1. Becomes(s, u) /\ SameGraph(u, "error", r)
    BY <1>1, GraphLeft DEF Error
  <2> HIDE DEF u
  <2>2. QED
    BY <1>1, <2>1 DEF Aside, SameGraph
<1>2. ASSUME NEW pc, Go(s, pc), Off(r.pc), Off(pc) PROVE Aside(s)
  <2> DEFINE u == [r EXCEPT !.pc = pc]
  <2>1. Becomes(s, u) /\ SameGraph(u, pc, r)
    BY <1>2, GraphLeft DEF Go
  <2> HIDE DEF u
  <2>2. QED
    BY <1>2, <2>1 DEF Aside, SameGraph
<1>3. ASSUME NEW u, NEW pc, Becomes(s, u), SameGraph(u, pc, r), Off(r.pc), Off(pc) PROVE Aside(s)
  BY <1>3 DEF Aside, SameGraph
<1>4. CASE RemoveComments(s)
  <2>1. r.pc = "start"
    BY <1>4 DEF RemoveComments, At
  <2>2. PICK b : Error(s, "comment") \/ Becomes(s, [r EXCEPT !.pc = "comments", !.clean = b])
    BY <1>4 DEF RemoveComments
  <2>3. SameGraph([r EXCEPT !.pc = "comments", !.clean = b], "comments", r)
    BY GraphLeft
  <2>4. QED
    BY <1>1, <1>3, <2>1, <2>2, <2>3
<1>5. CASE RemoveLineComments(s)
  <2>1. r.pc = "comments"
    BY <1>5 DEF RemoveLineComments, At
  <2>2. PICK b : Error(s, "comment") \/ Becomes(s, [r EXCEPT !.pc = "driver", !.clean = b])
    BY <1>5 DEF RemoveLineComments
  <2>3. SameGraph([r EXCEPT !.pc = "driver", !.clean = b], "driver", r)
    BY GraphLeft
  <2>4. QED
    BY <1>1, <1>3, <2>1, <2>2, <2>3
<1>6. CASE ParseURL(s)
  <2>1. r.pc \in {"start", "driver"}
    BY <1>6 DEF ParseURL, At
  <2>2. PICK b : Error(s, "url") \/ Becomes(s, [r EXCEPT !.pc = "parse", !.text = b])
    BY <1>6 DEF ParseURL
  <2>3. SameGraph([r EXCEPT !.pc = "parse", !.text = b], "parse", r)
    BY GraphLeft
  <2>4. QED
    BY <1>1, <1>3, <2>1, <2>2, <2>3
<1>7. ASSUME Becomes(s, Accepted(s)), Off(r.pc) PROVE Aside(s)
  <2> DEFINE p == ThirdPartyParse(input[s].dialect, r.text, r.pos)
             b == r.all \o p.sqls
             c == IF p.pos = 0 THEN r.pos ELSE p.pos
             d == p.sqls # <<>> /\ Last(p.sqls).unfinished
             pc == IF p.pos = 0 THEN "parsed" ELSE "extended"
             u == [r EXCEPT !.all = b, !.pos = c, !.open = d, !.pc = pc]
  <2>1. Becomes(s, u)
    BY <1>7 DEF Accepted
  <2>2. Off(pc)
    OBVIOUS
  <2> HIDE DEF b, c, d, pc
  <2>3. SameGraph(u, pc, r)
    BY GraphLeft
  <2> HIDE DEF u
  <2>4. QED
    BY <1>3, <1>7, <2>1, <2>2, <2>3
<1>8. CASE ParseWithTiDB(s) \/ ParseWithJava(s)
  BY <1>1, <1>7, <1>8 DEF ParseWithTiDB, ParseWithJava, At
<1>9. CASE ParseFirstSQLFlowStmt(s)
  <2>1. r.pc = "extended"
    BY <1>9 DEF ParseFirstSQLFlowStmt, At
  <2> DEFINE t == r.text[r.pos]
             b == WithClauseOf(r, t)
             c == r.pos + 1
             pc == IF r.pos = Len(r.text) THEN "parsed" ELSE "parse"
             u == [r EXCEPT !.all = b, !.pos = c, !.pc = pc]
  <2>2. Error(s, "syntax") \/ Becomes(s, u)
    BY <1>9 DEF ParseFirstSQLFlowStmt, WithClauseOf
  <2>3. Off(pc)
    OBVIOUS
  <2> HIDE DEF b, c, pc
  <2>4. SameGraph(u, pc, r)
    BY GraphLeft
  <2> HIDE DEF u
  <2>5. QED
    BY <1>1, <1>3, <2>1, <2>2, <2>3, <2>4
<1>10. CASE Lock(s) \/ Dial(s)
  BY <1>2, <1>10 DEF Lock, Dial, At
<1>11. CASE StartServer(s)
  <2>1. r.pc = "check"
    BY <1>11 DEF StartServer, At
  <2>2. Go(s, "dial") \/ Error(s, "java") \/ Becomes(s, [r EXCEPT !.pc = "wait", !.tries = 3])
    BY <1>11 DEF StartServer
  <2>3. SameGraph([r EXCEPT !.pc = "wait", !.tries = 3], "wait", r)
    BY GraphLeft
  <2>4. QED
    BY <1>1, <1>2, <1>3, <2>1, <2>2, <2>3
<1>12. CASE WaitForServer(s)
  <2> DEFINE b == r.tries - 1
  <2>1. r.pc = "wait"
    BY <1>12 DEF WaitForServer, At
  <2>2. Go(s, "dial") \/ Error(s, "java") \/ Becomes(s, [r EXCEPT !.tries = b])
    BY <1>12 DEF WaitForServer
  <2> HIDE DEF b
  <2>3. SameGraph([r EXCEPT !.tries = b], r.pc, r)
    BY GraphLeft
  <2>4. QED
    BY <1>1, <1>2, <1>3, <2>1, <2>2, <2>3
<1>13. QED
  BY <1>4, <1>5, <1>6, <1>8, <1>9, <1>10, <1>11, <1>12 DEF Parse

\* So do the compilers and Argo.
LEMMA CompileElsewhere ==
    ASSUME NEW s, DOMAIN ses[s] = Fields,
           \/ Rewrite(s) \/ ResolveSQLProgram(s) \/ GenFiller(s) \/ GenerateStep(s) \/ CodeGenCouler(s) \/ GenYAML(s)
           \/ RunStep(s) \/ StepFails(s)
    PROVE  Aside(s)
<1> DEFINE r == ses[s]
           Off(pc) == pc \notin {"analyze", "analyzed", "error"}
<1>1. ASSUME NEW why, Error(s, why), Off(r.pc) PROVE Aside(s)
  <2> DEFINE u == [r EXCEPT !.pc = "error", !.why = why]
  <2>1. Becomes(s, u) /\ SameGraph(u, "error", r)
    BY <1>1, GraphLeft DEF Error
  <2> HIDE DEF u
  <2>2. QED
    BY <1>1, <2>1 DEF Aside, SameGraph
<1>2. ASSUME NEW pc, Go(s, pc), Off(r.pc), Off(pc) PROVE Aside(s)
  <2> DEFINE u == [r EXCEPT !.pc = pc]
  <2>1. Becomes(s, u) /\ SameGraph(u, pc, r)
    BY <1>2, GraphLeft DEF Go
  <2> HIDE DEF u
  <2>2. QED
    BY <1>2, <2>1 DEF Aside, SameGraph
<1>3. ASSUME NEW u, NEW pc, Becomes(s, u), SameGraph(u, pc, r), Off(r.pc), Off(pc) PROVE Aside(s)
  BY <1>3 DEF Aside, SameGraph
<1>4. CASE Rewrite(s)
  <2>1. r.pc = "parsed"
    BY <1>4 DEF Rewrite, At
  <2>2. PICK b : Becomes(s, [r EXCEPT !.pc = "resolve", !.all = b])
    BY <1>4 DEF Rewrite
  <2>3. SameGraph([r EXCEPT !.pc = "resolve", !.all = b], "resolve", r)
    BY GraphLeft
  <2>4. QED
    BY <1>3, <2>1, <2>2, <2>3
<1>5. CASE ResolveSQLProgram(s)
  <2>1. r.pc = "resolve" /\ (Go(s, "steps") \/ Go(s, "filler") \/ Error(s, "resolve"))
    BY <1>5 DEF ResolveSQLProgram, At
  <2>2. QED
    BY <1>1, <1>2, <2>1
<1>6. CASE GenFiller(s)
  <2> DEFINE pc == IF input[s].mode = "couler" THEN "done" ELSE "python"
  <2>1. r.pc = "filler" /\ Off(pc)
    BY <1>6 DEF GenFiller, At
  <2>2. PICK b : Error(s, "config") \/ Becomes(s, [r EXCEPT !.pc = pc, !.steps = b])
    BY <1>6 DEF GenFiller
  <2> HIDE DEF pc
  <2>3. SameGraph([r EXCEPT !.pc = pc, !.steps = b], pc, r)
    BY GraphLeft
  <2>4. QED
    BY <1>1, <1>3, <2>1, <2>2, <2>3
<1>7. CASE GenerateStep(s)
  <2>1. r.pc = "steps"
    BY <1>7 DEF GenerateStep, At
  <2>2. PICK b : Error(s, "model") \/ Becomes(s, [r EXCEPT !.steps = b])
    BY <1>7 DEF GenerateStep
  <2>3. SameGraph([r EXCEPT !.steps = b], r.pc, r)
    BY GraphLeft
  <2>4. QED
    BY <1>1, <1>3, <2>1, <2>2, <2>3
<1>8. CASE CodeGenCouler(s)
  <2>1. r.pc = "steps" /\ (Go(s, "python") \/ Error(s, "config"))
    BY <1>8 DEF CodeGenCouler, At
  <2>2. QED
    BY <1>1, <1>2, <2>1
<1>9. CASE GenYAML(s)
  <2>1. r.pc = "python"
    BY <1>9 DEF GenYAML, At
  <2>2. PICK b : \/ Go(s, "done") \/ Error(s, "python")
                 \/ Becomes(s, [r EXCEPT !.pc = "done", !.why = "write", !.steps = b])
    BY <1>9 DEF GenYAML
  <2>3. SameGraph([r EXCEPT !.pc = "done", !.why = "write", !.steps = b], "done", r)
    BY GraphLeft
  <2>4. QED
    BY <1>1, <1>2, <1>3, <2>1, <2>2, <2>3
<1>10. CASE RunStep(s)
  <2>1. r.pc = "done"
    BY <1>10 DEF RunStep, At
  <2>2. PICK b : Becomes(s, [r EXCEPT !.ran = b])
    BY <1>10 DEF RunStep
  <2>3. SameGraph([r EXCEPT !.ran = b], r.pc, r)
    BY GraphLeft
  <2>4. QED
    BY <1>3, <2>1, <2>2, <2>3
<1>11. CASE StepFails(s)
  <2>1. r.pc = "done" /\ Go(s, "stopped")
    BY <1>11 DEF StepFails, At
  <2>2. QED
    BY <1>2, <2>1
<1>12. QED
  BY <1>4, <1>5, <1>6, <1>7, <1>8, <1>9, <1>10, <1>11

-----------------------------------------------------------------------------
(* GraphInv. *)

\* What GraphInv says of one session, and that its graph has the type.
Charted(r) ==
    /\ r.pc \in {"analyze", "analyzed"} /\ Len(r.all) > 1 =>
         Len(r.graph) <= Len(r.all) /\ Analysis(r.all, r.graph, r.nodes)
    /\ r.pc = "analyzed" /\ Len(r.all) > 1 => Len(r.graph) = Len(r.all)
    /\ r.pc \notin {"analyze", "analyzed", "error"} => r.graph = <<>> /\ r.nodes = [t \in Tables |-> <<>>]

\* Of all sessions.
ChartedInv == \A s \in Sessions : Charted(ses[s])

\* An analysis begins with nothing.
LEMMA AnalysisBegins ==
    ASSUME NEW all
    PROVE  Analysis(all, <<>>, [t \in Tables |-> <<>>])
<1> DEFINE nodes == [t \in Tables |-> <<>>]
<1>1. nodes \in [Tables -> Seq(Nodes)] /\ \A t \in Tables : nodes[t] = <<>>
  OBVIOUS
<1>2. DOMAIN <<>> = {} /\ <<>> \in Seq(Entries)
  OBVIOUS
<1> HIDE DEF nodes
<1>3. Numbered(<<>>, nodes)
  BY <1>1, <1>2 DEF Numbered
<1>4. Connected(<<>>, nodes, all)
  BY <1>2 DEF Connected
<1>5. Forward(<<>>) /\ WritersLinked(<<>>, all) /\ InSequence(<<>>, all)
  BY <1>2 DEF Forward, WritersLinked, InSequence
<1>6. QED
  BY <1>2, <1>3, <1>4, <1>5 DEF Analysis, nodes

\* The statements of a session have tables.
LEMMA StmtsTabled ==
    ASSUME NEW all \in Seq(Stmts)
    PROVE  Tabled(all)
<1>1. Len(all) \in Nat /\ DOMAIN all = 1..Len(all) /\ \A i \in DOMAIN all : all[i] \in Stmts
  OBVIOUS
<1>2. \A st \in Stmts : st.in \in Seq(Tables) /\ st.out \in Seq(Tables)
  BY DEF Stmts
<1>3. QED
  BY <1>1, <1>2 DEF Tabled

\* Fields of the session while it is analyzed.
Analyzes(u, pc, r, graph, nodes) ==
    u.pc = pc /\ u.all = r.all /\ u.graph = graph /\ u.nodes = nodes

\* Assignments that Analyze makes.
LEMMA AnalyzesPut ==
    ASSUME NEW r, DOMAIN r = Fields, NEW pc, NEW graph, NEW nodes, NEW why
    PROVE  /\ Analyzes([r EXCEPT !.pc = pc, !.graph = graph], pc, r, graph, r.nodes)
           /\ Analyzes([r EXCEPT !.graph = graph, !.nodes = nodes], r.pc, r, graph, nodes)
           /\ Analyzes([r EXCEPT !.pc = pc], pc, r, r.graph, r.nodes)
           /\ Analyzes([r EXCEPT !.pc = pc, !.why = why], pc, r, r.graph, r.nodes)
<1>1. \A f \in Fields : f \in DOMAIN r
  OBVIOUS
<1>2. QED
  BY DEF Analyzes, Fields

\* Analyze keeps it.
LEMMA AnalyzeCharted ==
    ASSUME NEW s, Typed(ses[s]), Charted(ses[s]), AnalyzeStart(s) \/ AnalyzeStatement(s) \/ DrawGraphviz(s)
    PROVE  \E u : Becomes(s, u) /\ Charted(u)
<1> DEFINE r == ses[s]
           all == r.all
<1>1. DOMAIN r = Fields /\ all \in Seq(Stmts) /\ Len(all) \in Nat
  BY DEF Typed
<1>2. Tabled(all)
  BY <1>1, StmtsTabled
<1>3. ASSUME NEW why, Error(s, why) PROVE \E u : Becomes(s, u) /\ Charted(u)
  <2> DEFINE u == [r EXCEPT !.pc = "error", !.why = why]
  <2>1. Becomes(s, u) /\ Analyzes(u, "error", r, r.graph, r.nodes)
    BY <1>1, <1>3, AnalyzesPut DEF Error
  <2> HIDE DEF u
  <2>2. Charted(u)
    BY <2>1 DEF Charted, Analyzes
  <2>3. QED
    BY <2>1, <2>2
<1>4. CASE AnalyzeStart(s)
  <2>1. r.pc = "parsed"
    BY <1>4 DEF AnalyzeStart, At
  <2>2. r.graph = <<>> /\ r.nodes = [t \in Tables |-> <<>>]
    BY <2>1 DEF Charted
  <2>3. CASE Error(s, "empty")
    BY <1>3, <2>3
  <2>4. ASSUME NEW graph, Len(all) = 1, Becomes(s, [r EXCEPT !.pc = "analyzed", !.graph = graph])
        PROVE  \E u : Becomes(s, u) /\ Charted(u)
    <3> DEFINE u == [r EXCEPT !.pc = "analyzed", !.graph = graph]
    <3>1. Becomes(s, u) /\ Analyzes(u, "analyzed", r, graph, r.nodes)
      BY <1>1, <2>4, AnalyzesPut
    <3> HIDE DEF u
    <3>2. u.pc = "analyzed" /\ Len(u.all) = 1
      BY <2>4, <3>1 DEF Analyzes
    <3>3. Charted(u)
      BY <3>2 DEF Charted
    <3>4. QED
      BY <3>1, <3>3
  <2>5. CASE Go(s, "analyze")
    <3> DEFINE u == [r EXCEPT !.pc = "analyze"]
    <3>1. Becomes(s, u) /\ Analyzes(u, "analyze", r, r.graph, r.nodes)
      BY <1>1, <2>5, AnalyzesPut DEF Go
    <3> HIDE DEF u
    <3>2. Analysis(all, u.graph, u.nodes) /\ Len(u.graph) <= Len(all)
      <4>1. Len(<<>>) = 0
        OBVIOUS
      <4>2. QED
        BY <1>1, <2>2, <3>1, <4>1, AnalysisBegins DEF Analyzes
    <3>3. Charted(u)
      BY <3>1, <3>2 DEF Charted, Analyzes
    <3>4. QED
      BY <3>1, <3>3
  <2>6. QED
    BY <1>4, <2>3, <2>4, <2>5 DEF AnalyzeStart
<1>5. CASE AnalyzeStatement(s)
  <2> DEFINE n == Len(r.graph)
             b == [graph |-> r.graph, in |-> <<>>, out |-> <<>>, nodes |-> r.nodes]
             c1 == ConnectStatementInputs(b, all[n + 1].in)
             c == ConnectStatementOutputs(c1, all[n + 1].out)
             u == [r EXCEPT !.graph = WithLast(c), !.nodes = c.nodes]
  <2>1. r.pc = "analyze" /\ n < Len(all)
    BY <1>5 DEF AnalyzeStatement, At
  <2>2. Becomes(s, u)
    BY <1>5 DEF AnalyzeStatement, WithLast
  <2>3. Analyzes(u, "analyze", r, WithLast(c), c.nodes)
    <3> DEFINE g == WithLast(c)
               nodes == c.nodes
    <3> HIDE DEF g, nodes
    <3>1. Analyzes([r EXCEPT !.graph = g, !.nodes = nodes], r.pc, r, g, nodes)
      BY <1>1, AnalyzesPut
    <3>2. QED
      BY <2>1, <3>1 DEF g, nodes
  <2> HIDE DEF u
  <2>4. ASSUME Len(all) > 1 PROVE Analysis(all, WithLast(c), c.nodes) /\ Len(WithLast(c)) <= Len(all)
    <3>1. Analysis(all, r.graph, r.nodes)
      BY <2>1, <2>4 DEF Charted
    <3>2. n \in Nat
      BY <3>1 DEF Analysis
    <3>3. n + 1 \in DOMAIN all /\ n + 1 <= Len(all)
      BY <1>1, <2>1, <3>2
    <3>4. Linked(all, r.graph, r.nodes, c1, c)
      BY <1>2, <3>1, <3>3, StatementLinked
    <3> HIDE DEF c, c1
    <3>5. Analysis(all, WithLast(c), c.nodes) /\ Len(WithLast(c)) = n + 1
      BY <1>2, <3>1, <3>3, <3>4, AnalysisGoes
    <3>6. QED
      BY <3>3, <3>5
  <2> HIDE DEF c
  <2>5. Charted(u)
    BY <2>3, <2>4 DEF Charted, Analyzes
  <2>6. QED
    BY <2>2, <2>5
<1>6. CASE DrawGraphviz(s)
  <2>1. r.pc = "analyze" /\ Len(r.graph) = Len(all)
    BY <1>6 DEF DrawGraphviz, At
  <2>2. CASE Go(s, "analyzed")
    <3> DEFINE u == [r EXCEPT !.pc = "analyzed"]
    <3>1. Becomes(s, u) /\ Analyzes(u, "analyzed", r, r.graph, r.nodes)
      BY <1>1, <2>2, AnalyzesPut DEF Go
    <3> HIDE DEF u
    <3>2. Charted(u)
      BY <2>1, <3>1 DEF Charted, Analyzes
    <3>3. QED
      BY <3>1, <3>2
  <2>3. QED
    BY <1>3, <1>6, <2>2 DEF DrawGraphviz
<1>7. QED
  BY <1>4, <1>5, <1>6

\* So do all steps.
LEMMA ChartedStep == LocalInv /\ ChartedInv /\ [Next]_vars => ChartedInv'
<1> SUFFICES ASSUME LocalInv, ChartedInv, [Next]_vars PROVE ChartedInv'
  OBVIOUS
<1>1. ASSUME NEW s \in Sessions PROVE Typed(ses[s]) /\ DOMAIN ses[s] = Fields /\ Charted(ses[s])
  BY DEF LocalInv, Local, Typed, ChartedInv
<1>2. ASSUME NEW s \in Sessions, Aside(s) PROVE \E u : Becomes(s, u) /\ Charted(u)
  <2>1. PICK u : /\ Becomes(s, u) /\ SameGraph(u, u.pc, ses[s])
                 /\ ses[s].pc \notin {"analyze", "analyzed", "error"} /\ u.pc \notin {"analyze", "analyzed"}
    BY <1>2 DEF Aside
  <2>2. Charted(u)
    BY <1>1, <2>1 DEF Charted, SameGraph
  <2>3. QED
    BY <2>1, <2>2
<1>3. ASSUME NEW s \in Sessions, Parse(s) \/ Compile(s) \/ RunStep(s) \/ StepFails(s)
      PROVE  \E u : Becomes(s, u) /\ Charted(u)
  <2>1. CASE AnalyzeStart(s) \/ AnalyzeStatement(s) \/ DrawGraphviz(s)
    BY <1>1, <2>1, AnalyzeCharted
  <2>2. CASE Parse(s)
    BY <1>1, <1>2, <2>2, ParseElsewhere
  <2>3. CASE \/ Rewrite(s) \/ ResolveSQLProgram(s) \/ GenFiller(s) \/ GenerateStep(s) \/ CodeGenCouler(s) \/ GenYAML(s)
             \/ RunStep(s) \/ StepFails(s)
    BY <1>1, <1>2, <2>3, CompileElsewhere
  <2>4. QED
    BY <1>3, <2>1, <2>2, <2>3 DEF Compile
<1>4. ASSUME NEW s \in Sessions, Parse(s) \/ Compile(s) \/ RunStep(s) \/ StepFails(s) PROVE ChartedInv'
  <2>1. PICK u : Becomes(s, u) /\ Charted(u)
    BY <1>3, <1>4
  <2>2. ses' = [ses EXCEPT ![s] = u] /\ DOMAIN ses = Sessions
    BY <2>1 DEF Becomes, LocalInv
  <2>3. \A o \in Sessions : ses'[o] = IF o = s THEN u ELSE ses[o]
    BY <2>2
  <2>4. \A o \in Sessions : Charted(ses'[o])
    BY <1>1, <2>1, <2>3
  <2>5. QED
    BY <2>4 DEF ChartedInv
<1>5. CASE UNCHANGED ses
  BY <1>5 DEF ChartedInv
<1>6. CASE ServerReady \/ ServerDies \/ UNCHANGED vars
  BY <1>5, <1>6 DEF ServerReady, ServerDies, vars
<1>7. QED
  BY <1>4, <1>6 DEF Next

\* It holds at the start.
LEMMA ChartedInit == Init => ChartedInv
<1>1. Charted(Fresh)
  BY DEF Charted, Fresh
<1>2. QED
  BY <1>1 DEF Init, ChartedInv

\* It implies the invariant that TLC checks.
LEMMA ChartedGraph == ChartedInv => GraphInv
<1> SUFFICES ASSUME ChartedInv PROVE GraphInv
  OBVIOUS
<1>1. \A s \in Sessions : Charted(ses[s])
  BY DEF ChartedInv
<1>2. GraphOrdered
  BY <1>1 DEF GraphOrdered, Charted, Analysis
<1>3. GraphProgress
  BY <1>1 DEF GraphProgress, Charted, Analysis
<1>4. QED
  BY <1>2, <1>3 DEF GraphInv

\* Analyze, of any program by any number of sessions: the graph of a
\* program has a statement for each of its statements; no edge goes back,
\* and no node comes from two statements; a statement follows each earlier
\* one that writes what it reads or writes, by an edge or by two, and a
\* writer follows the statement that touched the table last, if that one
\* reads it (Analyze, sql_program_deps_graph.go:59).
THEOREM GraphKeepsOrder == Spec => []GraphInv
<1>1. Init => Sound /\ ChartedInv
  BY SoundInit, ChartedInit
<1>2. Sound /\ ChartedInv /\ [Next]_vars => Sound' /\ ChartedInv'
  BY SoundStep, ChartedStep DEF Sound
<1>3. ChartedInv => GraphInv
  BY ChartedGraph
<1>4. QED
  BY <1>1, <1>2, <1>3, PTL DEF Spec
=============================================================================
