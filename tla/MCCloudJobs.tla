---------------------------- MODULE MCCloudJobs -----------------------------
(***************************************************************************)
(* Two sessions of one server over four models, one of every kind that the *)
(* code tells apart.                                                       *)
(***************************************************************************)
EXTENDS CloudJobs

Base ==
    [kind |-> "idle", sub |-> "pai", est |-> "DNN", model |-> "m1",
     load |-> "none", into |-> "none", qualified |-> TRUE, sameDb |-> TRUE,
     valid |-> FALSE, vars |-> 1, config |-> "ok", label |-> TRUE,
     fscore |-> FALSE, user |-> "u1"]

S(kind, sub) == [Base EXCEPT !.kind = kind, !.sub = sub]
Into(st, t) == [st EXCEPT !.into = t]
Of(st, m) == [st EXCEPT !.model = m]

MCStored == [m1 |-> "DNN", m2 |-> "BoostedTrees", m3 |-> "xgboost", m4 |-> "kmeans"]
MCModels == DOMAIN MCStored

Clouds == {"pai", "local", "alisa"}

\* One statement alone, in the variants that the code tells apart.
Trains ==
    {[S("train", sub) EXCEPT !.est = e, !.load = l, !.valid = (l = "m2"), !.into = "r1"] :
        sub \in Submitters, e \in {"DNN", "xgboost", "kmeans"}, l \in {"none", "m1", "m2"}}
    \cup {[S("train", sub) EXCEPT !.est = e, !.config = c, !.valid = v] :
        sub \in Clouds, e \in {"DNN", "kmeans"}, c \in {"workers", "bad"}, v \in BOOLEAN}
    \cup {[S("train", sub) EXCEPT !.est = "xgboost", !.model = "m3", !.load = "m3"] :
        sub \in Clouds}
    \cup {[S("train", sub) EXCEPT !.est = "randomforests", !.model = m] :
        sub \in Clouds, m \in {"m1", "m4"}}
Uses ==
    {[S(k, sub) EXCEPT !.model = m, !.into = i, !.label = (i = "r1")] :
        k \in {"predict", "explain", "evaluate"}, sub \in Submitters, m \in MCModels,
        i \in {"none", "r1", "r2"}}
    \cup {[Into(S(k, sub), "r1") EXCEPT !.model = m, !.qualified = FALSE, !.config = c] :
        k \in {"predict", "explain", "evaluate"}, sub \in Clouds, m \in {"m1", "m3"},
        c \in {"ok", "bad"}}
    \cup {[Into(S("explain", sub), i) EXCEPT !.model = m, !.fscore = TRUE, !.label = FALSE] :
        sub \in Clouds, m \in MCModels, i \in {"none", "r1"}}
Others ==
    {[Into(S("optimize", sub), "r1") EXCEPT !.vars = n, !.sameDb = d] :
        sub \in Submitters, n \in {1, 3}, d \in BOOLEAN}
    \cup {S("run", sub) : sub \in {"pai", "local", "alisa"}}

Alone == {st \in Trains \cup Uses \cup Others : st.kind = "predict" => st.into # "none"}

\* Statements that meet.
Pairs ==
    {<<S("train", "pai"), [S("train", "pai") EXCEPT !.est = "xgboost"]>>,
     <<[S("train", "local") EXCEPT !.load = "m1"], Into(S("predict", "pai"), "r1")>>,
     <<S("train", "alisa"), Into(S("evaluate", "local"), "r1")>>,
     <<Into(S("predict", "local"), "r1"), Into(Of(S("explain", "local"), "m2"), "r1")>>,
     <<S("explain", "pai"), Of(S("explain", "pai"), "m3")>>,
     <<S("explain", "pai"), [Of(S("explain", "pai"), "m3") EXCEPT !.user = "u2"]>>,
     <<Into(S("optimize", "pai"), "r2"), Into(Of(S("predict", "alisa"), "m4"), "r2")>>}

MCWorkloads ==
    {[s \in {"s1", "s2"} |-> IF s = "s1" THEN st ELSE Base] : st \in Alone}
    \cup {[s \in {"s1", "s2"} |-> IF s = "s1" THEN p[1] ELSE p[2]] : p \in Pairs}

\* Two TO RUN statements.
RunPair == {[s \in {"s1", "s2"} |-> S("run", "local")]}

MCSessions == {"s1", "s2"}
=============================================================================
