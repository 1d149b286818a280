--------------------------- MODULE WorkflowFetch ---------------------------
(***************************************************************************)
(* Following a submitted workflow.  The client (renderPRCFetchResp in      *)
(* go/cmd/sqlflow) polls the Fetch RPC; Fetch (go/workflow/argo/fetch.go)  *)
(* is stateless: the request says which step the client is at and which    *)
(* phase of it the client has seen, the response says what to ask next.    *)
(* One Fetch reads the workflow, then the pod of the step, then the pod's  *)
(* logs, with kubectl: three reads of a cluster that keeps moving.         *)
(*                                                                         *)
(* The cluster (Argo's controller and the kubelets) is external: a         *)
(* controller creates the pod of a step, publishes the step group in the   *)
(* workflow's status, and does so for the next step when it has noticed    *)
(* that the pod succeeded.                                                 *)
(***************************************************************************)
EXTENDS Naturals

CONSTANTS
    StepCnt,    \* the number of steps of the workflow
    LateNodes   \* TRUE: the phase may be published before the first node

ASSUME FetchAssumption ==
    /\ StepCnt \in Nat \ {0}
    /\ LateNodes \in BOOLEAN

VARIABLES
    wf,      \* [phase, groups]: the workflow's status in the API server
    pod,     \* [step -> the phase of its pod]
    fetch,   \* [pc, groups, step, phase]: the Fetch call in progress, with
             \* the step groups it saw, its step and the pod's phase
    client,  \* [pc, step, phase]: the polling client and its next request
    shown    \* history: [step -> [kind of line -> how often it was rendered]]

vars == <<wf, pod, fetch, client, shown>>

Steps == 1 .. StepCnt

\* "unset" stands for the empty phase of a request and of a workflow (or the
\* phase Pending, which isWorkflowPending treats alike).
PodPhases == {"none", "Pending", "Running", "Succeeded", "Failed"}

\* What is rendered of a step: the header (Execute Code and Log lines), a
\* status line per phase of the pod, the logs of the pod.
LineKinds == PodPhases \cup {"header", "logs"}

\* Counters of what was rendered tell none, one and several apart.
Count == 0 .. 2
Inc(n) == IF n < 2 THEN n + 1 ELSE n

\* poll: in or before a Fetch; eof: the workflow is finished; the other
\* values are why Fetch returned an error.
ClientPC == {"poll", "eof", "stepFailed", "k8sError", "nodeError"}

NoFetch == [pc |-> "idle", groups |-> 0, step |-> 0, phase |-> "none"]

TypeOK ==
    /\ wf \in [phase : {"unset", "Running", "Succeeded", "Failed"}, groups : 0 .. StepCnt]
    /\ pod \in [Steps -> PodPhases]
    /\ fetch \in [pc : {"idle", "pod", "logs"}, groups : 0 .. StepCnt,
                  step : 0 .. StepCnt, phase : PodPhases]
    /\ fetch.pc # "idle" => fetch.step \in Steps
    /\ client \in [pc : ClientPC, step : 0 .. StepCnt, phase : PodPhases \cup {"unset"}]
    /\ shown \in [Steps -> [LineKinds -> Count]]

\* The workflow was just created; the client has its job ID.
Init ==
    /\ wf = [phase |-> "unset", groups |-> 0]
    /\ pod = [i \in Steps |-> "none"]
    /\ fetch = NoFetch
    /\ client = [pc |-> "poll", step |-> 0, phase |-> "unset"]
    /\ shown = [i \in Steps |-> [k \in LineKinds |-> 0]]

-----------------------------------------------------------------------------
(* The cluster. *)

Cluster == UNCHANGED <<fetch, client, shown>>

\* The controller creates the pod of the next step.
CreatePod(i) ==
    /\ i = wf.groups + 1
    /\ pod[i] = "none"
    /\ i > 1 => pod[i - 1] = "Succeeded"
    /\ pod' = [pod EXCEPT ![i] = "Pending"]
    /\ UNCHANGED wf /\ Cluster

\* The controller publishes the step group, with its pod as only child.
PublishGroup(i) ==
    /\ i = wf.groups + 1
    /\ pod[i] # "none"
    /\ wf' = [phase |-> "Running", groups |-> i]
    /\ UNCHANGED pod /\ Cluster

\* The controller publishes that the workflow runs, without a node yet.
PublishRunning ==
    /\ LateNodes
    /\ wf.phase = "unset"
    /\ wf' = [wf EXCEPT !.phase = "Running"]
    /\ UNCHANGED pod /\ Cluster

\* The controller publishes the end of the workflow.
PublishEnd ==
    /\ wf.phase = "Running"
    /\ \/ /\ wf.groups = StepCnt /\ pod[StepCnt] = "Succeeded"
          /\ wf' = [wf EXCEPT !.phase = "Succeeded"]
       \/ /\ wf.groups > 0 /\ pod[wf.groups] = "Failed"
          /\ wf' = [wf EXCEPT !.phase = "Failed"]
    /\ UNCHANGED pod /\ Cluster

\* The kubelet moves a pod on.
PodStep(i) ==
    /\ \/ pod[i] = "Pending" /\ pod' = [pod EXCEPT ![i] = "Running"]
       \/ pod[i] = "Pending" /\ pod' = [pod EXCEPT ![i] = "Failed"]
       \/ pod[i] = "Running" /\ pod' = [pod EXCEPT ![i] = "Succeeded"]
       \/ pod[i] = "Running" /\ pod' = [pod EXCEPT ![i] = "Failed"]
    /\ UNCHANGED wf /\ Cluster

-----------------------------------------------------------------------------
(* Fetch, and the client's loop around it. *)

\* Fetch returns an error: gRPC drops the response and the client gives up.
FetchError(why) ==
    /\ client' = [client EXCEPT !.pc = why]
    /\ fetch' = NoFetch
    /\ UNCHANGED <<wf, pod, shown>>

\* kubectl or the connection fails in one of the reads of a Fetch.
ReadFails ==
    /\ client.pc = "poll"
    /\ FetchError("k8sError")

\* isWorkflowPending: nothing to show, ask again from the beginning.
FetchPending ==
    /\ client.pc = "poll"
    /\ fetch.pc = "idle"
    /\ wf.phase = "unset"
    /\ client' = [client EXCEPT !.step = 0, !.phase = "unset"]
    /\ UNCHANGED <<wf, pod, fetch, shown>>

(***************************************************************************)
(* k8sReadWorkflow, getStepGroup, getStepIdx: the step of the request, or  *)
(* the first one, found in the nodes of this snapshot.  getFirstStepGroup  *)
(* sleeps when the root node is missing but looks at the same snapshot     *)
(* again, so a missing node is an error.                                   *)
(***************************************************************************)
FetchWorkflow ==
    /\ client.pc = "poll"
    /\ fetch.pc = "idle"
    /\ wf.phase # "unset"
    /\ IF wf.groups = 0
       THEN FetchError("nodeError")
       ELSE /\ fetch' = [pc |-> "pod", groups |-> wf.groups, phase |-> "none",
                         step |-> IF client.step = 0 THEN 1 ELSE client.step]
            /\ UNCHANGED <<wf, pod, client, shown>>

\* What a response announces: the header of a step that the client has not
\* seen yet, and the pod's phase if the client has not seen it.
Announced(phase) ==
    (IF client.phase = "unset" THEN {"header"} ELSE {})
        \cup (IF client.phase # phase THEN {phase} ELSE {})

\* The client renders lines of these kinds for step i.
Render(i, kinds) ==
    shown' = [shown EXCEPT ![i] =
                [k \in LineKinds |-> IF k \in kinds THEN Inc(@[k]) ELSE @[k]]]

\* Mutant: a failed pod does not count as completed.
isPodSucceeded(phase) == phase = "Succeeded"

isPodCompleted(phase) == phase \in {"Succeeded", "Failed"}

\* Mutant: the phase that was shown is not recorded in the next request.
FetchPodUnrecorded ==
    /\ fetch.pc = "pod"
    /\ LET i == fetch.step IN
         IF isPodCompleted(pod[i])
         THEN /\ fetch' = [fetch EXCEPT !.pc = "logs", !.phase = pod[i]]
              /\ UNCHANGED <<client, shown>>
         ELSE /\ fetch' = NoFetch
              /\ client' = [client EXCEPT !.step = i]
              /\ Render(i, Announced(pod[i]))
    /\ UNCHANGED <<wf, pod>>

\* getPodByStepGroup; a pod that still runs is only announced.
FetchPod ==
    /\ fetch.pc = "pod"
    /\ LET i == fetch.step IN
         IF isPodCompleted(pod[i])
         THEN /\ fetch' = [fetch EXCEPT !.pc = "logs", !.phase = pod[i]]
              /\ UNCHANGED <<client, shown>>
         ELSE /\ fetch' = NoFetch
              /\ client' = [client EXCEPT !.step = i, !.phase = pod[i]]
              /\ Render(i, Announced(pod[i]))
    /\ UNCHANGED <<wf, pod>>

\* Mutant: the last step group of the snapshot.
LastStepGroup == IF fetch.groups > fetch.step THEN fetch.groups ELSE 0
\* getNextStepGroup in the snapshot of this Fetch, 0 for none.
NextStepGroup == IF fetch.groups > fetch.step THEN fetch.step + 1 ELSE 0

\* The logs of a failed pod: Fetch returns an error with them.
FetchFailedPod ==
    /\ fetch.pc = "logs"
    /\ fetch.phase = "Failed"
    /\ FetchError("stepFailed")

\* Mutants: eof when the snapshot shows no next step, or one step too late.
FetchLogsIf(eof(_)) ==
    /\ fetch.pc = "logs"
    /\ fetch.phase = "Succeeded"
    /\ LET i == fetch.step IN
         /\ Render(i, Announced(fetch.phase) \cup {"logs"})
         /\ client' = IF NextStepGroup # 0
                      THEN [client EXCEPT !.step = NextStepGroup, !.phase = "unset"]
                      ELSE [pc |-> IF eof(i) THEN "eof" ELSE "poll",
                            step |-> i, phase |-> fetch.phase]
    /\ fetch' = NoFetch
    /\ UNCHANGED <<wf, pod>>
FetchLogsNoNext == LET eof(i) == TRUE IN FetchLogsIf(eof)
FetchLogsTooLate == LET eof(i) == i > StepCnt IN FetchLogsIf(eof)

\* The logs of a pod that succeeded, and where to go on.
FetchLogs ==
    /\ fetch.pc = "logs"
    /\ fetch.phase = "Succeeded"
    /\ LET i == fetch.step IN
         /\ Render(i, Announced(fetch.phase) \cup {"logs"})
         /\ client' = IF NextStepGroup # 0
                      THEN [client EXCEPT !.step = NextStepGroup, !.phase = "unset"]
                      ELSE [pc |-> IF i = StepCnt THEN "eof" ELSE "poll",
                            step |-> i, phase |-> fetch.phase]
    /\ fetch' = NoFetch
    /\ UNCHANGED <<wf, pod>>

-----------------------------------------------------------------------------
ClusterStep ==
    \/ \E i \in Steps : CreatePod(i) \/ PublishGroup(i) \/ PodStep(i)
    \/ PublishRunning
    \/ PublishEnd

FetchStep == FetchPending \/ FetchWorkflow \/ FetchPod \/ FetchFailedPod \/ FetchLogs

Next == ClusterStep \/ FetchStep \/ ReadFails

(***************************************************************************)
(* The cluster makes progress (pods run and end, the controller keeps      *)
(* reconciling) and the client keeps polling; nothing says that kubectl    *)
(* ever fails.                                                             *)
(***************************************************************************)
Fairness == WF_vars(ClusterStep) /\ WF_vars(FetchStep)

Spec == Init /\ [][Next]_vars /\ Fairness

-----------------------------------------------------------------------------
(* Properties. *)

\* The client is told that the workflow is finished only when every step has
\* succeeded and it has shown the header and the logs of each of them.
EofMeansComplete ==
    client.pc = "eof" =>
        \A i \in Steps : /\ pod[i] = "Succeeded"
                         /\ shown[i]["header"] = 1
                         /\ shown[i]["logs"] > 0

\* "record the Pod phase to avoid output the duplicated logs": the header of
\* a step and each of its status lines are shown at most once.
AnnouncedOnce == \A i \in Steps, k \in LineKinds \ {"logs"} : shown[i][k] <= 1

\* A step error is a failed pod of the step the client is at: the steps
\* before it succeeded and their logs were shown, the steps after it were
\* never started.
StepErrorIsReal ==
    client.pc = "stepFailed" =>
        \E i \in Steps : /\ pod[i] = "Failed"
                         /\ \A j \in Steps : j < i => pod[j] = "Succeeded" /\ shown[j]["logs"] > 0
                         /\ \A j \in Steps : j > i => pod[j] = "none" /\ shown[j]["header"] = 0

\* Steps are shown in order: logs of a step appear when the logs of all
\* earlier steps have been shown and nothing of a later step has.
LogsInOrder ==
    [][\A i \in Steps :
         shown'[i]["logs"] # shown[i]["logs"] =>
             \A j \in Steps : /\ j < i => shown[j]["logs"] > 0
                              /\ j > i => shown[j]["header"] = 0]_vars

\* The client does not poll for ever, and does not end with eof when a step
\* has failed.
ClientEnds == <>(client.pc # "poll")
FailureSurfaces ==
    \A i \in Steps : (pod[i] = "Failed") ~> (client.pc \notin {"poll", "eof"})

-----------------------------------------------------------------------------
(* The invariant behind EofMeansComplete, AnnouncedOnce and StepErrorIsReal. *)

\* The step of the client's next request.
At == IF client.step = 0 THEN 1 ELSE client.step

\* How far a pod is in its life.
Rank(phase) ==
    CASE phase = "Pending" -> 1
      [] phase = "Running" -> 2
      [] phase \in {"Succeeded", "Failed"} -> 3
      [] OTHER -> 0

\* Pods are created in order, each after the one before it succeeded, and
\* at most one ahead of the published step groups.
PodsInOrder ==
    /\ \A i \in Steps : /\ i <= wf.groups => pod[i] # "none"
                        /\ i > wf.groups + 1 => pod[i] = "none"
    /\ \A i \in Steps : i > 1 /\ pod[i] # "none" => pod[i - 1] = "Succeeded"
    /\ wf.phase = "unset" => wf.groups = 0

\* The client is at a published step, everything before it is shown and
\* nothing after it.
ClientPosition ==
    /\ client.step <= wf.groups
    /\ \A i \in Steps : /\ i < At => shown[i]["header"] = 1 /\ shown[i]["logs"] > 0
                        /\ i > At => shown[i] = [k \in LineKinds |-> 0]

\* The phase of the next request is the last one shown for its step.
ClientPhase ==
    /\ client.step = 0 => client.phase = "unset"
    /\ client.phase = "unset" => \A k \in LineKinds : shown[At][k] = 0
    /\ client.phase # "unset" =>
          /\ shown[At]["header"] = 1
          /\ Rank(client.phase) <= Rank(pod[At])
          /\ (client.phase \in {"Succeeded", "Failed"}) => (pod[At] = client.phase)
          /\ \A p \in PodPhases :
                shown[At][p] > 0 => Rank(p) <= Rank(client.phase)

\* A Fetch in progress works on the client's step, its snapshot is not newer
\* than the workflow, and a completed pod stays as it was read.
FetchSnapshot ==
    fetch.pc # "idle" =>
        /\ client.pc = "poll"
        /\ fetch.step = At
        /\ fetch.step <= fetch.groups
        /\ fetch.groups <= wf.groups
        /\ fetch.pc = "logs" => /\ pod[fetch.step] = fetch.phase
                                /\ fetch.phase \in {"Succeeded", "Failed"}

\* Why the client stopped.
Outcome ==
    /\ client.pc = "eof" => /\ client.step = StepCnt
                            /\ shown[StepCnt]["header"] = 1
                            /\ shown[StepCnt]["logs"] > 0
                            /\ pod[StepCnt] = "Succeeded"
    /\ client.pc = "stepFailed" => pod[At] = "Failed"

\* The inductive invariant: the pods, the client's position and phase, the
\* Fetch in progress and the outcome fit together at every step.
FetchInv ==
    /\ PodsInOrder
    /\ ClientPosition
    /\ ClientPhase
    /\ FetchSnapshot
    /\ AnnouncedOnce
    /\ Outcome

=============================================================================
