------------------------ MODULE WorkflowFetchProofs ------------------------
(***************************************************************************)
(* Proofs about WorkflowFetch for a workflow of any number of steps.       *)
(***************************************************************************)
EXTENDS WorkflowFetch, TLAPS

LEMMA NextCases ==
    ASSUME Next
    PROVE  \/ \E i \in Steps : CreatePod(i)
           \/ \E i \in Steps : PublishGroup(i)
           \/ \E i \in Steps : PodStep(i)
           \/ PublishRunning
           \/ PublishEnd
           \/ FetchPending
           \/ FetchWorkflow
           \/ FetchPod
           \/ FetchFailedPod
           \/ FetchLogs
           \/ ReadFails
BY DEF Next, ClusterStep, FetchStep

\* Rendering lines keeps the counters of what was shown in their range.
LEMMA RenderTyping ==
    ASSUME shown \in [Steps -> [LineKinds -> Count]],
           NEW i \in Steps, NEW kinds, Render(i, kinds)
    PROVE  shown' \in [Steps -> [LineKinds -> Count]]
<1> DEFINE row == [k \in LineKinds |-> IF k \in kinds THEN Inc(shown[i][k]) ELSE shown[i][k]]
<1>1. row \in [LineKinds -> Count]
  BY DEF Inc, Count
<1>2. shown' = [shown EXCEPT ![i] = row]
  BY DEF Render
<1>3. QED
  BY <1>1, <1>2

\* A step of the workflow is what follows the step of a Fetch, or nothing.
LEMMA NextStepGroupTyping ==
    ASSUME TypeOK, fetch.pc # "idle"
    PROVE  NextStepGroup \in 0 .. StepCnt
BY FetchAssumption DEF TypeOK, NextStepGroup, Steps

\* The cluster, the Fetch in progress, the client and what it has shown keep
\* their types; in particular the step of a request is a step of the workflow.
THEOREM FetchTyping == Spec => []TypeOK
<1>1. Init => TypeOK
  BY FetchAssumption DEF Init, TypeOK, NoFetch, PodPhases, ClientPC, LineKinds, Count, Steps
<1>2. TypeOK /\ [Next]_vars => TypeOK'
  <2> SUFFICES ASSUME TypeOK, [Next]_vars
               PROVE  TypeOK'
    OBVIOUS
  <2> USE FetchAssumption DEF TypeOK, PodPhases, ClientPC, Steps
  <2>1. ASSUME NEW i \in Steps, CreatePod(i) PROVE TypeOK'
    BY <2>1 DEF CreatePod, Cluster
  <2>2. ASSUME NEW i \in Steps, PublishGroup(i) PROVE TypeOK'
    BY <2>2 DEF PublishGroup, Cluster
  <2>3. ASSUME NEW i \in Steps, PodStep(i) PROVE TypeOK'
    BY <2>3 DEF PodStep, Cluster
  <2>4. CASE PublishRunning
    BY <2>4 DEF PublishRunning, Cluster
  <2>5. CASE PublishEnd
    BY <2>5 DEF PublishEnd, Cluster
  <2>6. CASE FetchPending
    <3>1. 0 \in 0 .. StepCnt
      OBVIOUS
    <3>2. client' \in [pc : ClientPC, step : 0 .. StepCnt, phase : PodPhases \cup {"unset"}]
      BY <2>6, <3>1 DEF FetchPending
    <3>3. QED
      BY <2>6, <3>2 DEF FetchPending
  <2>7. CASE FetchWorkflow
    BY <2>7 DEF FetchWorkflow, FetchError, NoFetch
  <2>8. CASE FetchPod
    <3> DEFINE p == pod[fetch.step]
    <3>0. fetch.step \in Steps /\ p \in PodPhases
      BY <2>8 DEF FetchPod
    <3>1. CASE isPodCompleted(p)
      <4>1. fetch' = [fetch EXCEPT !.pc = "logs", !.phase = p]
            /\ UNCHANGED <<wf, pod, client, shown>>
        BY <2>8, <3>1 DEF FetchPod
      <4>2. QED
        BY <3>0, <4>1
    <3>2. CASE ~isPodCompleted(p)
      <4>1. shown' \in [Steps -> [LineKinds -> Count]]
        BY <2>8, <3>0, <3>2, RenderTyping DEF FetchPod
      <4>2. /\ fetch' = NoFetch
            /\ client' = [client EXCEPT !.step = fetch.step, !.phase = p]
            /\ UNCHANGED <<wf, pod>>
        BY <2>8, <3>2 DEF FetchPod
      <4>3. client' \in [pc : ClientPC, step : 0 .. StepCnt, phase : PodPhases \cup {"unset"}]
        BY <3>0, <4>2
      <4>4. fetch' \in [pc : {"idle", "pod", "logs"}, groups : 0 .. StepCnt,
                       step : 0 .. StepCnt, phase : PodPhases]
            /\ fetch'.pc = "idle"
        BY <4>2 DEF NoFetch
      <4>5. QED
        BY <4>1, <4>2, <4>3, <4>4
    <3>3. QED
      BY <3>1, <3>2
  <2>9. CASE FetchFailedPod
    BY <2>9 DEF FetchFailedPod, FetchError, NoFetch
  <2>10. CASE FetchLogs
    <3>1. shown' \in [Steps -> [LineKinds -> Count]]
      BY <2>10, RenderTyping DEF FetchLogs
    <3>2. client' \in [pc : ClientPC, step : 0 .. StepCnt, phase : PodPhases \cup {"unset"}]
      BY <2>10, NextStepGroupTyping DEF FetchLogs
    <3>3. QED
      BY <2>10, <3>1, <3>2 DEF FetchLogs, NoFetch
  <2>11. CASE ReadFails
    BY <2>11 DEF ReadFails, FetchError, NoFetch
  <2>12. CASE UNCHANGED vars
    BY <2>12 DEF vars
  <2>13. QED
    BY <2>1, <2>2, <2>3, <2>4, <2>5, <2>6, <2>7, <2>8, <2>9, <2>10, <2>11, <2>12,
       NextCases
<1>3. QED
  BY <1>1, <1>2, PTL DEF Spec

-----------------------------------------------------------------------------
\* The order in which a pod goes through its phases.
LEMMA RankValues ==
    /\ Rank("none") = 0
    /\ Rank("unset") = 0
    /\ Rank("Pending") = 1
    /\ Rank("Running") = 2
    /\ Rank("Succeeded") = 3
    /\ Rank("Failed") = 3
BY DEF Rank

LEMMA RankTyping == \A p : Rank(p) \in Nat
BY DEF Rank

LEMMA InitInv == Init => FetchInv
BY FetchAssumption
   DEF Init, FetchInv, PodsInOrder, ClientPosition, ClientPhase, FetchSnapshot,
       AnnouncedOnce, Outcome, NoFetch, At, Steps, LineKinds

\* Steps of the cluster preserve the invariant: pods only move forward, step
\* groups are only added.
LEMMA ClusterInv ==
    ASSUME TypeOK, FetchInv, ClusterStep
    PROVE  FetchInv'
<1> USE FetchAssumption DEF TypeOK, Steps, PodPhases
<1> UNCHANGED <<fetch, client, shown>>
  BY DEF ClusterStep, CreatePod, PublishGroup, PodStep, PublishRunning, PublishEnd, Cluster
<1> At' = At /\ At \in Steps
  BY DEF At
<1>a. AnnouncedOnce'
  BY DEF FetchInv, AnnouncedOnce
<1>1. ASSUME NEW i \in Steps, CreatePod(i) PROVE FetchInv'
  <2>1. PodsInOrder'
    BY <1>1 DEF CreatePod, FetchInv, PodsInOrder
  <2>2. QED
    BY <1>a, <1>1, <2>1
       DEF CreatePod, FetchInv, PodsInOrder, ClientPosition, ClientPhase, FetchSnapshot, Outcome, Rank
<1>2. ASSUME NEW i \in Steps, PublishGroup(i) PROVE FetchInv'
  BY <1>a, <1>2
     DEF PublishGroup, FetchInv, PodsInOrder, ClientPosition, ClientPhase, FetchSnapshot, Outcome
<1>3. ASSUME NEW i \in Steps, PodStep(i) PROVE FetchInv'
  <2>1. PodsInOrder'
    <3>1. wf' = wf
      BY <1>3 DEF PodStep
    <3>2. \A j \in Steps : j # i => pod'[j] = pod[j]
      BY <1>3 DEF PodStep
    <3>3. pod[i] \in {"Pending", "Running"} /\ pod'[i] \in {"Running", "Succeeded", "Failed"}
      BY <1>3 DEF PodStep
    <3>4. ASSUME NEW j \in Steps, j > 1, pod'[j] # "none" PROVE pod'[j - 1] = "Succeeded"
      <4>1. pod[j] # "none"
        BY <3>2, <3>3, <3>4
      <4>2. pod[j - 1] = "Succeeded" /\ j - 1 \in Steps
        BY <3>4, <4>1 DEF FetchInv, PodsInOrder
      <4>3. QED
        BY <3>2, <3>3, <4>2
    <3>5. ASSUME NEW j \in Steps
          PROVE  /\ j <= wf'.groups => pod'[j] # "none"
                 /\ j > wf'.groups + 1 => pod'[j] = "none"
      BY <3>1, <3>2, <3>3 DEF FetchInv, PodsInOrder
    <3>6. QED
      BY <3>1, <3>4, <3>5 DEF FetchInv, PodsInOrder
  <2>2. ClientPhase'
    <3>1. pod[At] \in {"Succeeded", "Failed"} => pod'[At] = pod[At]
      BY <1>3 DEF PodStep
    <3>2. Rank(pod[At]) <= Rank(pod'[At])
      <4>1. CASE i # At
        <5>1. pod'[At] = pod[At]
          BY <1>3, <4>1 DEF PodStep
        <5>2. QED
          BY <5>1, RankTyping
      <4>2. CASE i = At
        <5>1. \/ pod[At] = "Pending" /\ pod'[At] \in {"Running", "Failed"}
              \/ pod[At] = "Running" /\ pod'[At] \in {"Succeeded", "Failed"}
          BY <1>3, <4>2 DEF PodStep
        <5>2. QED
          BY <5>1, RankValues
      <4>3. QED
        BY <4>1, <4>2
    <3>3. Rank(client.phase) \in Nat /\ Rank(pod[At]) \in Nat /\ Rank(pod'[At]) \in Nat
      BY RankTyping
    <3>4. ClientPhase
      BY DEF FetchInv
    <3>5. client.phase # "unset" =>
             /\ Rank(client.phase) <= Rank(pod'[At])
             /\ client.phase \in {"Succeeded", "Failed"} => pod'[At] = client.phase
      BY <3>1, <3>2, <3>3, <3>4 DEF ClientPhase
    <3>6. QED
      BY <3>4, <3>5 DEF ClientPhase
  <2>3. QED
    BY <1>a, <1>3, <2>1, <2>2
       DEF PodStep, FetchInv, PodsInOrder, ClientPosition, FetchSnapshot, Outcome
<1>4. CASE PublishRunning
  BY <1>a, <1>4
     DEF PublishRunning, FetchInv, PodsInOrder, ClientPosition, ClientPhase, FetchSnapshot, Outcome
<1>5. CASE PublishEnd
  BY <1>a, <1>5
     DEF PublishEnd, FetchInv, PodsInOrder, ClientPosition, ClientPhase, FetchSnapshot, Outcome
<1>6. QED
  BY <1>1, <1>2, <1>3, <1>4, <1>5 DEF ClusterStep

\* What rendering changes: the counters of the rendered kinds of one step.
LEMMA RenderRow ==
    ASSUME shown \in [Steps -> [LineKinds -> Count]],
           NEW i \in Steps, NEW kinds, Render(i, kinds)
    PROVE  /\ \A j \in Steps : j # i => shown'[j] = shown[j]
           /\ \A k \in LineKinds :
                shown'[i][k] = IF k \in kinds THEN Inc(shown[i][k]) ELSE shown[i][k]
<1> DEFINE row == [k \in LineKinds |-> IF k \in kinds THEN Inc(shown[i][k]) ELSE shown[i][k]]
<1>1. shown' = [shown EXCEPT ![i] = row]
  BY DEF Render
<1> HIDE DEF row
<1>2. shown'[i] = row /\ \A j \in Steps : j # i => shown'[j] = shown[j]
  BY <1>1
<1>3. QED
  BY <1>2 DEF row

\* A response that answers with the pod's phase announces what the client has
\* not seen: the header with the first phase, then each later phase.
LEMMA AnnounceOnce ==
    ASSUME TypeOK, TypeOK', FetchInv,
           fetch.step \in Steps, fetch.step = At,
           NEW p \in PodPhases \ {"none"},
           Rank(client.phase) <= Rank(p),
           client.phase \in {"Succeeded", "Failed"} => p = client.phase,
           NEW more \in SUBSET {"logs"},
           Render(At, Announced(p) \cup more)
    PROVE  /\ AnnouncedOnce'
           /\ \A j \in Steps : j # At => shown'[j] = shown[j]
           /\ shown'[At]["header"] = 1
           /\ \A q \in PodPhases : shown'[At][q] > 0 => Rank(q) <= Rank(p)
           /\ "logs" \in more => shown'[At]["logs"] > 0
<1> USE DEF PodPhases
<1>0. shown \in [Steps -> [LineKinds -> Count]] /\ shown' \in [Steps -> [LineKinds -> Count]]
      /\ At \in Steps
  BY DEF TypeOK
<1>1. /\ \A j \in Steps : j # At => shown'[j] = shown[j]
      /\ \A k \in LineKinds :
           shown'[At][k] = IF k \in Announced(p) \cup more THEN Inc(shown[At][k]) ELSE shown[At][k]
  BY <1>0, RenderRow
<1>2. \A k \in LineKinds : shown[At][k] \in Count /\ shown'[At][k] \in Count
  BY <1>0
<1>3. client.phase = "unset" => \A k \in LineKinds : shown[At][k] = 0
  BY DEF FetchInv, ClientPhase
<1>4. client.phase # "unset" => /\ shown[At]["header"] = 1
                                /\ \A q \in PodPhases : shown[At][q] > 0 => Rank(q) <= Rank(client.phase)
  BY DEF FetchInv, ClientPhase
<1>5. \A k \in LineKinds \ {"logs"} : shown[At][k] <= 1
  BY <1>0 DEF FetchInv, AnnouncedOnce
<1>6. shown'[At]["header"] = 1
  BY <1>1, <1>3, <1>4 DEF Announced, LineKinds, Inc
<1>7. \A q \in PodPhases : shown'[At][q] > 0 => Rank(q) <= Rank(p)
  <2> SUFFICES ASSUME NEW q \in PodPhases, shown'[At][q] > 0
               PROVE  Rank(q) <= Rank(p)
    OBVIOUS
  <2>0. q \in LineKinds /\ q \notin {"header", "logs"}
    BY DEF LineKinds
  <2>1. CASE q = p
    BY <2>1, RankTyping
  <2>2. CASE q # p
    <3>1. shown[At][q] > 0
      BY <1>1, <2>0, <2>2 DEF Announced
    <3>2. Rank(q) <= Rank(client.phase)
      BY <1>3, <1>4, <2>0, <3>1
    <3>3. QED
      BY <3>2, RankTyping
  <2>3. QED
    BY <2>1, <2>2
<1>8. \A k \in LineKinds \ {"logs"} : shown'[At][k] <= 1
  <2> SUFFICES ASSUME NEW k \in LineKinds \ {"logs"}
               PROVE  shown'[At][k] <= 1
    OBVIOUS
  <2>1. CASE k = "header"
    BY <1>6, <2>1
  <2>2. CASE k = p /\ client.phase # p
    <3>1. shown[At][p] = 0
      <4>1. CASE client.phase = "unset"
        BY <1>3, <2>2, <4>1
      <4>2. CASE client.phase # "unset"
        <5>1. ~(Rank(p) <= Rank(client.phase))
          <6>1. client.phase \in PodPhases
            BY <4>2 DEF TypeOK
          <6>2. QED
            BY <2>2, <6>1, RankValues
        <5>2. QED
          BY <1>2, <1>4, <2>2, <4>2, <5>1 DEF Count
      <4>3. QED
        BY <4>1, <4>2
    <3>2. QED
      BY <1>1, <2>2, <3>1 DEF Inc
  <2>3. CASE k # "header" /\ ~(k = p /\ client.phase # p)
    BY <1>1, <1>5, <2>3 DEF Announced
  <2>4. QED
    BY <2>1, <2>2, <2>3
<1>9. AnnouncedOnce'
  BY <1>0, <1>1, <1>8 DEF FetchInv, AnnouncedOnce
<1>10. "logs" \in more => shown'[At]["logs"] > 0
  BY <1>1, <1>2 DEF LineKinds, Inc, Count
<1>11. QED
  BY <1>1, <1>6, <1>7, <1>9, <1>10

\* Steps of Fetch and of the client preserve the invariant.
LEMMA FetchStepInv ==
    ASSUME TypeOK, TypeOK', FetchInv, FetchStep \/ ReadFails
    PROVE  FetchInv'
<1> USE FetchAssumption DEF TypeOK, Steps
<1>a. At \in Steps
  BY DEF At
<1>1. ASSUME NEW why \in {"k8sError", "nodeError"}, FetchError(why) PROVE FetchInv'
  BY <1>1
     DEF FetchError, NoFetch, At, FetchInv, PodsInOrder, ClientPosition, ClientPhase, FetchSnapshot,
         AnnouncedOnce, Outcome
<1>2. CASE FetchPending
  <2>1. client.step = 0 /\ client.phase = "unset"
    BY <1>2 DEF FetchPending, FetchInv, PodsInOrder, ClientPosition, ClientPhase
  <2>2. client' = client
    BY <1>2, <2>1 DEF FetchPending
  <2>3. QED
    BY <1>2, <2>2
       DEF FetchPending, At, FetchInv, PodsInOrder, ClientPosition, ClientPhase, FetchSnapshot,
           AnnouncedOnce, Outcome
<1>3. CASE FetchWorkflow
  <2>1. CASE wf.groups = 0
    BY <1>1, <1>3, <2>1 DEF FetchWorkflow
  <2>2. CASE wf.groups # 0
    BY <1>3, <2>2
       DEF FetchWorkflow, At, FetchInv, PodsInOrder, ClientPosition, ClientPhase, FetchSnapshot,
           AnnouncedOnce, Outcome
  <2>3. QED
    BY <2>1, <2>2
<1>4. CASE FetchPod
  <2> DEFINE p == pod[At]
  <2>0. /\ fetch.step = At /\ At <= fetch.groups /\ fetch.groups <= wf.groups /\ client.pc = "poll"
        /\ p \in PodPhases \ {"none"}
    BY <1>a, <1>4 DEF FetchPod, FetchInv, FetchSnapshot, PodsInOrder
  <2>1. CASE isPodCompleted(p)
    <3>1. fetch' = [fetch EXCEPT !.pc = "logs", !.phase = p] /\ UNCHANGED <<wf, pod, client, shown>>
      BY <1>4, <2>0, <2>1 DEF FetchPod
    <3>2. At' = At
      BY <3>1 DEF At
    <3>3. FetchSnapshot'
      BY <2>0, <2>1, <3>1, <3>2 DEF FetchSnapshot, isPodCompleted
    <3>4. QED
      BY <3>1, <3>2, <3>3
         DEF FetchInv, PodsInOrder, ClientPosition, ClientPhase, AnnouncedOnce, Outcome
  <2>2. CASE ~isPodCompleted(p)
    <3>1. /\ Render(At, Announced(p) \cup {})
          /\ fetch' = NoFetch
          /\ client' = [client EXCEPT !.step = At, !.phase = p]
          /\ UNCHANGED <<wf, pod>>
      BY <1>4, <2>0, <2>2 DEF FetchPod
    <3>2. /\ Rank(client.phase) <= Rank(p)
          /\ client.phase \in {"Succeeded", "Failed"} => p = client.phase
      BY <2>0, RankValues, RankTyping DEF FetchInv, ClientPhase
    <3>3. /\ AnnouncedOnce'
          /\ \A j \in Steps : j # At => shown'[j] = shown[j]
          /\ shown'[At]["header"] = 1
          /\ \A q \in PodPhases : shown'[At][q] > 0 => Rank(q) <= Rank(p)
      <4>1. {} \in SUBSET {"logs"}
        OBVIOUS
      <4>2. QED
        BY <1>a, <2>0, <3>1, <3>2, <4>1, AnnounceOnce
    <3>4. client'.step = At /\ client'.phase = p /\ client'.pc = "poll" /\ At' = At
      BY <1>a, <2>0, <3>1 DEF At
    <3>5. PodsInOrder' /\ FetchSnapshot' /\ Outcome'
      BY <3>1, <3>4 DEF NoFetch, FetchInv, PodsInOrder, FetchSnapshot, Outcome
    <3>6. ClientPosition'
      BY <1>a, <2>0, <3>1, <3>3, <3>4 DEF FetchInv, ClientPosition
    <3>7. ClientPhase'
      BY <1>a, <2>0, <2>2, <3>1, <3>3, <3>4, RankTyping DEF ClientPhase, isPodCompleted, PodPhases
    <3>8. QED
      BY <3>3, <3>5, <3>6, <3>7 DEF FetchInv
  <2>3. QED
    BY <2>1, <2>2
<1>5. CASE FetchFailedPod
  BY <1>5
     DEF FetchFailedPod, FetchError, NoFetch, At, FetchInv, PodsInOrder, ClientPosition, ClientPhase,
         FetchSnapshot, AnnouncedOnce, Outcome
<1>6. CASE FetchLogs
  <2>0. /\ fetch.step = At /\ At <= fetch.groups /\ fetch.groups <= wf.groups /\ client.pc = "poll"
        /\ pod[At] = "Succeeded" /\ fetch.phase = "Succeeded"
    BY <1>6 DEF FetchLogs, FetchInv, FetchSnapshot
  <2>1. Render(At, Announced("Succeeded") \cup {"logs"})
    BY <1>6, <2>0 DEF FetchLogs
  <2>2. /\ Rank(client.phase) <= Rank("Succeeded")
        /\ client.phase \in {"Succeeded", "Failed"} => "Succeeded" = client.phase
    BY <2>0, RankValues, RankTyping DEF FetchInv, ClientPhase
  <2>3. /\ AnnouncedOnce'
        /\ \A j \in Steps : j # At => shown'[j] = shown[j]
        /\ shown'[At]["header"] = 1
        /\ \A q \in PodPhases : shown'[At][q] > 0 => Rank(q) <= Rank("Succeeded")
        /\ shown'[At]["logs"] > 0
    <3>1. "Succeeded" \in PodPhases \ {"none"} /\ {"logs"} \in SUBSET {"logs"} /\ "logs" \in {"logs"}
      BY DEF PodPhases
    <3>2. QED
      BY <1>a, <2>0, <2>1, <2>2, <3>1, AnnounceOnce
  <2>4. UNCHANGED <<wf, pod>> /\ fetch' = NoFetch
    BY <1>6 DEF FetchLogs
  <2>5. PodsInOrder' /\ FetchSnapshot'
    BY <2>4 DEF NoFetch, FetchInv, PodsInOrder, FetchSnapshot
  <2>6. CASE NextStepGroup # 0
    <3>1. NextStepGroup = At + 1 /\ At + 1 <= wf.groups /\ At + 1 \in Steps
      BY <1>a, <2>0, <2>6 DEF NextStepGroup
    <3>2. client' = [client EXCEPT !.step = At + 1, !.phase = "unset"]
      BY <1>6, <2>6, <3>1 DEF FetchLogs
    <3>3. client'.step = At + 1 /\ client'.phase = "unset" /\ client'.pc = "poll" /\ At' = At + 1
      BY <1>a, <2>0, <3>2 DEF At
    <3>4. ClientPosition'
      BY <1>a, <2>3, <2>4, <3>1, <3>3 DEF FetchInv, ClientPosition
    <3>5. ClientPhase'
      <4>1. At + 1 # At /\ At + 1 > At
        BY <1>a
      <4>2. shown'[At + 1] = [k \in LineKinds |-> 0]
        BY <2>3, <3>1, <4>1 DEF FetchInv, ClientPosition
      <4>3. client'.step # 0
        BY <1>a, <3>3
      <4>4. QED
        BY <3>3, <4>2, <4>3 DEF ClientPhase
    <3>6. QED
      BY <2>3, <2>5, <3>3, <3>4, <3>5 DEF FetchInv, Outcome
  <2>7. CASE NextStepGroup = 0
    <3>1. client' = [pc |-> IF At = StepCnt THEN "eof" ELSE "poll", step |-> At, phase |-> "Succeeded"]
      BY <1>6, <2>0, <2>7 DEF FetchLogs
    <3>2. /\ client'.step = At /\ client'.phase = "Succeeded" /\ At' = At
          /\ client'.pc = IF At = StepCnt THEN "eof" ELSE "poll"
      BY <1>a, <3>1 DEF At
    <3>3. ClientPosition'
      BY <1>a, <2>0, <2>3, <2>4, <3>2 DEF FetchInv, ClientPosition
    <3>4. ClientPhase'
      BY <1>a, <2>0, <2>3, <2>4, <3>2, RankTyping DEF ClientPhase
    <3>5. Outcome'
      BY <1>a, <2>0, <2>3, <2>4, <3>2 DEF Outcome
    <3>6. QED
      BY <2>3, <2>5, <3>3, <3>4, <3>5 DEF FetchInv
  <2>8. QED
    BY <2>6, <2>7
<1>7. CASE ReadFails
  BY <1>1, <1>7 DEF ReadFails
<1>8. QED
  BY <1>2, <1>3, <1>4, <1>5, <1>6, <1>7 DEF FetchStep

\* However the reads of a Fetch interleave with the controller and the
\* kubelets, the next request of the client, the Fetch in progress and what
\* was shown fit the workflow.
THEOREM FetchInvariant == Spec => []FetchInv
<1>1. TypeOK /\ TypeOK' /\ FetchInv /\ [Next]_vars => FetchInv'
  <2> SUFFICES ASSUME TypeOK, TypeOK', FetchInv, [Next]_vars
               PROVE  FetchInv'
    OBVIOUS
  <2>1. CASE UNCHANGED vars
    BY <2>1 DEF vars, FetchInv, PodsInOrder, ClientPosition, ClientPhase, FetchSnapshot,
                AnnouncedOnce, Outcome, At
  <2>2. CASE Next
    BY <2>2, ClusterInv, FetchStepInv DEF Next
  <2>3. QED
    BY <2>1, <2>2
<1>2. QED
  BY InitInv, FetchTyping, <1>1, PTL DEF Spec

\* The client of a workflow of any length hears eof only when every step has
\* succeeded and its header and logs were shown.
THEOREM FetchEof == Spec => []EofMeansComplete
<1>1. TypeOK /\ FetchInv => EofMeansComplete
  <2> SUFFICES ASSUME TypeOK, FetchInv, client.pc = "eof", NEW i \in Steps
               PROVE  pod[i] = "Succeeded" /\ shown[i]["header"] = 1 /\ shown[i]["logs"] > 0
    BY DEF EofMeansComplete
  <2>1. At = StepCnt
    BY FetchAssumption DEF FetchInv, Outcome, At
  <2>2. CASE i = StepCnt
    BY <2>2 DEF FetchInv, Outcome
  <2>3. CASE i # StepCnt
    <3>1. i < At /\ i + 1 \in Steps /\ i + 1 > 1 /\ i + 1 <= wf.groups /\ (i + 1) - 1 = i
      BY FetchAssumption, <2>1, <2>3 DEF Steps, FetchInv, ClientPosition, Outcome, TypeOK
    <3>2. QED
      BY <3>1 DEF FetchInv, PodsInOrder, ClientPosition
  <2>4. QED
    BY <2>2, <2>3
<1>2. QED
  BY FetchTyping, FetchInvariant, <1>1, PTL

\* However often the client polls, the header of a step and each of its status
\* lines are shown at most once.
THEOREM FetchAnnounces == Spec => []AnnouncedOnce
<1>1. FetchInv => AnnouncedOnce
  BY DEF FetchInv
<1>2. QED
  BY FetchInvariant, <1>1, PTL

\* A step error names a pod that failed at the client's step: the steps before
\* it are done and shown, those after it never started.
THEOREM FetchStepError == Spec => []StepErrorIsReal
<1>1. TypeOK /\ FetchInv => StepErrorIsReal
  <2> SUFFICES ASSUME TypeOK, FetchInv, client.pc = "stepFailed"
               PROVE  /\ At \in Steps /\ pod[At] = "Failed"
                      /\ \A j \in Steps : j < At => pod[j] = "Succeeded" /\ shown[j]["logs"] > 0
                      /\ \A j \in Steps : j > At => pod[j] = "none" /\ shown[j]["header"] = 0
    BY DEF StepErrorIsReal
  <2> USE FetchAssumption DEF Steps
  <2>1. At \in Steps /\ pod[At] = "Failed"
    BY DEF TypeOK, At, FetchInv, Outcome
  <2>2. At <= wf.groups \/ At = 1
    BY DEF At, FetchInv, ClientPosition
  <2>3. wf.groups \in 0 .. StepCnt
    BY DEF TypeOK
  <2>4. ASSUME NEW j \in Steps, j < At PROVE pod[j] = "Succeeded" /\ shown[j]["logs"] > 0
    <3>1. j + 1 \in Steps /\ j + 1 > 1 /\ (j + 1) - 1 = j /\ j + 1 <= wf.groups
      BY <2>1, <2>2, <2>3, <2>4
    <3>2. QED
      BY <2>4, <3>1 DEF FetchInv, PodsInOrder, ClientPosition
  <2>5. ASSUME NEW j \in Steps, j > At PROVE pod[j] = "none" /\ shown[j]["header"] = 0
    <3>1. pod[At + 1] = "none"
      <4>1. At + 1 \in Steps /\ At + 1 > 1 /\ (At + 1) - 1 = At
        BY <2>1, <2>5
      <4>2. QED
        BY <2>1, <4>1 DEF FetchInv, PodsInOrder
    <3>2. wf.groups <= At
      <4>1. At + 1 \in Steps /\ (wf.groups > At => At + 1 <= wf.groups)
        BY <2>1, <2>3, <2>5
      <4>2. ~(At + 1 <= wf.groups)
        BY <3>1, <4>1 DEF FetchInv, PodsInOrder
      <4>3. QED
        BY <2>1, <2>3, <4>1, <4>2
    <3>3. pod[j] = "none"
      <4>1. CASE j = At + 1
        BY <3>1, <4>1
      <4>2. CASE j # At + 1
        <5>1. j > wf.groups + 1
          BY <2>1, <2>3, <2>5, <3>2, <4>2
        <5>2. QED
          BY <5>1 DEF FetchInv, PodsInOrder
      <4>3. QED
        BY <4>1, <4>2
    <3>4. shown[j]["header"] = 0
      BY <2>5 DEF FetchInv, ClientPosition, LineKinds
    <3>5. QED
      BY <3>3, <3>4
  <2>6. QED
    BY <2>1, <2>4, <2>5
<1>2. QED
  BY FetchTyping, FetchInvariant, <1>1, PTL

\* The logs of the steps reach the client in the order of the steps.
THEOREM FetchOrder == Spec => LogsInOrder
<1> DEFINE Ordered ==
      \A i \in Steps :
         shown'[i]["logs"] # shown[i]["logs"] =>
             \A j \in Steps : /\ j < i => shown[j]["logs"] > 0
                              /\ j > i => shown[j]["header"] = 0
<1>1. TypeOK /\ FetchInv /\ [Next]_vars => [Ordered]_vars
  <2> SUFFICES ASSUME TypeOK, FetchInv, Next,
                      NEW i \in Steps, shown'[i]["logs"] # shown[i]["logs"],
                      NEW j \in Steps
               PROVE  (j < i => shown[j]["logs"] > 0) /\ (j > i => shown[j]["header"] = 0)
    OBVIOUS
  <2>1. i = At
    <3>1. shown' # shown
      OBVIOUS
    <3>2. FetchPod \/ FetchLogs
      BY <3>1
         DEF Next, ClusterStep, CreatePod, PublishGroup, PodStep, PublishRunning, PublishEnd, Cluster,
             FetchStep, FetchPending, FetchWorkflow, FetchFailedPod, ReadFails, FetchError
    <3>3. fetch.step = At /\ fetch.step \in Steps
      BY <3>2 DEF FetchPod, FetchLogs, FetchInv, FetchSnapshot, TypeOK
    <3>4. \E kinds : Render(At, kinds)
      BY <3>1, <3>2, <3>3 DEF FetchPod, FetchLogs
    <3>5. QED
      BY <3>3, <3>4, RenderRow DEF TypeOK
  <2>2. QED
    BY <2>1 DEF FetchInv, ClientPosition, LineKinds
<1>2. QED
  BY FetchTyping, FetchInvariant, <1>1, PTL DEF Spec, LogsInOrder
=============================================================================
