----------------------------- MODULE MCModelZoo -----------------------------
(***************************************************************************)
(* TLC instances of ModelZoo: two or three requests at a time.             *)
(***************************************************************************)
EXTENDS ModelZoo

ReleaseRepo(n, cs) == [op |-> "releaseRepo", name |-> n, classes |-> cs]
DropRepo(n) == [op |-> "dropRepo", name |-> n]
ReleaseModel(op, n, r, c, t) ==
    [op |-> op, name |-> n, repo |-> r, class |-> c, tagged |-> t]
DropModel(n) == [op |-> "dropModel", name |-> n]
None == [op |-> "none"]

MCTableOf == [n \in ModelNames |-> "db_iris"]

Under(builder, faults, starts, reqs) ==
    {[req |-> r, env |-> [builder |-> builder, faults |-> faults, starts |-> starts]] : r \in reqs}

All(a, b, c) == [x \in Handlers |-> CASE x = "a" -> a [] x = "b" -> b [] x = "c" -> c]

Good == ReleaseRepo("r1", <<"c1", "c2">>)
Model(op, r, c) == ReleaseModel(op, "db.iris", r, c, "tagged")
Untagged(op) == ReleaseModel(op, "db_iris", "r0", "c1", "untagged")

\* Releases of repositories that meet each other, a broken one and a drop.
Repos ==
    Under("docker", {}, 1, {All(Good, ReleaseRepo("r1", <<"c2">>), None),
                            All(Good, ReleaseRepo("r2", <<>>), None)})
    \cup
    Under("docker", {"exec"}, 1, {All(ReleaseRepo("r1", <<"c1", "c1">>), DropRepo("r1"), None),
                                  All(ReleaseRepo("r0", <<"c1">>), DropRepo("r0"), None)})
    \cup
    Under("kaniko", {}, 1, {All(ReleaseRepo("r1", <<"c1">>), ReleaseRepo("r1", <<"c2">>), DropRepo("r1"))})
    \cup
    Under("kaniko", {"exec"}, 1, {All(ReleaseRepo("r1", <<"c1">>), ReleaseRepo("r1", <<"c2">>), None)})

\* Releases of models while repositories and models come and go.
Models ==
    Under("kaniko", {"exec", "cut"}, 1,
          {All(Good, Model("releaseModel", "r1", "c1"), DropRepo("r1")),
           All(ReleaseRepo("r1", <<"c1">>), Model("releaseModel", "r0", "c1"),
               Model("releaseLocal", "r1", "c1"))})
    \cup
    Under("docker", {"exec"}, 1,
          {All(DropRepo("r0"), Model("releaseModel", "r0", "c1"), DropModel("db.iris")),
           All(Untagged("releaseLocal"), Model("releaseModel", "r0", "c1"), DropRepo("r0"))})
    \cup
    Under("docker", {}, 1,
          {All(Model("releaseLocal", "r0", "c1"), DropModel("db.iris"), None),
           All(Model("releaseLocal", "r0", "c1"), Model("releaseModel", "r0", "c1"), None)})

\* A server that is killed, or that a request brings down.
Restarts ==
    Under("docker", {"exec", "crash", "client"}, 3,
          {All(ReleaseRepo("r0", <<"c1">>), Model("releaseLocal", "r0", "c1"), None),
           All(DropRepo("r0"), Untagged("releaseModel"), None)})

MCScenarios == Repos \cup Models \cup Restarts

MCTwoGood == Under("docker", {}, 1, {All(Good, ReleaseRepo("r2", <<"c1">>), None)})
=============================================================================
