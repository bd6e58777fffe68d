------------------------------- MODULE ScanMC -------------------------------
(***************************************************************************)
(* A namespace with three Deployments, api (rs3), jobs (rs4) and web (rs1  *)
(* of revision 1, rs2 of revision 2), and two pods.  The reads made for    *)
(* one of them know nothing of those made for another.                     *)
(***************************************************************************)
EXTENDS Scan

Normal(f) == [k \in Kinds |-> IF k = "container" THEN f ELSE Empty]
App(v)    == [c \in {"app"} |-> v]

Deployment(name, n, revision, v) ==
  [name |-> name, replicas |-> n, revision |-> revision, template |-> Normal(App(v))]

Api    == Deployment("api", 1, 1, "B")
Jobs   == Deployment("jobs", 0, 1, "A")
Web(n) == Deployment("web", n, 2, "A")

MCDeploymentLists ==
  { <<>>, <<Web(0)>>, <<Api, Jobs, Web(1)>>,
    <<Deployment("api", 1, 1, Unpinned), Web(2)>> }

SetOf(rs) == [owner    |-> CASE rs = "rs3" -> "api" [] rs = "rs4" -> "jobs" [] OTHER -> "web",
              revision |-> IF rs = "rs2" THEN 2 ELSE 1]

MCNamespaceSets ==
  { [rs \in names |-> SetOf(rs)] :
    names \in {SetNames, {"rs1", "rs3"}, {}} }

Pod(owner, ready, v) ==
  [owner |-> owner, ready |-> ready, terminating |-> FALSE, reports |-> Normal(App(v))]

Pair(v, w) == [p \in {"p1", "p2"} |-> IF p = "p1" THEN v ELSE w]

MCNamespacePods ==
  { Empty,
    [p \in {"p1"} |-> [Pod("rs2", TRUE, "A") EXCEPT !.terminating = TRUE]],
    Pair(Pod("rs2", TRUE, "A"), Pod("rs3", TRUE, "B")),
    Pair(Pod("rs2", TRUE, "B"), Pod("rs3", TRUE, NoImageID)),
    Pair(Pod("rs2", TRUE, "A"), Pod("rs2", TRUE, "A")),
    Pair(Pod("rs2", TRUE, "A"), Pod("rs2", FALSE, "A")),
    Pair(Pod("rs1", TRUE, "A"), Pod("rs3", TRUE, "A")),
    Pair(Pod("rs2", TRUE, "A"), Pod("rs4", TRUE, "A")),
    Pair(Pod("rs2", TRUE, "B"), Pod("rs4", TRUE, Undigested)) }
=============================================================================
