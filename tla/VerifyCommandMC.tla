-------------------------- MODULE VerifyCommandMC --------------------------
(***************************************************************************)
(* A small instance of VerifyCommand: two pods, the ReplicaSets of two     *)
(* revisions and one of another Deployment, two digests.  The answers of   *)
(* the reads are independent, so inconsistent ones (a ReplicaSet that      *)
(* disappears between the two lists, no revision annotation) are covered.  *)
(***************************************************************************)
EXTENDS VerifyCommand

Names == {"app", "side", "setup"}

Normal(f)      == [k \in Kinds |-> IF k = "container" THEN f ELSE Empty]
WithInit(f, g) == [k \in Kinds |-> IF k = "container" THEN f ELSE g]

App(v)     == [c \in {"app"} |-> v]
Setup(v)   == [c \in {"setup"} |-> v]
Both(v, w) == [c \in {"app", "side"} |-> IF c = "app" THEN v ELSE w]

MCTemplates ==
  { Normal(App("A")), Normal(App(Unpinned)), Normal(Both("A", Unpinned)),
    Normal(Both("A", "B")), WithInit(App("A"), Setup("B")) }

MCDeployments ==
  [name : {"web"}, replicas : {1, 2}, revision : {2}, template : MCTemplates]
  \cup [name : {"web"}, replicas : {0}, revision : {1, NoRevision},
        template : {Normal(App("A"))}]

List(names, value(_)) == [n \in names |-> value(n)]

\* The ReplicaSets of the namespace: rs1 is revision 1, rs2 revision 2, rs3
\* belongs to the other Deployment.
SetOf(rs) == [owner |-> IF rs = "rs3" THEN "api" ELSE "web",
              revision |-> IF rs = "rs1" THEN 1 ELSE 2]

MCNamespaceSets ==
  { List(names, SetOf) : names \in { {"rs1", "rs2", "rs3"}, {"rs1"}, {"rs3"} } }

Pod(owner, ready, terminating, reports) ==
  [owner |-> owner, ready |-> ready, terminating |-> terminating,
   reports |-> reports]

Running(owner, reports) == Pod(owner, TRUE, FALSE, reports)

MCReports ==
  { Normal(App("A")), Normal(App("B")), Normal(App(NoImageID)),
    Normal(App(Undigested)), Normal(Both("A", "B")), Normal(Both("B", NoImageID)),
    WithInit(App("A"), Setup("B")), WithInit(App("A"), Setup("A")), Normal(Empty) }

FirstPods ==
  {Running("rs2", r) : r \in MCReports}
  \cup { Running("rs1", Normal(App("B"))),
         Running("rs3", Normal(App("A"))),
         Pod("rs2", FALSE, FALSE, Normal(App("A"))),
         Pod("rs2", TRUE, TRUE, Normal(App("B"))) }

SecondPods ==
  { Running("rs2", Normal(App("A"))), Running("rs2", Normal(Both("A", "B"))),
    Running("rs2", Normal(App("B"))), Pod("rs2", FALSE, FALSE, Normal(App("A"))),
    Running("rs1", Normal(App("B"))) }

MCNamespacePods ==
  {Empty} \cup {[p \in {"p1"} |-> v] : v \in FirstPods}
  \cup { [p \in {"p1", "p2"} |-> IF p = "p1" THEN vw[1] ELSE vw[2]]
         : vw \in FirstPods \X SecondPods }

Flag(c, d) == [container |-> c, digest |-> d]

MCFlagLists ==
  { <<>>, <<Flag("app", "A")>>, <<Flag("side", "B")>>, <<Flag("setup", "B")>>,
    <<Flag("app", "A"), Flag("app", "B")>>, <<Flag("app", "B"), Flag("app", "A")>>,
    <<Flag("app", Malformed)>> }
=============================================================================
