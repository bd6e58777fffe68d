------------------------- MODULE AttestationFilesMC -------------------------
(***************************************************************************)
(* Two runs of keygen, two of attest and one of verify-attestation; the    *)
(* answers are a match of one pod or of two, a container that was not      *)
(* reported, and drift.                                                    *)
(***************************************************************************)
EXTENDS AttestationFiles, TLC

CONSTANTS k1, k2, a1, a2, v1

MCPodRank == [p \in PodNames |-> IF p = "p1" THEN 1 ELSE 2]

MCKeys == {k1, k2}
MCRuns == MCKeys \cup {a1, a2, v1}

MCCommandOf ==
  [r \in MCRuns |-> CASE r \in MCKeys   -> "keygen"
                      [] r \in {a1, a2} -> "attest"
                      [] OTHER          -> "verify-attestation"]

\* The runs of one command differ in nothing.
MCSymmetry == Permutations(MCKeys) \cup Permutations({a1, a2})

Nothing == [c \in {} |-> None]

Normal(f) == [k \in Kinds |-> IF k = "container" THEN f ELSE Nothing]
App(v)    == [c \in {"app"} |-> v]

Deployment(n, pods) ==
  [kind |-> "Deployment", owners |-> [rs \in {"rs1"} |-> 1], pods |-> pods,
   w |-> [name |-> "web", replicas |-> n, revision |-> 1, template |-> Normal(App("A"))]]

StatefulSet(n, pods) ==
  [kind |-> "StatefulSet", owners |-> Nothing, pods |-> pods,
   w |-> [kind |-> "StatefulSet", name |-> "db", desired |-> n, scheduled |-> 0,
          updateRevision |-> <<"db", 1>>, currentRevision |-> <<"db", 1>>,
          template |-> Normal(App("A"))]]

Running(reports) ==
  [owner |-> "rs1", ready |-> TRUE, terminating |-> FALSE, reports |-> reports]

Member(reports) ==
  [rev |-> <<"db", 1>>, ready |-> TRUE, terminating |-> FALSE, reports |-> reports]

MCAnswers ==
  { Deployment(1, [p \in {"p2"} |-> Running(Normal(App("A")))]),
    StatefulSet(2, [p \in {"p1", "p2"} |-> Member(Normal(App("A")))]),
    Deployment(2, [p \in {"p1", "p2"} |->
                     Running(Normal(IF p = "p1" THEN App("A") ELSE Nothing))]),
    StatefulSet(1, [p \in {"p1"} |-> Member(Normal(App("B")))]) }

MCFlagLists == {<<[container |-> "app", digest |-> "A"]>>}

-----------------------------------------------------------------------------
(* One key pair, two runs of attest, and a pod with two injected containers *)

FewKeys      == {k1}
FewRuns      == {k1, a1, a2}
FewCommandOf == [r \in FewRuns |-> MCCommandOf[r]]

InjectedAnswers ==
  { Deployment(1, [p \in {"p1"} |->
                     Running(Normal([c \in {"app", "proxy", "agent"} |-> "A"]))]) }
=============================================================================
