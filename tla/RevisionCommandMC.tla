------------------------- MODULE RevisionCommandMC -------------------------
(***************************************************************************)
(* A small instance: two hashes, three pods, and the answers that matter:  *)
(* a StatefulSet in and out of an update and without a status, a DaemonSet *)
(* with both, one or none of its ControllerRevisions, and pods that carry  *)
(* the full name, the bare hash, or no revision.                           *)
(***************************************************************************)
EXTENDS RevisionCommand

MCPodRank ==
  [p \in PodNames |-> CASE p = "web-0" -> 0 [] p = "web-1" -> 1 [] OTHER -> 2]

Normal(f) == [k \in Kinds |-> IF k = "container" THEN f ELSE Empty]
App(v)    == [c \in {"app"} |-> v]
WithInit(f, g) == [k \in Kinds |-> IF k = "container" THEN f ELSE [c \in {"setup"} |-> g]]

Name(h) == <<"web", h>>

Workload(kind, desired, scheduled, update, current, template) ==
  [kind |-> kind, name |-> "web", desired |-> desired, scheduled |-> scheduled,
   updateRevision |-> update, currentRevision |-> current, template |-> template]

MCWorkloadAnswers ==
  { Workload("StatefulSet", 2, 0, Name(1), Name(2), Normal(App("A"))),
    Workload("StatefulSet", 1, 0, Name(2), Name(2), WithInit(App("A"), "B")),
    Workload("StatefulSet", 1, 0, NoRev, NoRev, Normal(App(Unpinned))),
    Workload("DaemonSet", 2, 2, NoRev, NoRev, Normal(App("A"))),
    Workload("DaemonSet", 0, 1, NoRev, NoRev, Normal(App("A"))) }

Revision(kind, name, number, hash) ==
  [owner |-> <<kind, name>>, value |-> [revision |-> number, hash |-> hash]]

\* Hash 1 is the newer revision of the StatefulSet and of the DaemonSet "web".
MCNamespaceRevisions ==
  { Empty,
    [n \in {Name(1), Name(2)} |->
       Revision("StatefulSet", "web", IF n = Name(1) THEN 2 ELSE 1, NoRev)],
    [n \in {Name(1), Name(2), <<"api", 1>>} |->
       Revision("DaemonSet", n[1], IF n[2] = 2 THEN 2 ELSE 1, <<n[2]>>)] }

Pod(rev, ready, terminating, reports) ==
  [rev |-> rev, ready |-> ready, terminating |-> terminating, reports |-> reports]

PodChoices ==
  {Pod(r, TRUE, FALSE, Normal(App("A"))) : r \in {Name(1), <<1>>, <<2>>}}
  \cup { Pod(Name(2), TRUE, FALSE, WithInit(App("A"), "B")),
         Pod(<<2>>, TRUE, FALSE, Normal(App("B"))),
         Pod(NoRev, TRUE, FALSE, Normal(App("A"))),
         Pod(<<2>>, FALSE, FALSE, Normal(Empty)),
         Pod(<<2>>, TRUE, TRUE, Normal(App("A"))) }

Listed(kind, values) ==
  [p \in DOMAIN values |-> [owner |-> <<kind, "web">>, value |-> values[p]]]

MCNamespacePods ==
  UNION { {Listed(kind, values) : values \in [names -> PodChoices]}
          : kind \in WorkloadKinds, names \in {{}, {"web-0"}, {"web-0", "web-1"}, PodNames} }

MCFlagLists ==
  { <<>>, <<[container |-> "app", digest |-> "B"]>>,
    <<[container |-> "app", digest |-> Malformed]>> }
=============================================================================
