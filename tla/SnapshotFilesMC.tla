-------------------------- MODULE SnapshotFilesMC --------------------------
(***************************************************************************)
(* Three runs of evidence: the first reads one of three workloads as it    *)
(* was, or scaled down to one pod next to which an unready one is left;    *)
(* the second reads one of them with one thing changed, or the unready pod *)
(* terminating; the third rewrites the first one's file while a container  *)
(* status is missing.                                                      *)
(***************************************************************************)
EXTENDS SnapshotFiles

MCPodRank == [p \in PodNames |-> IF p = "web-0" THEN 0 ELSE 1]

Nothing == [c \in {} |-> None]
App(v)  == [c \in {"app"} |-> v]
Image(f, g) == [k \in Kinds |-> IF k = "container" THEN f ELSE g]

Declared == Image(App("A"), [c \in {"setup"} |-> "B"])

Two(v) == [p \in PodNames |-> v]

Pod(kind) ==
  IF kind = "Deployment"
  THEN [owner |-> "rs1", ready |-> TRUE, terminating |-> FALSE, reports |-> Declared]
  ELSE [rev |-> <<"web", 1>>, ready |-> TRUE, terminating |-> FALSE, reports |-> Declared]

Base(kind) ==
  [kind |-> kind, readyReplicas |-> 2, restarts |-> Two(0), pods |-> Two(Pod(kind)),
   owners |-> IF kind = "Deployment" THEN [rs \in {"rs1"} |-> 1]
              ELSE [n \in {<<"web", 1>>} |-> [revision |-> 1, hash |-> <<1>>]],
   w |-> IF kind = "Deployment"
         THEN [name |-> "web", replicas |-> 2, revision |-> 1, template |-> Declared]
         ELSE [kind |-> kind, name |-> "web", desired |-> 2, scheduled |-> 2,
               updateRevision |-> <<"web", 1>>, currentRevision |-> <<"web", 1>>,
               template |-> Declared]]

\* A container of web-1 is restarting and has no status yet.
WithoutStatus(a) ==
  [a EXCEPT !.pods["web-1"].reports = Image(Nothing, @["init-container"]),
            !.readyReplicas = 1]

\* One thing changed, of those that the comparison looks at and of those that it
\* does not.
Changed(a) ==
  { a,
    [a EXCEPT !.readyReplicas = 1],
    [a EXCEPT !.restarts["web-1"] = 1],
    [a EXCEPT !.w.name = "api"],
    [a EXCEPT !.w.template = Image(App("B"), Nothing)],
    [a EXCEPT !.w.template = Image(App(Unpinned), @["init-container"])],
    [a EXCEPT !.pods = [p \in {"web-0"} |-> @["web-0"]],
              !.restarts = [p \in {"web-0"} |-> 0]],
    [a EXCEPT !.pods["web-1"].ready = FALSE],
    [a EXCEPT !.pods["web-1"].terminating = TRUE],
    [a EXCEPT !.pods = Two([a.pods["web-0"] EXCEPT !.ready = FALSE])],
    [a EXCEPT !.pods["web-1"].reports = Image(App("B"), @["init-container"])],
    [a EXCEPT !.pods["web-1"].reports = Image(App("A"), [c \in {"setup"} |-> "A"])],
    WithoutStatus(a) }
  \cup
  IF a.kind = "Deployment"
  THEN { [a EXCEPT !.w.revision = 2], [a EXCEPT !.w.replicas = 1],
         [a EXCEPT !.pods["web-1"].owner = "rs2"] }
  ELSE { [a EXCEPT !.w.updateRevision = <<"web", 2>>], [a EXCEPT !.w.desired = 1],
         [a EXCEPT !.w.currentRevision = <<"web", 2>>], [a EXCEPT !.w.scheduled = 1],
         [a EXCEPT !.owners = [n \in {<<"web", 1>>, <<"web", 2>>} |->
                                [revision |-> n[2], hash |-> <<n[2]>>]]],
         [a EXCEPT !.pods["web-1"].rev = <<2>>] }

\* One pod is desired and ready; the other is not ready, and not deleted yet.
Reduced(kind) ==
  LET a == [Base(kind) EXCEPT !.readyReplicas = 1, !.pods["web-1"].ready = FALSE]
  IN  IF kind = "Deployment" THEN [a EXCEPT !.w.replicas = 1]
                             ELSE [a EXCEPT !.w.desired = 1]

ReducedAnswers == {Reduced(k) : k \in {"Deployment", "StatefulSet", "DaemonSet"}}

BaseAnswers == {Base(k) : k \in {"Deployment", "StatefulSet", "DaemonSet"}}

MCOutputsOf == [r \in Runs |-> IF r = "second" THEN {"after"} ELSE {"before"}]

MCAnswersOf ==
  [r \in Runs |->
     CASE r = "first"  -> BaseAnswers \cup ReducedAnswers
       [] r = "second" ->
            UNION {Changed(a) : a \in BaseAnswers} \cup ReducedAnswers
            \cup {[a EXCEPT !.pods["web-1"].terminating = TRUE] : a \in ReducedAnswers}
       [] OTHER       -> {WithoutStatus(Base("StatefulSet"))}]
=============================================================================
