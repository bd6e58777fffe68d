----------------------------- MODULE Comparison -----------------------------
(***************************************************************************)
(* Snapshots of the evidence and their comparison                          *)
(* (internal/truth/comparison.go).  A snapshot is what "evidence --json"   *)
(* prints of one verification, as far as the comparison reads it: the      *)
(* workload's revision and replica counts, the readiness of all its listed *)
(* pods, and one entry for each container observed in a counted pod.  Both *)
(* lists are keyed by name; the pods' UIDs, whether they terminate, the    *)
(* findings and the status are printed and not compared.                   *)
(*                                                                         *)
(*   a     an answer of WorkloadTruth with two more fields: readyReplicas, *)
(*         of the workload's status, and restarts, by pod (the same number *)
(*         for all its containers)                                         *)
(***************************************************************************)
EXTENDS WorkloadTruth

desiredReplicas(a) == IF a.kind = "Deployment" THEN a.w.replicas ELSE a.w.desired

ContainerKey(o) == <<o.kind, o.pod, o.container>>

Snapshot(a) ==
  LET observations == verifyWorkload(a).observations
      named(k)     == CHOOSE o \in observations : ContainerKey(o) = k
  IN  [schemaVersion |-> 1,
       subject       |-> <<a.kind, a.w.name>>,
       revision      |-> workloadRevision(a),
       replicas      |-> [desired |-> desiredReplicas(a), ready |-> a.readyReplicas],
       pods          |-> [p \in DOMAIN a.pods |-> a.pods[p].ready],
       containers    |-> [k \in {ContainerKey(o) : o \in observations} |->
                            [expected |-> named(k).expected, value |-> named(k).value,
                             restarts |-> a.restarts[k[2]]]]]

-----------------------------------------------------------------------------

Change(code, subject) == [code |-> code, subject |-> subject]

\* Seeded fault: the ready replicas of one snapshot against the desired of the other.
compareWorkload_Swapped(b, a) ==
  {c \in {Change("REVISION_CHANGED", b.subject)} : b.revision # a.revision}
  \cup { c \in {Change("REPLICAS_CHANGED", b.subject)} :
           b.replicas.desired # a.replicas.ready }

compareWorkload(b, a) ==
  {c \in {Change("REVISION_CHANGED", b.subject)} : b.revision # a.revision}
  \cup {c \in {Change("REPLICAS_CHANGED", b.subject)} : b.replicas # a.replicas}

comparePods(b, a) ==
  {Change("POD_REMOVED", <<"Pod", p>>) : p \in DOMAIN b \ DOMAIN a}
  \cup {Change("POD_ADDED", <<"Pod", p>>) : p \in DOMAIN a \ DOMAIN b}
  \cup { Change("POD_READINESS_CHANGED", <<"Pod", p>>)
         : p \in {q \in DOMAIN b \cap DOMAIN a : b[q] # a[q]} }

\* Seeded fault: what the second snapshot has in addition is not looked at.
compareObs_BeforeOnly(b, a) ==
  {Change("CONTAINER_REMOVED", k) : k \in DOMAIN b \ DOMAIN a}
  \cup {Change("RUNTIME_IMAGE_CHANGED", k) : k \in {x \in DOMAIN b \cap DOMAIN a : b[x] # a[x]}}

\* Seeded fault: init containers are left out.
compareObs_NormalOnly(b, a) ==
  LET normal(f) == {k \in DOMAIN f : k[1] = "container"}
  IN  {Change("CONTAINER_ADDED", k) : k \in normal(a) \ normal(b)}
      \cup {Change("CONTAINER_REMOVED", k) : k \in normal(b) \ normal(a)}
      \cup { Change("RUNTIME_IMAGE_CHANGED", k)
             : k \in {x \in normal(b) \cap normal(a) : b[x] # a[x]} }

compareObs(b, a) ==
  LET differ(f(_)) == {k \in DOMAIN b \cap DOMAIN a : f(b[k]) # f(a[k])}
      expected(c)  == c.expected
      value(c)     == c.value
      restarts(c)  == c.restarts
  IN  {Change("CONTAINER_REMOVED", k) : k \in DOMAIN b \ DOMAIN a}
      \cup {Change("CONTAINER_ADDED", k) : k \in DOMAIN a \ DOMAIN b}
      \cup {Change("DECLARED_IMAGE_CHANGED", k) : k \in differ(expected)}
      \cup {Change("RUNTIME_IMAGE_CHANGED", k) : k \in differ(value)}
      \cup {Change("RESTART_COUNT_CHANGED", k) : k \in differ(restarts)}

\* Seeded fault: documents without a subject are of one workload.
Comparable_AnySubject(b, a) ==
  b.schemaVersion = 1 /\ a.schemaVersion = 1 /\ b.subject = a.subject

\* Whether the documents are snapshots of one workload at all.
Comparable(b, a) ==
  /\ b.schemaVersion = 1 /\ a.schemaVersion = 1
  /\ b.subject # <<>> /\ b.subject = a.subject

CompareSnapshots(b, a) ==
  compareWorkload(b, a)
  \cup comparePods(b.pods, a.pods)
  \cup compareObs(b.containers, a.containers)
=============================================================================
