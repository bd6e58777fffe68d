--------------------------- MODULE WorkloadTruth ---------------------------
(***************************************************************************)
(* verifyWorkload (cmd/verify.go): one verification of a workload of any   *)
(* kind, as attest, evidence and explain use it.  What its reads returned  *)
(* is one value here; VerifyCommand and RevisionCommand have the single    *)
(* reads.                                                                  *)
(*                                                                         *)
(*   a     [kind, w, owners, pods]: the kind, the workload, its owned      *)
(*         ReplicaSets or ControllerRevisions, and the pods listed for it  *)
(***************************************************************************)
EXTENDS DeploymentTruth, RevisionTruth

\* What the API server may answer about a workload of each kind: the values have the
\* types of their API objects, and a list ends.
IsAnswer(a) ==
  /\ DOMAIN a.pods \subseteq PodNames /\ IsFiniteSet(DOMAIN a.pods)
  /\ \/ /\ a.kind = "Deployment"
        /\ a.w.replicas \in 0 .. MaxReplicas /\ a.w.revision \in Revisions
        /\ a.w.template \in Templates
        /\ a.owners \in [DOMAIN a.owners -> Revisions]
        /\ a.pods \in [DOMAIN a.pods -> PodValues]
     \/ /\ a.kind \in WorkloadKinds /\ a.kind = a.w.kind
        /\ a.w \in Workloads
        /\ DOMAIN a.owners \subseteq RevisionNames
        /\ a.owners \in [DOMAIN a.owners -> RevisionValues]
        /\ a.pods \in [DOMAIN a.pods -> RevisionPods]

verifyWorkload(a) ==
  IF a.kind = "Deployment" THEN verifyDeployment(a.w, a.owners, a.pods)
                           ELSE verifyRevisions(a.w, a.owners, a.pods)

\* The revision the evidence names, as the sequence of its parts.
workloadRevision(a) ==
  IF a.kind = "Deployment" THEN <<a.w.revision>> ELSE evidenceRevision(a.w, a.owners)

\* The pods that yield observations.
CountedPods(a) ==
  IF a.kind = "Deployment" THEN ReadyPods(a.w, a.owners, a.pods)
  ELSE Counted(targetRevision(a.w, a.owners, a.pods), a.owners, a.pods)
=============================================================================
