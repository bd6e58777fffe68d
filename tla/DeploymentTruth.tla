-------------------------- MODULE DeploymentTruth --------------------------
(***************************************************************************)
(* verifyDeployment (internal/truth/verifier.go:34-95): the verdict on one *)
(* Deployment from the three values the command read.                      *)
(*                                                                         *)
(*   dep   [name, replicas, revision, template]: spec.replicas, the        *)
(*         deployment.kubernetes.io/revision annotation (NoRevision when   *)
(*         it is absent) and spec.template                                 *)
(*   sets  the owned ReplicaSets, as a function from their names to their  *)
(*         revision annotation                                             *)
(*   pods  the listed pods, as a function from their names to              *)
(*         [owner, ready, terminating, reports]                            *)
(***************************************************************************)
EXTENDS Truth

CONSTANTS
  SetNames,    \* names of ReplicaSets
  MaxReplicas  \* bound on spec.replicas

ASSUME BoundsAssumption == MaxReplicas \in Nat

NoRevision == 0
Revisions  == 0 .. MaxRevision

ReplicaSetLists == UNION {[names -> Revisions] : names \in SUBSET SetNames}

PodValues ==
  [owner : SetNames, ready : BOOLEAN, terminating : BOOLEAN, reports : Reports]

PodLists == UNION {[names -> PodValues] : names \in SUBSET PodNames}

\* Seeded fault: the newest of the ReplicaSets is taken for the current one.
currentReplicaSets_Newest(dep, sets) ==
  {rs \in DOMAIN sets : \A other \in DOMAIN sets : sets[other] <= sets[rs]}

currentReplicaSets(dep, sets) ==
  {rs \in DOMAIN sets : dep.revision # NoRevision /\ sets[rs] = dep.revision}

-----------------------------------------------------------------------------
(* The pod loop sorts the pods into terminating (skipped), stale, not ready *)
(* and ready; the first test that applies decides.                          *)

LivePods(pods) == {p \in DOMAIN pods : ~pods[p].terminating}

\* An empty list of ReplicaSets switches the revision filter off.
StalePods(dep, sets, pods) ==
  { p \in LivePods(pods) : /\ DOMAIN sets # {}
                           /\ pods[p].owner \notin currentReplicaSets(dep, sets) }

CurrentPods(dep, sets, pods) == LivePods(pods) \ StalePods(dep, sets, pods)

NotReadyPods(dep, sets, pods) ==
  {p \in CurrentPods(dep, sets, pods) : ~pods[p].ready}

ReadyPods(dep, sets, pods) ==
  {p \in CurrentPods(dep, sets, pods) : pods[p].ready}

-----------------------------------------------------------------------------
(* The status, in the order in which the code assigns it *)

AfterPods(dep, sets, pods) ==
  IF NotReadyPods(dep, sets, pods) # {} THEN "PARTIAL" ELSE "MATCH"

AfterRevision(dep, sets, pods) ==
  IF DOMAIN sets # {} /\ currentReplicaSets(dep, sets) = {}
  THEN "UNKNOWN"
  ELSE AfterPods(dep, sets, pods)

\* Seeded fault: off by one.
Incomplete_OffByOne(dep, sets, pods) ==
  /\ Cardinality(ReadyPods(dep, sets, pods)) <= dep.replicas
  /\ AfterRevision(dep, sets, pods) # "UNKNOWN"

Incomplete(dep, sets, pods) ==
  /\ Cardinality(ReadyPods(dep, sets, pods)) < dep.replicas
  /\ AfterRevision(dep, sets, pods) # "UNKNOWN"

AfterReplicas(dep, sets, pods) ==
  IF Incomplete(dep, sets, pods) THEN "PARTIAL" ELSE AfterRevision(dep, sets, pods)

\* What the containers of one kind of one pod contribute.
SetStatus(dep, pods, p, k) ==
  ContainerSetStatus(dep.template[k], pods[p].reports[k])

AfterContainers(dep, sets, pods) ==
  CombineAll({AfterReplicas(dep, sets, pods)} \cup
             { SetStatus(dep, pods, pk[1], pk[2])
               : pk \in ReadyPods(dep, sets, pods) \X Kinds })

FinalStatus(dep, sets, pods) ==
  IF ReadyPods(dep, sets, pods) = {} THEN "UNKNOWN"
  ELSE AfterContainers(dep, sets, pods)

-----------------------------------------------------------------------------
(* What is reported next to the status *)

Observations(dep, sets, pods) ==
  UNION { ObservationsOf(pk[2], pk[1], dep.template[pk[2]], pods[pk[1]].reports[pk[2]])
          : pk \in ReadyPods(dep, sets, pods) \X Kinds }

Findings(dep, sets, pods) ==
  { Finding("OLD_REVISION_IGNORED", "STALE", p, None)
    : p \in StalePods(dep, sets, pods) }
  \cup
  { Finding("POD_NOT_READY", "PARTIAL", p, None)
    : p \in NotReadyPods(dep, sets, pods) }
  \cup
  { f \in {Finding("CURRENT_REVISION_INCOMPLETE", "PARTIAL", None, None)} :
      Incomplete(dep, sets, pods) }
  \cup
  UNION { ContainerFindings(pk[2], pk[1], dep.template[pk[2]],
                            pods[pk[1]].reports[pk[2]])
          : pk \in ReadyPods(dep, sets, pods) \X Kinds }

verifyDeployment(dep, sets, pods) ==
  [status       |-> FinalStatus(dep, sets, pods),
   observations |-> Observations(dep, sets, pods),
   findings     |-> Findings(dep, sets, pods),
   summary      |-> Summary(dep.replicas, ReadyPods(dep, sets, pods),
                            Observations(dep, sets, pods))]
=============================================================================
