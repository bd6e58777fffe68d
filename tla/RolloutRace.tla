---------------------------- MODULE RolloutRace ----------------------------
(***************************************************************************)
(* The verify command against a cluster that does not stand still.  The    *)
(* cluster is external: it is modelled from what the command reads of it,  *)
(* with the Deployment controller's order of writes (a ReplicaSet gets its *)
(* revision before the Deployment gets the same one) and pods that start,  *)
(* become ready, are patched, terminate and go.  Every answer of a read is *)
(* the state of the cluster at the instant of that read, and the cluster   *)
(* may move between any two reads.                                         *)
(*                                                                         *)
(* A template is named by its hash, which is also the name of its          *)
(* ReplicaSet.  Two templates may run the same image.                      *)
(***************************************************************************)
EXTENDS VerifyCommand

CONSTANTS
  ImageOf,     \* the digest of each template, a function on SetNames
  FirstSet,    \* the template the Deployment starts from
  MaxUpdates   \* bound on the changes a user makes to the Deployment

ASSUME ClusterAssumption ==
  /\ ImageOf \in [SetNames -> Digests]
  /\ FirstSet \in SetNames
  /\ MaxUpdates \in Nat
  /\ MaxRevision >= 1
  /\ IsFiniteSet(PodNames)

\* The reads of VerifyCommand may return anything: this cluster is one of those it
\* is verified against.
ASSUME EveryAnswerAssumption ==
  /\ DeploymentValues \subseteq Deployments
  /\ UNION {[names -> SetValues] : names \in SUBSET SetNames} \subseteq NamespaceSets
  /\ PodLists \subseteq NamespacePods

VARIABLES
  kDep,      \* the Deployment: [exists, template, replicas, revision]
  kSets,     \* its ReplicaSets: name -> revision
  kPods,     \* the pods: name -> [owner, ready, terminating, reports]
  spent,     \* names of pods that are gone: a pod name is never used again
  updates,   \* how many changes the user has made
  snapshot,  \* history: the Deployment, ReplicaSets and pods as the pods were listed
  quiet,     \* history: Deployment and ReplicaSets did not change between the reads
  matched    \* history: at some instant between the reads the cluster matched

cluster == <<kDep, kSets, kPods, spent, updates>>
history == <<snapshot, quiet, matched>>
raceVars == <<vars, cluster, history>>

TemplateOf(hash) ==
  [k \in Kinds |-> IF k = "container" THEN [c \in Containers |-> ImageOf[hash]] ELSE Empty]

ReportOf(digest) ==
  [k \in Kinds |-> IF k = "container" THEN [c \in Containers |-> digest] ELSE Empty]

NoReport == [k \in Kinds |-> Empty]

-----------------------------------------------------------------------------
(* What the reads answer *)

DeploymentNow ==
  [name |-> Target, replicas |-> kDep.replicas, revision |-> kDep.revision,
   template |-> TemplateOf(kDep.template)]

SetsNow == [rs \in DOMAIN kSets |-> [owner |-> Target, revision |-> kSets[rs]]]

PodsNow == kPods

\* The verdict on one instant of the cluster.
MatchNow ==
  /\ kDep.exists
  /\ LET list == GetDeploymentPods(PodsNow, DOMAIN kSets)
     IN  verifyDeployment(DeploymentNow, kSets, list).status = "MATCH"

-----------------------------------------------------------------------------
(* The user *)

Change(newDep) ==
  /\ kDep.exists
  /\ updates < MaxUpdates
  /\ updates' = updates + 1
  /\ kDep' = newDep
  /\ UNCHANGED <<kSets, kPods, spent>>

UpdateTemplate(hash) ==
  /\ hash # kDep.template
  /\ Change([kDep EXCEPT !.template = hash])

Scale(n) ==
  /\ n # kDep.replicas
  /\ Change([kDep EXCEPT !.replicas = n])

DeleteDeployment == Change([kDep EXCEPT !.exists = FALSE])

-----------------------------------------------------------------------------
(* The Deployment controller *)

Newest(without) ==
  LET revisions == {kSets[rs] : rs \in DOMAIN kSets \ {without}} \cup {0}
  IN  CHOOSE r \in revisions : \A q \in revisions : q <= r

\* The ReplicaSet of the template exists and carries the highest revision:
\* it is created, or after a rollback it is given a new revision.
SyncReplicaSet ==
  /\ kDep.exists
  /\ kDep.template \in DOMAIN kSets => kSets[kDep.template] < Newest(kDep.template)
  /\ Newest(kDep.template) + 1 \in Revisions
  /\ kSets' = [rs \in DOMAIN kSets \cup {kDep.template} |->
                 IF rs = kDep.template THEN Newest(kDep.template) + 1 ELSE kSets[rs]]
  /\ UNCHANGED <<kDep, kPods, spent, updates>>

\* Only then does the Deployment get the revision of that ReplicaSet.
SyncAnnotation ==
  /\ kDep.exists
  /\ kDep.template \in DOMAIN kSets
  /\ kSets[kDep.template] > Newest(kDep.template)
  /\ kDep.revision # kSets[kDep.template]
  /\ kDep' = [kDep EXCEPT !.revision = kSets[kDep.template]]
  /\ UNCHANGED <<kSets, kPods, spent, updates>>

\* The garbage collector, once the Deployment is gone, and the clean-up of old
\* ReplicaSets without pods.
CollectReplicaSet(rs) ==
  /\ rs \in DOMAIN kSets
  /\ ~kDep.exists \/ ( /\ kSets[rs] < kDep.revision
                       /\ rs # kDep.template
                       /\ \A p \in DOMAIN kPods : kPods[p].owner # rs )
  /\ kSets' = [r \in DOMAIN kSets \ {rs} |-> kSets[r]]
  /\ UNCHANGED <<kDep, kPods, spent, updates>>

-----------------------------------------------------------------------------
(* ReplicaSet controller, kubelet, and a hand that patches a pod *)

\* A rollout keeps at most one pod more than desired (a surge of one).
StartPod(p, rs) ==
  /\ p \notin DOMAIN kPods \cup spent
  /\ rs \in DOMAIN kSets
  /\ kDep.exists /\ kDep.replicas > 0
  /\ Cardinality(LivePods(kPods)) <= kDep.replicas
  /\ kPods' = [q \in DOMAIN kPods \cup {p} |->
                 IF q # p THEN kPods[q]
                 ELSE [owner |-> rs, ready |-> FALSE, terminating |-> FALSE,
                       reports |-> NoReport]]
  /\ UNCHANGED <<kDep, kSets, spent, updates>>

ChangePod(p, newPod) ==
  /\ kPods' = [kPods EXCEPT ![p] = newPod]
  /\ UNCHANGED <<kDep, kSets, spent, updates>>

BecomeReady(p) ==
  /\ ~kPods[p].ready /\ ~kPods[p].terminating
  /\ ChangePod(p, [kPods[p] EXCEPT !.ready = TRUE,
                                   !.reports = IF @ = NoReport
                                               THEN ReportOf(ImageOf[kPods[p].owner])
                                               ELSE @])

BecomeUnready(p) ==
  /\ kPods[p].ready
  /\ ChangePod(p, [kPods[p] EXCEPT !.ready = FALSE])

\* The image of a running pod may be changed behind the Deployment's back.
PatchPod(p, digest) ==
  /\ kPods[p].ready
  /\ kPods[p].reports # ReportOf(digest)
  /\ updates < MaxUpdates
  /\ updates' = updates + 1
  /\ kPods' = [kPods EXCEPT ![p].reports = ReportOf(digest)]
  /\ UNCHANGED <<kDep, kSets, spent>>

TerminatePod(p) ==
  /\ ~kPods[p].terminating
  /\ ChangePod(p, [kPods[p] EXCEPT !.terminating = TRUE])

RemovePod(p) ==
  /\ kPods[p].terminating
  /\ kPods' = [q \in DOMAIN kPods \ {p} |-> kPods[q]]
  /\ spent' = spent \cup {p}
  /\ UNCHANGED <<kDep, kSets, updates>>

PodStep(p) ==
  \/ BecomeReady(p)
  \/ BecomeUnready(p)
  \/ \E d \in Digests : PatchPod(p, d)
  \/ TerminatePod(p)
  \/ RemovePod(p)

ControlStep ==
  \/ \E hash \in SetNames : UpdateTemplate(hash)
  \/ \E n \in 0 .. MaxReplicas : Scale(n)
  \/ DeleteDeployment
  \/ SyncReplicaSet
  \/ SyncAnnotation
  \/ \E rs \in SetNames : CollectReplicaSet(rs)

PodsStep ==
  \/ \E p \in PodNames, rs \in SetNames : StartPod(p, rs)
  \/ \E p \in DOMAIN kPods : PodStep(p)

-----------------------------------------------------------------------------
(* The two together *)

Reading == pc \in {"listOwned", "listPods", "listSets"}

RaceInit ==
  /\ Init
  /\ \E n \in 1 .. MaxReplicas :
       kDep = [exists |-> TRUE, template |-> FirstSet, replicas |-> n, revision |-> 1]
  /\ kSets = [rs \in {FirstSet} |-> 1]
  /\ \E running \in SUBSET PodNames :
       kPods = [p \in running |->
                  [owner |-> FirstSet, ready |-> TRUE, terminating |-> FALSE,
                   reports |-> ReportOf(ImageOf[FirstSet])]]
  /\ spent = {}
  /\ updates = 0
  /\ snapshot = Empty
  /\ quiet = TRUE
  /\ matched = FALSE

\* The reads see the cluster as it is; the Deployment may be gone by the first.
Read ==
  \/ kDep.exists /\ GetDeployment(DeploymentNow)
  \/ ListOwnedReplicaSets(SetsNow)
  \/ ListPods(PodsNow)
  \/ ListReplicaSets(SetsNow)

Compute == ParseFlags \/ RejectFlags \/ Judge \/ ApplyGate \/ Exit

CommandStep ==
  /\ Read \/ ReadFails \/ Compute
  /\ UNCHANGED cluster

\* The cluster moves before the first read and between the reads.  What it does
\* after the last read of a kind is of no consequence to the command, so pods
\* move until they are listed, Deployment and ReplicaSets until the last list.
Churn ==
  /\ \/ pc \in {"get", "listOwned", "listPods", "listSets"} /\ ControlStep
     \/ pc \in {"get", "listOwned", "listPods"} /\ PodsStep
  /\ UNCHANGED vars

\* The history: taken as the pods are listed, and followed from read to read.
Record ==
  /\ snapshot' = IF pc = "listPods" /\ pc' = "listSets"
                 THEN [dep |-> DeploymentNow, sets |-> kSets, pods |-> kPods]
                 ELSE snapshot
  /\ quiet' = (quiet /\ (Reading => UNCHANGED <<kDep, kSets>>))
  /\ matched' = (matched \/ (Reading /\ MatchNow))

RaceNext == (CommandStep \/ Churn) /\ Record

RaceSpec == RaceInit /\ [][RaceNext]_raceVars

-----------------------------------------------------------------------------

\* What the cluster is: no property of the command, but a premise of the proofs.
ClusterOK ==
  /\ kDep \in [exists : BOOLEAN, template : SetNames, replicas : 0 .. MaxReplicas,
               revision : Revisions]
  /\ DOMAIN kSets \subseteq SetNames /\ kSets \in [DOMAIN kSets -> Revisions]
  /\ DOMAIN kPods \subseteq PodNames /\ kPods \in [DOMAIN kPods -> PodValues]
  /\ DOMAIN kPods \cap spent = {}
  /\ updates \in 0 .. MaxUpdates

-----------------------------------------------------------------------------
(* Properties *)

\* The live pods, as the pods were listed, of the revision that had been read.
CurrentWhenListed ==
  { p \in DOMAIN snapshot.pods :
      LET pod == snapshot.pods[p]
      IN  /\ ~pod.terminating
          /\ pod.owner \in DOMAIN snapshot.sets
          /\ snapshot.sets[pod.owner] = dep.revision }

\* No ready pod of the revision that was read is dropped in silence, although one
\* older list of ReplicaSets selects the pods and a later one says which of them
\* are current: a pod that was live, ready and of that revision as the pods were
\* listed is one the verdict speaks for.  If its ReplicaSet is collected or given
\* another revision before the last list, the pod is named as of an old revision
\* instead, and then the result is not a match.
NoCurrentPodMissed ==
  Answered =>
    \A p \in CurrentWhenListed :
      snapshot.pods[p].ready =>
        \/ p \in Counted
        \/ /\ exit # 0
           /\ \E f \in res.findings : f.reason = "OLD_REVISION_IGNORED" /\ f.pod = p

\* And no other pod is judged: whatever is observed and compared with the template
\* is a pod that was current as the pods were listed, although the revisions of the
\* ReplicaSets are read again later.  The one exception is a Deployment deleted
\* under the command, whose last list of ReplicaSets may be empty, which switches
\* the revision filter off (verifier.go:47).
OnlyCurrentPodsJudged ==
  (Answered /\ kDep.exists) =>
    \A o \in res.observations : o.pod \in CurrentWhenListed

\* While Deployment and ReplicaSets stand still, the four reads are as good as
\* one: whatever the pods do, the result is the verdict on the instant at which
\* they were listed.
QuietVerdictIsAtomic ==
  (Answered /\ quiet) =>
    res = ApplyExpectedDigests(
            verifyDeployment(snapshot.dep, snapshot.sets,
                             GetDeploymentPods(snapshot.pods, DOMAIN snapshot.sets)),
            expected)

-----------------------------------------------------------------------------
(* What the documentation says and the code does not do *)

\* README.md:72: the result describes one API snapshot.  A match would then have
\* held at some instant of the run.
MatchHeldAtSomeInstant == exit = 0 => matched
=============================================================================
