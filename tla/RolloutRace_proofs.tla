------------------------- MODULE RolloutRace_proofs -------------------------
(***************************************************************************)
(* The verify command against a moving cluster, for any number of pods,    *)
(* ReplicaSets, revisions and changes by the user: the cluster is one of   *)
(* those VerifyCommand is proved against, the current pods are judged and  *)
(* no others, and a quiet Deployment is judged as of one instant.          *)
(***************************************************************************)
EXTENDS RolloutRace, VerifyCommand_proofs

-----------------------------------------------------------------------------
(* The cluster *)

\* The containers of a template and of a pod are what the reads may return.
LEMMA ImagesType ==
  /\ \A hash \in SetNames : TemplateOf(hash) \in Templates
  /\ \A d \in Digests : ReportOf(d) \in Reports
  /\ NoReport \in Reports
<1>1. Empty \in [{} -> Images] /\ Empty \in [{} -> ImageIDs] /\ {} \in SUBSET Containers
  BY DEF Empty
<1>2. \A hash \in SetNames : [c \in Containers |-> ImageOf[hash]] \in [Containers -> Images]
  BY ClusterAssumption DEF Images
<1>3. \A d \in Digests : [c \in Containers |-> d] \in [Containers -> ImageIDs]
  BY DEF ImageIDs
<1>4. Containers \in SUBSET Containers
  OBVIOUS
<1> DEFINE declared == UNION {[names -> Images] : names \in SUBSET Containers}
           reported == UNION {[names -> ImageIDs] : names \in SUBSET Containers}
<1>5. /\ Empty \in declared
      /\ \A hash \in SetNames : [c \in Containers |-> ImageOf[hash]] \in declared
  BY <1>1, <1>2, <1>4
<1>6. /\ Empty \in reported
      /\ \A d \in Digests : [c \in Containers |-> d] \in reported
  BY <1>1, <1>3, <1>4
<1> HIDE DEF declared, reported
<1>7. \A hash \in SetNames : TemplateOf(hash) \in [Kinds -> declared]
  BY <1>5 DEF TemplateOf
<1>8. (\A d \in Digests : ReportOf(d) \in [Kinds -> reported])
      /\ NoReport \in [Kinds -> reported]
  BY <1>6 DEF ReportOf, NoReport
<1> QED
  BY <1>7, <1>8 DEF Templates, Reports, declared, reported

\* The highest revision of the other ReplicaSets is well defined.
LEMMA NewestIsHighest ==
  ASSUME ClusterOK, NEW x
  PROVE  /\ Newest(x) \in Nat
         /\ \A rs \in DOMAIN kSets \ {x} : kSets[rs] <= Newest(x)
         /\ Newest(x) = 0 \/ \E rs \in DOMAIN kSets \ {x} : kSets[rs] = Newest(x)
<1> DEFINE revisions == {kSets[rs] : rs \in DOMAIN kSets \ {x}} \cup {0}
           left      == {MaxRevision - r : r \in revisions}
<1>1. revisions \subseteq 0 .. MaxRevision
  BY MaxRevisionAssumption DEF ClusterOK, Revisions
<1>2. left \subseteq Nat /\ left # {}
  BY <1>1, MaxRevisionAssumption
<1>3. PICK m \in left : \A n \in left : ~(<<n, m>> \in OpToRel(<, Nat))
  BY <1>2, NatLessThanWellFounded, WFMin
<1>4. \A n \in left : ~(n < m)
  BY <1>2, <1>3 DEF OpToRel
<1>5. PICK r \in revisions : m = MaxRevision - r
  BY <1>3
<1>6. \A q \in revisions : q <= r
  <2> SUFFICES ASSUME NEW q \in revisions
               PROVE  q <= r
    OBVIOUS
  <2>1. ~(MaxRevision - q < MaxRevision - r)
    BY <1>4, <1>5
  <2>2. q \in Nat /\ r \in Nat /\ MaxRevision \in Nat
    BY <1>1, MaxRevisionAssumption
  <2> HIDE DEF revisions, left
  <2> QED
    BY <2>1, <2>2
<1>7. Newest(x) = CHOOSE q \in revisions : \A w \in revisions : w <= q
  BY DEF Newest
<1>8. Newest(x) \in revisions /\ \A w \in revisions : w <= Newest(x)
  <2> HIDE DEF revisions, left
  <2> QED
    BY <1>6, <1>7
<1> QED
  BY <1>1, <1>8

\* Every pod value the cluster makes is one of a pod list.
LEMMA StartedPodType ==
  ASSUME NEW rs \in SetNames
  PROVE  [owner |-> rs, ready |-> FALSE, terminating |-> FALSE, reports |-> NoReport]
           \in PodValues
BY ImagesType DEF PodValues

\* At the start the cluster is well formed.
LEMMA ClusterStarts == RaceInit => ClusterOK
<1> SUFFICES ASSUME RaceInit
             PROVE  ClusterOK
  OBVIOUS
<1>1. kDep \in [exists : BOOLEAN, template : SetNames, replicas : 0 .. MaxReplicas,
                revision : Revisions]
  BY ClusterAssumption, MaxRevisionAssumption DEF RaceInit, Revisions
<1>2. DOMAIN kSets \subseteq SetNames /\ kSets \in [DOMAIN kSets -> Revisions]
  BY ClusterAssumption, MaxRevisionAssumption DEF RaceInit, Revisions
<1>3. DOMAIN kPods \subseteq PodNames /\ kPods \in [DOMAIN kPods -> PodValues]
  <2>1. [owner |-> FirstSet, ready |-> TRUE, terminating |-> FALSE,
         reports |-> ReportOf(ImageOf[FirstSet])] \in PodValues
    BY ImagesType, ClusterAssumption DEF PodValues
  <2> QED
    BY <2>1 DEF RaceInit
<1>4. spent = {} /\ updates \in 0 .. MaxUpdates
  BY ClusterAssumption DEF RaceInit
<1> QED
  BY <1>1, <1>2, <1>3, <1>4 DEF ClusterOK

\* What the user and the controller do keeps it so.
LEMMA ControlKeepsCluster ==
  ASSUME ClusterOK, ControlStep
  PROVE  ClusterOK'
<1>1. ASSUME NEW d \in [exists : BOOLEAN, template : SetNames,
                        replicas : 0 .. MaxReplicas, revision : Revisions], Change(d)
      PROVE  ClusterOK'
  BY <1>1, ClusterAssumption DEF ClusterOK, Change
<1>2. ASSUME NEW hash \in SetNames, UpdateTemplate(hash)
      PROVE  ClusterOK'
  BY <1>1, <1>2 DEF UpdateTemplate, ClusterOK
<1>3. ASSUME NEW n \in 0 .. MaxReplicas, Scale(n)
      PROVE  ClusterOK'
  BY <1>1, <1>3 DEF Scale, ClusterOK
<1>4. CASE DeleteDeployment
  BY <1>1, <1>4 DEF DeleteDeployment, ClusterOK
<1>5. CASE SyncReplicaSet
  <2>1. Newest(kDep.template) + 1 \in Revisions /\ kDep.template \in SetNames
    BY <1>5 DEF SyncReplicaSet, ClusterOK
  <2>2. kSets' = [rs \in DOMAIN kSets \cup {kDep.template} |->
                   IF rs = kDep.template THEN Newest(kDep.template) + 1 ELSE kSets[rs]]
    BY <1>5 DEF SyncReplicaSet
  <2>3. DOMAIN kSets' \subseteq SetNames /\ kSets' \in [DOMAIN kSets' -> Revisions]
    BY <2>1, <2>2 DEF ClusterOK
  <2> QED
    BY <1>5, <2>3 DEF SyncReplicaSet, ClusterOK
<1>6. CASE SyncAnnotation
  BY <1>6 DEF SyncAnnotation, ClusterOK
<1>7. ASSUME NEW rs \in SetNames, CollectReplicaSet(rs)
      PROVE  ClusterOK'
  BY <1>7 DEF CollectReplicaSet, ClusterOK
<1> QED
  BY <1>2, <1>3, <1>4, <1>5, <1>6, <1>7 DEF ControlStep

\* And so does what happens to the pods.
LEMMA PodsKeepCluster ==
  ASSUME ClusterOK, PodsStep
  PROVE  ClusterOK'
<1>1. ASSUME NEW p \in PodNames, NEW rs \in SetNames, StartPod(p, rs)
      PROVE  ClusterOK'
  <2>1. kPods' = [q \in DOMAIN kPods \cup {p} |->
                   IF q # p THEN kPods[q]
                   ELSE [owner |-> rs, ready |-> FALSE, terminating |-> FALSE,
                         reports |-> NoReport]]
    BY <1>1 DEF StartPod
  <2>2. DOMAIN kPods' \subseteq PodNames /\ kPods' \in [DOMAIN kPods' -> PodValues]
    BY <2>1, StartedPodType DEF ClusterOK
  <2> QED
    BY <1>1, <2>1, <2>2 DEF StartPod, ClusterOK
<1>2. ASSUME NEW p \in DOMAIN kPods, NEW v \in PodValues, kPods' = [kPods EXCEPT ![p] = v]
      PROVE  DOMAIN kPods' = DOMAIN kPods /\ kPods' \in [DOMAIN kPods' -> PodValues]
  BY <1>2 DEF ClusterOK
<1>3. ASSUME NEW p \in DOMAIN kPods, NEW v \in PodValues, ChangePod(p, v)
      PROVE  ClusterOK'
  BY <1>2, <1>3 DEF ChangePod, ClusterOK
<1>4. ASSUME NEW p \in DOMAIN kPods
      PROVE  kPods[p] \in PodValues
  BY DEF ClusterOK
<1>5. ASSUME NEW p \in DOMAIN kPods, BecomeReady(p)
      PROVE  ClusterOK'
  <2> DEFINE v == [kPods[p] EXCEPT !.ready = TRUE,
                                   !.reports = IF @ = NoReport
                                               THEN ReportOf(ImageOf[kPods[p].owner])
                                               ELSE @]
  <2>1. kPods[p].owner \in SetNames /\ ImageOf[kPods[p].owner] \in Digests
    BY <1>4, ClusterAssumption DEF PodValues
  <2>2. ReportOf(ImageOf[kPods[p].owner]) \in Reports
    BY <2>1, ImagesType
  <2>3. v \in PodValues
    BY <1>4, <2>2 DEF PodValues
  <2> QED
    BY <1>3, <1>5, <2>3 DEF BecomeReady
<1>6. ASSUME NEW p \in DOMAIN kPods, BecomeUnready(p) \/ TerminatePod(p)
      PROVE  ClusterOK'
  <2>1. /\ [kPods[p] EXCEPT !.ready = FALSE] \in PodValues
        /\ [kPods[p] EXCEPT !.terminating = TRUE] \in PodValues
    BY <1>4 DEF PodValues
  <2> QED
    BY <1>3, <1>6, <2>1 DEF BecomeUnready, TerminatePod
<1>7. ASSUME NEW p \in DOMAIN kPods, NEW d \in Digests, PatchPod(p, d)
      PROVE  ClusterOK'
  <2>1. [kPods[p] EXCEPT !.reports = ReportOf(d)] \in PodValues
    BY <1>4, ImagesType DEF PodValues
  <2>2. kPods' = [kPods EXCEPT ![p] = [kPods[p] EXCEPT !.reports = ReportOf(d)]]
    BY <1>7 DEF PatchPod
  <2>3. DOMAIN kPods' = DOMAIN kPods /\ kPods' \in [DOMAIN kPods' -> PodValues]
    BY <1>2, <2>1, <2>2
  <2> QED
    BY <1>7, <2>3, ClusterAssumption DEF PatchPod, ClusterOK
<1>8. ASSUME NEW p \in DOMAIN kPods, RemovePod(p)
      PROVE  ClusterOK'
  BY <1>8 DEF RemovePod, ClusterOK
<1> QED
  BY <1>1, <1>5, <1>6, <1>7, <1>8 DEF PodsStep, PodStep

\* The cluster stays well formed in every step.
LEMMA ClusterStep == ClusterOK /\ [RaceNext]_raceVars => ClusterOK'
<1>1. ASSUME ClusterOK, UNCHANGED cluster
      PROVE  ClusterOK'
  BY <1>1 DEF ClusterOK, cluster
<1> QED
  BY <1>1, ControlKeepsCluster, PodsKeepCluster
     DEF RaceNext, CommandStep, Churn, raceVars

\* The cluster is well formed in every run.
LEMMA ClusterStaysWellFormed == RaceSpec => []ClusterOK
BY ClusterStarts, ClusterStep, PTL DEF RaceSpec
-----------------------------------------------------------------------------
(* The command against this cluster *)

\* What the cluster answers are answers the command is specified for.
LEMMA AnswersNow ==
  ASSUME ClusterOK
  PROVE  /\ DeploymentNow \in Deployments
         /\ SetsNow \in NamespaceSets
         /\ PodsNow \in NamespacePods
<1>1. DeploymentNow \in DeploymentValues
  <2>1. TemplateOf(kDep.template) \in Templates
    BY ImagesType DEF ClusterOK
  <2> QED
    BY <2>1 DEF DeploymentNow, DeploymentValues, ClusterOK
<1>2. SetsNow \in [DOMAIN kSets -> SetValues] /\ DOMAIN kSets \in SUBSET SetNames
  BY AnswersAssumption DEF SetsNow, SetValues, ClusterOK
<1>3. PodsNow \in [DOMAIN kPods -> PodValues] /\ DOMAIN kPods \in SUBSET PodNames
  BY DEF PodsNow, ClusterOK
<1>4. SetsNow \in UNION {[names -> SetValues] : names \in SUBSET SetNames}
  BY <1>2
<1>5. PodsNow \in PodLists
  BY <1>3 DEF PodLists
<1> QED
  BY <1>1, <1>4, <1>5, EveryAnswerAssumption

\* Seen from the command, a step of the cluster is no step at all, and a read of it
\* is a read that returned one of the answers allowed.
LEMMA RaceStepIsCommandStep == ClusterOK /\ [RaceNext]_raceVars => [Next]_vars
<1> SUFFICES ASSUME ClusterOK, [RaceNext]_raceVars
             PROVE  [Next]_vars
  OBVIOUS
<1>1. CASE Read
  BY <1>1, AnswersNow DEF Read, Next
<1>2. CASE ReadFails \/ Compute
  BY <1>2 DEF Compute, Next
<1>3. CASE Churn
  BY <1>3 DEF Churn
<1>4. CASE UNCHANGED raceVars
  BY <1>4 DEF raceVars
<1> QED
  BY <1>1, <1>2, <1>3, <1>4 DEF RaceNext, CommandStep

\* A run against this cluster is a run of the command: what is proved of the command
\* for arbitrary answers holds while the cluster moves.
THEOREM RaceImplementsCommand == RaceSpec => Spec
<1>1. RaceInit => Init
  BY DEF RaceInit
<1> QED
  BY <1>1, RaceStepIsCommandStep, ClusterStaysWellFormed, PTL DEF RaceSpec, Spec

\* So the command keeps the promise of a verification against a moving cluster.
THEOREM RaceImplementsVerification == RaceSpec => ImplementsVerification
BY RaceImplementsCommand, CommandImplementsVerification, PTL

-----------------------------------------------------------------------------
(* A quiet Deployment *)

Snapshotted ==
  /\ snapshot.dep = dep
  /\ pods = GetDeploymentPods(snapshot.pods, DOMAIN snapshot.sets)

\* What has been read so far is what one look at the quiet cluster would have shown.
AsOfOneInstant ==
  quiet =>
    /\ pc \in {"listOwned", "listPods", "listSets"} => dep = DeploymentNow
    /\ pc = "listPods" => owned = DOMAIN kSets
    /\ pc = "listSets" => Snapshotted /\ snapshot.sets = kSets
    /\ pc \in {"judge", "gate", "exit"} \/ Answered =>
         Snapshotted /\ snapshot.sets = sets

\* The command alone decides what it has read and where it is.
LEMMA Unread ==
  ASSUME ReadFails \/ RejectFlags \/ ParseFlags
  PROVE  pc' \notin {"listOwned", "listPods", "listSets", "judge", "gate", "exit"}
         /\ ~Answered'
BY DEF ReadFails, RejectFlags, ParseFlags, Fail, Answered

\* The list of this Deployment's ReplicaSets is all of them.
LEMMA OwnSets ==
  ASSUME ClusterOK
  PROVE  GetReplicaSetsForDeployment(SetsNow, Target) = kSets
BY DEF GetReplicaSetsForDeployment, SetsNow, ClusterOK

\* Each step reads one thing more of the same instant, or ends the quiet.
LEMMA QuietStep ==
  ClusterOK /\ AsOfOneInstant /\ [RaceNext]_raceVars => AsOfOneInstant'
<1> SUFFICES ASSUME ClusterOK, AsOfOneInstant, [RaceNext]_raceVars, quiet'
             PROVE  AsOfOneInstant'
  BY DEF AsOfOneInstant
<1>1. CASE UNCHANGED raceVars
  BY <1>1 DEF raceVars, vars, cluster, history, AsOfOneInstant, Snapshotted, Answered,
              DeploymentNow
<1>2. CASE RaceNext
  <2>1. quiet /\ (Reading => UNCHANGED <<kDep, kSets>>)
    BY <1>2 DEF RaceNext, Record
  <2>2. CASE Churn
    <3>1. UNCHANGED vars /\ UNCHANGED snapshot
      BY <1>2, <2>2 DEF RaceNext, Record, Churn, vars
    <3>2. pc \in {"listOwned", "listPods", "listSets"} =>
            DeploymentNow' = DeploymentNow /\ kSets' = kSets
      BY <2>1 DEF Reading, DeploymentNow
    <3> QED
      BY <2>1, <3>1, <3>2 DEF AsOfOneInstant, Snapshotted, Answered, vars
  <2>3. CASE CommandStep
    <3>1. DeploymentNow' = DeploymentNow /\ kSets' = kSets /\ kPods' = kPods
      BY <2>3 DEF CommandStep, cluster, DeploymentNow
    <3>2. ~(pc = "listPods" /\ pc' = "listSets") => UNCHANGED snapshot
      BY <1>2 DEF RaceNext, Record
    <3>3. CASE GetDeployment(DeploymentNow)
      BY <3>1, <3>3 DEF GetDeployment, AsOfOneInstant, Answered
    <3>4. CASE ListOwnedReplicaSets(SetsNow)
      <4>1. dep = DeploymentNow /\ dep' = dep /\ pc' = "listPods"
        BY <2>1, <3>4 DEF ListOwnedReplicaSets, AsOfOneInstant
      <4>2. owned' = DOMAIN kSets
        BY <3>4, <4>1, OwnSets DEF ListOwnedReplicaSets, DeploymentNow
      <4> QED
        BY <3>1, <4>1, <4>2 DEF AsOfOneInstant, Answered
    <3>5. CASE ListPods(PodsNow)
      <4>1. /\ dep = DeploymentNow /\ dep' = dep /\ owned = DOMAIN kSets
            /\ pc = "listPods" /\ pc' = "listSets"
            /\ pods' = GetDeploymentPods(kPods, owned)
        BY <2>1, <3>5 DEF ListPods, AsOfOneInstant, PodsNow
      <4>2. snapshot' = [dep |-> DeploymentNow, sets |-> kSets, pods |-> kPods]
        BY <1>2, <4>1 DEF RaceNext, Record
      <4> QED
        BY <3>1, <4>1, <4>2 DEF AsOfOneInstant, Snapshotted, Answered
    <3>6. CASE ListReplicaSets(SetsNow)
      <4>1. /\ Snapshotted /\ snapshot.sets = kSets /\ dep = DeploymentNow
            /\ pc = "listSets" /\ pc' = "judge" /\ UNCHANGED <<dep, pods, snapshot>>
        BY <2>1, <3>2, <3>6 DEF ListReplicaSets, AsOfOneInstant
      <4>2. sets' = kSets
        BY <3>6, <4>1, OwnSets DEF ListReplicaSets, DeploymentNow
      <4> QED
        BY <4>1, <4>2 DEF AsOfOneInstant, Snapshotted, Answered
    <3>7. CASE ReadFails \/ RejectFlags \/ ParseFlags
      BY <3>7, Unread DEF AsOfOneInstant
    <3>8. CASE Judge \/ ApplyGate \/ Exit
      <4>1. /\ pc \in {"judge", "gate", "exit"} /\ pc' \in {"gate", "exit", "done"}
            /\ UNCHANGED <<dep, pods, sets>>
        BY <3>8 DEF Judge, ApplyGate, Exit
      <4>2. Snapshotted /\ snapshot.sets = sets /\ UNCHANGED snapshot
        BY <2>1, <3>2, <4>1 DEF AsOfOneInstant
      <4> QED
        BY <4>1, <4>2 DEF AsOfOneInstant, Snapshotted
    <3> QED
      BY <2>3, <3>3, <3>4, <3>5, <3>6, <3>7, <3>8 DEF CommandStep, Read, Compute
  <2> QED
    BY <1>2, <2>2, <2>3 DEF RaceNext
<1> QED
  BY <1>1, <1>2

\* While Deployment and ReplicaSets stand still, the result is the verdict on the
\* instant at which the pods were listed.
THEOREM QuietIsAtomic == RaceSpec => []QuietVerdictIsAtomic
<1>1. RaceInit => AsOfOneInstant
  BY DEF RaceInit, Init, AsOfOneInstant, Answered
<1>2. RaceSpec => []AsOfOneInstant
  BY <1>1, QuietStep, ClusterStaysWellFormed, PTL DEF RaceSpec
<1>3. IInv /\ AsOfOneInstant => QuietVerdictIsAtomic
  BY DEF IInv, ResultIsVerdict, AsOfOneInstant, Snapshotted, QuietVerdictIsAtomic
<1> QED
  BY <1>2, <1>3, RaceImplementsCommand, Invariant, PTL
-----------------------------------------------------------------------------
(* No current pod is missed *)

\* Revisions only grow: while the Deployment exists one of its ReplicaSets is at
\* least as new as its annotation, and so newer than what was read of it earlier.
RevisionsGrow ==
  /\ kDep.revision >= 1
  /\ kDep.exists => \E rs \in DOMAIN kSets : kSets[rs] >= kDep.revision
  /\ dep \in DeploymentValues => 1 <= dep.revision /\ dep.revision <= kDep.revision

\* A ReplicaSet missing from the first list is newer than the Deployment that was
\* read; the pods of that revision were therefore listed.
CurrentListed ==
  /\ pc = "listPods" => \A rs \in DOMAIN kSets \ owned : kSets[rs] > dep.revision
  /\ pc \in {"listSets", "judge", "gate", "exit"} \/ Answered =>
       \A p \in DOMAIN snapshot.pods :
         LET pod == snapshot.pods[p]
         IN  pod.owner \in DOMAIN snapshot.sets /\ snapshot.sets[pod.owner] = dep.revision
             => p \in DOMAIN pods /\ pods[p] = pod

GrowInv == ClusterOK /\ IInv /\ RevisionsGrow /\ CurrentListed

LEMMA RevisionTypes ==
  ASSUME ClusterOK
  PROVE  /\ kDep.revision \in Nat
         /\ \A rs \in DOMAIN kSets : kSets[rs] \in Nat
         /\ dep \in DeploymentValues => dep.revision \in Nat
BY MaxRevisionAssumption DEF ClusterOK, Revisions, DeploymentValues

\* The Deployment's annotation never goes back.
LEMMA AnnotationGrows ==
  ASSUME ClusterOK, RevisionsGrow, SyncAnnotation
  PROVE  kDep'.revision >= kDep.revision
<1>1. /\ kDep'.revision = kSets[kDep.template]
      /\ kSets[kDep.template] > Newest(kDep.template)
      /\ kDep.exists /\ kDep.template \in DOMAIN kSets
  BY DEF SyncAnnotation, ClusterOK
<1>2. PICK rs \in DOMAIN kSets : kSets[rs] >= kDep.revision
  BY <1>1 DEF RevisionsGrow
<1>3. CASE rs = kDep.template
  BY <1>1, <1>2, <1>3
<1>4. CASE rs # kDep.template
  <2>1. kSets[rs] <= Newest(kDep.template) /\ Newest(kDep.template) \in Nat
    BY <1>2, <1>4, NewestIsHighest
  <2> QED
    BY <1>1, <1>2, <2>1, RevisionTypes
<1> QED
  BY <1>3, <1>4

\* A ReplicaSet that is created or revived becomes the newest of all.
LEMMA SyncedIsNewest ==
  ASSUME ClusterOK, RevisionsGrow, SyncReplicaSet
  PROVE  /\ kSets'[kDep.template] > kDep.revision
         /\ DOMAIN kSets' = DOMAIN kSets \cup {kDep.template}
         /\ \A rs \in DOMAIN kSets : rs # kDep.template => kSets'[rs] = kSets[rs]
<1>1. /\ kDep.exists
      /\ kDep.template \in DOMAIN kSets => kSets[kDep.template] < Newest(kDep.template)
      /\ kSets' = [rs \in DOMAIN kSets \cup {kDep.template} |->
                     IF rs = kDep.template THEN Newest(kDep.template) + 1 ELSE kSets[rs]]
  BY DEF SyncReplicaSet
<1>2. kSets'[kDep.template] = Newest(kDep.template) + 1
  BY <1>1
<1>3. PICK rs \in DOMAIN kSets : kSets[rs] >= kDep.revision
  BY <1>1 DEF RevisionsGrow
<1>4. kSets[rs] <= Newest(kDep.template) /\ Newest(kDep.template) \in Nat
  <2>1. CASE rs = kDep.template
    BY <1>1, <1>3, <2>1, NewestIsHighest, RevisionTypes
  <2>2. CASE rs # kDep.template
    BY <1>3, <2>2, NewestIsHighest
  <2> QED
    BY <2>1, <2>2
<1>5. kSets'[kDep.template] > kDep.revision
  BY <1>2, <1>3, <1>4, RevisionTypes
<1> QED
  BY <1>1, <1>5

\* The controller and the user keep the order of the revisions.
LEMMA ControlKeepsOrder ==
  ASSUME GrowInv, ControlStep, UNCHANGED vars, UNCHANGED snapshot
  PROVE  RevisionsGrow' /\ CurrentListed'
<1> USE DEF GrowInv
<1>1. ASSUME kDep'.revision = kDep.revision, kDep'.exists => kDep.exists,
             UNCHANGED kSets
      PROVE  RevisionsGrow' /\ CurrentListed'
  BY <1>1 DEF vars, RevisionsGrow, CurrentListed, Answered
<1>2. ASSUME NEW hash \in SetNames, UpdateTemplate(hash)
      PROVE  RevisionsGrow' /\ CurrentListed'
  BY <1>1, <1>2 DEF UpdateTemplate, Change, ClusterOK
<1>3. ASSUME NEW n \in 0 .. MaxReplicas, Scale(n)
      PROVE  RevisionsGrow' /\ CurrentListed'
  BY <1>1, <1>3 DEF Scale, Change, ClusterOK
<1>4. CASE DeleteDeployment
  BY <1>1, <1>4 DEF DeleteDeployment, Change, ClusterOK
<1>5. CASE SyncReplicaSet
  <2>1. kDep' = kDep
    BY <1>5 DEF SyncReplicaSet
  <2>2. kSets'[kDep.template] \in Nat
    BY <1>5, ControlKeepsCluster, SyncedIsNewest, MaxRevisionAssumption
       DEF ControlStep, ClusterOK, Revisions
  <2>3. RevisionsGrow'
    BY <1>5, <2>1, <2>2, SyncedIsNewest, RevisionTypes DEF RevisionsGrow, vars
  <2>4. pc = "listPods" => dep \in DeploymentValues
    BY DEF IInv, ResultIsVerdict
  <2>5. CurrentListed'
    <3>1. ASSUME pc = "listPods", NEW rs \in DOMAIN kSets' \ owned
          PROVE  kSets'[rs] > dep.revision
      <4>1. CASE rs = kDep.template
        BY <1>5, <2>2, <2>4, <3>1, <4>1, SyncedIsNewest, RevisionTypes DEF RevisionsGrow
      <4>2. CASE rs # kDep.template
        BY <1>5, <3>1, <4>2, SyncedIsNewest DEF CurrentListed
      <4> QED
        BY <4>1, <4>2
    <3> QED
      BY <3>1 DEF CurrentListed, Answered, vars
  <2> QED
    BY <2>3, <2>5
<1>6. CASE SyncAnnotation
  <2>1. /\ kSets' = kSets /\ kDep.template \in DOMAIN kSets
        /\ kDep'.revision = kSets[kDep.template]
    BY <1>6 DEF SyncAnnotation, ClusterOK
  <2>2. kDep'.revision \in Nat /\ kDep'.revision >= kDep.revision
    BY <1>6, <2>1, AnnotationGrows, RevisionTypes
  <2>3. RevisionsGrow'
    BY <2>1, <2>2, RevisionTypes DEF RevisionsGrow, vars
  <2> QED
    BY <2>1, <2>3 DEF CurrentListed, Answered, vars
<1>7. ASSUME NEW rs \in SetNames, CollectReplicaSet(rs)
      PROVE  RevisionsGrow' /\ CurrentListed'
  <2>1. /\ kDep' = kDep
        /\ kSets' = [r \in DOMAIN kSets \ {rs} |-> kSets[r]]
        /\ kDep.exists => kSets[rs] < kDep.revision
    BY <1>7 DEF CollectReplicaSet
  <2>2. rs \in DOMAIN kSets
    BY <1>7 DEF CollectReplicaSet
  <2>3. kDep.exists => \E r \in DOMAIN kSets' : kSets'[r] >= kDep.revision
    BY <2>1, <2>2, RevisionTypes DEF RevisionsGrow
  <2>4. RevisionsGrow'
    BY <2>1, <2>3 DEF RevisionsGrow, vars
  <2> QED
    BY <2>1, <2>4 DEF CurrentListed, Answered, vars
<1> QED
  BY <1>2, <1>3, <1>4, <1>5, <1>6, <1>7 DEF ControlStep

\* Each step of the command keeps it.
LEMMA CommandKeepsOrder ==
  ASSUME GrowInv, CommandStep, Record, IInv'
  PROVE  RevisionsGrow' /\ CurrentListed'
<1> USE DEF GrowInv
<1>1. UNCHANGED <<kDep, kSets, kPods>>
  BY DEF CommandStep, cluster
<1>2. ~(pc = "listPods" /\ pc' = "listSets") => UNCHANGED snapshot
  BY DEF Record
<1>3. CASE GetDeployment(DeploymentNow)
  <2>1. dep'.revision = kDep.revision /\ pc' = "listOwned"
    BY <1>3 DEF GetDeployment, DeploymentNow
  <2> QED
    BY <1>1, <2>1, RevisionTypes DEF RevisionsGrow, CurrentListed, Answered
<1>4. CASE ListOwnedReplicaSets(SetsNow)
  <2>1. dep.name = Target
    BY <1>4 DEF ListOwnedReplicaSets, IInv, ResultIsVerdict, DeploymentValues
  <2>2. owned' = DOMAIN kSets /\ pc' = "listPods" /\ dep' = dep
    BY <1>4, <2>1, OwnSets DEF ListOwnedReplicaSets
  <2> QED
    BY <1>1, <2>2 DEF RevisionsGrow, CurrentListed, Answered
<1>5. CASE ListPods(PodsNow)
  <2>1. /\ pc = "listPods" /\ pc' = "listSets" /\ dep' = dep
        /\ pods' = GetDeploymentPods(kPods, owned)
    BY <1>5 DEF ListPods, PodsNow
  <2>2. snapshot' = [dep |-> DeploymentNow, sets |-> kSets, pods |-> kPods]
    BY <2>1 DEF Record
  <2>3. dep \in DeploymentValues
    BY <2>1 DEF IInv, ResultIsVerdict
  <2>4. ASSUME NEW p \in DOMAIN kPods, kPods[p].owner \in DOMAIN kSets,
               kSets[kPods[p].owner] = dep.revision
        PROVE  p \in DOMAIN pods' /\ pods'[p] = kPods[p]
    <3>1. kPods[p].owner \in owned
      BY <2>1, <2>3, <2>4, RevisionTypes DEF CurrentListed
    <3> QED
      BY <2>1, <3>1 DEF GetDeploymentPods
  <2>5. CurrentListed'
    BY <2>1, <2>2, <2>4 DEF CurrentListed, Answered
  <2> QED
    BY <1>1, <2>1, <2>5 DEF RevisionsGrow
<1>6. CASE ListReplicaSets(SetsNow)
  BY <1>1, <1>2, <1>6 DEF ListReplicaSets, RevisionsGrow, CurrentListed
<1>7. CASE ReadFails \/ RejectFlags \/ ParseFlags
  <2>1. UNCHANGED dep
    BY <1>7 DEF ReadFails, RejectFlags, ParseFlags, Fail
  <2> QED
    BY <1>1, <1>7, <2>1, Unread DEF RevisionsGrow, CurrentListed
<1>8. CASE Judge \/ ApplyGate \/ Exit
  <2>1. /\ pc \in {"judge", "gate", "exit"} /\ pc' \in {"gate", "exit", "done"}
        /\ UNCHANGED <<dep, pods>>
    BY <1>8 DEF Judge, ApplyGate, Exit
  <2> QED
    BY <1>1, <1>2, <2>1 DEF RevisionsGrow, CurrentListed
<1> QED
  BY <1>3, <1>4, <1>5, <1>6, <1>7, <1>8 DEF CommandStep, Read, Compute

\* Every step of the two together keeps the order of the revisions.
LEMMA GrowStep ==
  GrowInv /\ IInv' /\ [RaceNext]_raceVars => RevisionsGrow' /\ CurrentListed'
<1> SUFFICES ASSUME GrowInv, IInv', [RaceNext]_raceVars
             PROVE  RevisionsGrow' /\ CurrentListed'
  OBVIOUS
<1>1. CASE UNCHANGED raceVars
  BY <1>1 DEF raceVars, vars, cluster, history, GrowInv, RevisionsGrow, CurrentListed,
              Answered
<1>2. CASE RaceNext
  <2>1. Churn => UNCHANGED vars /\ UNCHANGED snapshot
    BY <1>2 DEF RaceNext, Record, Churn, vars
  <2>2. CASE Churn /\ ControlStep
    BY <2>1, <2>2, ControlKeepsOrder
  <2>3. CASE Churn /\ PodsStep
    <3>1. UNCHANGED <<kDep, kSets>>
      BY <2>3 DEF PodsStep, PodStep, StartPod, BecomeReady, BecomeUnready, PatchPod,
                  TerminatePod, RemovePod, ChangePod
    <3> QED
      BY <2>1, <2>3, <3>1 DEF GrowInv, RevisionsGrow, CurrentListed, Answered, vars
  <2>4. CASE CommandStep
    BY <1>2, <2>4, CommandKeepsOrder DEF RaceNext
  <2> QED
    BY <1>2, <2>2, <2>3, <2>4 DEF RaceNext, Churn
<1> QED
  BY <1>1, <1>2

-----------------------------------------------------------------------------
(* The current ReplicaSet *)

OneOf(f) == \A r1, r2 \in DOMAIN f : f[r1] = f[r2] => r1 = r2

\* Which of the ReplicaSets of a list are current was so when the pods were listed.
WereCurrent(list) ==
  \A rs \in DOMAIN list :
    list[rs] = dep.revision =>
      rs \in DOMAIN snapshot.sets /\ snapshot.sets[rs] = dep.revision

\* No two ReplicaSets bear one revision, and a revision that has been read is not
\* given away again: a ReplicaSet that bears it after the pods were listed bore it
\* then.
CurrentStays ==
  /\ OneOf(kSets)
  /\ pc = "listSets" => WereCurrent(kSets)
  /\ pc \in {"judge", "gate", "exit"} \/ Answered =>
       WereCurrent(sets) /\ (kDep.exists => DOMAIN sets # {})
  /\ pc \in {"listSets", "judge", "gate", "exit"} \/ Answered =>
       /\ OneOf(snapshot.sets)
       /\ \A p \in DOMAIN pods : p \in DOMAIN snapshot.pods /\ pods[p] = snapshot.pods[p]

\* A new revision is higher than those of the other ReplicaSets.
LEMMA SyncedIsHighest ==
  ASSUME ClusterOK, SyncReplicaSet, NEW rs \in DOMAIN kSets, rs # kDep.template
  PROVE  kSets'[kDep.template] > kSets[rs]
<1>1. kSets'[kDep.template] = Newest(kDep.template) + 1
  BY DEF SyncReplicaSet
<1>2. kSets[rs] <= Newest(kDep.template) /\ Newest(kDep.template) \in Nat
  BY NewestIsHighest
<1> QED
  BY <1>1, <1>2, RevisionTypes

\* The controller and the user keep it.
LEMMA ControlKeepsCurrent ==
  ASSUME GrowInv, CurrentStays, ControlStep, UNCHANGED vars, UNCHANGED snapshot,
         pc \in {"get", "listOwned", "listPods", "listSets"}
  PROVE  CurrentStays'
<1> USE DEF GrowInv
<1>1. ~Answered /\ ~Answered'
  BY DEF Answered, vars
<1>2. ASSUME OneOf(kSets)', pc = "listSets" => WereCurrent(kSets)'
      PROVE  CurrentStays'
  BY <1>1, <1>2 DEF CurrentStays, vars
<1>3. ASSUME UNCHANGED kSets
      PROVE  CurrentStays'
  BY <1>2, <1>3 DEF CurrentStays, OneOf, WereCurrent, vars
<1>4. CASE SyncReplicaSet
  <2>1. /\ DOMAIN kSets' = DOMAIN kSets \cup {kDep.template}
        /\ \A rs \in DOMAIN kSets : rs # kDep.template =>
             kSets'[rs] = kSets[rs] /\ kSets'[kDep.template] > kSets[rs]
        /\ kSets'[kDep.template] > kDep.revision
    BY <1>4, SyncedIsNewest, SyncedIsHighest
  <2>2. kSets'[kDep.template] \in Nat
    BY <1>4, ControlKeepsCluster, <2>1, MaxRevisionAssumption
       DEF ControlStep, ClusterOK, Revisions
  <2>3. OneOf(kSets)'
    BY <2>1, <2>2, RevisionTypes DEF CurrentStays, OneOf
  <2>4. ASSUME pc = "listSets", NEW rs \in DOMAIN kSets', kSets'[rs] = dep.revision
        PROVE  rs \in DOMAIN snapshot.sets /\ snapshot.sets[rs] = dep.revision
    <3>1. dep \in DeploymentValues
      BY <2>4 DEF IInv, ResultIsVerdict
    <3>2. rs # kDep.template
      BY <2>1, <2>2, <2>4, <3>1, RevisionTypes DEF RevisionsGrow
    <3> QED
      BY <2>1, <2>4, <3>2 DEF CurrentStays, WereCurrent
  <2> QED
    BY <1>2, <2>3, <2>4 DEF WereCurrent, vars
<1>5. ASSUME NEW rs \in SetNames, CollectReplicaSet(rs)
      PROVE  CurrentStays'
  <2>1. kSets' = [r \in DOMAIN kSets \ {rs} |-> kSets[r]]
    BY <1>5 DEF CollectReplicaSet
  <2> QED
    BY <1>2, <2>1 DEF CurrentStays, OneOf, WereCurrent, vars
<1> QED
  BY <1>3, <1>4, <1>5
     DEF ControlStep, UpdateTemplate, Scale, DeleteDeployment, Change, SyncAnnotation

\* Each step of the command keeps it.
LEMMA CommandKeepsCurrent ==
  ASSUME GrowInv, CurrentStays, CommandStep, Record
  PROVE  CurrentStays'
<1> USE DEF GrowInv
<1>1. UNCHANGED <<kDep, kSets, kPods>> /\ OneOf(kSets)'
  BY DEF CommandStep, cluster, CurrentStays, OneOf
<1>2. ~(pc = "listPods" /\ pc' = "listSets") => UNCHANGED snapshot
  BY DEF Record
<1>3. CASE GetDeployment(DeploymentNow) \/ ListOwnedReplicaSets(SetsNow)
  BY <1>1, <1>3 DEF GetDeployment, ListOwnedReplicaSets, CurrentStays, Answered
<1>4. CASE ListPods(PodsNow)
  <2>1. /\ pc = "listPods" /\ pc' = "listSets" /\ dep' = dep
        /\ pods' = GetDeploymentPods(kPods, owned)
    BY <1>4 DEF ListPods, PodsNow
  <2>2. snapshot' = [dep |-> DeploymentNow, sets |-> kSets, pods |-> kPods]
    BY <2>1 DEF Record
  <2>3. WereCurrent(kSets)' /\ OneOf(snapshot.sets)'
    BY <1>1, <2>1, <2>2 DEF WereCurrent, CurrentStays, OneOf
  <2>4. \A p \in DOMAIN pods' : p \in DOMAIN snapshot'.pods /\ pods'[p] = snapshot'.pods[p]
    BY <2>1, <2>2 DEF GetDeploymentPods
  <2> QED
    BY <1>1, <2>1, <2>3, <2>4 DEF CurrentStays, Answered
<1>5. CASE ListReplicaSets(SetsNow)
  <2>1. /\ pc = "listSets" /\ pc' = "judge" /\ UNCHANGED <<dep, pods, snapshot>>
    BY <1>2, <1>5 DEF ListReplicaSets
  <2>2. dep.name = Target
    BY <2>1 DEF IInv, ResultIsVerdict, DeploymentValues
  <2>3. sets' = kSets
    BY <1>5, <2>2, OwnSets DEF ListReplicaSets
  <2>4. kDep.exists => DOMAIN kSets # {}
    BY DEF RevisionsGrow
  <2>5. WereCurrent(sets)' /\ OneOf(snapshot.sets)'
    BY <2>1, <2>3 DEF WereCurrent, CurrentStays, OneOf
  <2> QED
    BY <1>1, <2>1, <2>3, <2>4, <2>5 DEF CurrentStays, Answered
<1>6. CASE ReadFails \/ RejectFlags \/ ParseFlags
  BY <1>1, <1>6, Unread DEF CurrentStays
<1>7. CASE Judge \/ ApplyGate \/ Exit
  <2>1. /\ pc \in {"judge", "gate", "exit"} /\ pc' \in {"gate", "exit", "done"}
        /\ UNCHANGED <<dep, pods, sets, snapshot>>
    BY <1>2, <1>7 DEF Judge, ApplyGate, Exit
  <2> QED
    BY <1>1, <2>1 DEF CurrentStays, WereCurrent, OneOf
<1> QED
  BY <1>3, <1>4, <1>5, <1>6, <1>7 DEF CommandStep, Read, Compute

\* Every step of the two together keeps it.
LEMMA CurrentStep == GrowInv /\ CurrentStays /\ [RaceNext]_raceVars => CurrentStays'
<1> SUFFICES ASSUME GrowInv, CurrentStays, [RaceNext]_raceVars
             PROVE  CurrentStays'
  OBVIOUS
<1>1. ASSUME UNCHANGED vars, UNCHANGED <<kDep, kSets, snapshot>>
      PROVE  CurrentStays'
  BY <1>1 DEF vars, CurrentStays, OneOf, WereCurrent, Answered
<1>2. CASE UNCHANGED raceVars
  BY <1>1, <1>2 DEF raceVars, cluster, history
<1>3. CASE RaceNext
  <2>1. Churn => UNCHANGED vars /\ UNCHANGED snapshot
    BY <1>3 DEF RaceNext, Record, Churn, vars
  <2>2. CASE Churn /\ pc \in {"get", "listOwned", "listPods", "listSets"} /\ ControlStep
    BY <2>1, <2>2, ControlKeepsCurrent
  <2>3. CASE Churn /\ PodsStep
    <3>1. UNCHANGED <<kDep, kSets>>
      BY <2>3 DEF PodsStep, PodStep, StartPod, BecomeReady, BecomeUnready, PatchPod,
                  TerminatePod, RemovePod, ChangePod
    <3> QED
      BY <1>1, <2>1, <2>3, <3>1
  <2>4. CASE CommandStep
    BY <1>3, <2>4, CommandKeepsCurrent DEF RaceNext
  <2> QED
    BY <1>3, <2>2, <2>3, <2>4 DEF RaceNext, Churn
<1> QED
  BY <1>2, <1>3

\* Both orders hold in every run.
LEMMA RaceInvariant == RaceSpec => [](GrowInv /\ CurrentStays)
<1>1. RaceInit => RevisionsGrow /\ CurrentListed /\ CurrentStays
  <2>1. NotRead \notin DeploymentValues
    BY AnswersAssumption DEF NotRead, DeploymentValues
  <2> QED
    BY <2>1 DEF RaceInit, Init, RevisionsGrow, CurrentListed, CurrentStays, OneOf, Answered
<1>2. RaceSpec => []IInv
  BY RaceImplementsCommand, Invariant, PTL
<1>3. ClusterOK /\ IInv /\ IInv' /\ (RevisionsGrow /\ CurrentListed /\ CurrentStays)
        /\ [RaceNext]_raceVars => (RevisionsGrow /\ CurrentListed /\ CurrentStays)'
  BY GrowStep, CurrentStep DEF GrowInv
<1>4. RaceSpec => [](RevisionsGrow /\ CurrentListed /\ CurrentStays)
  BY <1>1, <1>2, <1>3, ClusterStaysWellFormed, PTL DEF RaceSpec
<1>5. ClusterOK /\ IInv /\ RevisionsGrow /\ CurrentListed => GrowInv
  BY DEF GrowInv
<1> QED
  BY <1>2, <1>4, <1>5, ClusterStaysWellFormed, PTL

\* A match counts every pod that was current, live and ready as the pods were listed.
LEMMA MatchCountsCurrent ==
  ASSUME GrowInv, CurrentStays, exit = 0,
         NEW p \in CurrentWhenListed, p \in DOMAIN pods, ~pods[p].terminating,
         pods[p].owner = snapshot.pods[p].owner
  PROVE  p \in Counted
<1>1. Answered /\ Proven
  <2>1. Answered
    BY DEF GrowInv, IInv, ResultIsVerdict, Answered, NoExit, OperationalError
  <2>2. exitForStatus(res.status) = 0 /\ dep \in DeploymentValues
    BY <2>1 DEF GrowInv, IInv, ResultIsVerdict
  <2>3. res.status = "MATCH"
    BY <2>2 DEF exitForStatus
  <2> QED
    BY <2>1, <2>2, <2>3, VerdictExact DEF GrowInv, IInv, ResultIsVerdict
<1>2. PICK q : q \in Counted
  BY <1>1 DEF Proven
<1>3. CASE DOMAIN sets = {}
  BY <1>3 DEF Counted
<1>4. CASE DOMAIN sets # {}
  <2>1. /\ dep.revision # NoRevision
        /\ pods[q].owner \in DOMAIN sets /\ sets[pods[q].owner] = dep.revision
    BY <1>2, <1>4 DEF Counted
  <2>2. /\ pods[q].owner \in DOMAIN snapshot.sets
        /\ snapshot.sets[pods[q].owner] = dep.revision
    BY <1>1, <2>1 DEF CurrentStays, WereCurrent
  <2>3. pods[q].owner = pods[p].owner
    BY <1>1, <2>2 DEF CurrentStays, OneOf, CurrentWhenListed
  <2> QED
    BY <2>1, <2>3 DEF Counted
<1> QED
  BY <1>3, <1>4

\* A ready pod of the revision that was read is counted, or it is named as of an old
\* revision in a result that is no match, although the list of ReplicaSets that
\* selected the pods is older than the pods and the one that judges them younger.
THEOREM CurrentPodsCounted == RaceSpec => []NoCurrentPodMissed
<1>1. GrowInv /\ CurrentStays => NoCurrentPodMissed
  <2> SUFFICES ASSUME GrowInv, CurrentStays, Answered,
                      NEW p \in CurrentWhenListed, snapshot.pods[p].ready, p \notin Counted
               PROVE  /\ exit # 0
                      /\ \E f \in res.findings :
                           f.reason = "OLD_REVISION_IGNORED" /\ f.pod = p
    BY DEF NoCurrentPodMissed
  <2>1. p \in DOMAIN pods /\ pods[p] = snapshot.pods[p] /\ ~pods[p].terminating
    BY DEF GrowInv, CurrentListed, CurrentWhenListed
  <2>2. exit # 0
    BY <2>1, MatchCountsCurrent
  <2>3. /\ dep \in DeploymentValues
        /\ res = ApplyExpectedDigests(verifyDeployment(dep, sets, pods), expected)
    BY DEF GrowInv, IInv, ResultIsVerdict
  <2>4. p \in StalePods(dep, sets, pods)
    BY <2>1 DEF Counted, StalePods, LivePods, currentReplicaSets
  <2>5. Finding("OLD_REVISION_IGNORED", "STALE", p, None)
          \in verifyDeployment(dep, sets, pods).findings
    BY <2>4 DEF verifyDeployment, Findings
  <2>6. Finding("OLD_REVISION_IGNORED", "STALE", p, None) \in res.findings
    BY <2>3, <2>5, GateKeepsReport
  <2> QED
    BY <2>2, <2>6 DEF Finding
<1> QED
  BY <1>1, RaceInvariant, PTL

\* Unless the Deployment was deleted, nothing is observed but pods of the revision
\* that was read, although revisions are read again after the pods were listed.
THEOREM NoOldPodJudged == RaceSpec => []OnlyCurrentPodsJudged
<1>1. GrowInv /\ CurrentStays => OnlyCurrentPodsJudged
  <2> SUFFICES ASSUME GrowInv, CurrentStays, Answered, kDep.exists,
                      NEW o \in res.observations
               PROVE  o.pod \in CurrentWhenListed
    BY DEF OnlyCurrentPodsJudged
  <2>1. /\ dep \in DeploymentValues
        /\ res = ApplyExpectedDigests(verifyDeployment(dep, sets, pods), expected)
    BY DEF GrowInv, IInv, ResultIsVerdict
  <2>2. PICK o1 \in verifyDeployment(dep, sets, pods).observations : SameEvidence(o1, o)
    BY <2>1, GateKeepsReport
  <2>3. PICK p \in ReadyPods(dep, sets, pods), k \in Kinds :
          o1 \in ObservedOf(dep, pods, p, k)
    BY <2>2, ObservedByPod DEF verifyDeployment
  <2>4. o.pod = p
    BY <2>2, <2>3 DEF ObservedOf, ObservationsOf, SameEvidence
  <2>5. p \in Counted
    BY <2>1, <2>3, CurrentIsCounted DEF ReadyPods
  <2>6. /\ p \in DOMAIN pods /\ ~pods[p].terminating
        /\ pods[p].owner \in DOMAIN sets /\ sets[pods[p].owner] = dep.revision
    BY <2>5 DEF Counted, CurrentStays
  <2>7. /\ p \in DOMAIN snapshot.pods /\ snapshot.pods[p] = pods[p]
        /\ pods[p].owner \in DOMAIN snapshot.sets
        /\ snapshot.sets[pods[p].owner] = dep.revision
    BY <2>6 DEF CurrentStays, WereCurrent
  <2> QED
    BY <2>4, <2>6, <2>7 DEF CurrentWhenListed
<1> QED
  BY <1>1, RaceInvariant, PTL
=============================================================================
