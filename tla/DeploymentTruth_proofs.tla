----------------------- MODULE DeploymentTruth_proofs -----------------------
(***************************************************************************)
(* Facts about the verdict on one Deployment, for any pods, ReplicaSets    *)
(* and template.  Both commands that judge Deployments rest on them.       *)
(***************************************************************************)
EXTENDS DeploymentTruth, Truth_proofs, FiniteSetTheorems, TLAPS

\* A Deployment is judged MATCH, PARTIAL or UNKNOWN, never MISMATCH or STALE.
LEMMA FinalStatusType ==
  ASSUME NEW d, NEW s, NEW l
  PROVE  FinalStatus(d, s, l) \in Verdicts
BY CombineAllType DEF FinalStatus, AfterContainers, Verdicts

\* What each stage of the status means when the outcome is a match.
LEMMA FinalStatusMatch ==
  ASSUME NEW d, NEW s, NEW l
  PROVE  FinalStatus(d, s, l) = "MATCH"
           <=> /\ ReadyPods(d, s, l) # {}
               /\ AfterReplicas(d, s, l) = "MATCH"
               /\ \A p \in ReadyPods(d, s, l), k \in Kinds :
                    SetStatus(d, l, p, k) = "MATCH"
<1>1. AfterReplicas(d, s, l) \in Verdicts
  BY DEF AfterReplicas, AfterRevision, AfterPods, Verdicts
<1>2. AfterContainers(d, s, l)
        = CombineAll({AfterReplicas(d, s, l)}
                     \cup StatusesOn(ReadyPods(d, s, l), d.template, l))
  BY DEF AfterContainers, SetStatus, StatusesOn
<1>3. AfterContainers(d, s, l) = "MATCH"
        <=> /\ AfterReplicas(d, s, l) = "MATCH"
            /\ \A p \in ReadyPods(d, s, l), k \in Kinds : SetStatus(d, l, p, k) = "MATCH"
  BY <1>1, <1>2, CombinedPods DEF SetStatus
<1> QED
  BY <1>3 DEF FinalStatus

\* The part of the status that the containers do not decide: a match of it means
\* that the counted pods are ready and as many as desired.
LEMMA AfterReplicasMatch ==
  ASSUME NEW d, NEW s, NEW l, d.replicas \in Nat, IsFiniteSet(DOMAIN l),
         ReadyPods(d, s, l) # {}
  PROVE  AfterReplicas(d, s, l) = "MATCH"
           <=> /\ NotReadyPods(d, s, l) = {}
               /\ Cardinality(ReadyPods(d, s, l)) >= d.replicas
<1> DEFINE R == ReadyPods(d, s, l)
<1>1. Cardinality(R) \in Nat
  <2>1. R \in SUBSET DOMAIN l
    BY DEF ReadyPods, CurrentPods, LivePods
  <2>2. IsFiniteSet(R)
    BY <2>1, FS_Subset
  <2> QED
    BY <2>2, FS_CardinalityType
<1>2. DOMAIN s = {} \/ currentReplicaSets(d, s) # {}
  BY DEF ReadyPods, CurrentPods, StalePods
<1>3. AfterRevision(d, s, l) = AfterPods(d, s, l)
  BY <1>2 DEF AfterRevision
<1> HIDE DEF R
<1>4. AfterReplicas(d, s, l) = "MATCH"
        <=> /\ AfterPods(d, s, l) = "MATCH"
            /\ ~(Cardinality(R) < d.replicas)
  BY <1>3 DEF AfterReplicas, Incomplete, AfterPods, R
<1> QED
  BY <1>1, <1>4 DEF AfterPods, R

\* A set of a counted pod that is PARTIAL makes the Deployment PARTIAL.
LEMMA PartialSet ==
  ASSUME NEW d, NEW s, NEW l, NEW p \in ReadyPods(d, s, l), NEW k \in Kinds,
         SetStatus(d, l, p, k) = "PARTIAL"
  PROVE  FinalStatus(d, s, l) = "PARTIAL"
<1>1. <<p, k>> \in ReadyPods(d, s, l) \X Kinds /\ <<p, k>>[1] = p /\ <<p, k>>[2] = k
  OBVIOUS
<1> DEFINE stat == {SetStatus(d, l, pk[1], pk[2]) : pk \in ReadyPods(d, s, l) \X Kinds}
<1>2. "PARTIAL" \in stat
  BY <1>1
<1> HIDE DEF stat
<1>3. AfterContainers(d, s, l) = CombineAll({AfterReplicas(d, s, l)} \cup stat)
  BY DEF AfterContainers, stat
<1> QED
  BY <1>2, <1>3 DEF CombineAll, FinalStatus
=============================================================================
