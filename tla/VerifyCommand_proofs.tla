------------------------ MODULE VerifyCommand_proofs ------------------------
(***************************************************************************)
(* Proofs about the verify command for every value of its constants: any   *)
(* number of pods, ReplicaSets, containers, digests, flags, and any        *)
(* answers of the cluster.  First its exit code and the refinement; then   *)
(* what it reports: nothing that was read goes unreported, drift is not    *)
(* hidden, and a verdict can be explained from the result.                 *)
(***************************************************************************)
EXTENDS VerifyCommand, DeploymentTruth_proofs, TLAPS

-----------------------------------------------------------------------------
(* The verdict of the command *)

\* Without an unready pod, the pods the code keeps are the pods Counted names.
LEMMA CurrentIsCounted ==
  ASSUME dep \in DeploymentValues
  PROVE  CurrentPods(dep, sets, pods) = Counted
BY DEF CurrentPods, StalePods, LivePods, currentReplicaSets, Counted

\* After a match of the containers, the gate lets the result pass exactly if
\* every counted pod runs every expected digest.
LEMMA GateMatch ==
  ASSUME TypeOK,
         FinalStatus(dep, sets, pods) = "MATCH"
  PROVE  ApplyExpectedDigests(verifyDeployment(dep, sets, pods), expected).status
             = "MATCH"
           <=> \A p \in ReadyPods(dep, sets, pods) : Expected(p)
<1> DEFINE R == ReadyPods(dep, sets, pods)
           v == verifyDeployment(dep, sets, pods)
<1>1. R # {} /\ \A p \in R : SetStatus(dep, pods, p, "container") = "MATCH"
  BY FinalStatusMatch DEF Kinds
<1>2. v.status = "MATCH" /\ v.observations = ObservedOn(R, dep.template, pods)
  BY DEF verifyDeployment, Observations, ObservedOn
<1>3. \A c \in DOMAIN expected : expected[c] \in Digests
  BY DEF TypeOK
<1>4. CASE DOMAIN expected = {}
  BY <1>2, <1>4 DEF ApplyExpectedDigests, Expected
<1>5. CASE DOMAIN expected # {}
  <2>1. ApplyExpectedDigests(v, expected).status = GatedStatus(v, expected)
    BY <1>5 DEF ApplyExpectedDigests, verifyDeployment
  <2> HIDE DEF v, R
  <2>2. GatedStatus(v, expected) = "MATCH"
          <=> \A p \in R : \A c \in DOMAIN expected :
                /\ c \in DOMAIN dep.template["container"]
                /\ c \in DOMAIN pods[p].reports["container"]
                /\ pods[p].reports["container"][c] = expected[c]
    BY <1>1, <1>2, <1>3, GatePasses DEF SetStatus
  <2>3. ApplyExpectedDigests(v, expected).status = "MATCH" <=> \A p \in R : Expected(p)
    BY <2>1, <2>2 DEF Expected
  <2> QED
    BY <2>3 DEF v, R
<1> QED
  BY <1>4, <1>5

\* The status of the whole computation is a match exactly if the values that
\* were read prove one.
LEMMA VerdictExact ==
  ASSUME TypeOK, dep \in DeploymentValues
  PROVE  ApplyExpectedDigests(verifyDeployment(dep, sets, pods), expected).status
             = "MATCH"
           <=> Proven
<1> DEFINE R == ReadyPods(dep, sets, pods)
           v == verifyDeployment(dep, sets, pods)
           g == ApplyExpectedDigests(v, expected)
<1>1. g.status = "MATCH" => FinalStatus(dep, sets, pods) = "MATCH"
  <2>1. v.status = FinalStatus(dep, sets, pods)
    BY DEF verifyDeployment
  <2>2. g.status \in {v.status, "PARTIAL", "UNKNOWN"}
    <3>1. CASE DOMAIN expected = {}
      BY <3>1 DEF ApplyExpectedDigests
    <3>2. CASE DOMAIN expected # {}
      <4>1. g.status = GatedStatus(v, expected)
        BY <3>2 DEF ApplyExpectedDigests, verifyDeployment
      <4> HIDE DEF g, v
      <4> QED
        BY <4>1 DEF GatedStatus
    <3> QED
      BY <3>1, <3>2
  <2> HIDE DEF g, v
  <2> QED
    BY <2>1, <2>2
<1>2. g.status = "MATCH"
        <=> /\ FinalStatus(dep, sets, pods) = "MATCH"
            /\ \A p \in R : Expected(p)
  BY <1>1, GateMatch
<1>3. ASSUME NEW p
      PROVE  (\A k \in Kinds : SetStatus(dep, pods, p, k) = "MATCH") <=> Identified(p)
  BY ContainerSetMatch DEF SetStatus, Identified
<1>4. FinalStatus(dep, sets, pods) = "MATCH"
        <=> /\ R # {}
            /\ NotReadyPods(dep, sets, pods) = {}
            /\ Cardinality(R) >= dep.replicas
            /\ \A p \in R : Identified(p)
  <2>1. IsFiniteSet(DOMAIN pods) /\ dep.replicas \in Nat
    BY BoundsAssumption DEF TypeOK, DeploymentValues
  <2> QED
    BY <1>3, <2>1, FinalStatusMatch, AfterReplicasMatch
<1>5. /\ NotReadyPods(dep, sets, pods) = {} => R = Counted
      /\ NotReadyPods(dep, sets, pods) = {} <=> \A p \in Counted : pods[p].ready
  BY CurrentIsCounted DEF NotReadyPods, ReadyPods
<1> HIDE DEF R, g, v
<1>6. g.status = "MATCH" <=> Proven
  BY <1>2, <1>4, <1>5 DEF Proven
<1> QED
  BY <1>6 DEF g, v

-----------------------------------------------------------------------------
(* The command *)

\* A verdict is told apart from the absence of one.
LEMMA VerdictsType ==
  ASSUME NEW d, NEW s, NEW l
  PROVE  /\ verifyDeployment(d, s, l) # NoResult
         /\ verifyDeployment(d, s, l).status \in Verdicts
BY FinalStatusType DEF verifyDeployment, NoResult, Verdicts, None

\* The gate keeps the status a verdict, and a result a result.
LEMMA GateType ==
  ASSUME NEW r, NEW e, r.status \in Verdicts,
         NEW d, NEW s, NEW l, r = verifyDeployment(d, s, l)
  PROVE  /\ ApplyExpectedDigests(r, e) # NoResult
         /\ ApplyExpectedDigests(r, e).status \in Verdicts
BY DEF ApplyExpectedDigests, GatedStatus, verifyDeployment, NoResult, Verdicts, None

\* The inductive invariant behind the properties: at each step the result is
\* the verdict on the values read, first ungated and then gated, the Deployment
\* has been read by then, and only the last step sets the exit code.
ResultIsVerdict ==
  /\ pc \in {"parse", "get", "listOwned", "listPods", "listSets", "judge"} =>
       res = NoResult
  /\ pc \in {"listOwned", "listPods", "listSets", "judge", "gate", "exit"} =>
       dep \in DeploymentValues
  /\ pc = "gate" => res = verifyDeployment(dep, sets, pods)
  /\ pc = "exit" =>
       res = ApplyExpectedDigests(verifyDeployment(dep, sets, pods), expected)
  /\ pc # "done" => exit = NoExit
  /\ Answered =>
       /\ dep \in DeploymentValues
       /\ res = ApplyExpectedDigests(verifyDeployment(dep, sets, pods), expected)
       /\ exit = exitForStatus(res.status)

IInv == TypeOK /\ ResultIsVerdict

\* The command starts with every variable of its type and without a result.
THEOREM InitInvariant == Init => IInv
BY AnswersAssumption, FS_EmptySet
   DEF Init, IInv, TypeOK, ResultIsVerdict, Empty, NotRead, Answered, NoExit,
       OperationalError

\* Every step of the command, and every answer of a read, keeps the invariant.
THEOREM NextInvariant == IInv /\ [Next]_vars => IInv'
<1> SUFFICES ASSUME IInv, [Next]_vars
             PROVE  IInv'
  OBVIOUS
<1> USE DEF IInv
<1>1. CASE ParseFlags
  <2>1. /\ DOMAIN expected' \subseteq Containers
        /\ expected' \in [DOMAIN expected' -> Digests]
    BY <1>1, ParsedDigests DEF ParseFlags, TypeOK
  <2> QED
    BY <1>1, <2>1 DEF ParseFlags, TypeOK, ResultIsVerdict, Answered
<1>2. CASE RejectFlags
  BY <1>2 DEF RejectFlags, Fail, TypeOK, ResultIsVerdict, Answered
<1>3. ASSUME NEW answer \in Deployments, GetDeployment(answer)
      PROVE  IInv'
  BY <1>3, AnswersAssumption DEF GetDeployment, TypeOK, ResultIsVerdict, Answered
<1>4. ASSUME NEW answer \in NamespaceSets, ListOwnedReplicaSets(answer)
      PROVE  IInv'
  <2>1. owned' \subseteq SetNames
    BY <1>4, AnswersAssumption DEF ListOwnedReplicaSets, GetReplicaSetsForDeployment
  <2> QED
    BY <1>4, <2>1 DEF ListOwnedReplicaSets, TypeOK, ResultIsVerdict, Answered
<1>5. ASSUME NEW answer \in NamespacePods, ListPods(answer)
      PROVE  IInv'
  <2>1. DOMAIN pods' \in SUBSET DOMAIN answer
    BY <1>5 DEF ListPods, GetDeploymentPods
  <2>2. IsFiniteSet(DOMAIN pods') /\ DOMAIN pods' \subseteq PodNames
    BY <2>1, FS_Subset, AnswersAssumption
  <2>3. pods' \in [DOMAIN pods' -> PodValues]
    BY <1>5, AnswersAssumption DEF ListPods, GetDeploymentPods
  <2> QED
    BY <1>5, <2>2, <2>3 DEF ListPods, TypeOK, ResultIsVerdict, Answered
<1>6. ASSUME NEW answer \in NamespaceSets, ListReplicaSets(answer)
      PROVE  IInv'
  <2>1. DOMAIN sets' \subseteq SetNames /\ sets' \in [DOMAIN sets' -> Revisions]
    BY <1>6, AnswersAssumption
       DEF ListReplicaSets, GetReplicaSetsForDeployment, SetValues
  <2> QED
    BY <1>6, <2>1 DEF ListReplicaSets, TypeOK, ResultIsVerdict, Answered
<1>7. CASE ReadFails
  BY <1>7 DEF ReadFails, Fail, TypeOK, ResultIsVerdict, Answered
<1>8. CASE Judge
  <2>1. res' = verifyDeployment(dep, sets, pods) /\ res'.status \in Verdicts
    BY <1>8, VerdictsType DEF Judge
  <2> QED
    BY <1>8, <2>1 DEF Judge, TypeOK, ResultIsVerdict, Answered
<1>9. CASE ApplyGate
  <2>1. res = verifyDeployment(dep, sets, pods)
    BY <1>9 DEF ApplyGate, ResultIsVerdict
  <2>2. /\ res' = ApplyExpectedDigests(verifyDeployment(dep, sets, pods), expected)
        /\ res'.status \in Verdicts
    BY <1>9, <2>1, VerdictsType, GateType DEF ApplyGate
  <2> QED
    BY <1>9, <2>2 DEF ApplyGate, TypeOK, ResultIsVerdict, Answered
<1>10. CASE Exit
  <2>1. /\ exit' = exitForStatus(res.status)
        /\ exit' \in {0, 2, 3}
    BY <1>10 DEF Exit, exitForStatus
  <2> QED
    BY <1>10, <2>1 DEF Exit, TypeOK, ResultIsVerdict, Answered
<1>11. CASE UNCHANGED vars
  BY <1>11 DEF vars, TypeOK, ResultIsVerdict, Answered
<1> QED
  BY <1>1, <1>2, <1>3, <1>4, <1>5, <1>6, <1>7, <1>8, <1>9, <1>10, <1>11 DEF Next

\* The invariant holds in every run.
THEOREM Invariant == Spec => []IInv
BY InitInvariant, NextInvariant, PTL DEF Spec

\* Every variable of the command keeps its type.
THEOREM TypeCorrect == Spec => []TypeOK
BY Invariant, PTL DEF IInv

\* Exit 0 means that the values read prove a match, whatever the cluster
\* answered and however many pods, containers and flags there are.
THEOREM MatchIsAlwaysProven == Spec => []MatchIsProven
<1>1. IInv => MatchIsProven
  <2> SUFFICES ASSUME IInv, exit = 0
               PROVE  Proven
    BY DEF MatchIsProven
  <2>1. Answered
    BY DEF IInv, ResultIsVerdict, Answered, NoExit, OperationalError
  <2>2. exitForStatus(res.status) = 0 /\ dep \in DeploymentValues
    BY <2>1 DEF IInv, ResultIsVerdict
  <2>3. res.status = "MATCH"
    BY <2>2 DEF exitForStatus
  <2> QED
    BY <2>1, <2>2, <2>3, VerdictExact DEF IInv, ResultIsVerdict
<1> QED
  BY <1>1, Invariant, PTL

\* A match that the values read prove is never withheld.
THEOREM MatchIsNeverWithheld == Spec => []MatchIsNotWithheld
<1>1. IInv => MatchIsNotWithheld
  <2> SUFFICES ASSUME IInv, Answered, Proven
               PROVE  exit = 0
    BY DEF MatchIsNotWithheld
  <2>1. res.status = "MATCH"
    BY VerdictExact DEF IInv, ResultIsVerdict
  <2> QED
    BY <2>1 DEF IInv, ResultIsVerdict, exitForStatus
<1> QED
  BY <1>1, Invariant, PTL

\* Every observation of a verdict is a record with the fields the gate reads.
LEMMA ObservationsAreRecords ==
  ASSUME NEW o \in Observations(dep, sets, pods)
  PROVE  \E k, p, c, e, v, s, r :
           o = [kind |-> k, pod |-> p, container |-> c, expected |-> e,
                value |-> v, status |-> s, reason |-> r]
<1>1. PICK pk \in ReadyPods(dep, sets, pods) \X Kinds :
        o \in ObservationsOf(pk[2], pk[1], dep.template[pk[2]],
                            pods[pk[1]].reports[pk[2]])
  BY DEF Observations
<1> QED
  BY <1>1 DEF ObservationsOf

\* What follows the verdict can only weaken it.
THEOREM GateNeverStrengthens == Spec => GateOnlyWeakens
<1> DEFINE Weakens ==
      res # NoResult =>
        /\ res'.status = "MATCH" => res.status = "MATCH"
        /\ res.findings \subseteq res'.findings
        /\ \A o \in res.observations : \E o2 \in res'.observations :
             SameEvidence(o, o2)
<1>1. ASSUME UNCHANGED res
      PROVE  Weakens
  BY <1>1 DEF SameEvidence
<1>2. ASSUME IInv, ApplyGate, UNCHANGED expected, DOMAIN expected # {}
      PROVE  Weakens
  <2>1. /\ res = verifyDeployment(dep, sets, pods)
        /\ res' = ApplyExpectedDigests(res, expected)
    BY <1>2 DEF ApplyGate, IInv, ResultIsVerdict
  <2>2. ASSUME NEW o \in res.observations, NEW r
        PROVE  SameEvidence(o, [o EXCEPT !.reason = r])
    <3>1. PICK k, p, c, e, v, s, rr :
            o = [kind |-> k, pod |-> p, container |-> c, expected |-> e,
                 value |-> v, status |-> s, reason |-> rr]
      BY <2>1, ObservationsAreRecords DEF verifyDeployment
    <3> QED
      BY <3>1 DEF SameEvidence
  <2>3. /\ res'.status = GatedStatus(res, expected)
        /\ res.findings \subseteq res'.findings
        /\ res'.observations =
             { [o EXCEPT !.reason = GatedReason(o, res, expected)]
               : o \in res.observations }
    BY <1>2, <2>1 DEF ApplyExpectedDigests, verifyDeployment
  <2>4. res'.status = "MATCH" => res.status = "MATCH"
    BY <2>3 DEF GatedStatus
  <2>5. ASSUME NEW o \in res.observations
        PROVE  \E o2 \in res'.observations : SameEvidence(o, o2)
    <3> DEFINE o3 == [o EXCEPT !.reason = GatedReason(o, res, expected)]
    <3>1. o3 \in res'.observations
      BY <2>3
    <3>2. SameEvidence(o, o3)
      BY <2>2
    <3> HIDE DEF o3
    <3> QED
      BY <3>1, <3>2
  <2> QED
    BY <2>3, <2>4, <2>5
<1>3. ASSUME IInv, [Next]_vars
      PROVE  UNCHANGED res \/ res = NoResult \/ (ApplyGate /\ DOMAIN expected # {})
  <2>1. CASE Judge
    BY <1>3, <2>1 DEF Judge, IInv, ResultIsVerdict
  <2>2. CASE ApplyGate
    BY <2>2 DEF ApplyGate, ApplyExpectedDigests
  <2> QED
    BY <1>3, <2>1, <2>2
       DEF Next, ParseFlags, RejectFlags, Fail, GetDeployment, ListOwnedReplicaSets,
           ListPods, ListReplicaSets, ReadFails, Exit, vars
<1>4. IInv /\ [Next]_vars => Weakens
  <2> SUFFICES ASSUME IInv, [Next]_vars
               PROVE  Weakens
    OBVIOUS
  <2>1. ApplyGate => UNCHANGED expected
    BY DEF ApplyGate
  <2>2. res = NoResult => Weakens
    OBVIOUS
  <2> HIDE DEF Weakens
  <2> QED
    BY <1>1, <1>2, <1>3, <2>1, <2>2
<1>5. IInv /\ [Next]_vars => [Weakens]_vars
  BY <1>4
<1> QED
  BY <1>5, Invariant, PTL DEF Spec, GateOnlyWeakens

-----------------------------------------------------------------------------
(* The abstract specification *)

\* What the evidence amounts to depends on four variables only.
LEMMA EvidenceFixed ==
  ASSUME UNCHANGED <<dep, sets, pods, expected>>
  PROVE  Proven' <=> Proven
BY DEF Proven, Counted, Identified, Expected

\* Before the last list there is neither evidence nor an answer.
LEMMA Gathering ==
  ASSUME pc \in {"parse", "get", "listOwned", "listPods", "listSets"}, exit = NoExit
  PROVE  EvidenceNow = "incomplete" /\ AnswerOf(exit) = "none"
BY DEF EvidenceNow, Answered, AnswerOf, NoExit

\* Once the evidence is complete, it stays what it is until the answer.
LEMMA Judging ==
  ASSUME pc \in {"judge", "gate", "exit"}, exit = NoExit
  PROVE  /\ EvidenceNow = (IF Proven THEN "proof" ELSE "no proof")
         /\ AnswerOf(exit) = "none"
BY DEF EvidenceNow, AnswerOf, NoExit

\* The last step announces what the evidence amounts to.
LEMMA ExitAnnounces ==
  ASSUME IInv, Exit
  PROVE  V!Announce
<1>1. pc = "exit" /\ exit = NoExit /\ exit' = exitForStatus(res.status)
  BY DEF Exit, IInv, ResultIsVerdict
<1>2. res.status = "MATCH" <=> Proven
  BY <1>1, VerdictExact DEF IInv, ResultIsVerdict
<1>3. Proven' <=> Proven
  BY EvidenceFixed DEF Exit
<1>4. /\ EvidenceNow = (IF Proven THEN "proof" ELSE "no proof")
      /\ AnswerOf(exit) = "none"
  BY <1>1, Judging
<1>5. exit' \in {0, 2, 3} /\ (exit' = 0 <=> res.status = "MATCH")
  BY <1>1 DEF exitForStatus
<1>6. Answered'
  BY <1>5 DEF Exit, Answered, OperationalError
<1>7. EvidenceNow' = (IF Proven' THEN "proof" ELSE "no proof")
  BY <1>6 DEF EvidenceNow
<1>8. AnswerOf(exit)' \in IF Proven THEN {"match"} ELSE {"drift", "unknown"}
  BY <1>2, <1>5 DEF AnswerOf, NoExit
<1> QED
  BY <1>3, <1>4, <1>7, <1>8 DEF V!Announce

\* A run that ends with an operational error has no complete evidence.
LEMMA FailGivesUp ==
  ASSUME pc \in {"parse", "get", "listOwned", "listPods", "listSets"}, exit = NoExit,
         Fail
  PROVE  V!GiveUp
<1>1. EvidenceNow' = "incomplete"
  BY DEF Fail, EvidenceNow, Answered
<1>2. AnswerOf(exit)' = "error"
  BY DEF Fail, AnswerOf, OperationalError, NoExit
<1> QED
  BY <1>1, <1>2, Gathering DEF V!GiveUp

\* The command keeps the promise of a verification: every step is one of the
\* abstract specification, or changes nothing the caller can see.
THEOREM CommandImplementsVerification == Spec => ImplementsVerification
<1>1. Init => V!Init
  BY Gathering DEF Init, V!Init
<1>2. ASSUME IInv, [Next]_vars
      PROVE  [V!Next]_<<EvidenceNow, AnswerOf(exit)>>
  <2> DEFINE Still == UNCHANGED <<EvidenceNow, AnswerOf(exit)>>
  <2>1. pc # "done" => exit = NoExit
    BY <1>2 DEF IInv, ResultIsVerdict
  <2>2. ASSUME pc \in {"parse", "get", "listOwned", "listPods"},
               pc' \in {"get", "listOwned", "listPods", "listSets"}, exit' = exit
        PROVE  Still
    <3>1. /\ EvidenceNow = "incomplete" /\ AnswerOf(exit) = "none"
          /\ EvidenceNow' = "incomplete" /\ AnswerOf(exit)' = "none"
      BY <2>1, <2>2, Gathering DEF EvidenceNow, Answered, AnswerOf
    <3> QED
      BY <3>1
  <2>3. ASSUME pc \in {"judge", "gate"}, pc' \in {"gate", "exit"}, exit' = exit,
               UNCHANGED <<dep, sets, pods, expected>>
        PROVE  Still
    <3>1. Proven' <=> Proven
      BY <2>3, EvidenceFixed
    <3>2. /\ EvidenceNow = (IF Proven THEN "proof" ELSE "no proof")
          /\ EvidenceNow' = (IF Proven' THEN "proof" ELSE "no proof")
      BY <2>3 DEF EvidenceNow
    <3> QED
      BY <2>3, <3>1, <3>2 DEF AnswerOf
  <2>4. CASE ParseFlags
    BY <2>2, <2>4 DEF ParseFlags
  <2>5. CASE RejectFlags
    BY <2>1, <2>5, FailGivesUp DEF RejectFlags, V!Next
  <2>6. CASE \E answer \in Deployments : GetDeployment(answer)
    BY <2>2, <2>6 DEF GetDeployment
  <2>7. CASE \E answer \in NamespaceSets : ListOwnedReplicaSets(answer)
    BY <2>2, <2>7 DEF ListOwnedReplicaSets
  <2>8. CASE \E answer \in NamespacePods : ListPods(answer)
    BY <2>2, <2>8 DEF ListPods
  <2>9. CASE \E answer \in NamespaceSets : ListReplicaSets(answer)
    <3>1. pc = "listSets" /\ pc' = "judge" /\ exit' = exit
      BY <2>9 DEF ListReplicaSets
    <3>2. EvidenceNow = "incomplete" /\ AnswerOf(exit) = "none"
      BY <2>1, <3>1, Gathering
    <3>3. EvidenceNow' \in {"proof", "no proof"} /\ AnswerOf(exit)' = AnswerOf(exit)
      BY <3>1 DEF EvidenceNow, AnswerOf
    <3> QED
      BY <3>2, <3>3 DEF V!Next, V!Gather
  <2>10. CASE ReadFails
    BY <2>1, <2>10, FailGivesUp DEF ReadFails, V!Next
  <2>11. CASE Judge
    BY <2>3, <2>11 DEF Judge
  <2>12. CASE ApplyGate
    BY <2>3, <2>12 DEF ApplyGate
  <2>13. CASE Exit
    BY <1>2, <2>13, ExitAnnounces DEF V!Next
  <2>14. CASE UNCHANGED vars
    <3>1. Proven' <=> Proven
      BY <2>14, EvidenceFixed DEF vars
    <3> QED
      BY <2>14, <3>1 DEF vars, EvidenceNow, Answered, AnswerOf
  <2> QED
    BY <1>2, <2>4, <2>5, <2>6, <2>7, <2>8, <2>9, <2>10, <2>11, <2>12, <2>13, <2>14
       DEF Next
<1>3. V!Spec <=> V!Init /\ [][V!Next]_<<EvidenceNow, AnswerOf(exit)>>
  BY DEF V!Spec
<1> QED
  BY <1>1, <1>2, <1>3, Invariant, PTL DEF Spec, ImplementsVerification

-----------------------------------------------------------------------------
(* The report of a verification *)

ContainersOf(d, l, p, k) == ContainerFindings(k, p, d.template[k], l[p].reports[k])
ObservedOf(d, l, p, k)   == ObservationsOf(k, p, d.template[k], l[p].reports[k])

\* The report is put together from the counted pods, one kind of container at a time.
LEMMA ReportByPod ==
  ASSUME NEW d, NEW s, NEW l, NEW p \in ReadyPods(d, s, l), NEW k \in Kinds
  PROVE  /\ ObservedOf(d, l, p, k) \subseteq Observations(d, s, l)
         /\ ContainersOf(d, l, p, k) \subseteq Findings(d, s, l)
<1>1. <<p, k>> \in ReadyPods(d, s, l) \X Kinds /\ <<p, k>>[1] = p /\ <<p, k>>[2] = k
  OBVIOUS
<1>2. ObservedOf(d, l, p, k) \subseteq Observations(d, s, l)
  BY <1>1 DEF ObservedOf, Observations
<1>3. ContainersOf(d, l, p, k) \subseteq
        UNION { ContainerFindings(pk[2], pk[1], d.template[pk[2]], l[pk[1]].reports[pk[2]])
                : pk \in ReadyPods(d, s, l) \X Kinds }
  BY <1>1 DEF ContainersOf
<1> QED
  BY <1>2, <1>3 DEF Findings

\* And of nothing else.
LEMMA ObservedByPod ==
  ASSUME NEW d, NEW s, NEW l, NEW o \in Observations(d, s, l)
  PROVE  \E p \in ReadyPods(d, s, l), k \in Kinds : o \in ObservedOf(d, l, p, k)
<1>1. PICK pk \in ReadyPods(d, s, l) \X Kinds :
        o \in ObservationsOf(pk[2], pk[1], d.template[pk[2]], l[pk[1]].reports[pk[2]])
  BY DEF Observations
<1> QED
  BY <1>1 DEF ObservedOf

\* The gate takes nothing back: findings stay, observations change their reason only.
LEMMA GateKeepsReport ==
  ASSUME NEW d, NEW s, NEW l, NEW e
  PROVE  LET v == verifyDeployment(d, s, l)
             g == ApplyExpectedDigests(v, e)
         IN  /\ v.findings \subseteq g.findings
             /\ g.summary = v.summary
             /\ \A o \in v.observations : \E o2 \in g.observations : SameEvidence(o, o2)
             /\ \A o2 \in g.observations : \E o \in v.observations : SameEvidence(o, o2)
<1> DEFINE v == verifyDeployment(d, s, l)
           g == ApplyExpectedDigests(v, e)
<1>1. CASE DOMAIN e = {}
  BY <1>1 DEF ApplyExpectedDigests, SameEvidence
<1>2. CASE DOMAIN e # {}
  <2> DEFINE Gate(o) == [o EXCEPT !.reason = GatedReason(o, v, e)]
  <2>1. /\ v.findings \subseteq g.findings
        /\ g.summary = v.summary
        /\ g.observations = {Gate(o) : o \in v.observations}
    BY <1>2 DEF ApplyExpectedDigests, verifyDeployment
  <2>2. ASSUME NEW o \in v.observations
        PROVE  SameEvidence(o, Gate(o))
    <3>1. PICK pk \in ReadyPods(d, s, l) \X Kinds :
            o \in ObservationsOf(pk[2], pk[1], d.template[pk[2]],
                                l[pk[1]].reports[pk[2]])
      BY DEF verifyDeployment, Observations
    <3>2. PICK ki, po, c, ex, va, st, rr :
            o = [kind |-> ki, pod |-> po, container |-> c, expected |-> ex,
                 value |-> va, status |-> st, reason |-> rr]
      BY <3>1 DEF ObservationsOf
    <3> QED
      BY <3>2 DEF SameEvidence
  <2> HIDE DEF v, g, Gate
  <2>3. \A o \in v.observations : \E o2 \in g.observations : SameEvidence(o, o2)
    BY <2>1, <2>2
  <2>4. \A o2 \in g.observations : \E o \in v.observations : SameEvidence(o, o2)
    BY <2>1, <2>2
  <2> QED
    BY <2>1, <2>3, <2>4 DEF v, g
<1> QED
  BY <1>1, <1>2

-----------------------------------------------------------------------------
(* The invariant *)

\* Past the parser the expected digests are those of the flags, and a run that fails
\* has no result.
FlagsParsed ==
  /\ pc \in {"get", "listOwned", "listPods", "listSets", "judge", "gate", "exit"}
       \/ Answered => Accepted(flags) /\ expected = ParseExpectedDigests(flags)
  /\ pc = "done" => Answered \/ res = NoResult

\* Every step keeps it.
LEMMA FlagsStayParsed == IInv /\ FlagsParsed /\ [Next]_vars => FlagsParsed'
<1> SUFFICES ASSUME IInv, FlagsParsed, [Next]_vars
             PROVE  FlagsParsed'
  OBVIOUS
<1>1. CASE ParseFlags
  BY <1>1 DEF ParseFlags, FlagsParsed, Answered, Accepted
<1>2. CASE RejectFlags \/ ReadFails
  <2>1. res = NoResult /\ res' = res /\ pc' = "done" /\ ~Answered'
    BY <1>2 DEF RejectFlags, ReadFails, Fail, Answered, IInv, ResultIsVerdict
  <2> QED
    BY <2>1 DEF FlagsParsed
<1>3. CASE Exit
  <2>1. Answered'
    BY <1>3 DEF Exit, exitForStatus, Answered, OperationalError
  <2> QED
    BY <1>3, <2>1 DEF Exit, FlagsParsed, Accepted
<1>4. ASSUME pc \notin {"parse", "done"}, pc' \notin {"parse", "done"},
             UNCHANGED <<flags, expected>>
      PROVE  FlagsParsed'
  BY <1>4 DEF FlagsParsed, Answered, Accepted, IInv, TypeOK
<1>5. CASE Judge \/ ApplyGate
  BY <1>4, <1>5 DEF Judge, ApplyGate
<1>6. CASE \/ \E answer \in Deployments : GetDeployment(answer)
           \/ \E answer \in NamespaceSets : ListOwnedReplicaSets(answer)
           \/ \E answer \in NamespacePods : ListPods(answer)
           \/ \E answer \in NamespaceSets : ListReplicaSets(answer)
  BY <1>4, <1>6 DEF GetDeployment, ListOwnedReplicaSets, ListPods, ListReplicaSets
<1>7. CASE UNCHANGED vars
  BY <1>7 DEF vars, FlagsParsed, Answered, Accepted
<1> QED
  BY <1>1, <1>2, <1>3, <1>5, <1>6, <1>7 DEF Next

\* The invariant holds in every run.
LEMMA ReportInvariant == Spec => [](IInv /\ FlagsParsed)
<1>1. Init => FlagsParsed
  BY DEF Init, FlagsParsed, Answered
<1> QED
  BY <1>1, FlagsStayParsed, Invariant, PTL DEF Spec

\* What is known of the result once the command has answered.
LEMMA AnsweredResult ==
  ASSUME IInv, Answered
  PROVE  /\ dep \in DeploymentValues
         /\ res = ApplyExpectedDigests(verifyDeployment(dep, sets, pods), expected)
         /\ exit = exitForStatus(res.status)
         /\ res.status \in Verdicts
<1>1. /\ dep \in DeploymentValues
      /\ res = ApplyExpectedDigests(verifyDeployment(dep, sets, pods), expected)
      /\ exit = exitForStatus(res.status)
  BY DEF IInv, ResultIsVerdict
<1> QED
  BY <1>1, VerdictsType, GateType

-----------------------------------------------------------------------------
(* The flags *)

\* The last flag for a container is the one whose digest is looked for.
LEMMA LastFlagCounts ==
  ASSUME NEW f \in Seq(FlagValues), NEW i \in DOMAIN f,
         \A j \in DOMAIN f : j > i => f[j].container # f[i].container
  PROVE  /\ f[i].container \in DOMAIN ParseExpectedDigests(f)
         /\ ParseExpectedDigests(f)[f[i].container] = f[i].digest
<1> DEFINE c == f[i].container
           IsLast(j) == /\ f[j].container = c
                        /\ \A m \in DOMAIN f : f[m].container = c => m <= j
<1>1. DOMAIN f \subseteq Nat
  OBVIOUS
<1>2. IsLast(i)
  BY <1>1
<1>3. \A j \in DOMAIN f : IsLast(j) => j = i
  <2> SUFFICES ASSUME NEW j \in DOMAIN f, IsLast(j)
               PROVE  j = i
    OBVIOUS
  <2>1. i <= j /\ j <= i
    BY <1>2
  <2> QED
    BY <1>1, <2>1
<1>4. LastFor(f, c) = CHOOSE j \in DOMAIN f : IsLast(j)
  BY DEF LastFor
<1> HIDE DEF IsLast
<1>5. LastFor(f, c) = i
  BY <1>2, <1>3, <1>4
<1> QED
  BY <1>5 DEF ParseExpectedDigests

\* A match means that the last flag for each container was observed on every
\* counted pod.
THEOREM FlagsHonoured == Spec => []EveryFlagHonoured
<1>1. IInv /\ FlagsParsed => EveryFlagHonoured
  <2> SUFFICES ASSUME IInv, FlagsParsed, exit = 0, NEW i \in DOMAIN flags,
                      \A j \in DOMAIN flags :
                        j > i => flags[j].container # flags[i].container,
                      NEW p \in Counted
               PROVE  /\ flags[i].container \in DOMAIN pods[p].reports["container"]
                      /\ pods[p].reports["container"][flags[i].container]
                           = flags[i].digest
    BY DEF EveryFlagHonoured
  <2>1. Answered
    BY DEF IInv, ResultIsVerdict, Answered, NoExit, OperationalError
  <2>2. Proven
    <3>1. res.status = "MATCH"
      BY <2>1, AnsweredResult DEF exitForStatus
    <3> QED
      BY <2>1, <3>1, AnsweredResult, VerdictExact DEF IInv
  <2>3. expected = ParseExpectedDigests(flags) /\ flags \in Seq(FlagValues)
    BY <2>1 DEF FlagsParsed, IInv, TypeOK
  <2>4. flags[i].container \in DOMAIN expected
        /\ expected[flags[i].container] = flags[i].digest
    BY <2>3, LastFlagCounts
  <2> QED
    BY <2>2, <2>4 DEF Proven, Expected
<1> QED
  BY <1>1, ReportInvariant, PTL

-----------------------------------------------------------------------------
(* Drift *)

\* Without expected digests a mismatch in a counted pod is exit 2.
THEOREM DriftIsReported == Spec => []MismatchIsDrift
<1>1. IInv => MismatchIsDrift
  <2> SUFFICES ASSUME IInv, Answered, DOMAIN expected = {},
                      NEW o \in res.observations, o.status = "MISMATCH"
               PROVE  exit = 2
    BY DEF MismatchIsDrift
  <2>1. res = verifyDeployment(dep, sets, pods) /\ exit = exitForStatus(res.status)
    BY AnsweredResult DEF ApplyExpectedDigests
  <2>2. PICK p \in ReadyPods(dep, sets, pods), k \in Kinds : o \in ObservedOf(dep, pods, p, k)
    BY <2>1, ObservedByPod DEF verifyDeployment
  <2>3. \E c \in DOMAIN dep.template[k] :
          /\ c \in DOMAIN pods[p].reports[k]
          /\ ObservationStatus(dep.template[k][c], pods[p].reports[k][c]) = "MISMATCH"
    BY <2>2 DEF ObservedOf, ObservationsOf, Observed
  <2>4. SetStatus(dep, pods, p, k) = "PARTIAL"
    BY <2>3, DivergentSet DEF SetStatus
  <2>5. res.status = "PARTIAL"
    BY <2>1, <2>4, PartialSet DEF verifyDeployment
  <2> QED
    BY <2>1, <2>5 DEF exitForStatus
<1> QED
  BY <1>1, Invariant, PTL

-----------------------------------------------------------------------------
(* Every pod *)

\* A verification names each live pod or speaks of each of its declared containers.
LEMMA PodAccountedFor ==
  ASSUME NEW d, NEW s, NEW l, NEW p \in DOMAIN l, ~l[p].terminating
  PROVE  \/ \E f \in Findings(d, s, l) :
              f.pod = p /\ f.reason \in {"OLD_REVISION_IGNORED", "POD_NOT_READY"}
         \/ \A k \in Kinds : \A c \in DOMAIN d.template[k] :
              \/ \E o \in Observations(d, s, l) :
                   o.kind = k /\ o.pod = p /\ o.container = c
              \/ \E f \in Findings(d, s, l) :
                   f.pod = p /\ f.container = c /\ f.reason = MissingReason(k)
<1>1. CASE p \in StalePods(d, s, l)
  <2>1. Finding("OLD_REVISION_IGNORED", "STALE", p, None) \in Findings(d, s, l)
    BY <1>1 DEF Findings
  <2> QED
    BY <2>1 DEF Finding
<1>2. CASE p \in NotReadyPods(d, s, l)
  <2>1. Finding("POD_NOT_READY", "PARTIAL", p, None) \in Findings(d, s, l)
    BY <1>2 DEF Findings
  <2> QED
    BY <2>1 DEF Finding
<1>3. CASE p \in ReadyPods(d, s, l)
  <2> SUFFICES ASSUME NEW k \in Kinds, NEW c \in DOMAIN d.template[k]
               PROVE  \/ \E o \in Observations(d, s, l) :
                           o.kind = k /\ o.pod = p /\ o.container = c
                      \/ \E f \in Findings(d, s, l) :
                           f.pod = p /\ f.container = c /\ f.reason = MissingReason(k)
    OBVIOUS
  <2>1. CASE c \in DOMAIN l[p].reports[k]
    BY <1>3, <2>1, ReportByPod, ObservationMade DEF ObservedOf
  <2>2. CASE c \notin DOMAIN l[p].reports[k]
    <3>1. Finding(MissingReason(k), "UNKNOWN", p, c) \in ContainersOf(d, l, p, k)
      BY <2>2 DEF ContainersOf, ContainerFindings, MissingFindings
    <3>2. Finding(MissingReason(k), "UNKNOWN", p, c) \in Findings(d, s, l)
      BY <1>3, <3>1, ReportByPod
    <3> QED
      BY <3>2 DEF Finding
  <2> QED
    BY <2>1, <2>2
<1> QED
  BY <1>1, <1>2, <1>3 DEF StalePods, NotReadyPods, ReadyPods, CurrentPods, LivePods

\* Every live pod that was listed is accounted for in the result.
THEOREM NoPodIsLost == Spec => []EveryPodAccountedFor
<1>1. IInv /\ FlagsParsed => EveryPodAccountedFor
  <2> SUFFICES ASSUME IInv, FlagsParsed, Judged, NEW p \in DOMAIN pods,
                      ~pods[p].terminating
               PROVE  \/ \E f \in res.findings :
                           f.pod = p /\ f.reason \in {"OLD_REVISION_IGNORED", "POD_NOT_READY"}
                      \/ \A k \in Kinds : \A c \in DOMAIN dep.template[k] :
                           \/ \E o \in res.observations :
                                o.kind = k /\ o.pod = p /\ o.container = c
                           \/ \E f \in res.findings :
                                f.pod = p /\ f.container = c /\ f.reason = MissingReason(k)
    BY DEF EveryPodAccountedFor
  <2> DEFINE v == verifyDeployment(dep, sets, pods)
  <2>1. res = v \/ res = ApplyExpectedDigests(v, expected)
    BY DEF Judged, FlagsParsed, IInv, ResultIsVerdict
  <2>2. /\ Findings(dep, sets, pods) \subseteq res.findings
        /\ \A o \in Observations(dep, sets, pods) :
             \E o2 \in res.observations : SameEvidence(o, o2)
    <3>1. v.findings = Findings(dep, sets, pods) /\ v.observations = Observations(dep, sets, pods)
      BY DEF verifyDeployment
    <3>2. \A o : SameEvidence(o, o)
      BY DEF SameEvidence
    <3> HIDE DEF v
    <3>3. CASE res = v
      BY <3>1, <3>2, <3>3
    <3>4. CASE res = ApplyExpectedDigests(v, expected)
      BY <3>1, <3>4, GateKeepsReport DEF v
    <3> QED
      BY <2>1, <3>3, <3>4
  <2>3. CASE \E f \in Findings(dep, sets, pods) :
               f.pod = p /\ f.reason \in {"OLD_REVISION_IGNORED", "POD_NOT_READY"}
    BY <2>2, <2>3
  <2>4. CASE \A k \in Kinds : \A c \in DOMAIN dep.template[k] :
               \/ \E o \in Observations(dep, sets, pods) :
                    o.kind = k /\ o.pod = p /\ o.container = c
               \/ \E f \in Findings(dep, sets, pods) :
                    f.pod = p /\ f.container = c /\ f.reason = MissingReason(k)
    <3> SUFFICES ASSUME NEW k \in Kinds, NEW c \in DOMAIN dep.template[k]
                 PROVE  \/ \E o \in res.observations :
                             o.kind = k /\ o.pod = p /\ o.container = c
                        \/ \E f \in res.findings :
                             f.pod = p /\ f.container = c /\ f.reason = MissingReason(k)
      OBVIOUS
    <3>1. CASE \E o \in Observations(dep, sets, pods) :
                 o.kind = k /\ o.pod = p /\ o.container = c
      BY <2>2, <3>1 DEF SameEvidence
    <3>2. CASE \E f \in Findings(dep, sets, pods) :
                 f.pod = p /\ f.container = c /\ f.reason = MissingReason(k)
      BY <2>2, <3>2
    <3> QED
      BY <2>4, <3>1, <3>2
  <2> QED
    BY <2>3, <2>4, PodAccountedFor
<1> QED
  BY <1>1, ReportInvariant, PTL
-----------------------------------------------------------------------------
(* The verdict explained *)

\* A set of containers is PARTIAL because one of them diverges, and UNKNOWN because
\* one is not reported or has no immutable identity on one of the two sides.
LEMMA SetExplained ==
  ASSUME NEW declared, NEW reported
  PROVE  /\ ContainerSetStatus(declared, reported) = "PARTIAL" =>
              \E c \in DOMAIN declared :
                /\ c \in DOMAIN reported
                /\ ObservationStatus(declared[c], reported[c]) = "MISMATCH"
         /\ ContainerSetStatus(declared, reported) = "UNKNOWN" =>
              \E c \in DOMAIN declared :
                c \in DOMAIN reported =>
                  NoDigest \in {DigestOf(declared[c]), DigestOf(reported[c])}
<1> DEFINE stat == {Contribution(declared, reported, c) : c \in DOMAIN declared}
<1>1. ContainerSetStatus(declared, reported) = CombineAll(stat)
  BY DEF ContainerSetStatus
<1>2. /\ CombineAll(stat) = "PARTIAL" => "PARTIAL" \in stat
      /\ CombineAll(stat) = "UNKNOWN" => "UNKNOWN" \in stat
  BY DEF CombineAll
<1>3. ASSUME NEW c \in DOMAIN declared, Contribution(declared, reported, c) = "PARTIAL"
      PROVE  /\ c \in DOMAIN reported
             /\ ObservationStatus(declared[c], reported[c]) = "MISMATCH"
  BY <1>3, ObservationType DEF Contribution
<1>4. ASSUME NEW c \in DOMAIN declared, Contribution(declared, reported, c) = "UNKNOWN",
             c \in DOMAIN reported
      PROVE  NoDigest \in {DigestOf(declared[c]), DigestOf(reported[c])}
  <2>1. ObservationStatus(declared[c], reported[c]) = "UNKNOWN"
    BY <1>4, ObservationType DEF Contribution
  <2>2. reported[c] = NoImageID \/ DigestOf(declared[c]) = NoDigest
    BY <2>1 DEF ObservationStatus
  <2>3. DigestOf(NoImageID) = NoDigest
    BY DigestsAssumption DEF DigestOf
  <2> QED
    BY <2>2, <2>3
<1> QED
  BY <1>1, <1>2, <1>3, <1>4

\* PARTIAL rests on a finding of that weight.
LEMMA PartialExplained ==
  ASSUME NEW d, NEW s, NEW l, FinalStatus(d, s, l) = "PARTIAL"
  PROVE  \E f \in Findings(d, s, l) : f.status \in {"MISMATCH", "PARTIAL"}
<1> DEFINE R    == ReadyPods(d, s, l)
           stat == {SetStatus(d, l, pk[1], pk[2]) : pk \in R \X Kinds}
<1>1. "PARTIAL" \in {AfterReplicas(d, s, l)} \cup stat
  BY DEF FinalStatus, AfterContainers, CombineAll
<1>2. CASE AfterReplicas(d, s, l) = "PARTIAL"
  <2>1. CASE Incomplete(d, s, l)
    <3>1. Finding("CURRENT_REVISION_INCOMPLETE", "PARTIAL", None, None) \in Findings(d, s, l)
      BY <2>1 DEF Findings
    <3> QED
      BY <3>1 DEF Finding
  <2>2. CASE ~Incomplete(d, s, l)
    <3>1. NotReadyPods(d, s, l) # {}
      BY <1>2, <2>2 DEF AfterReplicas, AfterRevision, AfterPods
    <3>2. PICK p \in NotReadyPods(d, s, l) : TRUE
      BY <3>1
    <3>3. Finding("POD_NOT_READY", "PARTIAL", p, None) \in Findings(d, s, l)
      BY <3>2 DEF Findings
    <3> QED
      BY <3>3 DEF Finding
  <2> QED
    BY <2>1, <2>2
<1>3. CASE "PARTIAL" \in stat
  <2>1. PICK pk \in R \X Kinds : SetStatus(d, l, pk[1], pk[2]) = "PARTIAL"
    BY <1>3
  <2>2. PICK p \in R, k \in Kinds : SetStatus(d, l, p, k) = "PARTIAL"
    BY <2>1
  <2>3. PICK c \in DOMAIN d.template[k] :
          /\ c \in DOMAIN l[p].reports[k]
          /\ ObservationStatus(d.template[k][c], l[p].reports[k][c]) = "MISMATCH"
    BY <2>2, SetExplained DEF SetStatus
  <2>4. Finding("DIGEST_MISMATCH", "MISMATCH", p, c) \in ContainersOf(d, l, p, k)
    BY <2>3 DEF ContainersOf, ContainerFindings, DivergenceFindings, Observed
  <2>5. Finding("DIGEST_MISMATCH", "MISMATCH", p, c) \in Findings(d, s, l)
    BY <2>4, ReportByPod
  <2> QED
    BY <2>5 DEF Finding
<1> QED
  BY <1>1, <1>2, <1>3

\* UNKNOWN rests on evidence that is missing.
LEMMA UnknownExplained ==
  ASSUME NEW d, NEW s, NEW l, FinalStatus(d, s, l) = "UNKNOWN"
  PROVE  \/ ReadyPods(d, s, l) = {}
         \/ \E f \in Findings(d, s, l) : f.reason \in {MissingReason(k) : k \in Kinds}
         \/ \E o \in Observations(d, s, l) :
              NoDigest \in {DigestOf(o.expected), DigestOf(o.value)}
<1> DEFINE R    == ReadyPods(d, s, l)
           stat == {SetStatus(d, l, pk[1], pk[2]) : pk \in R \X Kinds}
<1> SUFFICES ASSUME R # {}
             PROVE  \/ \E f \in Findings(d, s, l) :
                         f.reason \in {MissingReason(k) : k \in Kinds}
                    \/ \E o \in Observations(d, s, l) :
                         NoDigest \in {DigestOf(o.expected), DigestOf(o.value)}
  OBVIOUS
<1>1. "UNKNOWN" \in {AfterReplicas(d, s, l)} \cup stat
  BY DEF FinalStatus, AfterContainers, CombineAll
<1>2. AfterReplicas(d, s, l) # "UNKNOWN"
  <2>1. DOMAIN s = {} \/ currentReplicaSets(d, s) # {}
    BY DEF ReadyPods, CurrentPods, StalePods
  <2> QED
    BY <2>1 DEF AfterReplicas, AfterRevision, AfterPods
<1>3. PICK pk \in R \X Kinds : SetStatus(d, l, pk[1], pk[2]) = "UNKNOWN"
  BY <1>1, <1>2
<1>4. PICK p \in R, k \in Kinds : SetStatus(d, l, p, k) = "UNKNOWN"
  BY <1>3
<1>5. PICK c \in DOMAIN d.template[k] :
        c \in DOMAIN l[p].reports[k] =>
          NoDigest \in {DigestOf(d.template[k][c]), DigestOf(l[p].reports[k][c])}
  BY <1>4, SetExplained DEF SetStatus
<1>6. CASE c \in DOMAIN l[p].reports[k]
  <2>1. PICK o \in ObservedOf(d, l, p, k) :
          o.expected = d.template[k][c] /\ o.value = l[p].reports[k][c]
    BY <1>6, ObservationMade DEF ObservedOf
  <2> QED
    BY <1>5, <1>6, <2>1, ReportByPod
<1>7. CASE c \notin DOMAIN l[p].reports[k]
  <2>1. Finding(MissingReason(k), "UNKNOWN", p, c) \in ContainersOf(d, l, p, k)
    BY <1>7 DEF ContainersOf, ContainerFindings, MissingFindings
  <2>2. Finding(MissingReason(k), "UNKNOWN", p, c) \in Findings(d, s, l)
    BY <2>1, ReportByPod
  <2> QED
    BY <2>2 DEF Finding
<1> QED
  BY <1>6, <1>7

\* What the gate adds to the status, it adds to the report.
LEMMA GateExplained ==
  ASSUME NEW d, NEW s, NEW l, NEW e
  PROVE  LET v == verifyDeployment(d, s, l)
             g == ApplyExpectedDigests(v, e)
         IN  /\ g.status = "PARTIAL" =>
                  v.status = "PARTIAL" \/ \E f \in g.findings : f.status = "MISMATCH"
             /\ g.status = "UNKNOWN" =>
                  \/ v.status = "UNKNOWN"
                  \/ \E o \in v.observations : DigestOf(o.value) = NoDigest
<1> DEFINE v == verifyDeployment(d, s, l)
           g == ApplyExpectedDigests(v, e)
<1>1. CASE DOMAIN e = {}
  BY <1>1 DEF ApplyExpectedDigests
<1>2. CASE DOMAIN e # {}
  <2>1. /\ g.status = GatedStatus(v, e)
        /\ g.findings = v.findings
             \cup { Finding("EXPECTED_DIGEST_MISMATCH", "MISMATCH", o.pod, o.container)
                    : o \in Contradicted(v, e) }
             \cup { Finding("EXPECTED_CONTAINER_MISSING", "MISMATCH", None, c)
                    : c \in NeverSeen(v, e) }
    BY <1>2 DEF ApplyExpectedDigests, verifyDeployment
  <2>2. Gated(v, e) \subseteq v.observations
    BY DEF Gated
  <2> HIDE DEF v, g
  <2>3. CASE Contradicted(v, e) # {} \/ NeverSeen(v, e) # {}
    <3>1. \A p, c : /\ Finding("EXPECTED_DIGEST_MISMATCH", "MISMATCH", p, c).status = "MISMATCH"
                    /\ Finding("EXPECTED_CONTAINER_MISSING", "MISMATCH", p, c).status = "MISMATCH"
      BY DEF Finding
    <3>2. \E f \in g.findings : f.status = "MISMATCH"
      BY <2>1, <2>3, <3>1
    <3>3. g.status = "PARTIAL"
      BY <2>1, <2>3 DEF GatedStatus
    <3> QED
      BY <3>2, <3>3 DEF v, g
  <2>4. CASE Contradicted(v, e) = {} /\ NeverSeen(v, e) = {} /\ Unestablished(v, e) # {}
    <3>1. g.status = "UNKNOWN"
      BY <2>1, <2>4 DEF GatedStatus
    <3>2. \E o \in v.observations : DigestOf(o.value) = NoDigest
      BY <2>2, <2>4 DEF Unestablished, Established
    <3> QED
      BY <3>1, <3>2 DEF v, g
  <2>5. CASE Contradicted(v, e) = {} /\ NeverSeen(v, e) = {} /\ Unestablished(v, e) = {}
    <3>1. g.status = v.status
      BY <2>1, <2>5 DEF GatedStatus
    <3> QED
      BY <3>1 DEF v, g
  <2> QED
    BY <2>3, <2>4, <2>5
<1> QED
  BY <1>1, <1>2

\* A verdict other than a match can be explained from the result itself.
THEOREM VerdictExplained == Spec => []VerdictIsExplained
<1>1. IInv => VerdictIsExplained
  <2> SUFFICES ASSUME IInv, exit \in {2, 3}
               PROVE  VerdictIsExplained
    BY DEF VerdictIsExplained
  <2> DEFINE v == verifyDeployment(dep, sets, pods)
  <2>1. Answered
    BY DEF IInv, ResultIsVerdict, Answered, NoExit, OperationalError
  <2>2. /\ res = ApplyExpectedDigests(v, expected)
        /\ exit = exitForStatus(res.status) /\ res.status \in Verdicts
    BY <2>1, AnsweredResult
  <2>3. /\ v.status = FinalStatus(dep, sets, pods)
        /\ v.findings = Findings(dep, sets, pods)
        /\ v.observations = Observations(dep, sets, pods)
        /\ v.summary.observed = Cardinality(ReadyPods(dep, sets, pods))
    BY DEF verifyDeployment, Summary
  <2>4. /\ v.findings \subseteq res.findings
        /\ res.summary = v.summary
        /\ \A o \in v.observations : \E o2 \in res.observations : SameEvidence(o, o2)
    BY <2>2, GateKeepsReport
  <2>5. /\ res.status = "PARTIAL" =>
             v.status = "PARTIAL" \/ \E f \in res.findings : f.status = "MISMATCH"
        /\ res.status = "UNKNOWN" =>
             v.status = "UNKNOWN" \/ \E o \in v.observations : DigestOf(o.value) = NoDigest
    BY <2>2, GateExplained
  <2> HIDE DEF v
  <2>6. exit = 2 => \E f \in res.findings : f.status \in {"MISMATCH", "PARTIAL"}
    <3>1. exit = 2 => res.status = "PARTIAL"
      BY <2>2 DEF exitForStatus, Verdicts
    <3> QED
      BY <2>3, <2>4, <2>5, <3>1, PartialExplained
  <2>7. ASSUME exit = 3
        PROVE  \/ res.summary.observed = 0
               \/ \E f \in res.findings : f.reason \in {MissingReason(k) : k \in Kinds}
               \/ \E o \in res.observations :
                    NoDigest \in {DigestOf(o.expected), DigestOf(o.value)}
    <3>1. res.status = "UNKNOWN"
      BY <2>2, <2>7 DEF exitForStatus, Verdicts
    <3>2. ASSUME NEW o \in v.observations,
                 NoDigest \in {DigestOf(o.expected), DigestOf(o.value)}
          PROVE  \E o2 \in res.observations :
                   NoDigest \in {DigestOf(o2.expected), DigestOf(o2.value)}
      <4>1. PICK o2 \in res.observations : SameEvidence(o, o2)
        BY <2>4, <3>2
      <4> QED
        BY <3>2, <4>1 DEF SameEvidence
    <3>3. CASE v.status = "UNKNOWN"
      <4>1. CASE ReadyPods(dep, sets, pods) = {}
        <5>1. Cardinality({}) = 0
          BY FS_EmptySet
        <5>2. res.summary.observed = 0
          BY <2>3, <2>4, <4>1, <5>1
        <5> QED
          BY <5>2
      <4>2. CASE \E f \in v.findings : f.reason \in {MissingReason(k) : k \in Kinds}
        BY <2>4, <4>2
      <4>3. CASE \E o \in v.observations :
                   NoDigest \in {DigestOf(o.expected), DigestOf(o.value)}
        BY <3>2, <4>3
      <4>4. \/ ReadyPods(dep, sets, pods) = {}
            \/ \E f \in Findings(dep, sets, pods) :
                 f.reason \in {MissingReason(k) : k \in Kinds}
            \/ \E o \in Observations(dep, sets, pods) :
                 NoDigest \in {DigestOf(o.expected), DigestOf(o.value)}
        BY <2>3, <3>3, UnknownExplained
      <4>5. \/ ReadyPods(dep, sets, pods) = {}
            \/ \E f \in v.findings : f.reason \in {MissingReason(k) : k \in Kinds}
            \/ \E o \in v.observations :
                 NoDigest \in {DigestOf(o.expected), DigestOf(o.value)}
        BY <2>3, <4>4, Zenon
      <4> QED
        BY <4>1, <4>2, <4>3, <4>5
    <3>4. CASE \E o \in v.observations : DigestOf(o.value) = NoDigest
      BY <3>2, <3>4
    <3> QED
      BY <2>5, <3>1, <3>3, <3>4
  <2> QED
    BY <2>6, <2>7 DEF VerdictIsExplained
<1> QED
  BY <1>1, Invariant, PTL
=============================================================================
