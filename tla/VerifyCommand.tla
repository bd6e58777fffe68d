--------------------------- MODULE VerifyCommand ---------------------------
(***************************************************************************)
(* One run of "stateproof verify deployment <name>": the flags are parsed, *)
(* then the command makes four reads, one after the other and with no      *)
(* common resourceVersion:                                                 *)
(*                                                                         *)
(*    get the Deployment          (cmd/verify.go:64)                       *)
(*    list the ReplicaSets        (internal/k8s/client.go:66)              *)
(*    list the pods               (internal/k8s/client.go:74)              *)
(*    list the ReplicaSets again  (cmd/verify.go:72)                       *)
(*                                                                         *)
(* and judges what they returned.  Here each read returns any value of the *)
(* constant sets below, or fails: nothing ties one answer to the next.     *)
(* Module RolloutRace draws the answers from a cluster that keeps moving.  *)
(***************************************************************************)
EXTENDS DeploymentTruth, Gate, ClusterReads

CONSTANTS
  Target,         \* the Deployment named on the command line
  Owners,         \* names of the Deployments of the namespace
  FlagLists,      \* the --expected-digest lists the command may be given
  Deployments,    \* the answers of the Get
  NamespaceSets,  \* the answers of a ReplicaSet list, of the whole namespace
  NamespacePods   \* the answers of the pod list, of the whole namespace

VARIABLES
  pc,        \* the next step of the command
  flags,     \* its --expected-digest flags
  expected,  \* the parsed flags: container -> digest
  dep,       \* the Deployment read
  owned,     \* names of the ReplicaSets of the first list
  pods,      \* the pods listed, filtered to those of owned ReplicaSets
  sets,      \* the ReplicaSets of the second list: name -> revision
  res,       \* the result
  exit       \* the exit code

vars == <<pc, flags, expected, dep, owned, pods, sets, res, exit>>

NotRead  == [name |-> None]    \* before the Deployment is read
NoResult == [status |-> None]  \* before the verdict
Empty    == [x \in {} |-> None]

DeploymentValues ==
  [name : {Target}, replicas : 0 .. MaxReplicas, revision : Revisions,
   template : Templates]

SetValues == [owner : Owners, revision : Revisions]

ASSUME AnswersAssumption ==
  /\ Target \in Owners
  /\ \A l \in FlagLists : l \in Seq(FlagValues)
  /\ Deployments \subseteq DeploymentValues
  /\ \A l \in NamespaceSets : DOMAIN l \subseteq SetNames /\ l \in [DOMAIN l -> SetValues]
  /\ \A l \in NamespacePods : IsFiniteSet(DOMAIN l)
  /\ \A l \in NamespacePods : DOMAIN l \subseteq PodNames /\ l \in [DOMAIN l -> PodValues]

-----------------------------------------------------------------------------

Init ==
  /\ pc = "parse"
  /\ flags \in FlagLists
  /\ expected = Empty
  /\ dep = NotRead
  /\ owned = {}
  /\ pods = Empty
  /\ sets = Empty
  /\ res = NoResult
  /\ exit = NoExit

Fail ==
  /\ pc' = "done"
  /\ exit' = OperationalError
  /\ UNCHANGED <<flags, expected, dep, owned, pods, sets, res>>

ParseFlags ==
  /\ pc = "parse"
  /\ Accepted(flags)
  /\ pc' = "get"
  /\ expected' = ParseExpectedDigests(flags)
  /\ UNCHANGED <<flags, dep, owned, pods, sets, res, exit>>

RejectFlags ==
  /\ pc = "parse"
  /\ ~Accepted(flags)
  /\ Fail

GetDeployment(answer) ==
  /\ pc = "get"
  /\ pc' = "listOwned"
  /\ dep' = answer
  /\ UNCHANGED <<flags, expected, owned, pods, sets, res, exit>>

\* Seeded fault: the current ReplicaSet is picked too early.
ListOwnedReplicaSets_CurrentOnly(answer) ==
  /\ pc = "listOwned"
  /\ pc' = "listPods"
  /\ owned' = {rs \in DOMAIN answer : answer[rs].revision = dep.revision}
  /\ UNCHANGED <<flags, expected, dep, pods, sets, res, exit>>

ListOwnedReplicaSets(answer) ==
  /\ pc = "listOwned"
  /\ pc' = "listPods"
  /\ owned' = DOMAIN GetReplicaSetsForDeployment(answer, dep.name)
  /\ UNCHANGED <<flags, expected, dep, pods, sets, res, exit>>

\* GetDeploymentPods returns: its list of ReplicaSets is gone.
ListPods(answer) ==
  /\ pc = "listPods"
  /\ pc' = "listSets"
  /\ pods' = GetDeploymentPods(answer, owned)
  /\ owned' = {}
  /\ UNCHANGED <<flags, expected, dep, sets, res, exit>>

\* Seeded fault: read again until the current ReplicaSet is in the list.
ListReplicaSets_Retry(answer) ==
  /\ pc = "listSets"
  /\ pc' = IF \E rs \in DOMAIN answer : answer[rs].revision = dep.revision
           THEN "judge" ELSE "listOwned"
  /\ sets' = GetReplicaSetsForDeployment(answer, dep.name)
  /\ UNCHANGED <<flags, expected, dep, owned, pods, res, exit>>

ListReplicaSets(answer) ==
  /\ pc = "listSets"
  /\ pc' = "judge"
  /\ sets' = GetReplicaSetsForDeployment(answer, dep.name)
  /\ UNCHANGED <<flags, expected, dep, owned, pods, res, exit>>

\* Not found, forbidden, or no answer from the API server.
ReadFails ==
  /\ pc \in {"get", "listOwned", "listPods", "listSets"}
  /\ Fail

\* Seeded fault: a Deployment without pods is an operational error.
Judge_NoPodsIsAnError ==
  /\ pc = "judge"
  /\ IF DOMAIN pods = {} THEN Fail
     ELSE /\ pc' = "gate"
          /\ res' = verifyDeployment(dep, sets, pods)
          /\ UNCHANGED <<flags, expected, dep, owned, pods, sets, exit>>

Judge ==
  /\ pc = "judge"
  /\ pc' = "gate"
  /\ res' = verifyDeployment(dep, sets, pods)
  /\ UNCHANGED <<flags, expected, dep, owned, pods, sets, exit>>

ApplyGate ==
  /\ pc = "gate"
  /\ pc' = "exit"
  /\ res' = ApplyExpectedDigests(res, expected)
  /\ UNCHANGED <<flags, expected, dep, owned, pods, sets, exit>>

Exit ==
  /\ pc = "exit"
  /\ pc' = "done"
  /\ exit' = exitForStatus(res.status)
  /\ UNCHANGED <<flags, expected, dep, owned, pods, sets, res>>

Next ==
  \/ ParseFlags
  \/ RejectFlags
  \/ \E answer \in Deployments : GetDeployment(answer)
  \/ \E answer \in NamespaceSets : ListOwnedReplicaSets(answer)
  \/ \E answer \in NamespacePods : ListPods(answer)
  \/ \E answer \in NamespaceSets : ListReplicaSets(answer)
  \/ ReadFails
  \/ Judge
  \/ ApplyGate
  \/ Exit

Spec == Init /\ [][Next]_vars

\* The command runs on: each of its calls returns, with an answer or an error.
FairSpec == Spec /\ WF_vars(Next)

-----------------------------------------------------------------------------
(* Properties *)

Judged == pc \in {"gate", "exit", "done"} /\ res # NoResult

\* The command ended with a verdict, not with an operational error.
Answered == pc = "done" /\ exit # OperationalError

TypeOK ==
  /\ pc \in { "parse", "get", "listOwned", "listPods", "listSets",
             "judge", "gate", "exit", "done" }
  /\ flags \in Seq(FlagValues)
  /\ DOMAIN expected \subseteq Containers
  /\ expected \in [DOMAIN expected -> Digests]
  /\ dep \in DeploymentValues \cup {NotRead}
  /\ owned \subseteq SetNames
  /\ DOMAIN pods \subseteq PodNames
  /\ IsFiniteSet(DOMAIN pods)
  /\ pods \in [DOMAIN pods -> PodValues]
  /\ DOMAIN sets \subseteq SetNames
  /\ sets \in [DOMAIN sets -> Revisions]
  /\ res # NoResult => res.status \in Verdicts
  /\ exit \in {0, OperationalError, 2, 3, NoExit}

\* The pods a verdict speaks for: live, and of the revision that was read.
Counted ==
  { p \in DOMAIN pods :
      /\ ~pods[p].terminating
      /\ DOMAIN sets # {} =>
           /\ dep.revision # NoRevision
           /\ pods[p].owner \in DOMAIN sets
           /\ sets[pods[p].owner] = dep.revision }

\* Every declared container of p is pinned and runs the pinned digest.
Identified(p) ==
  \A k \in Kinds : \A c \in DOMAIN dep.template[k] :
    /\ c \in DOMAIN pods[p].reports[k]
    /\ dep.template[k][c] \in Digests
    /\ pods[p].reports[k][c] = dep.template[k][c]

\* Every expected container is a declared normal one and p runs its digest.
Expected(p) ==
  \A c \in DOMAIN expected :
    /\ c \in DOMAIN dep.template["container"]
    /\ c \in DOMAIN pods[p].reports["container"]
    /\ pods[p].reports["container"][c] = expected[c]

\* What the documentation calls a match, of the values that were read.
Proven ==
  /\ Counted # {}
  /\ Cardinality(Counted) >= dep.replicas
  /\ \A p \in Counted : pods[p].ready /\ Identified(p) /\ Expected(p)

\* Exit 0 is a proof: there is a counted pod, there are as many as desired, all
\* are ready, and every declared container, normal and init, and every expected
\* one, was reported with exactly the digest asked for (verifyDeployment,
\* ApplyExpectedDigests and exitForStatus together).
MatchIsProven == exit = 0 => Proven

\* And exit 0 is not withheld: a command that answers anything else has read
\* something that contradicts a match or leaves it open.
MatchIsNotWithheld == Answered /\ Proven => exit = 0

\* A mismatch in a counted pod is exit 2 when no expected digest interferes:
\* no missing container, unready pod or unpinned sibling hides it.
MismatchIsDrift ==
  (Answered /\ DOMAIN expected = {}
    /\ \E o \in res.observations : o.status = "MISMATCH") => exit = 2

\* Every live pod that was listed is accounted for: a finding names it, or each
\* of its declared containers has an observation or is reported missing.
EveryPodAccountedFor ==
  Judged =>
    \A p \in DOMAIN pods :
      \/ pods[p].terminating
      \/ \E f \in res.findings :
           f.pod = p /\ f.reason \in {"OLD_REVISION_IGNORED", "POD_NOT_READY"}
      \/ \A k \in Kinds : \A c \in DOMAIN dep.template[k] :
           \/ \E o \in res.observations : o.kind = k /\ o.pod = p /\ o.container = c
           \/ \E f \in res.findings :
                f.pod = p /\ f.container = c /\ f.reason = MissingReason(k)

\* A verdict other than a match can be explained from the result itself: drift
\* by a finding of that weight, missing evidence by a pod count of zero or by a
\* container without an immutable identity on one of the two sides.
VerdictIsExplained ==
  /\ exit = 2 => \E f \in res.findings : f.status \in {"MISMATCH", "PARTIAL"}
  /\ exit = 3 =>
       \/ res.summary.observed = 0
       \/ \E f \in res.findings : f.reason \in {MissingReason(k) : k \in Kinds}
       \/ \E o \in res.observations :
            NoDigest \in {DigestOf(o.expected), DigestOf(o.value)}

\* The flags that count are the last ones for their containers; a match means
\* that every one of them was observed on every counted pod.
EveryFlagHonoured ==
  exit = 0 =>
    \A i \in DOMAIN flags :
      \/ \E j \in DOMAIN flags : j > i /\ flags[j].container = flags[i].container
      \/ \A p \in Counted :
           /\ flags[i].container \in DOMAIN pods[p].reports["container"]
           /\ pods[p].reports["container"][flags[i].container] = flags[i].digest

SameEvidence(o, o2) ==
  /\ o2.kind = o.kind /\ o2.pod = o.pod /\ o2.container = o.container
  /\ o2.expected = o.expected /\ o2.value = o.value /\ o2.status = o.status

\* Once there is a verdict, what follows can only weaken it: the gate turns
\* nothing into a match and takes no finding or observation back.
GateOnlyWeakens ==
  [][ res # NoResult =>
        /\ res'.status = "MATCH" => res.status = "MATCH"
        /\ res.findings \subseteq res'.findings
        /\ \A o \in res.observations : \E o2 \in res'.observations :
             SameEvidence(o, o2) ]_vars

\* Whatever the cluster answers, the command comes to an end: no answer sends it
\* back to a read it has made.
CommandTerminates == <>(pc = "done")

-----------------------------------------------------------------------------
(* The abstract specification *)

\* The evidence is complete when the last list has returned.
EvidenceNow ==
  IF pc \in {"judge", "gate", "exit"} \/ Answered
  THEN IF Proven THEN "proof" ELSE "no proof"
  ELSE "incomplete"

V == INSTANCE Verification WITH evidence <- EvidenceNow, answer <- AnswerOf(exit)

\* The command keeps the promise of a verification: what it answers depends on the
\* evidence as it was complete, and once it is complete there is a verdict.
ImplementsVerification == V!Spec

-----------------------------------------------------------------------------
(* What the documentation says and the code does not do *)

\* README.md:230: exit 2 is for verified drift, exit 3 for insufficient evidence.  So
\* a result that exits with 3 would show no container whose declaration is pinned to
\* one digest and that was reported with another.
DriftIsNeverMasked ==
  exit = 3 =>
    \A o \in res.observations :
      {o.expected, o.value} \subseteq Digests => o.expected = o.value
=============================================================================
