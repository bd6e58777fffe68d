-------------------------------- MODULE Scan --------------------------------
(***************************************************************************)
(* One run of "stateproof scan <namespace>" (cmd/scan.go): the Deployments *)
(* are listed once; then, for one after the other, the same three lists    *)
(* are read as by verify and the verdict is recorded.  A read that fails   *)
(* is recorded as UNKNOWN and the loop goes on.  There is no gate.         *)
(*                                                                         *)
(* As in VerifyCommand, each read returns any value of a constant set.     *)
(***************************************************************************)
EXTENDS DeploymentTruth, Gate, ClusterReads

CONSTANTS
  Owners,           \* names of the Deployments of the namespace
  DeploymentLists,  \* the answers of the list of Deployments
  NamespaceSets,    \* the answers of a ReplicaSet list
  NamespacePods     \* the answers of the pod list

VARIABLES
  pc,           \* the next step of the command
  deployments,  \* the Deployments listed
  todo,         \* the ones the loop has not finished
  owned,        \* names of the ReplicaSets of the first list
  pods,         \* the pods listed for the first Deployment of todo
  sets,         \* the ReplicaSets of its second list
  results,      \* Deployment name -> status
  printed,      \* the summary: how many were inspected, and with which status
  exit,         \* the exit code
  seen          \* history: Deployment name -> what was read for it

vars == <<pc, deployments, todo, owned, pods, sets, results, printed, exit, seen>>

Empty    == [x \in {} |-> None]
NotRead  == <<>>
Failed   == [failed |-> TRUE]
NotPrinted == [inspected |-> None]

DeploymentValues ==
  [name : Owners, replicas : 0 .. MaxReplicas, revision : Revisions,
   template : Templates]

SetValues == [owner : Owners, revision : Revisions]

\* The names in a list of Deployments differ, and a list of pods ends.
ASSUME AnswersAssumption ==
  /\ \A l \in DeploymentLists :
       /\ l \in Seq(DeploymentValues)
       /\ \A i, j \in DOMAIN l : l[i].name = l[j].name => i = j
  /\ \A l \in NamespaceSets : DOMAIN l \subseteq SetNames /\ l \in [DOMAIN l -> SetValues]
  /\ \A l \in NamespacePods :
       /\ DOMAIN l \subseteq PodNames /\ l \in [DOMAIN l -> PodValues]
       /\ IsFiniteSet(DOMAIN l)

dep == Head(todo)

With(f, name, value) ==
  [n \in DOMAIN f \cup {name} |-> IF n = name THEN value ELSE f[n]]

-----------------------------------------------------------------------------

Init ==
  /\ pc = "list"
  /\ deployments = NotRead
  /\ todo = <<>>
  /\ owned = {}
  /\ pods = Empty
  /\ sets = Empty
  /\ results = Empty
  /\ printed = NotPrinted
  /\ exit = NoExit
  /\ seen = Empty

ListDeployments(answer) ==
  /\ pc = "list"
  /\ pc' = "loop"
  /\ deployments' = answer
  /\ todo' = answer
  /\ UNCHANGED <<owned, pods, sets, results, printed, exit, seen>>

ListDeploymentsFails ==
  /\ pc = "list"
  /\ pc' = "done"
  /\ exit' = OperationalError
  /\ UNCHANGED <<deployments, todo, owned, pods, sets, results, printed, seen>>

ListOwnedReplicaSets(answer) ==
  /\ pc = "loop"
  /\ todo # <<>>
  /\ pc' = "listPods"
  /\ owned' = DOMAIN GetReplicaSetsForDeployment(answer, dep.name)
  /\ UNCHANGED <<deployments, todo, pods, sets, results, printed, exit, seen>>

ListPods(answer) ==
  /\ pc = "listPods"
  /\ pc' = "listSets"
  /\ pods' = GetDeploymentPods(answer, owned)
  /\ owned' = {}
  /\ UNCHANGED <<deployments, todo, sets, results, printed, exit, seen>>

ListReplicaSets(answer) ==
  /\ pc = "listSets"
  /\ pc' = "judge"
  /\ sets' = GetReplicaSetsForDeployment(answer, dep.name)
  /\ UNCHANGED <<deployments, todo, owned, pods, results, printed, exit, seen>>

\* The loop goes on with the next Deployment; its local variables are gone.
Record(status, values) ==
  /\ pc' = "loop"
  /\ results' = With(results, dep.name, status)
  /\ seen' = With(seen, dep.name, values)
  /\ todo' = Tail(todo)
  /\ owned' = {}
  /\ pods' = Empty
  /\ sets' = Empty
  /\ UNCHANGED <<deployments, printed, exit>>

Reading == pc \in {"listPods", "listSets"} \/ (pc = "loop" /\ todo # <<>>)

\* Seeded fault: nothing is recorded of a Deployment whose reads fail.
ReadFails_Skipped ==
  /\ Reading
  /\ pc' = "loop"
  /\ seen' = With(seen, dep.name, Failed)
  /\ todo' = Tail(todo)
  /\ owned' = {}
  /\ pods' = Empty
  /\ sets' = Empty
  /\ UNCHANGED <<deployments, results, printed, exit>>

\* Seeded fault: the Deployment is tried again.
ReadFails_Retried ==
  /\ Reading
  /\ pc' = "loop"
  /\ owned' = {}
  /\ pods' = Empty
  /\ sets' = Empty
  /\ UNCHANGED <<deployments, todo, results, printed, exit, seen>>

\* Seeded fault: the result of a failed read is left without a status.
ReadFails_NoStatus == Reading /\ Record(None, Failed)

ReadFails == Reading /\ Record("UNKNOWN", Failed)

Judge ==
  /\ pc = "judge"
  /\ Record(verifyDeployment(dep, sets, pods).status, [pods |-> pods, sets |-> sets])

\* BuildScanSummary counts over the Deployments listed, the exit code is taken
\* from the results recorded.
BuildScanSummary ==
  LET statusOf(d) == IF d.name \in DOMAIN results THEN results[d.name] ELSE "UNKNOWN"
      count(s) == Cardinality({i \in DOMAIN deployments : statusOf(deployments[i]) = s})
  IN  [inspected |-> Len(deployments), match |-> count("MATCH"),
       partial |-> count("PARTIAL"), unknown |-> count("UNKNOWN")]

Recorded == {results[n] : n \in DOMAIN results}

\* Seeded fault: missing evidence is looked for first.
ScanStatus_UnknownFirst ==
  IF "UNKNOWN" \in Recorded THEN "UNKNOWN"
  ELSE IF "PARTIAL" \in Recorded THEN "PARTIAL" ELSE "MATCH"

\* Seeded fault: only drift counts.
ScanStatus_DriftOnly == IF "PARTIAL" \in Recorded THEN "PARTIAL" ELSE "MATCH"

ScanStatus ==
  IF "PARTIAL" \in Recorded THEN "PARTIAL"
  ELSE IF "UNKNOWN" \in Recorded THEN "UNKNOWN" ELSE "MATCH"

\* Seeded fault: the scan answers as soon as it has found drift.
Exit_FailFast ==
  /\ pc = "loop"
  /\ todo = <<>> \/ "PARTIAL" \in Recorded
  /\ pc' = "done"
  /\ printed' = BuildScanSummary
  /\ exit' = exitForStatus(ScanStatus)
  /\ UNCHANGED <<deployments, todo, owned, pods, sets, results, seen>>

Exit ==
  /\ pc = "loop"
  /\ todo = <<>>
  /\ pc' = "done"
  /\ printed' = BuildScanSummary
  /\ exit' = exitForStatus(ScanStatus)
  /\ UNCHANGED <<deployments, todo, owned, pods, sets, results, seen>>

Next ==
  \/ \E answer \in DeploymentLists : ListDeployments(answer)
  \/ ListDeploymentsFails
  \/ \E answer \in NamespaceSets : ListOwnedReplicaSets(answer)
  \/ \E answer \in NamespacePods : ListPods(answer)
  \/ \E answer \in NamespaceSets : ListReplicaSets(answer)
  \/ ReadFails
  \/ Judge
  \/ Exit

Spec == Init /\ [][Next]_vars

\* The command does not stop by itself, and every call returns.
FairSpec == Spec /\ WF_vars(Next)

-----------------------------------------------------------------------------
(* Properties *)

TypeOK ==
  /\ pc \in {"list", "loop", "listPods", "listSets", "judge", "done"}
  /\ deployments \in Seq(DeploymentValues)
  /\ \E i \in 0 .. Len(deployments) :
       todo = SubSeq(deployments, i + 1, Len(deployments))
  /\ owned \subseteq SetNames
  /\ DOMAIN pods \subseteq PodNames /\ pods \in [DOMAIN pods -> PodValues]
  /\ DOMAIN sets \subseteq SetNames /\ sets \in [DOMAIN sets -> Revisions]
  /\ DOMAIN results \subseteq Owners /\ results \in [DOMAIN results -> Verdicts]
  /\ exit \in {0, OperationalError, 2, 3, NoExit}

Elements(s) == {s[i] : i \in DOMAIN s}

\* The values read for d prove that it matches: as many pods as desired, at least
\* one, none of them unready, all of d's revision, and each declared container
\* runs the digest it is pinned to.
Proven(d, read) ==
  LET counted ==
        { p \in DOMAIN read.pods :
            /\ ~read.pods[p].terminating
            /\ DOMAIN read.sets # {} =>
                 /\ d.revision # NoRevision
                 /\ read.pods[p].owner \in DOMAIN read.sets
                 /\ read.sets[read.pods[p].owner] = d.revision }
  IN  /\ counted # {}
      /\ Cardinality(counted) >= d.replicas
      /\ \A p \in counted :
           /\ read.pods[p].ready
           /\ \A k \in Kinds : \A c \in DOMAIN d.template[k] :
                /\ d.template[k][c] \in Digests
                /\ c \in DOMAIN read.pods[p].reports[k]
                /\ read.pods[p].reports[k][c] = d.template[k][c]

\* Every Deployment listed was read in full, and what was read proves it a match.
AllProven ==
  \A d \in Elements(deployments) :
    /\ d.name \in DOMAIN seen
    /\ seen[d.name] # Failed
    /\ Proven(d, seen[d.name])

\* A scan exits with 0 exactly if it read every Deployment it listed in full and
\* what it read proves each of them a match: the verdict of one is never taken for
\* another's, and a read that fails anywhere is not lost.
CleanScanIsProven ==
  (pc = "done" /\ exit # OperationalError) => (exit = 0 <=> AllProven)

Drifted(d, read) ==
  \E p \in DOMAIN read.pods :
    LET declared == d.template["container"]
        reported == read.pods[p].reports["container"]
    IN  /\ read.pods[p].ready /\ ~read.pods[p].terminating
        /\ read.pods[p].owner \in currentReplicaSets(d, read.sets)
        /\ \E c \in DOMAIN declared \cap DOMAIN reported :
             /\ {declared[c], reported[c]} \subseteq Digests
             /\ declared[c] # reported[c]

\* A container that runs another digest than the pinned one, in a ready pod of the
\* Deployment's revision, is drift: exit 2, whatever could not be read of the other
\* Deployments and in whatever order they come.
DriftOutranksFailure ==
  (pc = "done" /\ exit # OperationalError) =>
    \A d \in Elements(deployments) :
      (seen[d.name] # Failed /\ Drifted(d, seen[d.name])) => exit = 2

\* The printed counts and the exit code are computed from two different lists, and
\* agree: every Deployment listed is counted once, and the exit code is the one of
\* the worst count that is not zero.
SummaryAgreesWithExit ==
  printed # NotPrinted =>
    /\ printed.match + printed.partial + printed.unknown = printed.inspected
    /\ exit = 0 <=> printed.match = printed.inspected
    /\ exit = 2 <=> printed.partial > 0

\* One answer or failure for each read, and the scan comes to its end.
ScanTerminates == <>(pc = "done")

\* The evidence is complete when the last Deployment of the list is done with.
EvidenceNow ==
  IF pc \in {"loop", "done"} /\ todo = <<>> /\ exit # OperationalError
  THEN IF AllProven THEN "proof" ELSE "no proof"
  ELSE "incomplete"

V == INSTANCE Verification WITH evidence <- EvidenceNow, answer <- AnswerOf(exit)

\* The scan of a namespace is one verification of all its Deployments: it answers
\* once, not before the last of them is read, and then with a verdict, which is a
\* match only if each of them is proved one.
ImplementsVerification == V!Spec

-----------------------------------------------------------------------------
(* What the documentation says and the code does not do *)

\* README.md:284: a failed list is an operational error, it is not downgraded.
ListFailureIsOperational ==
  (pc = "done" /\ \E n \in DOMAIN seen : seen[n] = Failed) => exit = OperationalError
=============================================================================
