-------------------------- MODULE RevisionCommand --------------------------
(***************************************************************************)
(* One run of "stateproof verify statefulset|daemonset <name>": the flags, *)
(* then three reads with no common resourceVersion (the workload, the      *)
(* pods, the ControllerRevisions; cmd/verify.go:78-106), the verdict, the  *)
(* gate and the exit code.  Each read returns any value of its constant    *)
(* set, or fails.                                                          *)
(***************************************************************************)
EXTENDS RevisionTruth, Gate

CONSTANTS
  FlagLists,           \* the --expected-digest lists the command may be given
  WorkloadAnswers,     \* the answers of the Get
  NamespaceRevisions,  \* the answers of the ControllerRevision list
  NamespacePods        \* the answers of the pod list

VARIABLES
  pc,        \* the next step of the command
  flags,     \* its --expected-digest flags
  expected,  \* the parsed flags
  w,         \* the workload read
  pods,      \* the pods it owns
  crs,       \* the ControllerRevisions it owns
  res,       \* the result
  exit       \* the exit code

vars == <<pc, flags, expected, w, pods, crs, res, exit>>

NotRead  == [kind |-> None]
NoResult == [status |-> None]
Empty    == [x \in {} |-> None]

\* A listed object has the kind and the name of its owner next to its value.
OwnedBy(list, kind, name) ==
  [x \in {y \in DOMAIN list : list[y].owner = <<kind, name>>} |-> list[x].value]

\* Revision numbers of the revisions of one workload are distinct.
ASSUME AnswersAssumption ==
  /\ \A l \in FlagLists : l \in Seq(FlagValues)
  /\ WorkloadAnswers \subseteq Workloads
  /\ \A l \in NamespaceRevisions, k \in WorkloadKinds, b \in Bases :
       LET own == OwnedBy(l, k, b)
       IN  /\ DOMAIN own \subseteq {<<b, h>> : h \in Hashes}
           /\ own \in [DOMAIN own -> RevisionValues]
           /\ \A m, n \in DOMAIN own : own[m].revision = own[n].revision => m = n
  /\ \A l \in NamespacePods, k \in WorkloadKinds, b \in Bases :
       LET own == OwnedBy(l, k, b)
       IN  /\ IsFiniteSet(DOMAIN own) /\ DOMAIN own \subseteq PodNames
           /\ own \in [DOMAIN own -> RevisionPods]

-----------------------------------------------------------------------------

Init ==
  /\ pc = "parse"
  /\ flags \in FlagLists
  /\ expected = Empty
  /\ w = NotRead
  /\ pods = Empty
  /\ crs = Empty
  /\ res = NoResult
  /\ exit = NoExit

Fail ==
  /\ pc' = "done"
  /\ exit' = OperationalError
  /\ UNCHANGED <<flags, expected, w, pods, crs, res>>

ParseFlags ==
  /\ pc = "parse"
  /\ Accepted(flags)
  /\ pc' = "get"
  /\ expected' = ParseExpectedDigests(flags)
  /\ UNCHANGED <<flags, w, pods, crs, res, exit>>

RejectFlags ==
  /\ pc = "parse"
  /\ ~Accepted(flags)
  /\ Fail

GetWorkload(answer) ==
  /\ pc = "get"
  /\ pc' = "listPods"
  /\ w' = answer
  /\ UNCHANGED <<flags, expected, pods, crs, res, exit>>

ListPods(answer) ==
  /\ pc = "listPods"
  /\ pc' = "listRevisions"
  /\ pods' = OwnedBy(answer, w.kind, w.name)
  /\ UNCHANGED <<flags, expected, w, crs, res, exit>>

ListRevisions(answer) ==
  /\ pc = "listRevisions"
  /\ pc' = "judge"
  /\ crs' = OwnedBy(answer, w.kind, w.name)
  /\ UNCHANGED <<flags, expected, w, pods, res, exit>>

ReadFails ==
  /\ pc \in {"get", "listPods", "listRevisions"}
  /\ Fail

Judge ==
  /\ pc = "judge"
  /\ pc' = "gate"
  /\ res' = verifyRevisions(w, crs, pods)
  /\ UNCHANGED <<flags, expected, w, pods, crs, exit>>

ApplyGate ==
  /\ pc = "gate"
  /\ pc' = "exit"
  /\ res' = ApplyExpectedDigests(res, expected)
  /\ UNCHANGED <<flags, expected, w, pods, crs, exit>>

Exit ==
  /\ pc = "exit"
  /\ pc' = "done"
  /\ exit' = exitForStatus(res.status)
  /\ UNCHANGED <<flags, expected, w, pods, crs, res>>

Next ==
  \/ ParseFlags
  \/ RejectFlags
  \/ \E answer \in WorkloadAnswers : GetWorkload(answer)
  \/ \E answer \in NamespacePods : ListPods(answer)
  \/ \E answer \in NamespaceRevisions : ListRevisions(answer)
  \/ ReadFails
  \/ Judge
  \/ ApplyGate
  \/ Exit

Spec == Init /\ [][Next]_vars

-----------------------------------------------------------------------------
(* Properties *)

Answered == pc = "done" /\ exit # OperationalError

TypeOK ==
  /\ pc \in {"parse", "get", "listPods", "listRevisions", "judge", "gate", "exit", "done"}
  /\ flags \in Seq(FlagValues)
  /\ DOMAIN expected \subseteq Containers
  /\ expected \in [DOMAIN expected -> Digests]
  /\ w \in Workloads \cup {NotRead}
  /\ DOMAIN pods \subseteq PodNames /\ IsFiniteSet(DOMAIN pods)
  /\ pods \in [DOMAIN pods -> RevisionPods]
  /\ DOMAIN crs \subseteq RevisionNames
  /\ crs \in [DOMAIN crs -> RevisionValues]
  /\ res # NoResult => res.status \in Verdicts
  /\ exit \in {0, OperationalError, 2, 3, NoExit}

\* p is of the owned ControllerRevision n, by its name, the hash in its name, or
\* the hash in its label.
OfRevision(p, n) ==
  pods[p].rev \in {n, <<n[2]>>} \cup {crs[m].hash : m \in DOMAIN crs \cap {n}}

Newest == {n \in DOMAIN crs : \A m \in DOMAIN crs : crs[m].revision <= crs[n].revision}

\* p is of the revision a StatefulSet is being updated to; of the newest
\* ControllerRevision where the status names none; or, for a DaemonSet with no
\* ControllerRevision, of the one revision all its pods carry.
OfWanted(p) ==
  LET named == {w.updateRevision, w.currentRevision} \ {NoRev}
  IN  /\ pods[p].rev # NoRev
      /\ \/ /\ w.kind = "StatefulSet" /\ named # {}
            /\ \E n \in named : OfRevision(p, n) /\ w.updateRevision \in {n, NoRev}
         \/ /\ w.kind = "DaemonSet" \/ named = {}
            /\ \E n \in Newest : OfRevision(p, n)
         \/ /\ w.kind = "DaemonSet" /\ DOMAIN crs = {}
            /\ \A q \in DOMAIN pods : pods[q].rev = pods[p].rev

Identified(p) ==
  \A k \in Kinds : \A c \in DOMAIN w.template[k] :
    /\ c \in DOMAIN pods[p].reports[k]
    /\ w.template[k][c] \in Digests
    /\ pods[p].reports[k][c] = w.template[k][c]

Expected(p) ==
  \A c \in DOMAIN expected :
    /\ c \in DOMAIN w.template["container"]
    /\ c \in DOMAIN pods[p].reports["container"]
    /\ pods[p].reports["container"][c] = expected[c]

\* Every live pod is of a known revision; those of the wanted one are ready,
\* enough, and run exactly the declared and the expected digests.
Proven ==
  LET live   == {p \in DOMAIN pods : ~pods[p].terminating}
      wanted == {p \in live : OfWanted(p)}
  IN  /\ wanted # {} /\ Cardinality(wanted) >= desiredPods(w)
      /\ \A p \in live : pods[p].rev # NoRev
      /\ \A p \in wanted : pods[p].ready /\ Identified(p) /\ Expected(p)

\* Exit 0 for a StatefulSet or a DaemonSet is a proof: no pod of an unknown
\* revision, an old one, or an unready one stands in for a pod of the wanted
\* revision, however the revisions are spelled in labels and names.
MatchIsProven == exit = 0 => Proven

\* And a proof is never turned into another exit code.
MatchIsNotWithheld == Answered /\ Proven => exit = 0

\* Drift in a pod of the wanted revision is exit 2 when nothing else is asked,
\* also when the pod loop has already met a pod of an unknown revision.
MismatchIsDrift ==
  (Answered /\ DOMAIN expected = {}
    /\ \E o \in res.observations : o.status = "MISMATCH") => exit = 2

\* Every live pod the workload owns is named by a finding or has an observation or
\* a finding for each of its declared containers.
EveryPodAccountedFor ==
  Answered =>
    \A p \in DOMAIN pods :
      \/ pods[p].terminating
      \/ \E f \in res.findings : f.pod = p /\ f.container = None
      \/ \A k \in Kinds : \A c \in DOMAIN w.template[k] :
           \/ \E o \in res.observations : o.kind = k /\ o.pod = p /\ o.container = c
           \/ \E f \in res.findings : f.pod = p /\ f.container = c

-----------------------------------------------------------------------------
(* The abstract specification *)

\* The evidence is complete when the ControllerRevisions are listed.
EvidenceNow ==
  IF pc \in {"judge", "gate", "exit"} \/ Answered
  THEN IF Proven THEN "proof" ELSE "no proof"
  ELSE "incomplete"

V == INSTANCE Verification WITH evidence <- EvidenceNow, answer <- AnswerOf(exit)

\* The command keeps the promise of a verification, for both workload kinds.
ImplementsVerification == V!Spec

-----------------------------------------------------------------------------
(* What the documentation says and the code does not do *)

\* internal/attest/attest.go:162: only pods of the current revision make it to the
\* observations, next to the revision the attestation names.
MatchedRevisionIsReported ==
  exit = 0 =>
    \A o \in res.observations : isRevisionMatch(pods[o.pod].rev, res.revision, crs)
=============================================================================
