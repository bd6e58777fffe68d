--------------------------- MODULE RevisionTruth ---------------------------
(***************************************************************************)
(* The verdict on a StatefulSet or a DaemonSet                             *)
(* (VerifyStatefulSetWithControllerRevisions and                           *)
(* VerifyDaemonSetWithControllerRevisions, internal/truth/verifier.go).    *)
(*                                                                         *)
(*   w     [kind, name, desired, scheduled, updateRevision,                *)
(*         currentRevision, template]: the workload; desired is            *)
(*         spec.replicas of a StatefulSet and desiredNumberScheduled of a  *)
(*         DaemonSet, scheduled its currentNumberScheduled                 *)
(*   crs   the owned ControllerRevisions: name -> [revision, hash]         *)
(*   pods  the owned pods: name -> [rev, ready, terminating, reports]      *)
(*                                                                         *)
(* A revision string is a sequence of parts: <<base, h>> is the name       *)
(* "base-h" of a ControllerRevision, <<h>> a bare hash, <<>> the empty     *)
(* string.  Hashes are numbers, in the order of the revisions' names.      *)
(* That one random hash is a suffix of another is left out.                *)
(***************************************************************************)
EXTENDS Truth, Sequences

CONSTANTS
  PodRank,     \* the place of each pod name when the code sorts the pods
  Hashes,      \* revision hashes, numbers in the order of the names
  Bases,       \* names of workloads, the prefix of their revisions' names
  MaxDesired   \* bound on the number of pods desired

ASSUME RevisionAssumption ==
  /\ PodRank \in [PodNames -> Nat]
  /\ \A p, q \in PodNames : PodRank[p] = PodRank[q] => p = q
  /\ Hashes \subseteq Nat
  /\ MaxDesired \in Nat

NoRev == <<>>

RevisionNames == {<<b, h>> : b \in Bases, h \in Hashes}
PodRevisions  == {NoRev} \cup RevisionNames \cup {<<h>> : h \in Hashes}

WorkloadKinds == {"StatefulSet", "DaemonSet"}

Workloads ==
  [kind : WorkloadKinds, name : Bases, desired : 0 .. MaxDesired,
   scheduled : 0 .. MaxDesired, updateRevision : {NoRev} \cup RevisionNames,
   currentRevision : {NoRev} \cup RevisionNames, template : Templates]

RevisionValues == [revision : 1 .. MaxRevision, hash : {NoRev} \cup {<<h>> : h \in Hashes}]

RevisionPods ==
  [rev : PodRevisions, ready : BOOLEAN, terminating : BOOLEAN, reports : Reports]

-----------------------------------------------------------------------------
(* The revision a pod has to be of *)

HasSuffix(s, t) ==
  Len(t) <= Len(s) /\ SubSeq(s, Len(s) - Len(t) + 1, Len(s)) = t

\* Seeded fault: the oldest ControllerRevision is taken.
HighestRevision_Lowest(crs) ==
  IF DOMAIN crs = {} THEN NoRev
  ELSE CHOOSE n \in DOMAIN crs :
         \A m \in DOMAIN crs : crs[m].revision >= crs[n].revision

\* The owned ControllerRevision with the highest number.
HighestRevision(crs) ==
  IF DOMAIN crs = {} THEN NoRev
  ELSE CHOOSE n \in DOMAIN crs :
         \A m \in DOMAIN crs : crs[m].revision <= crs[n].revision

\* The hash all the pods of a DaemonSet carry, if they agree on one.
CommonRevision(pods) ==
  LET carried == {pods[p].rev : p \in DOMAIN pods}
  IN  IF Cardinality(carried) = 1 THEN CHOOSE r \in carried : TRUE ELSE NoRev

FirstKnown(r, s) == IF r # NoRev THEN r ELSE s

targetRevision(w, crs, pods) ==
  IF w.kind = "StatefulSet"
  THEN FirstKnown(w.updateRevision, FirstKnown(w.currentRevision, HighestRevision(crs)))
  ELSE FirstKnown(HighestRevision(crs), CommonRevision(pods))

\* Seeded fault: only the very name of the revision is recognised.
isRevisionMatch_NameOnly(podRev, target, crs) == podRev = target

isRevisionMatch(podRev, target, crs) ==
  \/ podRev = target
  \/ HasSuffix(target, podRev)
  \/ HasSuffix(podRev, target)
  \/ \E n \in DOMAIN crs :
       \/ n = podRev /\ crs[n].hash = target
       \/ n = target /\ crs[n].hash = podRev

-----------------------------------------------------------------------------
(* The pod loop: terminating pods are skipped, then a pod is of an old      *)
(* revision, of an unknown one, not ready, or counted.                      *)

Live(pods) == {p \in DOMAIN pods : ~pods[p].terminating}

Old(target, crs, pods) ==
  { p \in Live(pods) : /\ target # NoRev
                       /\ pods[p].rev # NoRev
                       /\ ~isRevisionMatch(pods[p].rev, target, crs) }

Unknown(target, pods) ==
  {p \in Live(pods) : target = NoRev \/ pods[p].rev = NoRev}

Current(target, crs, pods) ==
  Live(pods) \ (Old(target, crs, pods) \cup Unknown(target, pods))

Unready(target, crs, pods) == {p \in Current(target, crs, pods) : ~pods[p].ready}
Counted(target, crs, pods) == {p \in Current(target, crs, pods) : pods[p].ready}

\* The loop assigns the status instead of combining it: the last pod by name
\* that is not counted, and not old, decides.
PodStatus(target, crs, pods) ==
  LET marking == Unready(target, crs, pods) \cup Unknown(target, pods)
      last    == CHOOSE p \in marking : \A q \in marking : PodRank[q] <= PodRank[p]
  IN  CASE marking = {} /\ target = NoRev -> "UNKNOWN"
        [] marking = {} /\ target # NoRev -> "MATCH"
        [] marking # {} ->
             IF last \in Unknown(target, pods) THEN "UNKNOWN" ELSE "PARTIAL"

desiredPods(w) ==
  IF w.kind = "DaemonSet" /\ w.desired = 0 THEN w.scheduled ELSE w.desired

\* Seeded fault: the number of pods is not compared.
Short_Never(w, target, crs, pods) == FALSE

Short(w, target, crs, pods) ==
  /\ Cardinality(Counted(target, crs, pods)) < desiredPods(w)
  /\ PodStatus(target, crs, pods) # "UNKNOWN"

CountedStatus(w, target, crs, pods) ==
  CASE Counted(target, crs, pods) = {}  -> "UNKNOWN"
    [] Counted(target, crs, pods) # {} /\ Short(w, target, crs, pods) -> "PARTIAL"
    [] OTHER                            -> PodStatus(target, crs, pods)

RevisionStatus(w, target, crs, pods) ==
  CombineAll({CountedStatus(w, target, crs, pods)} \cup
             { ContainerSetStatus(w.template[pk[2]], pods[pk[1]].reports[pk[2]])
               : pk \in Counted(target, crs, pods) \X Kinds })

-----------------------------------------------------------------------------

RevisionObservations(w, target, crs, pods) ==
  UNION { ObservationsOf(pk[2], pk[1], w.template[pk[2]], pods[pk[1]].reports[pk[2]])
          : pk \in Counted(target, crs, pods) \X Kinds }

\* Seeded fault: a pod without a revision is passed over in silence.
PodFindings_UnknownUnnamed(target, crs, pods) ==
  {Finding("OLD_REVISION_IGNORED", "STALE", p, None) : p \in Old(target, crs, pods)}
  \cup
  {Finding("POD_NOT_READY", "PARTIAL", p, None) : p \in Unready(target, crs, pods)}

PodFindings(target, crs, pods) ==
  {Finding("OLD_REVISION_IGNORED", "STALE", p, None) : p \in Old(target, crs, pods)}
  \cup
  { Finding("IMMUTABLE_IDENTITY_UNAVAILABLE", "UNKNOWN", p, None)
    : p \in Unknown(target, pods) }
  \cup
  {Finding("POD_NOT_READY", "PARTIAL", p, None) : p \in Unready(target, crs, pods)}

RevisionFindings(w, target, crs, pods) ==
  PodFindings(target, crs, pods)
  \cup
  { f \in {Finding("CURRENT_REVISION_INCOMPLETE", "PARTIAL", None, None)} :
      Short(w, target, crs, pods) }
  \cup
  UNION { ContainerFindings(pk[2], pk[1], w.template[pk[2]], pods[pk[1]].reports[pk[2]])
          : pk \in Counted(target, crs, pods) \X Kinds }

\* The revision the evidence names as current, which an attestation signs: not
\* the target, but the StatefulSet's currentRevision, and for a DaemonSet the
\* first ControllerRevision by name.
evidenceRevision(w, crs) ==
  IF w.kind = "StatefulSet" THEN FirstKnown(w.currentRevision, w.updateRevision)
  ELSE IF DOMAIN crs = {} THEN NoRev
  ELSE CHOOSE n \in DOMAIN crs : \A m \in DOMAIN crs : n[2] <= m[2]

verifyRevisions(w, crs, pods) ==
  LET target == targetRevision(w, crs, pods)
  IN  [status       |-> RevisionStatus(w, target, crs, pods),
       observations |-> RevisionObservations(w, target, crs, pods),
       findings     |-> RevisionFindings(w, target, crs, pods),
       summary      |-> Summary(desiredPods(w), Counted(target, crs, pods),
                                RevisionObservations(w, target, crs, pods)),
       revision     |-> evidenceRevision(w, crs)]
=============================================================================
