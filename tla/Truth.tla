------------------------------- MODULE Truth -------------------------------
(***************************************************************************)
(* The vocabulary of package internal/truth and the pure functions every   *)
(* workload kind is judged with: image identity (image.go), the status     *)
(* lattice (combineStatus) and the comparison of one pod's container       *)
(* statuses with the declared containers (verifyContainerSet).             *)
(*                                                                         *)
(* Abstractions of data.  An image reference is a member of Digests when   *)
(* it is pinned and Unpinned when it carries only a tag; the repository    *)
(* part is dropped because no verdict reads it.  A reported imageID is a   *)
(* member of Digests, NoImageID (the empty string) or Undigested (an ID    *)
(* without "@", such as a bare engine ID).  Lists whose order no verdict   *)
(* reads are sets, and lists keyed by a unique name are functions.         *)
(***************************************************************************)
EXTENDS Naturals, FiniteSets

CONSTANTS
  Digests,     \* immutable digests, in the canonical (lower-case) form
  Containers,  \* container names
  PodNames,    \* pod names
  MaxRevision  \* bound on the numbers that revisions carry

Unpinned   == "unpinned"    \* a declared image without a digest
NoImageID  == ""            \* imageID not reported yet
Undigested == "undigested"  \* imageID without a digest part
NoDigest   == "no-digest"   \* parseImageReference(...).Digest = ""
None       == "none"        \* a finding that is not about one pod or container

ASSUME MaxRevisionAssumption == MaxRevision \in Nat

ASSUME DigestsAssumption ==
  {Unpinned, NoImageID, Undigested, NoDigest} \cap Digests = {}

Status == {"MATCH", "MISMATCH", "STALE", "PARTIAL", "UNKNOWN"}

\* The statuses a verification as a whole can have (buildDeploymentResult).
Verdicts == {"MATCH", "PARTIAL", "UNKNOWN"}

Reason ==
  { "DIGEST_MATCH", "DIGEST_MISMATCH", "IMMUTABLE_IDENTITY_UNAVAILABLE",
    "POD_NOT_READY", "OLD_REVISION_IGNORED", "CURRENT_REVISION_INCOMPLETE",
    "UNEXPECTED_CONTAINER", "UNEXPECTED_INIT_CONTAINER", "CONTAINER_MISSING",
    "INIT_CONTAINER_MISSING", "EXPECTED_DIGEST_MATCH",
    "EXPECTED_DIGEST_MISMATCH", "EXPECTED_CONTAINER_MISSING" }

Kinds    == {"container", "init-container"}
Images   == Digests \cup {Unpinned}
ImageIDs == Digests \cup {NoImageID, Undigested}

\* A pod template: the image of every declared container, by kind and name.
Templates == [Kinds -> UNION {[names -> Images] : names \in SUBSET Containers}]

\* What a pod's status reports: the imageID of every container, by kind and name.
Reports == [Kinds -> UNION {[names -> ImageIDs] : names \in SUBSET Containers}]

-----------------------------------------------------------------------------
(* Image identity *)

\* The digest part of an image reference or an imageID.
DigestOf(value) == IF value \in Digests THEN value ELSE NoDigest

\* Only a declaration pinned by digest can establish an identity.
imageIdentityMatch(declared, runtime) ==
  /\ DigestOf(declared) # NoDigest
  /\ DigestOf(declared) = DigestOf(runtime)

-----------------------------------------------------------------------------
(* The status lattice: MATCH < UNKNOWN < PARTIAL *)

combineStatus(left, right) ==
  IF "PARTIAL" \in {left, right} THEN "PARTIAL"
  ELSE IF "UNKNOWN" \in {left, right} THEN "UNKNOWN"
  ELSE "MATCH"

\* Seeded fault: missing evidence outranks drift.
CombineAll_UnknownFirst(statuses) ==
  IF "UNKNOWN" \in statuses THEN "UNKNOWN"
  ELSE IF "PARTIAL" \in statuses THEN "PARTIAL"
  ELSE "MATCH"

\* What folding combineStatus over a collection of statuses yields, whatever
\* the order and the repetitions (proved in Truth_proofs).
CombineAll(statuses) ==
  IF "PARTIAL" \in statuses THEN "PARTIAL"
  ELSE IF "UNKNOWN" \in statuses THEN "UNKNOWN"
  ELSE "MATCH"

-----------------------------------------------------------------------------
(* One pod's containers of one kind against the declaration *)

ObservationStatus(image, imageID) ==
  CASE imageID = NoImageID                 -> "UNKNOWN"
    [] imageIdentityMatch(image, imageID)  -> "MATCH"
    [] imageID # NoImageID /\ DigestOf(image) = NoDigest -> "UNKNOWN"
    [] OTHER                               -> "MISMATCH"

ObservationReason(status) ==
  CASE status = "MATCH"    -> "DIGEST_MATCH"
    [] status = "MISMATCH" -> "DIGEST_MISMATCH"
    [] OTHER               -> "IMMUTABLE_IDENTITY_UNAVAILABLE"

\* Seeded fault: a container whose imageID is not reported yet is passed over.
Observed_IdentifiedOnly(declared, reported) ==
  {c \in DOMAIN declared \cap DOMAIN reported : reported[c] # NoImageID}

\* The containers that are declared and reported: each yields one observation.
Observed(declared, reported) == DOMAIN declared \cap DOMAIN reported

ObservationsOf(kind, pod, declared, reported) ==
  { LET status == ObservationStatus(declared[c], reported[c])
    IN  [kind |-> kind, pod |-> pod, container |-> c, expected |-> declared[c],
         value |-> reported[c], status |-> status,
         reason |-> ObservationReason(status)]
    : c \in Observed(declared, reported) }

\* Seeded fault: a declared container without a status is skipped.
Contribution_MissingIsFine(declared, reported, c) ==
  IF c \notin DOMAIN reported THEN "MATCH"
  ELSE LET status == ObservationStatus(declared[c], reported[c])
       IN  IF status = "MISMATCH" THEN "PARTIAL" ELSE status

\* What a declared container contributes to the status of its set.
Contribution(declared, reported, c) ==
  IF c \notin DOMAIN reported THEN "UNKNOWN"
  ELSE LET status == ObservationStatus(declared[c], reported[c])
       IN  IF status = "MISMATCH" THEN "PARTIAL" ELSE status

ContainerSetStatus(declared, reported) ==
  CombineAll({Contribution(declared, reported, c) : c \in DOMAIN declared})

MissingReason(kind) ==
  IF kind = "container" THEN "CONTAINER_MISSING" ELSE "INIT_CONTAINER_MISSING"

UnexpectedReason(kind) ==
  IF kind = "container" THEN "UNEXPECTED_CONTAINER"
                        ELSE "UNEXPECTED_INIT_CONTAINER"

Finding(reason, status, pod, container) ==
  [reason |-> reason, status |-> status, pod |-> pod, container |-> container]

MissingFindings(kind, pod, declared, reported) ==
  { Finding(MissingReason(kind), "UNKNOWN", pod, c)
    : c \in DOMAIN declared \ DOMAIN reported }

\* Seeded fault: the divergence is left to the observation.
DivergenceFindings_ObservationOnly(pod, declared, reported) == {}

DivergenceFindings(pod, declared, reported) ==
  { Finding("DIGEST_MISMATCH", "MISMATCH", pod, c)
    : c \in { d \in Observed(declared, reported) :
                ObservationStatus(declared[d], reported[d]) = "MISMATCH" } }

UnexpectedFindings(kind, pod, declared, reported) ==
  { Finding(UnexpectedReason(kind), "UNKNOWN", pod, c)
    : c \in DOMAIN reported \ DOMAIN declared }

\* With nothing declared the code returns before it looks at the statuses, so
\* an unexpected container is only reported next to a declared one.
ContainerFindings(kind, pod, declared, reported) ==
  IF DOMAIN declared = {} THEN {}
  ELSE MissingFindings(kind, pod, declared, reported)
       \cup DivergenceFindings(pod, declared, reported)
       \cup UnexpectedFindings(kind, pod, declared, reported)

\* The summary counts pods in "observed" but containers in the other fields.
Summary(desired, ready, observations) ==
  LET count(status) == Cardinality({o \in observations : o.status = status})
  IN  [desired   |-> desired,
       observed  |-> Cardinality(ready),
       matching  |-> count("MATCH"),
       divergent |-> count("MISMATCH"),
       unknown   |-> count("UNKNOWN")]
=============================================================================
