---------------------------- MODULE Attestation ----------------------------
(***************************************************************************)
(* The attestation of a match and its offline verification (package        *)
(* internal/attest).  A key pair is one value: its private half signs, its *)
(* public half verifies, and its fingerprint names it.  Ed25519 is         *)
(* external: a signature is the pair of the key and the payload it was     *)
(* made of, and verifies for no other.                                     *)
(*                                                                         *)
(* Namespace, Deployment and workload are one field, and so are the        *)
(* signer's algorithm and fingerprint.  The tool's name and version, the   *)
(* readiness and number of matching pods and the evidence graph are left   *)
(* out: they are signed like the other fields and no check reads them.     *)
(* Lists that the payload sorts by keys without ties are sets; findings    *)
(* are a sequence, because their keys can tie.                             *)
(***************************************************************************)
EXTENDS WorkloadTruth, Gate

Ext == INSTANCE SequencesExt

CONSTANT Keys   \* key pairs

NoSignature == [key |-> None]

ObservedContainers ==
  [container : Containers, pod : PodNames, declared : Images, value : ImageIDs,
   result : Status]

-----------------------------------------------------------------------------
(* The order of findings.  Next to a match there are only pods of old       *)
(* revisions and containers that are not declared; these have one code for  *)
(* both kinds, and the code meets them in the order of a map.               *)

ReasonRank(f) ==
  CASE f.reason = "OLD_REVISION_IGNORED" -> 0
    [] f.reason = "UNEXPECTED_CONTAINER" -> 1
    [] OTHER                             -> 2

CodeRank(f) == IF f.reason = "OLD_REVISION_IGNORED" THEN 0 ELSE 1

SubjectRank(f) == IF f.pod = None THEN 0 ELSE PodRank[f.pod] + 1

\* The sequences a result may list its findings in: by subject and reason.
FindingOrders(findings) ==
  { s \in Ext!SetToSeqs(findings) :
      \A i, j \in DOMAIN s : i < j =>
        \/ SubjectRank(s[i]) < SubjectRank(s[j])
        \/ /\ SubjectRank(s[i]) = SubjectRank(s[j])
           /\ ReasonRank(s[i]) <= ReasonRank(s[j]) }

\* The payload's own sort, by subject and code; ties stay as they were.
SortFindings(s) ==
  LET before(i, j) ==
        LET subjects == <<SubjectRank(s[i]), SubjectRank(s[j])>>
            codes    == <<CodeRank(s[i]), CodeRank(s[j])>>
        IN  \/ subjects[1] < subjects[2]
            \/ subjects[1] = subjects[2] /\ codes[1] < codes[2]
            \/ subjects[1] = subjects[2] /\ codes[1] = codes[2] /\ i < j
      order == Ext!SetToSortSeq(DOMAIN s, before)
  IN  [i \in DOMAIN s |-> s[order[i]]]

-----------------------------------------------------------------------------
(* Creating and signing *)

\* Seeded fault: the signer is not named.
NewAttestation_NoSigner(a, res, order, expected, key) ==
  [schema |-> 1, created |-> TRUE, workload |-> <<a.kind, a.w.name>>,
   revision |-> workloadRevision(a),
   replicas |-> [desired |-> res.summary.desired, observed |-> res.summary.observed],
   expected |-> expected, observed |-> {}, result |-> res.status,
   findings |-> order, signer |-> None, signature |-> NoSignature]

\* created is whether the timestamp has its format; order lists the findings.
NewAttestation(a, res, order, expected, key) ==
  [schema    |-> 1,
   created   |-> TRUE,
   workload  |-> <<a.kind, a.w.name>>,
   revision  |-> workloadRevision(a),
   replicas  |-> [desired  |-> res.summary.desired,
                  observed |-> res.summary.observed],
   expected  |-> expected,
   observed  |-> { [container |-> o.container, pod |-> o.pod, declared |-> o.expected,
                    value |-> o.value, result |-> o.status] : o \in res.observations },
   result    |-> res.status,
   findings  |-> order,
   signer    |-> key,
   signature |-> NoSignature]

\* Seeded fault: the signature field is part of what is signed.
CanonicalPayload_Whole(a) == a

\* Everything but the signature.
CanonicalPayload(a) ==
  [f \in DOMAIN a \ {"signature"} |->
     IF f = "findings" THEN SortFindings(a.findings) ELSE a[f]]

Sign(payload, key) == [key |-> key, payload |-> payload]

SignAttestation(a, key) == [a EXCEPT !.signature = Sign(CanonicalPayload(a), key)]

-----------------------------------------------------------------------------
(* Offline verification *)

\* Seeded fault: the fingerprint is taken for the signature.
SignatureVerified_ByName(a, public) == a.signer = public

SignatureVerified(a, public) ==
  a.signature = Sign(CanonicalPayload(a), public)

\* Of the observations of a container the first one in the file is compared.
FirstObserved(a, c) ==
  LET named == {o \in a.observed : o.container = c}
  IN  CHOOSE o \in named : \A q \in named : PodRank[o.pod] <= PodRank[q.pod]

DigestsVerified(a) ==
  \A c \in DOMAIN a.expected :
    /\ \E o \in a.observed : o.container = c
    /\ DigestOf(FirstObserved(a, c).value) = a.expected[c]

\* The checks that fail end the verification early or are collected; either way
\* the file is valid only if all of them pass.
VerifyAttestation(a, public) ==
  /\ a.schema = 1
  /\ a.signer = public
  /\ a.signature # NoSignature
  /\ SignatureVerified(a, public)
  /\ a.result = "MATCH"
  /\ a.workload # <<>>
  /\ a.observed # {}
  /\ DigestsVerified(a)
  /\ a.created
  /\ \A o \in a.observed : o.result = "MATCH"
=============================================================================
