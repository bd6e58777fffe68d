-------------------------- MODULE AttestationFiles --------------------------
(***************************************************************************)
(* Runs of keygen, attest and verify-attestation that share three files:   *)
(* the private key, the public key and the attestation.  Each command      *)
(* reads and writes them one after the other, and nothing locks them.      *)
(*                                                                         *)
(* A write opens the file, which empties it, and then fills it             *)
(* (os.WriteFile).  A run may be killed at any point, and any open, write  *)
(* or read may fail.  Someone may edit an attestation once it is written.  *)
(*                                                                         *)
(* What attest reads of the cluster is one value here: module              *)
(* VerifyCommand has the single reads.                                     *)
(***************************************************************************)
EXTENDS Attestation

CONSTANTS
  Runs,       \* runs of commands
  CommandOf,  \* the command of each run
  Answers,    \* what a verification may read: see WorkloadTruth
  FlagLists   \* the --expected-digest lists attest may be given

Commands == {"keygen", "attest", "verify-attestation"}

\* The key pair that a run of keygen draws is new, and is named by the run.
ASSUME RunsAssumption ==
  /\ CommandOf \in [Runs -> Commands]
  /\ Keys = {r \in Runs : CommandOf[r] = "keygen"}
  /\ \A l \in FlagLists : l \in Seq(FlagValues)

\* The API server accepts no pod template without a container, and none that gives
\* two of its containers one name.
ASSUME AnswersAssumption ==
  \A a \in Answers :
    /\ IsAnswer(a)
    /\ DOMAIN a.w.template["container"] # {}
    /\ DOMAIN a.w.template["container"] \cap DOMAIN a.w.template["init-container"] = {}

VARIABLES
  private,      \* the private key file
  public,       \* the public key file
  attestation,  \* the attestation file
  pc,           \* the next step of each run
  key,          \* the key pair, or the half of it, that a run holds
  doc,          \* the attestation that a run has made or read
  exit,         \* the exit code of each run
  issued        \* history: the attestations that were signed

files == <<private, public, attestation>>
vars == <<files, pc, key, doc, exit, issued>>

Absent == "absent"   \* the file does not exist
Torn   == "torn"     \* it was emptied, or holds no complete content

NoDoc   == [schema |-> Absent]
TornDoc == [schema |-> Torn]
Documents == {NoDoc, TornDoc}

NoKey  == "no key"

-----------------------------------------------------------------------------

Init ==
  /\ private = Absent
  /\ public = Absent
  /\ attestation = NoDoc
  /\ pc = [r \in Runs |-> "start"]
  /\ key = [r \in Runs |-> NoKey]
  /\ doc = [r \in Runs |-> NoDoc]
  /\ exit = [r \in Runs |-> NoExit]
  /\ issued = {}

At(r, command, step) == CommandOf[r] = command /\ pc[r] = step

Goto(r, step) ==
  /\ pc' = [pc EXCEPT ![r] = step]
  /\ UNCHANGED exit

End(r, code) ==
  /\ pc' = [pc EXCEPT ![r] = "done"]
  /\ exit' = [exit EXCEPT ![r] = code]

-----------------------------------------------------------------------------
(* keygen: the private key first, then the public key *)

GenerateKeyPair(r) ==
  /\ At(r, "keygen", "start")
  /\ key' = [key EXCEPT ![r] = r]
  /\ Goto(r, "openPrivate")
  /\ UNCHANGED <<files, doc, issued>>

OpenPrivateKey(r) ==
  /\ At(r, "keygen", "openPrivate")
  /\ private' = Torn
  /\ Goto(r, "writePrivate")
  /\ UNCHANGED <<public, attestation, key, doc, issued>>

WritePrivateKey(r) ==
  /\ At(r, "keygen", "writePrivate")
  /\ private' = key[r]
  /\ Goto(r, "openPublic")
  /\ UNCHANGED <<public, attestation, key, doc, issued>>

OpenPublicKey(r) ==
  /\ At(r, "keygen", "openPublic")
  /\ public' = Torn
  /\ Goto(r, "writePublic")
  /\ UNCHANGED <<private, attestation, key, doc, issued>>

WritePublicKey(r) ==
  /\ At(r, "keygen", "writePublic")
  /\ public' = key[r]
  /\ End(r, 0)
  /\ UNCHANGED <<private, attestation, key, doc, issued>>

-----------------------------------------------------------------------------
(* attest: the key is read, the workload verified, the match signed *)

\* Seeded fault: the output file is opened before there is anything to write.
ReadPrivateKey_OpenOutput(r) ==
  /\ At(r, "attest", "start")
  /\ private \in Keys
  /\ key' = [key EXCEPT ![r] = private]
  /\ attestation' = TornDoc
  /\ Goto(r, "verify")
  /\ UNCHANGED <<private, public, doc, issued>>

ReadPrivateKey(r) ==
  /\ At(r, "attest", "start")
  /\ private \in Keys
  /\ key' = [key EXCEPT ![r] = private]
  /\ Goto(r, "verify")
  /\ UNCHANGED <<files, doc, issued>>

ReadPrivateKeyFails(r) ==
  /\ At(r, "attest", "start")
  /\ private \notin Keys
  /\ End(r, OperationalError)
  /\ UNCHANGED <<files, key, doc, issued>>

Result(answer, expected) ==
  ApplyExpectedDigests(verifyWorkload(answer), expected)

\* Any verdict but a match is refused, with exit code 2.
Refuse(r, answer, expected) ==
  /\ At(r, "attest", "verify")
  /\ Result(answer, expected).status # "MATCH"
  /\ End(r, 2)
  /\ UNCHANGED <<files, key, doc, issued>>

Attest(r, answer, expected) ==
  /\ At(r, "attest", "verify")
  /\ Result(answer, expected).status = "MATCH"
  /\ \E order \in FindingOrders(Result(answer, expected).findings) :
       LET made == NewAttestation(answer, Result(answer, expected), order, expected, key[r])
       IN  doc' = [doc EXCEPT ![r] = SignAttestation(made, key[r])]
  /\ issued' = issued \cup {doc'[r]}
  /\ Goto(r, "openOutput")
  /\ UNCHANGED <<files, key>>

OpenOutput(r) ==
  /\ At(r, "attest", "openOutput")
  /\ attestation' = TornDoc
  /\ Goto(r, "writeOutput")
  /\ UNCHANGED <<private, public, key, doc, issued>>

\* If another run has filled the file since it was opened, the end of a longer
\* content stays behind a shorter one.  (The contents of key files are all of
\* one length.)
WriteOutput(r) ==
  /\ At(r, "attest", "writeOutput")
  /\ \/ attestation' = doc[r]
     \/ attestation \notin {TornDoc, doc[r]} /\ attestation' = TornDoc
  /\ End(r, 0)
  /\ UNCHANGED <<private, public, key, doc, issued>>

-----------------------------------------------------------------------------
(* verify-attestation: the attestation is read, then the public key *)

ReadAttestation(r) ==
  /\ At(r, "verify-attestation", "start")
  /\ attestation \notin Documents
  /\ doc' = [doc EXCEPT ![r] = attestation]
  /\ Goto(r, "readPublic")
  /\ UNCHANGED <<files, key, issued>>

ReadAttestationFails(r) ==
  /\ At(r, "verify-attestation", "start")
  /\ attestation \in Documents
  /\ End(r, OperationalError)
  /\ UNCHANGED <<files, key, doc, issued>>

Verify(r) ==
  /\ At(r, "verify-attestation", "readPublic")
  /\ public \in Keys
  /\ key' = [key EXCEPT ![r] = public]
  /\ End(r, IF VerifyAttestation(doc[r], public) THEN 0 ELSE 2)
  /\ UNCHANGED <<files, doc, issued>>

ReadPublicKeyFails(r) ==
  /\ At(r, "verify-attestation", "readPublic")
  /\ public \notin Keys
  /\ End(r, OperationalError)
  /\ UNCHANGED <<files, key, doc, issued>>

-----------------------------------------------------------------------------
(* Failures, and what happens to the file outside of the program *)

\* Seeded fault: an error of the last write is dropped.
Fail_PublicIgnored(r) ==
  /\ pc[r] # "done"
  /\ End(r, IF pc[r] = "writePublic" THEN 0 ELSE OperationalError)
  /\ UNCHANGED <<files, key, doc, issued>>

\* An open, a write, or any of the reads of the cluster fails, or the run is killed:
\* it goes no further, and does not end with a verdict.
Fail(r) ==
  /\ pc[r] # "done"
  /\ End(r, OperationalError)
  /\ UNCHANGED <<files, key, doc, issued>>

Edits(a) ==
  { [a EXCEPT !.schema = 2], [a EXCEPT !.signature = NoSignature],
    [a EXCEPT !.result = "PARTIAL"], [a EXCEPT !.observed = {}],
    [a EXCEPT !.replicas.desired = 0],
    [a EXCEPT !.expected = [c \in Containers |-> CHOOSE d \in Digests : TRUE]] }
  \cup {[a EXCEPT !.signer = k] : k \in Keys}

\* One edit of an attestation as it was issued.
Edit ==
  /\ attestation \in issued
  /\ attestation' \in Edits(attestation)
  /\ UNCHANGED <<private, public, pc, key, doc, exit, issued>>

Keygen(r) ==
  \/ GenerateKeyPair(r)
  \/ OpenPrivateKey(r)
  \/ WritePrivateKey(r)
  \/ OpenPublicKey(r)
  \/ WritePublicKey(r)

AttestRun(r) ==
  \/ ReadPrivateKey(r)
  \/ ReadPrivateKeyFails(r)
  \/ \E answer \in Answers, flags \in FlagLists :
       /\ Accepted(flags)
       /\ \/ Refuse(r, answer, ParseExpectedDigests(flags))
          \/ Attest(r, answer, ParseExpectedDigests(flags))
  \/ OpenOutput(r)
  \/ WriteOutput(r)

VerifyRun(r) ==
  \/ ReadAttestation(r)
  \/ ReadAttestationFails(r)
  \/ Verify(r)
  \/ ReadPublicKeyFails(r)

Next ==
  \/ \E r \in Runs : Keygen(r) \/ AttestRun(r) \/ VerifyRun(r) \/ Fail(r)
  \/ Edit

Spec == Init /\ [][Next]_vars

-----------------------------------------------------------------------------
(* Properties *)

ListedFindings == UNION {FindingOrders(verifyWorkload(a).findings) : a \in Answers}
NamedRevisions == {workloadRevision(a) : a \in Answers}

Attestations ==
  [schema : {1, 2}, created : BOOLEAN,
   workload : {<<>>} \cup {<<a.kind, a.w.name>> : a \in Answers},
   revision : NamedRevisions,
   replicas : [desired : Nat, observed : Nat],
   expected : UNION {[names -> Digests] : names \in SUBSET Containers},
   observed : SUBSET ObservedContainers, result : Verdicts, signer : Keys,
   findings : ListedFindings,
   signature : {NoSignature} \cup {a.signature : a \in issued}]

TypeOK ==
  /\ private \in Keys \cup {Absent, Torn}
  /\ public \in Keys \cup {Absent, Torn}
  /\ attestation \in Attestations \cup {NoDoc, TornDoc}
  /\ key \in [Runs -> Keys \cup {NoKey}]
  /\ doc \in [Runs -> Attestations \cup {NoDoc}]
  /\ exit \in [Runs -> {0, OperationalError, 2, NoExit}]
  /\ DOMAIN pc = Runs
  /\ \A r \in Runs : pc[r] = "done" <=> exit[r] # NoExit

\* The runs of verify-attestation that found their file valid.
Accepting == {r \in Runs : CommandOf[r] = "verify-attestation" /\ exit[r] = 0}

\* A valid file is, field by field, one that attest signed with the partner of the
\* public key at hand, whatever was edited, torn, overwritten or half replaced in
\* between.
ValidMeansIssued ==
  \A r \in Accepting : doc[r] \in issued /\ doc[r].signature.key = key[r]

\* A valid file carries the proof of its match: at least as many pods as it says
\* were desired, each container running the digest it was declared with, and each
\* expected container, in every one of the pods, the digest expected of it.
ValidCarriesProof ==
  \A r \in Accepting :
    LET a    == doc[r]
        seen == {o.pod : o \in a.observed}
    IN  /\ Cardinality(seen) >= a.replicas.desired
        /\ \A o \in a.observed : o.declared \in Digests /\ o.value = o.declared
        /\ \A c \in DOMAIN a.expected, p \in seen :
             \E o \in a.observed : o.pod = p /\ o.container = c /\ o.value = a.expected[c]

\* A file as it was issued, and the public key of its signer, are always valid.
IssuedIsValid ==
  \A r \in Runs :
    ( /\ CommandOf[r] = "verify-attestation"
      /\ exit[r] \in {0, 2}
      /\ doc[r] \in issued
      /\ key[r] = doc[r].signature.key ) => exit[r] = 0

\* A run that is refused, or fails before it has signed, leaves an earlier
\* attestation as it was: the file is touched only by a run that holds a signed one.
OnlySignedRunsTouchTheFile ==
  [][ \A r \in Runs :
        (CommandOf[r] = "attest" /\ pc'[r] # pc[r] /\ attestation' # attestation)
          => doc[r] \in issued ]_vars

\* A keygen that says it succeeded has left two halves of one pair, unless another
\* run of keygen interfered.
KeygenLeavesAPair ==
  \A r \in Keys :
    (exit[r] = 0 /\ \A q \in Keys \ {r} : pc[q] = "start")
      => private = r /\ public = r

-----------------------------------------------------------------------------
(* What the documentation says and the code does not do *)

SameButForOrder(a, b) ==
  /\ {a.findings[i] : i \in DOMAIN a.findings} = {b.findings[i] : i \in DOMAIN b.findings}
  /\ \A f \in DOMAIN a \ {"findings", "signature"} : a[f] = b[f]

\* internal/attest/canonical.go:31: the same logical attestation always produces the
\* same byte sequence.
SameAttestationSameBytes ==
  \A a, b \in issued : SameButForOrder(a, b) => CanonicalPayload(a) = CanonicalPayload(b)
=============================================================================
