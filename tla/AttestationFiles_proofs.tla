----------------------- MODULE AttestationFiles_proofs -----------------------
(***************************************************************************)
(* Proofs about keygen, attest and verify-attestation for any number of    *)
(* runs, keys, pods, containers, flags and answers of the cluster: a file  *)
(* that is found valid is one that was signed, carries the proof of its    *)
(* match, and is valid for everyone who has the signer's public key.       *)
(***************************************************************************)
EXTENDS AttestationFiles, DeploymentTruth_proofs, TLAPS

\* What attest makes of a match.
Signed(answer, e, order, k) ==
  SignAttestation(NewAttestation(answer, Result(answer, e), order, e, k), k)

\* The attestations that attest can make at all.
Issuable(a) ==
  \E answer \in Answers, flags \in FlagLists, k \in Keys :
    LET e == ParseExpectedDigests(flags)
    IN  /\ Accepted(flags)
        /\ Result(answer, e).status = "MATCH"
        /\ \E order \in FindingOrders(Result(answer, e).findings) :
             a = Signed(answer, e, order, k)

\* Where the content of the attestation file can come from.
FromIssued(d) == d \in issued \/ \E a \in issued : d \in Edits(a)

-----------------------------------------------------------------------------
(* The inductive invariant *)

IssuedOK == \A a \in issued : Issuable(a)

FilesOK ==
  /\ private \in Keys \cup {Absent, Torn}
  /\ public \in Keys \cup {Absent, Torn}
  /\ attestation \in Documents \/ FromIssued(attestation)

RunsOK ==
  /\ pc = [r \in Runs |-> pc[r]]
  /\ key \in [Runs -> Keys \cup {NoKey}]
  /\ doc = [r \in Runs |-> doc[r]]
  /\ exit \in [Runs -> {0, OperationalError, 2, NoExit}]
  /\ \A r \in Runs :
       /\ pc[r] = "done" <=> exit[r] # NoExit
       /\ doc[r] = NoDoc \/ FromIssued(doc[r])

\* A run of attest past its reads holds a key, and past the verdict an attestation.
AttestOK ==
  \A r \in Runs : CommandOf[r] = "attest" =>
    /\ pc[r] \in {"verify", "openOutput", "writeOutput"} => key[r] \in Keys
    /\ pc[r] \in {"openOutput", "writeOutput"} => doc[r] \in issued

\* A run of verify-attestation has its verdict from the file and the key it holds.
VerifyOK ==
  \A r \in Runs : CommandOf[r] = "verify-attestation" =>
    /\ pc[r] = "readPublic" => FromIssued(doc[r])
    /\ exit[r] \in {0, 2} => /\ FromIssued(doc[r])
                             /\ key[r] \in Keys
                             /\ exit[r] = 0 <=> VerifyAttestation(doc[r], key[r])

\* No other run of keygen has started.
Alone(r) == \A q \in Keys \ {r} : pc[q] = "start"

\* A run of keygen writes the key it was started for, and if it is alone it has left
\* one half of it, and in the end both.
PairOf(r) ==
  /\ pc[r] \in {"openPrivate", "writePrivate", "openPublic", "writePublic"} => key[r] = r
  /\ Alone(r) => /\ pc[r] \in {"openPublic", "writePublic"} => private = r
                 /\ exit[r] = 0 => private = r /\ public = r

KeygenOK == \A r \in Keys : PairOf(r)

AInv == IssuedOK /\ FilesOK /\ RunsOK /\ AttestOK /\ VerifyOK /\ KeygenOK

-----------------------------------------------------------------------------
(* The match of a workload *)

\* Whatever the kind of the workload, its observations are those of its counted pods.
LEMMA ObservationsOfCounted ==
  ASSUME NEW a
  PROVE  verifyWorkload(a).observations = ObservedOn(CountedPods(a), a.w.template, a.pods)
<1>1. CASE a.kind = "Deployment"
  <2>1. verifyWorkload(a).observations = Observations(a.w, a.owners, a.pods)
    BY <1>1 DEF verifyWorkload, verifyDeployment
  <2> QED
    BY <1>1, <2>1 DEF CountedPods, Observations, ObservedOn
<1>2. CASE a.kind # "Deployment"
  <2>1. verifyWorkload(a).observations =
          RevisionObservations(a.w, targetRevision(a.w, a.owners, a.pods), a.owners,
                               a.pods)
    BY <1>2 DEF verifyWorkload, verifyRevisions
  <2> QED
    BY <1>2, <2>1 DEF CountedPods, RevisionObservations, ObservedOn
<1> QED
  BY <1>1, <1>2

\* The number of pods that a workload wants.
Desired(a) == IF a.kind = "Deployment" THEN a.w.replicas ELSE desiredPods(a.w)

\* What the API may answer has its types.
LEMMA AnswerTypes ==
  ASSUME NEW a \in Answers
  PROVE  /\ Desired(a) \in Nat
         /\ CountedPods(a) \subseteq PodNames /\ IsFiniteSet(CountedPods(a))
         /\ Cardinality(CountedPods(a)) \in Nat
         /\ \A k \in Kinds : /\ DOMAIN a.w.template[k] \subseteq Containers
                             /\ \A c \in DOMAIN a.w.template[k] : a.w.template[k][c] \in Images
<1>1. IsAnswer(a)
  BY AnswersAssumption
<1>2. a.w.template \in Templates
  BY <1>1 DEF IsAnswer, Workloads
<1>3. ASSUME NEW k \in Kinds
      PROVE  /\ DOMAIN a.w.template[k] \subseteq Containers
             /\ \A c \in DOMAIN a.w.template[k] : a.w.template[k][c] \in Images
  <2>1. a.w.template[k] \in UNION {[names -> Images] : names \in SUBSET Containers}
    BY <1>2 DEF Templates
  <2>2. PICK names \in SUBSET Containers : a.w.template[k] \in [names -> Images]
    BY <2>1
  <2> QED
    BY <2>2
<1>4. Desired(a) \in Nat
  BY <1>1, BoundsAssumption, RevisionAssumption
     DEF IsAnswer, Desired, desiredPods, Workloads, WorkloadKinds
<1>5. DOMAIN a.pods \subseteq PodNames /\ IsFiniteSet(DOMAIN a.pods)
  BY <1>1 DEF IsAnswer
<1>6. CountedPods(a) \in SUBSET DOMAIN a.pods
  BY DEF CountedPods, ReadyPods, CurrentPods, LivePods, Counted, Current, Live
<1>7. IsFiniteSet(CountedPods(a))
  BY <1>5, <1>6, FS_Subset
<1>8. Cardinality(CountedPods(a)) \in Nat
  BY <1>7, FS_CardinalityType
<1> QED
  BY <1>3, <1>4, <1>5, <1>6, <1>7, <1>8

\* A match of a workload of any kind is one of enough pods, with every container of
\* each of them.
LEMMA WorkloadMatch ==
  ASSUME NEW a \in Answers, verifyWorkload(a).status = "MATCH"
  PROVE  /\ CountedPods(a) # {}
         /\ Cardinality(CountedPods(a)) >= Desired(a)
         /\ \A p \in CountedPods(a), k \in Kinds :
              ContainerSetStatus(a.w.template[k], a.pods[p].reports[k]) = "MATCH"
<1> DEFINE R == CountedPods(a)
           first == CountedStatus(a.w, targetRevision(a.w, a.owners, a.pods), a.owners, a.pods)
<1>1. CASE a.kind = "Deployment"
  <2>1. FinalStatus(a.w, a.owners, a.pods) = "MATCH" /\ R = ReadyPods(a.w, a.owners, a.pods)
    BY <1>1 DEF verifyWorkload, verifyDeployment, CountedPods
  <2>2. /\ R # {} /\ AfterReplicas(a.w, a.owners, a.pods) = "MATCH"
        /\ \A p \in R, k \in Kinds : SetStatus(a.w, a.pods, p, k) = "MATCH"
    BY <2>1, FinalStatusMatch
  <2>3. a.w.replicas \in Nat /\ IsFiniteSet(DOMAIN a.pods)
    <3>1. a.w.replicas = Desired(a)
      BY <1>1 DEF Desired
    <3>2. IsFiniteSet(DOMAIN a.pods)
      BY AnswersAssumption DEF IsAnswer
    <3> QED
      BY <3>1, <3>2, AnswerTypes
  <2>4. Cardinality(R) >= a.w.replicas
    BY <2>1, <2>2, <2>3, AfterReplicasMatch
  <2> QED
    BY <1>1, <2>2, <2>4 DEF Desired, SetStatus
<1>2. CASE a.kind # "Deployment"
  <2>1. /\ verifyWorkload(a).status
             = RevisionStatus(a.w, targetRevision(a.w, a.owners, a.pods), a.owners, a.pods)
        /\ R = Counted(targetRevision(a.w, a.owners, a.pods), a.owners, a.pods)
    BY <1>2 DEF verifyWorkload, verifyRevisions, CountedPods
  <2>2. verifyWorkload(a).status = CombineAll({first} \cup StatusesOn(R, a.w.template, a.pods))
    BY <2>1 DEF RevisionStatus, StatusesOn
  <2>3. first \in Verdicts
    BY DEF CountedStatus, PodStatus, Verdicts
  <2> HIDE DEF R
  <2>4. /\ first = "MATCH"
        /\ \A p \in R, k \in Kinds :
             ContainerSetStatus(a.w.template[k], a.pods[p].reports[k]) = "MATCH"
    BY <2>2, <2>3, CombinedPods
  <2>5. R # {} /\ ~(Cardinality(R) < desiredPods(a.w))
    <3> DEFINE t == targetRevision(a.w, a.owners, a.pods)
    <3>1. R # {} /\ ~Short(a.w, t, a.owners, a.pods)
      BY <2>1, <2>4 DEF CountedStatus
    <3>2. PodStatus(t, a.owners, a.pods) = "MATCH"
      BY <2>1, <2>4, <3>1 DEF CountedStatus
    <3> HIDE DEF t
    <3>3. R = Counted(t, a.owners, a.pods)
      BY <2>1 DEF t
    <3> QED
      BY <3>1, <3>2, <3>3 DEF Short
  <2>6. Cardinality(R) \in Nat /\ desiredPods(a.w) \in Nat
    BY <1>2, AnswerTypes DEF Desired, R
  <2> QED
    BY <1>2, <2>4, <2>5, <2>6 DEF Desired, R
<1> QED
  BY <1>1, <1>2

\* After the gate, a match is one of the workload, and of each expected digest in each
\* of its pods; the gate then has added nothing but reasons.
LEMMA ResultMatch ==
  ASSUME NEW a \in Answers, NEW e, \A c \in DOMAIN e : e[c] \in Digests,
         Result(a, e).status = "MATCH"
  PROVE  /\ verifyWorkload(a).status = "MATCH"
         /\ Result(a, e).summary = verifyWorkload(a).summary
         /\ Result(a, e).findings = verifyWorkload(a).findings
         /\ \A p \in CountedPods(a), c \in DOMAIN e :
              /\ c \in DOMAIN a.w.template["container"]
              /\ c \in DOMAIN a.pods[p].reports["container"]
              /\ a.pods[p].reports["container"][c] = e[c]
<1> DEFINE v == verifyWorkload(a)
<1>1. v = [status |-> v.status, observations |-> v.observations, findings |-> v.findings,
           summary |-> v.summary]
      \/ v = [status |-> v.status, observations |-> v.observations, findings |-> v.findings,
              summary |-> v.summary, revision |-> v.revision]
  BY DEF verifyWorkload, verifyDeployment, verifyRevisions
<1>2. v.observations = ObservedOn(CountedPods(a), a.w.template, a.pods)
  BY ObservationsOfCounted
<1> HIDE DEF v
<1>3. CASE DOMAIN e = {}
  BY <1>3 DEF Result, ApplyExpectedDigests, v
<1>4. CASE DOMAIN e # {}
  <2>1. Result(a, e) =
          [v EXCEPT
             !.status = GatedStatus(v, e),
             !.observations =
                {[o EXCEPT !.reason = GatedReason(o, v, e)] : o \in v.observations},
             !.findings =
                v.findings
                \cup { Finding("EXPECTED_DIGEST_MISMATCH", "MISMATCH", o.pod, o.container)
                       : o \in Contradicted(v, e) }
                \cup { Finding("EXPECTED_CONTAINER_MISSING", "MISMATCH", None, c)
                       : c \in NeverSeen(v, e) }]
    BY <1>4 DEF Result, ApplyExpectedDigests, v
  <2>2. GatedStatus(v, e) = "MATCH"
    BY <1>1, <2>1
  <2>3. /\ v.status = "MATCH"
        /\ Contradicted(v, e) = {} /\ NeverSeen(v, e) = {}
    BY <2>2 DEF GatedStatus
  <2>4. Result(a, e).summary = v.summary /\ Result(a, e).findings = v.findings
    BY <1>1, <2>1, <2>3
  <2>5. /\ CountedPods(a) # {}
        /\ \A p \in CountedPods(a) :
             ContainerSetStatus(a.w.template["container"], a.pods[p].reports["container"])
               = "MATCH"
    BY <2>3, WorkloadMatch DEF v, Kinds
  <2>6. \A p \in CountedPods(a) : \A c \in DOMAIN e :
              /\ c \in DOMAIN a.w.template["container"]
              /\ c \in DOMAIN a.pods[p].reports["container"]
              /\ a.pods[p].reports["container"][c] = e[c]
    BY <1>2, <2>2, <2>3, <2>5, GatePasses
  <2> QED
    BY <2>3, <2>4, <2>6 DEF v
<1> QED
  BY <1>3, <1>4

-----------------------------------------------------------------------------
(* The attestation of a match *)

\* How the attestation lists a container that runs the digest it was declared with.
Entry(p, c, digest) ==
  [container |-> c, pod |-> p, declared |-> digest, value |-> digest, result |-> "MATCH"]

\* A match lists each declared container of each counted pod, and nothing else.
LEMMA EntriesOfMatch ==
  ASSUME NEW a \in Answers, NEW e, \A c \in DOMAIN e : e[c] \in Digests,
         Result(a, e).status = "MATCH", NEW order, NEW k
  PROVE  /\ \A o \in NewAttestation(a, Result(a, e), order, e, k).observed :
              \E p \in CountedPods(a), q \in Kinds : \E c \in DOMAIN a.w.template[q] :
                o = Entry(p, c, a.w.template[q][c])
         /\ \A p \in CountedPods(a), q \in Kinds : \A c \in DOMAIN a.w.template[q] :
              /\ a.w.template[q][c] \in Digests
              /\ a.pods[p].reports[q][c] = a.w.template[q][c]
              /\ Entry(p, c, a.w.template[q][c])
                   \in NewAttestation(a, Result(a, e), order, e, k).observed
<1> DEFINE v == verifyWorkload(a)
           made == NewAttestation(a, Result(a, e), order, e, k)
           T == a.w.template
           rep(p, q) == a.pods[p].reports[q]
           listed(o) == [container |-> o.container, pod |-> o.pod, declared |-> o.expected,
                         value |-> o.value, result |-> o.status]
<1>1. \A p \in CountedPods(a), q \in Kinds : \A c \in DOMAIN T[q] :
        c \in DOMAIN rep(p, q) /\ T[q][c] \in Digests /\ rep(p, q)[c] = T[q][c]
  BY ResultMatch, WorkloadMatch, ContainerSetMatch
<1>2. made.observed = {listed(o) : o \in Result(a, e).observations}
  BY DEF NewAttestation
<1>3. ASSUME NEW o, o \in v.observations
      PROVE  /\ \E p \in CountedPods(a), q \in Kinds : \E c \in DOMAIN T[q] :
                  listed(o) = Entry(p, c, T[q][c])
             /\ o = [kind |-> o.kind, pod |-> o.pod, container |-> o.container,
                     expected |-> o.expected, value |-> o.value, status |-> o.status,
                     reason |-> o.reason]
  <2>1. PICK p \in CountedPods(a), q \in Kinds : o \in ObservationsOf(q, p, T[q], rep(p, q))
    <3>1. o \in ObservedOn(CountedPods(a), T, a.pods)
      BY <1>3, ObservationsOfCounted
    <3>2. \E p \in CountedPods(a), q \in Kinds :
            o \in ObservationsOf(q, p, T[q], a.pods[p].reports[q])
      <4> HIDE DEF T, v, made, listed
      <4> QED
        BY <3>1, ObservedOnPod
    <3> QED
      BY <3>2
  <2>2. PICK c \in DOMAIN T[q] \cap DOMAIN rep(p, q) :
          o = LET status == ObservationStatus(T[q][c], rep(p, q)[c])
              IN  [kind |-> q, pod |-> p, container |-> c, expected |-> T[q][c],
                   value |-> rep(p, q)[c], status |-> status,
                   reason |-> ObservationReason(status)]
    BY <2>1 DEF ObservationsOf, Observed
  <2>3. ObservationStatus(T[q][c], rep(p, q)[c]) = "MATCH" /\ rep(p, q)[c] = T[q][c]
    BY <1>1, ObservationMatch
  <2>4. listed(o) = Entry(p, c, T[q][c])
    BY <2>2, <2>3 DEF Entry
  <2> QED
    BY <2>2, <2>4
<1>4. made.observed = {listed(o) : o \in v.observations}
  <2>1. CASE DOMAIN e = {}
    BY <1>2, <2>1 DEF Result, ApplyExpectedDigests
  <2>2. CASE DOMAIN e # {}
    <3> DEFINE gated(o) == [o EXCEPT !.reason = GatedReason(o, v, e)]
    <3>1. Result(a, e).observations = {gated(o) : o \in v.observations}
      BY <2>2 DEF Result, ApplyExpectedDigests, verifyWorkload, verifyDeployment,
                  verifyRevisions
    <3>2. \A o \in v.observations : listed(gated(o)) = listed(o)
      BY <1>3
    <3> HIDE DEF listed, gated, v, made
    <3>3. made.observed = {listed(gated(o)) : o \in v.observations}
      BY <1>2, <3>1
    <3> QED
      BY <3>2, <3>3
  <2> QED
    BY <2>1, <2>2
<1>5. ASSUME NEW p \in CountedPods(a), NEW q \in Kinds, NEW c \in DOMAIN T[q]
      PROVE  Entry(p, c, T[q][c]) \in made.observed
  <2>1. c \in DOMAIN rep(p, q) /\ T[q][c] \in Digests /\ rep(p, q)[c] = T[q][c]
    BY <1>1
  <2>2. ObservationStatus(T[q][c], rep(p, q)[c]) = "MATCH"
    BY <2>1, ObservationMatch
  <2> DEFINE o == [kind |-> q, pod |-> p, container |-> c, expected |-> T[q][c],
                   value |-> rep(p, q)[c], status |-> "MATCH",
                   reason |-> ObservationReason("MATCH")]
  <2>3. o \in ObservationsOf(q, p, T[q], rep(p, q))
    BY <2>1, <2>2 DEF ObservationsOf, Observed
  <2>4. listed(o) = Entry(p, c, T[q][c])
    BY <2>1 DEF Entry
  <2> HIDE DEF o
  <2>5. o \in v.observations
    <3>1. o \in ObservedOn(CountedPods(a), T, a.pods)
      <4> HIDE DEF T, v, made, listed
      <4> QED
        BY <2>3, ObservedOnPod
    <3> QED
      BY <3>1, ObservationsOfCounted
  <2> HIDE DEF listed, v, made
  <2> QED
    BY <1>4, <2>4, <2>5
<1>6. ASSUME NEW o \in made.observed
      PROVE  \E p \in CountedPods(a), q \in Kinds : \E c \in DOMAIN T[q] :
               o = Entry(p, c, T[q][c])
  <2> HIDE DEF listed, v, made
  <2> QED
    BY <1>3, <1>4, <1>6
<1> HIDE DEF made
<1>7. /\ \A o \in made.observed :
            \E p \in CountedPods(a), q \in Kinds : \E c \in DOMAIN T[q] :
              o = Entry(p, c, T[q][c])
      /\ \A p \in CountedPods(a), q \in Kinds : \A c \in DOMAIN T[q] :
           /\ T[q][c] \in Digests
           /\ rep(p, q)[c] = T[q][c]
           /\ Entry(p, c, T[q][c]) \in made.observed
  BY <1>1, <1>5, <1>6
<1> QED
  BY <1>7 DEF made

\* What attest signs, field by field, and that its signature is not part of what it
\* signs.
LEMMA SignedFields ==
  ASSUME NEW answer, NEW e, NEW order, NEW k
  PROVE  LET made == NewAttestation(answer, Result(answer, e), order, e, k)
             a    == Signed(answer, e, order, k)
         IN  /\ a = [schema |-> 1, created |-> TRUE, workload |-> <<answer.kind, answer.w.name>>,
                     revision |-> workloadRevision(answer),
                     replicas |-> [desired |-> Result(answer, e).summary.desired,
                                   observed |-> Result(answer, e).summary.observed],
                     expected |-> e, observed |-> made.observed,
                     result |-> Result(answer, e).status, findings |-> order, signer |-> k,
                     signature |-> Sign(CanonicalPayload(made), k)]
             /\ a.signature = Sign(CanonicalPayload(a), k)
<1> DEFINE made == NewAttestation(answer, Result(answer, e), order, e, k)
           a == Signed(answer, e, order, k)
           seen == made.observed
           sign == Sign(CanonicalPayload(made), k)
<1>1. made = [schema |-> 1, created |-> TRUE, workload |-> <<answer.kind, answer.w.name>>,
              revision |-> workloadRevision(answer),
              replicas |-> [desired |-> Result(answer, e).summary.desired,
                            observed |-> Result(answer, e).summary.observed],
              expected |-> e, observed |-> seen, result |-> Result(answer, e).status,
              findings |-> order, signer |-> k, signature |-> NoSignature]
  BY DEF NewAttestation
<1>2. a = [made EXCEPT !.signature = sign]
  BY DEF Signed, SignAttestation
<1> HIDE DEF made, a, seen, sign
<1>3. a = [schema |-> 1, created |-> TRUE, workload |-> <<answer.kind, answer.w.name>>,
           revision |-> workloadRevision(answer),
           replicas |-> [desired |-> Result(answer, e).summary.desired,
                         observed |-> Result(answer, e).summary.observed],
           expected |-> e, observed |-> seen, result |-> Result(answer, e).status,
           findings |-> order, signer |-> k, signature |-> sign]
  BY <1>1, <1>2
<1>4. CanonicalPayload(a) = CanonicalPayload(made)
  <2>1. DOMAIN a = DOMAIN made
    BY <1>2
  <2>2. \A f \in DOMAIN made \ {"signature"} : a[f] = made[f]
    BY <1>2
  <2>3. a.findings = made.findings
    BY <1>1, <1>2
  <2> QED
    BY <2>1, <2>2, <2>3 DEF CanonicalPayload
<1>5. a.signature = Sign(CanonicalPayload(a), k)
  BY <1>3, <1>4 DEF sign
<1> QED
  BY <1>3, <1>5 DEF made, a, seen, sign

\* The expected digests of accepted flags are digests of containers.
LEMMA ExpectedTypes ==
  ASSUME NEW flags \in FlagLists, Accepted(flags)
  PROVE  LET e == ParseExpectedDigests(flags)
         IN  /\ DOMAIN e \subseteq Containers /\ e \in [DOMAIN e -> Digests]
             /\ \A c \in DOMAIN e : e[c] \in Digests
<1> DEFINE e == ParseExpectedDigests(flags)
<1>1. DOMAIN e \subseteq Containers /\ e \in [DOMAIN e -> Digests]
  BY RunsAssumption, ParsedDigests
<1> HIDE DEF e
<1>2. \A c \in DOMAIN e : e[c] \in Digests
  BY <1>1
<1> QED
  BY <1>1, <1>2 DEF e

\* The numbers of pods that an attestation names.
LEMMA SummaryOfAnswer ==
  ASSUME NEW a
  PROVE  /\ verifyWorkload(a).summary.desired = Desired(a)
         /\ verifyWorkload(a).summary.observed = Cardinality(CountedPods(a))
BY DEF verifyWorkload, verifyDeployment, verifyRevisions, Summary, Desired, CountedPods

\* What an attestation says about the workload it was made of: the pods that count,
\* and what they ran.
Attests(a, answer) ==
  LET T == answer.w.template
      R == CountedPods(answer)
  IN  /\ DOMAIN a.expected \subseteq Containers
      /\ a.expected \in [DOMAIN a.expected -> Digests]
      /\ \A o \in a.observed : \E p \in R, q \in Kinds : \E c \in DOMAIN T[q] :
           o = Entry(p, c, T[q][c]) /\ T[q][c] \in Digests
      /\ \A p \in R, q \in Kinds : \A c \in DOMAIN T[q] :
           Entry(p, c, T[q][c]) \in a.observed
      /\ \A c \in DOMAIN a.expected : c \in DOMAIN T["container"]
                                      /\ T["container"][c] = a.expected[c]
      /\ a.replicas = [desired |-> Desired(answer), observed |-> Cardinality(R)]
      /\ R # {} /\ Cardinality(R) >= Desired(answer)

\* Everything attest issues says so of an answer of the API.
LEMMA IssuedFromMatch ==
  ASSUME NEW a, Issuable(a)
  PROVE  \E answer \in Answers : Attests(a, answer)
<1>1. PICK answer \in Answers, flags \in FlagLists, k \in Keys :
        /\ Accepted(flags)
        /\ Result(answer, ParseExpectedDigests(flags)).status = "MATCH"
        /\ \E order \in FindingOrders(Result(answer, ParseExpectedDigests(flags)).findings) :
             a = Signed(answer, ParseExpectedDigests(flags), order, k)
  BY DEF Issuable
<1>2. PICK e : e = ParseExpectedDigests(flags)
  OBVIOUS
<1>3. PICK order : a = Signed(answer, e, order, k)
  BY <1>1, <1>2
<1> DEFINE T == answer.w.template
           R == CountedPods(answer)
           made == NewAttestation(answer, Result(answer, e), order, e, k)
<1>4. /\ DOMAIN e \subseteq Containers /\ e \in [DOMAIN e -> Digests]
      /\ \A c \in DOMAIN e : e[c] \in Digests
  BY <1>1, <1>2, ExpectedTypes
<1>5. Result(answer, e).status = "MATCH"
  BY <1>1, <1>2
<1>6. /\ a.expected = e /\ a.observed = made.observed
      /\ a.replicas = [desired |-> Result(answer, e).summary.desired,
                       observed |-> Result(answer, e).summary.observed]
  BY <1>3, SignedFields
<1>7. /\ verifyWorkload(answer).status = "MATCH"
      /\ Result(answer, e).summary = verifyWorkload(answer).summary
      /\ \A p \in R, c \in DOMAIN e :
           c \in DOMAIN T["container"] /\ answer.pods[p].reports["container"][c] = e[c]
  BY <1>4, <1>5, ResultMatch
<1>8. R # {} /\ Cardinality(R) >= Desired(answer)
  BY <1>7, WorkloadMatch
<1>9. /\ \A o \in made.observed :
           \E p \in R, q \in Kinds : \E c \in DOMAIN T[q] : o = Entry(p, c, T[q][c])
      /\ \A p \in R, q \in Kinds : \A c \in DOMAIN T[q] :
           /\ T[q][c] \in Digests
           /\ answer.pods[p].reports[q][c] = T[q][c]
           /\ Entry(p, c, T[q][c]) \in made.observed
  BY <1>4, <1>5, EntriesOfMatch
<1>10. a.replicas = [desired |-> Desired(answer), observed |-> Cardinality(R)]
  BY <1>6, <1>7, SummaryOfAnswer
<1> HIDE DEF T, R, made
<1>11. \A c \in DOMAIN e : c \in DOMAIN T["container"] /\ T["container"][c] = e[c]
  <2>1. "container" \in Kinds
    BY DEF Kinds
  <2> QED
    BY <1>7, <1>8, <1>9, <2>1
<1>12. /\ DOMAIN a.expected \subseteq Containers
       /\ a.expected \in [DOMAIN a.expected -> Digests]
       /\ \A o \in a.observed : \E p \in R, q \in Kinds : \E c \in DOMAIN T[q] :
            o = Entry(p, c, T[q][c]) /\ T[q][c] \in Digests
       /\ \A p \in R, q \in Kinds : \A c \in DOMAIN T[q] :
            Entry(p, c, T[q][c]) \in a.observed
       /\ \A c \in DOMAIN a.expected : c \in DOMAIN T["container"]
                                       /\ T["container"][c] = a.expected[c]
  BY <1>4, <1>6, <1>9, <1>11
<1> QED
  BY <1>8, <1>10, <1>12 DEF Attests, T, R

\* The file as it was issued carries the proof of the match.
CarriesProof(a) ==
  LET seen == {o.pod : o \in a.observed}
  IN  /\ Cardinality(seen) >= a.replicas.desired
      /\ \A o \in a.observed : o.declared \in Digests /\ o.value = o.declared
      /\ \A c \in DOMAIN a.expected, p \in seen :
           \E o \in a.observed : o.pod = p /\ o.container = c /\ o.value = a.expected[c]

\* As every pod has a container, the pods of an attestation are those that count.
LEMMA IssuedCarriesProof ==
  ASSUME NEW a, Issuable(a)
  PROVE  CarriesProof(a)
<1>1. PICK answer \in Answers : Attests(a, answer)
  BY IssuedFromMatch
<1> DEFINE T == answer.w.template
           R == CountedPods(answer)
           seen == {o.pod : o \in a.observed}
<1>2. "container" \in Kinds /\ DOMAIN T["container"] # {}
  BY AnswersAssumption DEF Kinds
<1>3. \A p, c, d : /\ Entry(p, c, d).pod = p /\ Entry(p, c, d).container = c
                   /\ Entry(p, c, d).declared = d /\ Entry(p, c, d).value = d
  BY DEF Entry
<1> HIDE DEF T, R
<1>4. /\ \A o \in a.observed : \E p \in R, q \in Kinds : \E c \in DOMAIN T[q] :
           o = Entry(p, c, T[q][c]) /\ T[q][c] \in Digests
      /\ \A p \in R, q \in Kinds : \A c \in DOMAIN T[q] :
           Entry(p, c, T[q][c]) \in a.observed
      /\ \A c \in DOMAIN a.expected : c \in DOMAIN T["container"]
                                      /\ T["container"][c] = a.expected[c]
  BY <1>1 DEF Attests, T, R
<1>5. seen = R
  <2>1. \A o \in a.observed : o.pod \in R
    BY <1>3, <1>4
  <2>2. ASSUME NEW p \in R
        PROVE  p \in seen
    <3>1. PICK c \in DOMAIN T["container"] : TRUE
      BY <1>2
    <3>2. Entry(p, c, T["container"][c]) \in a.observed
      BY <1>2, <1>4
    <3> QED
      BY <1>3, <3>2
  <2> QED
    BY <2>1, <2>2
<1>6. Cardinality(seen) >= a.replicas.desired
  <2>1. a.replicas.desired = Desired(answer)
    BY <1>1 DEF Attests
  <2>2. Cardinality(R) >= Desired(answer)
    BY <1>1 DEF Attests, R
  <2> QED
    BY <1>5, <2>1, <2>2
<1>7. \A o \in a.observed : o.declared \in Digests /\ o.value = o.declared
  BY <1>3, <1>4
<1>8. ASSUME NEW c \in DOMAIN a.expected, NEW p \in seen
      PROVE  \E o \in a.observed : o.pod = p /\ o.container = c /\ o.value = a.expected[c]
  <2>1. Entry(p, c, T["container"][c]) \in a.observed /\ T["container"][c] = a.expected[c]
    BY <1>2, <1>4, <1>5
  <2> QED
    BY <1>3, <2>1
<1> QED
  BY <1>6, <1>7, <1>8 DEF CarriesProof

\* Of the observations of a container one comes first.
LEMMA FirstExists ==
  ASSUME NEW named, named # {}, \A o \in named : o.pod \in PodNames
  PROVE  \E o \in named : \A q \in named : PodRank[o.pod] <= PodRank[q.pod]
<1> DEFINE ranks == {PodRank[o.pod] : o \in named}
<1>1. \A o \in named : PodRank[o.pod] \in Nat
  BY RevisionAssumption
<1>2. ranks \subseteq Nat /\ ranks # {}
  BY <1>1
<1>3. PICK k \in ranks : \A i \in ranks : ~(<<i, k>> \in OpToRel(<, Nat))
  BY <1>2, NatLessThanWellFounded, WFMin
<1>4. \A i \in ranks : ~(i < k)
  BY <1>2, <1>3 DEF OpToRel
<1>5. PICK o \in named : k = PodRank[o.pod]
  BY <1>3
<1>6. ASSUME NEW q \in named
      PROVE  PodRank[o.pod] <= PodRank[q.pod]
  <2>1. PodRank[q.pod] \in ranks
    OBVIOUS
  <2>2. ~(PodRank[q.pod] < PodRank[o.pod])
    BY <1>4, <1>5, <2>1
  <2> QED
    BY <1>1, <2>2
<1> QED
  BY <1>6

\* A file as it was issued passes every check with the key of its signer.
LEMMA IssuedVerifies ==
  ASSUME NEW a, Issuable(a)
  PROVE  /\ VerifyAttestation(a, a.signer)
         /\ a.signature.key = a.signer
         /\ a = [f \in DOMAIN a |-> a[f]]
<1>1. PICK answer \in Answers : Attests(a, answer)
  BY IssuedFromMatch
<1> DEFINE T == answer.w.template
           R == CountedPods(answer)
<1>2. /\ DOMAIN T["container"] # {}
      /\ DOMAIN T["container"] \cap DOMAIN T["init-container"] = {}
      /\ R \subseteq PodNames
  BY AnswersAssumption, AnswerTypes
<1>3. \A p, c, d : /\ Entry(p, c, d).pod = p /\ Entry(p, c, d).container = c
                   /\ Entry(p, c, d).value = d /\ Entry(p, c, d).result = "MATCH"
  BY DEF Entry
<1> HIDE DEF T, R
<1>4. /\ \A c \in DOMAIN a.expected : a.expected[c] \in Digests
      /\ \A o \in a.observed : \E p \in R, q \in Kinds : \E c \in DOMAIN T[q] :
           o = Entry(p, c, T[q][c])
      /\ \A p \in R, q \in Kinds : \A c \in DOMAIN T[q] :
           Entry(p, c, T[q][c]) \in a.observed
      /\ \A c \in DOMAIN a.expected : c \in DOMAIN T["container"]
                                      /\ T["container"][c] = a.expected[c]
      /\ R # {}
  BY <1>1 DEF Attests, T, R
<1>5. ASSUME NEW c \in DOMAIN a.expected
      PROVE  /\ \E o \in a.observed : o.container = c
             /\ DigestOf(FirstObserved(a, c).value) = a.expected[c]
  <2> DEFINE named == {o \in a.observed : o.container = c}
  <2>1. \E o \in a.observed : o.container = c
    <3>1. PICK p \in R : TRUE
      BY <1>4
    <3>2. Entry(p, c, T["container"][c]) \in a.observed
      BY <1>4 DEF Kinds
    <3> QED
      BY <1>3, <3>2
  <2>2. \A o \in named : o.pod \in PodNames
    BY <1>2, <1>3, <1>4
  <2>3. FirstObserved(a, c) \in named
    BY <2>1, <2>2, FirstExists DEF FirstObserved
  <2>4. PICK p \in R, q \in Kinds : \E d \in DOMAIN T[q] :
          FirstObserved(a, c) = Entry(p, d, T[q][d])
    BY <1>4, <2>3
  <2>5. c \in DOMAIN T[q] /\ FirstObserved(a, c) = Entry(p, c, T[q][c])
    BY <1>3, <2>3, <2>4
  <2>6. q = "container"
    BY <1>2, <1>4, <2>5 DEF Kinds
  <2>7. FirstObserved(a, c).value = a.expected[c]
    BY <1>3, <1>4, <2>5, <2>6
  <2> QED
    BY <1>4, <2>1, <2>7 DEF DigestOf
<1>6. a.observed # {} /\ \A o \in a.observed : o.result = "MATCH"
  <2>1. PICK p \in R, c \in DOMAIN T["container"] : TRUE
    BY <1>2, <1>4
  <2>2. Entry(p, c, T["container"][c]) \in a.observed
    BY <1>4 DEF Kinds
  <2> QED
    BY <1>3, <1>4, <2>2
<1>7. /\ a.schema = 1 /\ a.created /\ a.result = "MATCH" /\ a.workload # <<>>
      /\ a.signature = Sign(CanonicalPayload(a), a.signer)
      /\ a.signature # NoSignature /\ a.signature.key = a.signer
      /\ a = [f \in DOMAIN a |-> a[f]]
  <2>1. PICK from \in Answers : \E e, order, k :
          Result(from, e).status = "MATCH" /\ a = Signed(from, e, order, k)
    BY DEF Issuable
  <2>2. PICK e, order, k :
          Result(from, e).status = "MATCH" /\ a = Signed(from, e, order, k)
    BY <2>1
  <2>3. /\ a.schema = 1 /\ a.created /\ a.result = "MATCH" /\ a.signer = k
        /\ a.workload = <<from.kind, from.w.name>>
        /\ a.signature = Sign(CanonicalPayload(a), k)
        /\ a = [f \in DOMAIN a |-> a[f]]
    BY <2>2, SignedFields
  <2>4. a.signature # NoSignature /\ a.signature.key = k
    <3>1. \A payload : Sign(payload, k) # NoSignature /\ Sign(payload, k).key = k
      BY DEF Sign, NoSignature
    <3> QED
      BY <2>3, <3>1
  <2>5. a.workload # <<>>
    BY <2>3
  <2> QED
    BY <2>3, <2>4, <2>5
<1> QED
  BY <1>5, <1>6, <1>7 DEF VerifyAttestation, SignatureVerified, DigestsVerified

-----------------------------------------------------------------------------
(* What happens to the file outside of the program *)

\* An edit changes one field, and never the findings.
LEMMA EditShape ==
  ASSUME NEW a, NEW d \in Edits(a)
  PROVE  \E f, v : /\ d = [a EXCEPT ![f] = v]
                   /\ f # "findings"
                   /\ f = "signature" => v = NoSignature
<1>1. CASE d = [a EXCEPT !.schema = 2]
  BY <1>1
<1>2. CASE d = [a EXCEPT !.signature = NoSignature]
  BY <1>2
<1>3. CASE d = [a EXCEPT !.result = "PARTIAL"]
  BY <1>3
<1>4. CASE d = [a EXCEPT !.observed = {}]
  BY <1>4
<1>5. CASE d = [a EXCEPT !.replicas.desired = 0]
  <2>1. d = [a EXCEPT !["replicas"] = [a.replicas EXCEPT !.desired = 0]]
    BY <1>5
  <2> QED
    BY <2>1
<1>6. CASE d = [a EXCEPT !.expected = [c \in Containers |-> CHOOSE x \in Digests : TRUE]]
  BY <1>6
<1>7. CASE \E k \in Keys : d = [a EXCEPT !.signer = k]
  BY <1>7
<1> QED
  BY <1>1, <1>2, <1>3, <1>4, <1>5, <1>6, <1>7 DEF Edits

\* An edited file is valid only if the edit changed nothing: each edit is of a field
\* that the signature covers, or of the signature.
LEMMA EditIsSeen ==
  ASSUME NEW a, Issuable(a), NEW d \in Edits(a), NEW k, VerifyAttestation(d, k)
  PROVE  d = a
<1>1. PICK f, v : /\ d = [a EXCEPT ![f] = v]
                  /\ f # "findings"
                  /\ f = "signature" => v = NoSignature
  BY EditShape
<1>2. a = [x \in DOMAIN a |-> a[x]] /\ a.signature = Sign(CanonicalPayload(a), a.signer)
  BY IssuedVerifies DEF VerifyAttestation, SignatureVerified
<1>3. d.signature # NoSignature /\ d.signature = Sign(CanonicalPayload(d), k)
  BY DEF VerifyAttestation, SignatureVerified
<1>4. CASE f \notin DOMAIN a
  BY <1>1, <1>2, <1>4
<1>5. CASE f = "signature" /\ f \in DOMAIN a
  <2>1. d.signature = NoSignature
    BY <1>1, <1>5
  <2> QED
    BY <1>3, <2>1
<1>6. CASE f \in DOMAIN a /\ f # "signature"
  <2>1. d.signature = a.signature /\ DOMAIN d = DOMAIN a
    BY <1>1, <1>2, <1>6
  <2>2. CanonicalPayload(d) = CanonicalPayload(a)
    <3>1. \A x, y, s, t : Sign(x, s) = Sign(y, t) => x = y
      BY DEF Sign
    <3> QED
      BY <1>2, <1>3, <2>1, <3>1
  <2>3. CanonicalPayload(d)[f] = d[f] /\ CanonicalPayload(a)[f] = a[f]
    BY <1>1, <1>6, <2>1 DEF CanonicalPayload
  <2>4. d[f] = a[f]
    BY <2>2, <2>3
  <2>5. d[f] = v
    BY <1>1, <1>2, <1>6
  <2> QED
    BY <1>1, <1>2, <2>4, <2>5
<1> QED
  BY <1>4, <1>5, <1>6

\* So what is valid was issued, by the signer whose key it is verified with.
LEMMA ValidIsIssued ==
  ASSUME IssuedOK, NEW d, FromIssued(d), NEW k, VerifyAttestation(d, k)
  PROVE  d \in issued /\ Issuable(d) /\ d.signature.key = k
<1>1. d \in issued
  BY EditIsSeen DEF FromIssued, IssuedOK
<1>2. d.signature.key = d.signer
  BY <1>1, IssuedVerifies DEF IssuedOK
<1> QED
  BY <1>1, <1>2 DEF IssuedOK, VerifyAttestation

-----------------------------------------------------------------------------
(* Types *)

\* What is issued has its type.
LEMMA IssuedType ==
  ASSUME IssuedOK, NEW a \in issued
  PROVE  a \in Attestations /\ Digests # {}
<1>1. PICK answer \in Answers, flags \in FlagLists, k \in Keys :
        /\ Accepted(flags)
        /\ Result(answer, ParseExpectedDigests(flags)).status = "MATCH"
        /\ \E order \in FindingOrders(Result(answer, ParseExpectedDigests(flags)).findings) :
             a = Signed(answer, ParseExpectedDigests(flags), order, k)
  BY DEF IssuedOK, Issuable
<1>2. PICK e : e = ParseExpectedDigests(flags)
  OBVIOUS
<1>3. PICK order \in FindingOrders(Result(answer, e).findings) :
        a = Signed(answer, e, order, k)
  BY <1>1, <1>2
<1>4. /\ DOMAIN e \subseteq Containers /\ e \in [DOMAIN e -> Digests]
      /\ \A c \in DOMAIN e : e[c] \in Digests
      /\ Result(answer, e).status = "MATCH"
  BY <1>1, <1>2, ExpectedTypes
<1> DEFINE made == NewAttestation(answer, Result(answer, e), order, e, k)
           T == answer.w.template
           R == CountedPods(answer)
<1>5. order \in ListedFindings
  BY <1>3, <1>4, ResultMatch DEF ListedFindings
<1>6. Result(answer, e).summary.desired \in Nat /\ Result(answer, e).summary.observed \in Nat
  BY <1>4, ResultMatch, SummaryOfAnswer, AnswerTypes
<1>7. /\ \A o \in made.observed :
           \E p \in R, q \in Kinds : \E c \in DOMAIN T[q] : o = Entry(p, c, T[q][c])
      /\ \A p \in R, q \in Kinds : \A c \in DOMAIN T[q] : T[q][c] \in Digests
  BY <1>4, EntriesOfMatch
<1>8. R \subseteq PodNames /\ \A q \in Kinds : DOMAIN T[q] \subseteq Containers
  BY AnswerTypes
<1>9. Digests # {}
  <2>1. PICK p \in R : TRUE
    BY <1>4, ResultMatch, WorkloadMatch
  <2>2. PICK c \in DOMAIN T["container"] : TRUE
    BY AnswersAssumption
  <2> QED
    BY <1>7, <2>1, <2>2 DEF Kinds
<1>10. made.observed \in SUBSET ObservedContainers
  <2> HIDE DEF made, T, R
  <2> SUFFICES ASSUME NEW o \in made.observed
               PROVE  o \in ObservedContainers
    OBVIOUS
  <2>1. PICK p \in R, q \in Kinds : \E c \in DOMAIN T[q] : o = Entry(p, c, T[q][c])
    BY <1>7
  <2>2. PICK c \in DOMAIN T[q] : o = Entry(p, c, T[q][c])
    BY <2>1
  <2>3. c \in Containers /\ p \in PodNames /\ T[q][c] \in Digests
    BY <1>7, <1>8
  <2> QED
    BY <2>2, <2>3 DEF Entry, ObservedContainers, Images, ImageIDs, Status
<1> HIDE DEF made
<1>11. a.signature \in {NoSignature} \cup {b.signature : b \in issued}
  OBVIOUS
<1>12. PICK sign, seen :
         /\ a = [schema |-> 1, created |-> TRUE, workload |-> <<answer.kind, answer.w.name>>,
                 revision |-> workloadRevision(answer),
                 replicas |-> [desired |-> Result(answer, e).summary.desired,
                               observed |-> Result(answer, e).summary.observed],
                 expected |-> e, observed |-> seen, result |-> "MATCH",
                 findings |-> order, signer |-> k, signature |-> sign]
         /\ seen = made.observed
  BY <1>3, <1>4, SignedFields DEF made
<1>13. /\ <<answer.kind, answer.w.name>>
            \in {<<>>} \cup {<<b.kind, b.w.name>> : b \in Answers}
       /\ workloadRevision(answer) \in NamedRevisions
       /\ e \in UNION {[names -> Digests] : names \in SUBSET Containers}
       /\ "MATCH" \in Verdicts
  BY <1>4 DEF NamedRevisions, Verdicts
<1>14. a.signature = sign /\ sign \in {NoSignature} \cup {b.signature : b \in issued}
  BY <1>11, <1>12
<1>15. a \in Attestations
  BY <1>5, <1>6, <1>10, <1>12, <1>13, <1>14 DEF Attestations
<1> QED
  BY <1>9, <1>15

\* And so has what becomes of it in the file.
LEMMA FromIssuedType ==
  ASSUME IssuedOK, NEW d, FromIssued(d)
  PROVE  d \in Attestations
<1>1. CASE d \in issued
  BY <1>1, IssuedType
<1>2. CASE \E a \in issued : d \in Edits(a)
  <2>1. PICK a \in issued : d \in Edits(a)
    BY <1>2
  <2>2. a \in Attestations /\ Digests # {}
    BY IssuedType
  <2> DEFINE digests == [c \in Containers |-> CHOOSE x \in Digests : TRUE]
  <2>3. digests \in UNION {[names -> Digests] : names \in SUBSET Containers}
    <3>1. digests \in [Containers -> Digests]
      BY <2>2
    <3> QED
      BY <3>1
  <2>4. "PARTIAL" \in Verdicts /\ {} \in SUBSET ObservedContainers /\ 0 \in Nat
        /\ NoSignature \in {NoSignature} \cup {b.signature : b \in issued}
    BY DEF Verdicts
  <2> HIDE DEF digests
  <2>5. \/ d = [a EXCEPT !.schema = 2] \/ d = [a EXCEPT !.signature = NoSignature]
        \/ d = [a EXCEPT !.result = "PARTIAL"] \/ d = [a EXCEPT !.observed = {}]
        \/ d = [a EXCEPT !.replicas.desired = 0] \/ d = [a EXCEPT !.expected = digests]
        \/ \E k \in Keys : d = [a EXCEPT !.signer = k]
    BY <2>1 DEF Edits, digests
  <2> QED
    BY <2>2, <2>3, <2>4, <2>5 DEF Attestations
<1> QED
  BY <1>1, <1>2 DEF FromIssued

-----------------------------------------------------------------------------
(* The invariant holds in every run *)

\* No exit code is taken for another.
LEMMA ExitCodes ==
  OperationalError \notin {0, 2, NoExit} /\ NoExit \notin {0, 2}
BY DEF OperationalError, NoExit

\* A run of keygen is one of a key pair, and the other commands are none.
LEMMA CommandNames ==
  /\ \A r \in Runs : r \in Keys <=> CommandOf[r] = "keygen"
  /\ Keys \subseteq Runs
BY RunsAssumption

\* At the start there are no files and nothing is issued.
LEMMA AttestationsStart == Init => AInv
<1> SUFFICES ASSUME Init
             PROVE  AInv
  OBVIOUS
<1>1. IssuedOK /\ FilesOK
  BY DEF Init, IssuedOK, FilesOK, Documents
<1>2. RunsOK
  BY ExitCodes DEF Init, RunsOK
<1>3. AttestOK /\ VerifyOK
  BY ExitCodes DEF Init, AttestOK, VerifyOK
<1>4. KeygenOK
  BY ExitCodes, CommandNames DEF Init, KeygenOK, PairOf
<1> QED
  BY <1>1, <1>2, <1>3, <1>4 DEF AInv

\* Nothing issued is forgotten, so what came from it still does.
LEMMA IssuedGrows ==
  ASSUME issued \subseteq issued'
  PROVE  \A d : FromIssued(d) => FromIssued(d)'
BY DEF FromIssued

\* A step of keygen leaves the attestation file and the other commands alone.
LEMMA KeygenKeepsOthers ==
  ASSUME AInv, NEW r \in Runs, Keygen(r)
  PROVE  (IssuedOK /\ FilesOK /\ RunsOK /\ AttestOK /\ VerifyOK)'
<1> USE DEF AInv
<1>1. /\ CommandOf[r] = "keygen" /\ r \in Keys
      /\ UNCHANGED <<attestation, doc, issued>>
      /\ pc[r] # "done" /\ exit[r] = NoExit
      /\ pc[r] \in {"writePrivate", "writePublic"} => key[r] = r
  BY CommandNames DEF Keygen, GenerateKeyPair, OpenPrivateKey, WritePrivateKey,
     OpenPublicKey, WritePublicKey, files, At, RunsOK, KeygenOK, PairOf
<1>2. /\ pc' = [q \in Runs |-> IF q = r THEN pc'[r] ELSE pc[q]]
      /\ key' = key \/ key' = [key EXCEPT ![r] = r]
      /\ \/ exit' = exit /\ pc'[r] # "done"
         \/ exit' = [exit EXCEPT ![r] = 0] /\ pc'[r] = "done"
      /\ private' \in {private, Torn, r} /\ public' \in {public, Torn, r}
  BY <1>1, ExitCodes DEF Keygen, GenerateKeyPair, OpenPrivateKey, WritePrivateKey,
     OpenPublicKey, WritePublicKey, files, At, Goto, End, RunsOK
<1>3. IssuedOK' /\ FilesOK'
  BY <1>1, <1>2 DEF IssuedOK, FilesOK, FromIssued
<1>4. RunsOK'
  BY <1>1, <1>2, ExitCodes DEF RunsOK, FromIssued
<1>5. \A q \in Runs : q # r => pc'[q] = pc[q] /\ key'[q] = key[q] /\ exit'[q] = exit[q]
  BY <1>2 DEF RunsOK
<1>6. AttestOK' /\ VerifyOK'
  BY <1>1, <1>5 DEF AttestOK, VerifyOK, FromIssued
<1> QED
  BY <1>3, <1>4, <1>6

\* What it writes is its own key, and no other run of keygen is alone with it.
LEMMA KeygenKeepsPairs ==
  ASSUME AInv, NEW r \in Runs, Keygen(r)
  PROVE  KeygenOK'
<1> USE DEF AInv
<1>1. r \in Keys /\ exit[r] = NoExit /\ Keys \subseteq Runs
  BY CommandNames DEF Keygen, GenerateKeyPair, OpenPrivateKey, WritePrivateKey,
     OpenPublicKey, WritePublicKey, At, RunsOK
<1>2. /\ pc'[r] # "start"
      /\ \A q \in Runs : q # r => pc'[q] = pc[q] /\ key'[q] = key[q]
      /\ \A q \in Runs : q # r => exit'[q] = exit[q]
  BY DEF Keygen, GenerateKeyPair, OpenPrivateKey, WritePrivateKey, OpenPublicKey,
     WritePublicKey, At, Goto, End, RunsOK
<1>3. /\ \A q \in Keys : q # r => ~Alone(q)'
      /\ Alone(r)' => Alone(r)
  BY <1>1, <1>2 DEF Alone
<1>4. ASSUME NEW q \in Keys, q # r
      PROVE  PairOf(q)'
  <2>1. pc'[q] = pc[q] /\ key'[q] = key[q] /\ PairOf(q) /\ ~Alone(q)'
    BY <1>1, <1>2, <1>3, <1>4 DEF KeygenOK
  <2> QED
    BY <2>1 DEF PairOf
<1>5. PairOf(r)'
  <2>1. CASE GenerateKeyPair(r)
    BY <1>1, <1>3, <2>1, ExitCodes DEF GenerateKeyPair, Goto, RunsOK, PairOf
  <2>2. CASE OpenPrivateKey(r)
    BY <1>1, <1>3, <2>2, ExitCodes DEF OpenPrivateKey, At, Goto, RunsOK, KeygenOK, PairOf
  <2>3. CASE WritePrivateKey(r)
    BY <1>1, <1>3, <2>3, ExitCodes DEF WritePrivateKey, At, Goto, RunsOK, KeygenOK, PairOf
  <2>4. CASE OpenPublicKey(r)
    BY <1>1, <1>3, <2>4, ExitCodes DEF OpenPublicKey, At, Goto, RunsOK, KeygenOK, PairOf
  <2>5. CASE WritePublicKey(r)
    BY <1>1, <1>3, <2>5, ExitCodes DEF WritePublicKey, At, End, RunsOK, KeygenOK, PairOf
  <2> QED
    BY <2>1, <2>2, <2>3, <2>4, <2>5 DEF Keygen
<1> QED
  BY <1>4, <1>5 DEF KeygenOK

\* Steps that change nothing of the key files, and nothing of the runs of keygen.
LEMMA PairsKept ==
  ASSUME KeygenOK, UNCHANGED <<private, public>>,
         \A q \in Keys : pc'[q] = pc[q] /\ key'[q] = key[q] /\ exit'[q] = exit[q]
  PROVE  KeygenOK'
<1>1. \A q \in Keys : Alone(q)' <=> Alone(q)
  BY DEF Alone
<1> QED
  BY <1>1 DEF KeygenOK, PairOf

\* What a step of one run changes is that run's.
OnlyOf(r) ==
  \A q \in Runs : q # r =>
    pc'[q] = pc[q] /\ key'[q] = key[q] /\ doc'[q] = doc[q] /\ exit'[q] = exit[q]

\* A step of attest that is not the signature.
LEMMA AttestQuiet ==
  ASSUME AInv, NEW r \in Runs,
         \/ ReadPrivateKey(r) \/ ReadPrivateKeyFails(r)
         \/ \E answer \in Answers : \E e : Refuse(r, answer, e)
         \/ OpenOutput(r) \/ WriteOutput(r)
  PROVE  AInv'
<1> USE DEF AInv
<1>1. /\ CommandOf[r] = "attest" /\ r \notin Keys
      /\ UNCHANGED <<private, public, doc, issued>>
      /\ pc[r] # "done"
  BY CommandNames DEF ReadPrivateKey, ReadPrivateKeyFails, Refuse, OpenOutput, WriteOutput,
     files, At
<1>2. /\ pc' = [q \in Runs |-> IF q = r THEN pc'[r] ELSE pc[q]]
      /\ key' = key \/ (key' = [key EXCEPT ![r] = private] /\ private \in Keys)
      /\ \/ exit' = exit /\ pc'[r] # "done"
         \/ \E c \in {0, OperationalError, 2} :
              exit' = [exit EXCEPT ![r] = c] /\ pc'[r] = "done"
  BY <1>1 DEF ReadPrivateKey, ReadPrivateKeyFails, Refuse, OpenOutput, WriteOutput,
     files, Goto, End, RunsOK
<1>3. /\ pc'[r] = "verify" => key'[r] \in Keys
      /\ pc'[r] \in {"openOutput", "writeOutput"} =>
           pc'[r] = "writeOutput" /\ pc[r] = "openOutput" /\ key' = key
  BY <1>1, <1>2 DEF ReadPrivateKey, ReadPrivateKeyFails, Refuse, OpenOutput, WriteOutput,
     files, At, Goto, End, RunsOK
<1>4. attestation' \in {attestation, TornDoc}
      \/ (attestation' = doc[r] /\ pc[r] = "writeOutput")
  BY DEF ReadPrivateKey, ReadPrivateKeyFails, Refuse, OpenOutput, WriteOutput, files, At
<1>5. IssuedOK' /\ FilesOK'
  <2>1. attestation' \in Documents \/ FromIssued(attestation')
    BY <1>1, <1>4 DEF FilesOK, AttestOK, Documents, FromIssued
  <2> QED
    BY <1>1, <2>1 DEF IssuedOK, FilesOK, FromIssued
<1>6. RunsOK'
  BY <1>1, <1>2, ExitCodes DEF RunsOK, FromIssued
<1>7. OnlyOf(r)
  BY <1>1, <1>2 DEF RunsOK, OnlyOf
<1>8. AttestOK' /\ VerifyOK'
  BY <1>1, <1>3, <1>7 DEF AttestOK, VerifyOK, FromIssued, OnlyOf
<1>9. KeygenOK'
  BY <1>1, <1>7, PairsKept, CommandNames DEF OnlyOf
<1> QED
  BY <1>5, <1>6, <1>8, <1>9

\* The signature adds an attestation of a match to those that were issued.
LEMMA AttestSigns ==
  ASSUME AInv, NEW r \in Runs, NEW answer \in Answers, NEW flags \in FlagLists,
         Accepted(flags), Attest(r, answer, ParseExpectedDigests(flags))
  PROVE  AInv'
<1> USE DEF AInv
<1> DEFINE e == ParseExpectedDigests(flags)
<1>1. /\ CommandOf[r] = "attest" /\ r \notin Keys /\ key[r] \in Keys
      /\ UNCHANGED <<private, public, attestation, key, exit>>
      /\ pc[r] = "verify" /\ pc' = [pc EXCEPT ![r] = "openOutput"]
  BY CommandNames DEF Attest, At, Goto, files, AttestOK
<1>2. PICK order \in FindingOrders(Result(answer, e).findings) :
        doc' = [doc EXCEPT ![r] = Signed(answer, e, order, key[r])]
  BY DEF Attest, Signed
<1>3. PICK made : made = Signed(answer, e, order, key[r])
  OBVIOUS
<1>4. Issuable(made)
  BY <1>1, <1>3 DEF Issuable, Attest
<1>5. doc'[r] = made /\ doc' = [doc EXCEPT ![r] = made] /\ issued' = issued \cup {made}
  BY <1>2, <1>3 DEF Attest, RunsOK
<1> HIDE DEF e
<1>6. \A d : FromIssued(d) => FromIssued(d)'
  BY <1>5, IssuedGrows
<1>7. IssuedOK'
  BY <1>4, <1>5 DEF IssuedOK, Issuable
<1>8. OnlyOf(r)
  BY <1>1, <1>5 DEF RunsOK, OnlyOf
<1>9. FilesOK'
  <2>1. PICK now : now = attestation /\ (now \in Documents \/ FromIssued(now))
    BY DEF FilesOK
  <2>2. now \in Documents \/ FromIssued(now)'
    BY <1>6, <2>1
  <2> QED
    BY <1>1, <2>1, <2>2 DEF FilesOK, FromIssued
<1>10. RunsOK'
  <2>1. ASSUME NEW q \in Runs
        PROVE  (doc[q] = NoDoc \/ FromIssued(doc[q]))'
    <3>1. CASE q = r
      BY <1>5, <3>1 DEF FromIssued
    <3>2. CASE q # r
      <4>1. PICK d : d = doc[q] /\ (d = NoDoc \/ FromIssued(d))
        BY DEF RunsOK
      <4>2. doc'[q] = d /\ (d = NoDoc \/ FromIssued(d)')
        BY <1>6, <1>8, <3>2, <4>1 DEF OnlyOf
      <4> QED
        BY <4>2 DEF FromIssued
    <3> QED
      BY <3>1, <3>2
  <2>2. \A q \in Runs : pc'[q] = "done" <=> exit'[q] # NoExit
    BY <1>1 DEF RunsOK
  <2> QED
    BY <1>1, <1>5, <2>1, <2>2 DEF RunsOK, FromIssued
<1>11. AttestOK'
  BY <1>1, <1>5, <1>8 DEF AttestOK, OnlyOf
<1>12. VerifyOK'
  <2> SUFFICES ASSUME NEW q \in Runs, CommandOf[q] = "verify-attestation"
               PROVE  (/\ pc[q] = "readPublic" => FromIssued(doc[q])
                       /\ exit[q] \in {0, 2} =>
                            /\ FromIssued(doc[q]) /\ key[q] \in Keys
                            /\ exit[q] = 0 <=> VerifyAttestation(doc[q], key[q]))'
    BY DEF VerifyOK
  <2>1. PICK d : d = doc[q]
    OBVIOUS
  <2>2. /\ pc'[q] = pc[q] /\ exit'[q] = exit[q] /\ key'[q] = key[q] /\ doc'[q] = d
    BY <1>1, <1>8, <2>1 DEF OnlyOf
  <2>3. /\ pc[q] = "readPublic" => FromIssued(d)
        /\ exit[q] \in {0, 2} => /\ FromIssued(d) /\ key[q] \in Keys
                                 /\ exit[q] = 0 <=> VerifyAttestation(d, key[q])
    BY <2>1 DEF VerifyOK
  <2>4. FromIssued(d) => FromIssued(d)'
    BY <1>6
  <2> QED
    BY <2>2, <2>3, <2>4 DEF FromIssued
<1>13. KeygenOK'
  BY <1>1, <1>8, PairsKept, CommandNames DEF OnlyOf
<1> QED
  BY <1>7, <1>9, <1>10, <1>11, <1>12, <1>13

\* A step of verify-attestation changes no file.
LEMMA VerifyStep ==
  ASSUME AInv, NEW r \in Runs, VerifyRun(r)
  PROVE  AInv'
<1> USE DEF AInv
<1>1. /\ CommandOf[r] = "verify-attestation" /\ r \notin Keys
      /\ UNCHANGED <<private, public, attestation, issued>>
      /\ pc[r] # "done" /\ exit[r] = NoExit
  BY CommandNames DEF VerifyRun, ReadAttestation, ReadAttestationFails, Verify,
     ReadPublicKeyFails, files, At, RunsOK
<1>2. /\ pc' = [q \in Runs |-> IF q = r THEN pc'[r] ELSE pc[q]]
      /\ key' = key \/ (key' = [key EXCEPT ![r] = public] /\ public \in Keys)
      /\ doc' = doc \/ (doc' = [doc EXCEPT ![r] = attestation] /\ FromIssued(attestation))
      /\ \/ exit' = exit /\ pc'[r] # "done"
         \/ \E c \in {0, OperationalError, 2} :
              exit' = [exit EXCEPT ![r] = c] /\ pc'[r] = "done"
  BY <1>1 DEF VerifyRun, ReadAttestation, ReadAttestationFails, Verify,
     ReadPublicKeyFails, files, Goto, End, RunsOK, FilesOK
<1>3. /\ pc'[r] = "readPublic" => FromIssued(doc'[r])
      /\ exit'[r] \in {0, 2} => /\ FromIssued(doc'[r])
                                /\ key'[r] \in Keys
                                /\ exit'[r] = 0 <=> VerifyAttestation(doc'[r], key'[r])
  <2>1. CASE ReadAttestation(r)
    BY <1>1, <2>1, ExitCodes DEF ReadAttestation, Goto, RunsOK, FilesOK
  <2>2. CASE ReadAttestationFails(r) \/ ReadPublicKeyFails(r)
    BY <1>1, <2>2, ExitCodes DEF ReadAttestationFails, ReadPublicKeyFails, End, RunsOK
  <2>3. CASE Verify(r)
    BY <1>1, <2>3, ExitCodes DEF Verify, At, End, RunsOK, VerifyOK
  <2> QED
    BY <2>1, <2>2, <2>3 DEF VerifyRun
<1>4. IssuedOK' /\ FilesOK'
  BY <1>1 DEF IssuedOK, FilesOK, FromIssued
<1>5. RunsOK'
  BY <1>1, <1>2, ExitCodes DEF RunsOK, FilesOK, FromIssued
<1>6. OnlyOf(r)
  BY <1>1, <1>2 DEF RunsOK, OnlyOf
<1>7. AttestOK' /\ VerifyOK'
  BY <1>1, <1>3, <1>6 DEF AttestOK, VerifyOK, FromIssued, OnlyOf
<1>8. KeygenOK'
  BY <1>1, <1>6, PairsKept, CommandNames DEF OnlyOf
<1> QED
  BY <1>4, <1>5, <1>7, <1>8

\* A run that fails ends, and leaves everything else as it is.
LEMMA FailStep ==
  ASSUME AInv, NEW r \in Runs, Fail(r)
  PROVE  AInv'
<1> USE DEF AInv
<1>1. /\ pc[r] # "done" /\ pc' = [pc EXCEPT ![r] = "done"]
      /\ exit' = [exit EXCEPT ![r] = OperationalError]
      /\ UNCHANGED <<private, public, attestation, key, doc, issued>>
  BY DEF Fail, End, files
<1>2. IssuedOK' /\ FilesOK'
  BY <1>1 DEF IssuedOK, FilesOK, FromIssued
<1>3. RunsOK'
  BY <1>1, ExitCodes DEF RunsOK, FromIssued
<1>4. AttestOK' /\ VerifyOK'
  BY <1>1, ExitCodes DEF AttestOK, VerifyOK, RunsOK, FromIssued
<1>5. KeygenOK'
  <2>1. \A q \in Keys : q # r => (Alone(q)' => Alone(q)) /\ pc'[q] = pc[q] /\ exit'[q] = exit[q]
    BY <1>1, CommandNames DEF Alone, RunsOK
  <2>2. r \in Keys => pc'[r] = "done" /\ exit'[r] = OperationalError
    BY <1>1, CommandNames DEF RunsOK
  <2> QED
    BY <1>1, <2>1, <2>2, ExitCodes DEF KeygenOK, PairOf
<1> QED
  BY <1>2, <1>3, <1>4, <1>5

\* An edit leaves something that came of what was issued.
LEMMA EditStep ==
  ASSUME AInv, Edit
  PROVE  AInv'
<1>1. /\ FromIssued(attestation')
      /\ UNCHANGED <<private, public, pc, key, doc, exit, issued>>
  BY DEF Edit, FromIssued
<1> QED
  BY <1>1 DEF AInv, IssuedOK, FilesOK, RunsOK, AttestOK, VerifyOK, KeygenOK, PairOf, Alone,
     FromIssued

\* Every step keeps the invariant.
LEMMA AttestationsStep == AInv /\ [Next]_vars => AInv'
<1> SUFFICES ASSUME AInv, [Next]_vars
             PROVE  AInv'
  OBVIOUS
<1>1. CASE \E r \in Runs : Keygen(r)
  BY <1>1, KeygenKeepsOthers, KeygenKeepsPairs DEF AInv
<1>2. CASE \E r \in Runs : AttestRun(r)
  <2>1. PICK r \in Runs : AttestRun(r)
    BY <1>2
  <2>2. CASE \E answer \in Answers, flags \in FlagLists :
               Accepted(flags) /\ Attest(r, answer, ParseExpectedDigests(flags))
    BY <2>2, AttestSigns
  <2>3. CASE \E answer \in Answers, flags \in FlagLists :
               Refuse(r, answer, ParseExpectedDigests(flags))
    BY <2>3, AttestQuiet
  <2>4. CASE \/ ReadPrivateKey(r) \/ ReadPrivateKeyFails(r)
             \/ OpenOutput(r) \/ WriteOutput(r)
    BY <2>4, AttestQuiet
  <2> QED
    BY <2>1, <2>2, <2>3, <2>4 DEF AttestRun
<1>3. CASE \E r \in Runs : VerifyRun(r) \/ Fail(r)
  BY <1>3, VerifyStep, FailStep
<1>4. CASE Edit
  BY <1>4, EditStep
<1>5. CASE UNCHANGED vars
  BY <1>5 DEF vars, files, AInv, IssuedOK, FilesOK, RunsOK, AttestOK, VerifyOK, KeygenOK,
     PairOf, Alone, FromIssued
<1> QED
  BY <1>1, <1>2, <1>3, <1>4, <1>5 DEF Next

LEMMA AttestationsInvariant == Spec => []AInv
BY AttestationsStart, AttestationsStep, PTL DEF Spec

-----------------------------------------------------------------------------
(* The theorems *)

\* Every variable keeps its type.
THEOREM AttestationTypes == Spec => []TypeOK
<1>1. AInv => TypeOK
  <2> SUFFICES ASSUME AInv
               PROVE  TypeOK
    OBVIOUS
  <2>1. \A d : FromIssued(d) => d \in Attestations
    BY FromIssuedType DEF AInv
  <2>2. attestation \in Attestations \cup {NoDoc, TornDoc}
    BY <2>1 DEF AInv, FilesOK, Documents
  <2>3. doc \in [Runs -> Attestations \cup {NoDoc}]
    BY <2>1 DEF AInv, RunsOK
  <2>4. DOMAIN pc = Runs
    BY DEF AInv, RunsOK
  <2> QED
    BY <2>2, <2>3, <2>4 DEF AInv, FilesOK, RunsOK, TypeOK
<1> QED
  BY <1>1, AttestationsInvariant, PTL

\* What a run found valid was issued by the partner of the public key it held.
LEMMA AcceptedIsIssued ==
  ASSUME AInv, NEW r \in Accepting
  PROVE  doc[r] \in issued /\ Issuable(doc[r]) /\ doc[r].signature.key = key[r]
<1>1. FromIssued(doc[r]) /\ VerifyAttestation(doc[r], key[r])
  BY DEF Accepting, AInv, VerifyOK
<1> QED
  BY <1>1, ValidIsIssued DEF AInv

\* A file that verify-attestation finds valid is one that attest signed with the
\* partner of the public key, whatever happened to the files in between.
THEOREM ValidWasIssued == Spec => []ValidMeansIssued
<1>1. AInv => ValidMeansIssued
  BY AcceptedIsIssued DEF ValidMeansIssued
<1> QED
  BY <1>1, AttestationsInvariant, PTL

\* A valid file carries the proof of its match.
THEOREM ValidProvesMatch == Spec => []ValidCarriesProof
<1>1. AInv => ValidCarriesProof
  <2> SUFFICES ASSUME AInv, NEW r \in Accepting
               PROVE  CarriesProof(doc[r])
    BY DEF ValidCarriesProof, CarriesProof
  <2> QED
    BY AcceptedIsIssued, IssuedCarriesProof
<1> QED
  BY <1>1, AttestationsInvariant, PTL

\* A file as it was issued is valid with the public key of its signer.
THEOREM IssuedStaysValid == Spec => []IssuedIsValid
<1>1. AInv => IssuedIsValid
  <2> SUFFICES ASSUME AInv, NEW r \in Runs, CommandOf[r] = "verify-attestation",
                      exit[r] \in {0, 2}, doc[r] \in issued,
                      key[r] = doc[r].signature.key
               PROVE  exit[r] = 0
    BY DEF IssuedIsValid
  <2>1. PICK a \in issued : a = doc[r]
    OBVIOUS
  <2>2. Issuable(a)
    BY DEF AInv, IssuedOK
  <2>3. VerifyAttestation(a, key[r])
    BY <2>1, <2>2, IssuedVerifies
  <2> QED
    BY <2>1, <2>3 DEF AInv, VerifyOK
<1> QED
  BY <1>1, AttestationsInvariant, PTL

\* A keygen that was not disturbed by another leaves two halves of one pair.
THEOREM KeygenPairs == Spec => []KeygenLeavesAPair
<1>1. AInv => KeygenLeavesAPair
  BY DEF AInv, KeygenOK, PairOf, Alone, KeygenLeavesAPair
<1> QED
  BY <1>1, AttestationsInvariant, PTL

\* The attestation file is touched only by a run of attest that holds a signed one.
THEOREM OnlySignedTouch == Spec => OnlySignedRunsTouchTheFile
<1> DEFINE Touch == \A r \in Runs :
             (CommandOf[r] = "attest" /\ pc'[r] # pc[r] /\ attestation' # attestation)
               => doc[r] \in issued
<1>1. AInv /\ [Next]_vars => [Touch]_vars
  <2> SUFFICES ASSUME AInv, Next, NEW r \in Runs, CommandOf[r] = "attest",
                      pc'[r] # pc[r], attestation' # attestation
               PROVE  doc[r] \in issued
    OBVIOUS
  <2>1. CASE \E q \in Runs : OpenOutput(q) \/ WriteOutput(q)
    <3>1. PICK q \in Runs : OpenOutput(q) \/ WriteOutput(q)
      BY <2>1
    <3>2. q = r /\ pc[r] \in {"openOutput", "writeOutput"}
      BY <3>1 DEF OpenOutput, WriteOutput, Goto, End, At, AInv, RunsOK
    <3> QED
      BY <3>2 DEF AInv, AttestOK
  <2>2. CASE Edit
    BY <2>2 DEF Edit
  <2>3. CASE \E q \in Runs : Keygen(q) \/ VerifyRun(q) \/ Fail(q)
    BY <2>3 DEF Keygen, GenerateKeyPair, OpenPrivateKey, WritePrivateKey, OpenPublicKey,
       WritePublicKey, VerifyRun, ReadAttestation, ReadAttestationFails, Verify,
       ReadPublicKeyFails, Fail, files
  <2>4. CASE \E q \in Runs :
               \/ ReadPrivateKey(q) \/ ReadPrivateKeyFails(q)
               \/ \E answer \in Answers, flags \in FlagLists :
                    \/ Refuse(q, answer, ParseExpectedDigests(flags))
                    \/ Attest(q, answer, ParseExpectedDigests(flags))
    BY <2>4 DEF ReadPrivateKey, ReadPrivateKeyFails, Refuse, Attest, files
  <2> QED
    BY <2>1, <2>2, <2>3, <2>4 DEF Next, AttestRun
<1> QED
  BY <1>1, AttestationsInvariant, PTL DEF Spec, OnlySignedRunsTouchTheFile
==============================================================================
