# TLA+ models and proofs of StateProof

StateProof (`stateproof`, the repository's Go program) answers one question: do
the pods of a Kubernetes workload run the images the workload declares?  It
reads the API a few times, computes a verdict, and turns the verdict into an
exit code that a pipeline acts on, into evidence, or into a signed attestation.
It changes nothing in the cluster.  So what can be wrong is the *answer*: a
match that the evidence does not prove, a match withheld, a pod nobody looked
at, drift hidden behind something else, and reads of different instants put
together into a picture that never existed.  These are what the modules here
state and check.

## 1. Inventory

| Component | Source | State it keeps | Operations | Talks to |
|---|---|---|---|---|
| image identity | `internal/truth/image.go` | none | parse a reference, compare two | container checks, gate |
| container checks | `internal/truth/verifier.go:97-162` | none | one pod's statuses against the declared containers | verdicts |
| Deployment verdict | `verifier.go:34-95` | status, findings, observations while it runs | pod loop, counts, containers | verify, scan, attest |
| StatefulSet / DaemonSet verdicts | `verifier.go:320-841` | the same, and the target revision | target revision, revision matching, pod loop, counts | verify, attest |
| expected-digest gate | `internal/truth/expected.go` | flags: container -> digest | parse flags, rewrite a result | verify, attest |
| API reads | `internal/k8s/client.go` | none (every call asks the server) | get, list, filter by owner | API server |
| `verify` | `cmd/verify.go`, `cmd/root.go` | flags, what was read, result, exit code | parse, 3 or 4 reads, judge, gate, exit | all of the above |
| `scan` | `cmd/scan.go` | results by Deployment name | list, then a verification per Deployment | API reads, Deployment verdict |
| `keygen`, `attest` | `cmd/keygen.go`, `cmd/attest.go`, `internal/attest` | key files, attestation file | write keys; verify, sign, write | verify, file system |
| `verify-attestation` | `cmd/verify_attestation.go`, `internal/attest/verify_attestation.go` | report | twelve checks of a file | file system |
| `evidence`, `explain` | `cmd/evidence.go`, `cmd/explain.go` | the output file a shell gives `evidence` | verify, print the result whatever the verdict | verify, file system |
| `compare` | `cmd/compare.go`, `internal/truth/comparison.go` | two documents, the changes | read two saved results, compare them | file system |
| formatter | `internal/output` | none | text and JSON of a result | every command |
| configuration references | `internal/truth/configuration.go` | none | walk a pod spec | verdicts (evidence only) |

How they interact: a command calls the API reads one after the other, hands the
values to a pure verdict function, lets the gate rewrite the result, and maps
the status to an exit code.  There are no goroutines in the program; its
concurrency is with the cluster, which changes between any two reads, and with
other runs of the program through the files they share.

What is hard here:

* **stale and torn reads.**  `verify deployment` makes four reads without a
  common resourceVersion, and lists the ReplicaSets twice: one list selects the
  pods, the other decides which of them are current;
* **the order of the controllers' writes.**  Template, ReplicaSet revision and
  Deployment revision are written one after the other;
* **the order of the status assignments.**  The verdict is assigned in some
  places and combined in others, and the gate assigns it again;
* **partial evidence.**  Containers missing on one side, images without a
  digest, image IDs not reported yet, pods that are terminating or unready;
* **boundaries.**  Zero replicas, zero ready pods, a surge pod, an empty list of
  ReplicaSets (which switches the revision filter off), repeated flags;
* **files that other runs rewrite.**  Keys, attestations and saved evidence are
  written in place, by a shell that empties the file first or by an open that
  does; nothing locks them;
* **ties in sorted lists.**  Findings are collected over a map and sorted by keys
  that two of them can share;
* **three spellings of a revision** of a StatefulSet or DaemonSet (full name,
  bare hash, label), with up to three sources for the wanted one.

What makes each component correct: the container checks and verdicts must give
MATCH exactly if the evidence proves it, must let drift outrank missing
evidence, and must account for every live pod; the gate may only weaken; the
command must give exit 0 exactly for a proved match, and never on half the
reads; against a moving cluster it must not miss a pod that was current, and
must be as good as a snapshot while the Deployment stands still; the attestation
must carry nothing that was not verified; a comparison must answer only of two
whole snapshots of one workload, and be empty exactly if they agree.

## 2. Modules

| Module | Models | Extends |
|---|---|---|
| `Truth` | vocabulary, image identity, status lattice, one pod's containers | |
| `DeploymentTruth` | `verifyDeployment` | `Truth` |
| `Gate` | `ParseExpectedDigests`, `ApplyExpectedDigests`, `exitForStatus` | `Truth` |
| `ClusterReads` | what `GetReplicaSetsForDeployment` and `GetDeploymentPods` keep of a list | |
| `Verification` | what a verification promises its caller, whatever it reads: the abstract specification | |
| `VerifyCommand` | one run of `verify deployment`, its answers unconstrained; implements `Verification` | `DeploymentTruth`, `Gate`, `ClusterReads` |
| `RolloutRace` | that run against a cluster that keeps moving | `VerifyCommand` |
| `RevisionTruth` | the verdict on StatefulSets and DaemonSets | `Truth` |
| `RevisionCommand` | one run of `verify statefulset` or `verify daemonset`; implements `Verification` | `RevisionTruth`, `Gate` |
| `Scan` | one run of `scan`, its answers unconstrained; implements `Verification` | `DeploymentTruth`, `Gate`, `ClusterReads` |
| `WorkloadTruth` | `verifyWorkload` on any kind of workload, its reads taken together | `DeploymentTruth`, `RevisionTruth` |
| `Attestation` | the attestation, the order of its findings, its signature, its offline verification | `WorkloadTruth`, `Gate` |
| `AttestationFiles` | runs of `keygen`, `attest` and `verify-attestation` that share files | `Attestation` |
| `Comparison` | a saved result as far as it is compared, and `CompareSnapshots` | `WorkloadTruth` |
| `SnapshotFiles` | runs of `evidence` into two files, and a `compare` that reads them | `Comparison`, `Gate` |
| `VerifyCommandMC`, `RolloutRaceMC`, `RevisionCommandMC`, `ScanMC`, `AttestationFilesMC`, `SnapshotFilesMC` | the small instances TLC checks | |
| `Truth_proofs` | lemmas about statuses, containers, observations and the gate | `Gate` |
| `DeploymentTruth_proofs` | lemmas about the verdict on a Deployment | `DeploymentTruth`, `Truth_proofs` |
| `VerifyCommand_proofs` | theorems about `VerifyCommand`: exit code, refinement, and what it reports | `VerifyCommand`, `DeploymentTruth_proofs` |
| `RevisionCommand_proofs` | theorems about `RevisionCommand`, its refinement among them | `RevisionCommand`, `Truth_proofs` |
| `Scan_proofs` | theorems about `Scan`, its refinement among them | `Scan`, `DeploymentTruth_proofs` |
| `RolloutRace_proofs` | theorems about the moving cluster, and that it is a server like any other | `RolloutRace` |
| `SnapshotFiles_proofs` | theorems about `evidence` and `compare` | `SnapshotFiles` |
| `AttestationFiles_proofs` | theorems about `keygen`, `attest` and `verify-attestation` | `AttestationFiles`, `DeploymentTruth_proofs` |

**State and actions.**  In `VerifyCommand`, `pc` says which statement of
`verifyCmd`/`verifyWorkload` comes next; `flags` and `expected` are the flag
values and the parsed map; `dep`, `pods` and `sets` are the local variables of
the same meaning in `verifyWorkload`; `owned` is the map `ownedReplicaSets`,
which lives only inside `GetDeploymentPods`; `res` is the `VerificationResult`
and `exit` the exit code.  One action stands for one call: `ParseFlags`,
`RejectFlags`, `GetDeployment`, `ListOwnedReplicaSets`, `ListPods`,
`ListReplicaSets`, `ReadFails` (any of the reads), `Judge` (the whole
verdict, which the code computes without another read), `ApplyGate`, `Exit`.
Every read returns any value of a constant set: nothing relates one answer to
the next, so what holds here holds for any server.  `RevisionCommand` has the
same shape with the three reads of the other workload kinds.

`Verification` has two variables, `evidence` (incomplete, a proof, no proof) and
`answer` (none, match, drift, unknown, error), and three steps: the last read
returns (`Gather`), the command gives up before it has (`GiveUp`), or it announces
what the evidence is worth (`Announce`).  The refinement mapping is `EvidenceNow`
(incomplete until the last read, then whether `Proven` holds of the values) and
`AnswerOf(exit)`.  So an implementation may not answer on part of its reads, may
not answer twice, may not call a proof anything but a match, and may not end in an
operational error once it has read everything.  The commands differ in the number
of reads and in what a proof is; the property `ImplementsVerification` of each is
the same sentence.  For `Scan` the evidence is complete when the last Deployment is
done with, and a proof if every one of them is proved: the loop over a namespace is
one verification of all of it, and it gives up only if the list of Deployments fails.

`RolloutRace` adds the cluster (`kDep`, `kSets`, `kPods`), which is external to
the repository and is modelled from what the command reads of it: a user updates,
scales and deletes the Deployment or patches a pod; the controller creates a
ReplicaSet with the next revision, and in a later write gives the Deployment the
same revision, or gives an old ReplicaSet a new revision after a rollback; pods
start, report, become ready and unready, terminate and go; the collector removes
ReplicaSets.  Its actions interleave with the command's reads, which see the
cluster as it is at that moment.  Three history variables record what a property
needs to look back at.

`Scan` has the loop of `cmd/scan.go`: `deployments` is the list, `todo` what the
loop has left of it, `results` the map that the exit code is computed from.  A
read that fails (`ReadFails`) enters UNKNOWN and moves on; `Exit` is the summary
and the exit code.  The history variable `seen` keeps what each verdict was
computed from.

`AttestationFiles` has three files (`private`, `public`, `attestation`) and any
number of runs.  `os.WriteFile` is two actions, the open that empties the file
and the write that fills it, so another run may read or write in between;
`Fail` is an error of any call, or the end of the process, at any step.  `Edit` is
external: someone changes one field of an attestation that was issued.  A key
pair is one value, and Ed25519 is external: a signature is the pair of key and
payload.  The reads of the cluster are one value here, because `VerifyCommand`
and `RevisionCommand` have them one by one.  The history variable `issued` collects
what was signed.  `FindingOrders` is the set of the orders in which a result may
list its findings: sorted by subject and reason, ties as the map iteration of
`verifier.go:145` left them; `SortFindings` is the stable outcome of the payload's
own sort.

`SnapshotFiles` has two files and any number of runs of `evidence --json`, each
with its output redirected to one of them.  `Redirect` is the shell, which empties
the file before the command starts; `Verify` is `verifyWorkload`; `PrintJSON` is
one write of the whole document, followed by the exit code of the verdict;
`EvidenceFails` is a failed read, a failed write or the end of the process, which
may leave the file torn.  `compare` reads one file (`ReadDocument`), then the
other, then compares (`Compare`), and any of it may fail (`ReadDocumentFails`).  A
file may also hold other JSON of this program, whose fields decode to zero values.
Runs are not told apart from one another by the documents they print: `Source(f)`
is every run whose verification prints what `compare` holds of `f`.

**Abstractions of data.**  An image reference is its digest, or `Unpinned`; an
image ID is its digest, empty, or without a digest.  The repository part plays
no role in any verdict.  Digests are canonical (lower case): the code compares
declared and reported digests exactly and lowers only the flag, and a pinned
reference with capitals cannot be pulled.  `spec.replicas` is a number because
the API server defaults it.  A pod has at most one ReplicaSet owner, as its
controller reference guarantees.  Lists that the code sorts, or whose order no
verdict reads, are sets or functions, except the findings of an attestation, whose
order is signed.  Revision strings are sequences of their parts,
because suffixes are compared; that one random hash is a suffix of another is
left out.  Evidence graph, configuration references and limitation texts decide
no status and are left out.  All containers of a pod share one restart count in
`Comparison`: no verdict reads it, and a comparison only asks whether it changed.

## 3. What is checked

Every property of a passing run has a mutant in `PROJECT.json`: a change of the
model such as a plausible slip in the code would make (the operators marked
"Seeded fault"), under which TLC finds the property violated.

| Run | States | Shows |
|---|---|---|
| `verify` | 79,076 | see below |
| `rollout_race` | 824,293, pods symmetric | see below |
| `revisions` | 58,518 | see below |
| `scan` | 5,690 | see below |
| `attestation` | 246,462, runs of a command symmetric | see below |
| `compare` | 299,486 | see below |

`verify` (`VerifyCommand.cfg`): exit 0 exactly if the values read prove a match
(`MatchIsProven`, `MatchIsNotWithheld`); a mismatch without expected digests is
exit 2 (`MismatchIsDrift`); every live pod listed is in a finding or fully
observed (`EveryPodAccountedFor`); a verdict other than a match can be read off
the result itself (`VerdictIsExplained`); the last flag of each container is
honoured on every counted pod (`EveryFlagHonoured`); after the verdict nothing
becomes a match or is taken back (`GateOnlyWeakens`); the command ends
(`CommandTerminates`) and implements `Verification` (`ImplementsVerification`).
Bounds: two pods, three
ReplicaSets of two Deployments, two containers of which one may be an init
container, two digests, replicas 0 to 2.  Two pods are enough for one to be good
and one bad in every respect, and for fewer, as many and more than desired; two
digests for match and mismatch; the failing and the truncated answer are among
the choices.

`rollout_race` (`RolloutRace.cfg`): a pod that was live, ready and of the revision
read, as the pods were listed, is one the verdict speaks for, although the list
that selected it is older and the one that says it is current is newer
(`NoCurrentPodMissed`).  If its ReplicaSet is collected, or renumbered by a
rollback, before the last list, it is named as of an old revision instead, and the
result is not a match; both happen in the run.  No other pod is judged
(`OnlyCurrentPodsJudged`), unless the Deployment is deleted under the command,
whose last list may then be empty and switch the revision filter off; that happens
too.  While Deployment and
ReplicaSets do not change between the reads, the result is the verdict on the
instant of the pod list, whatever the pods do (`QuietVerdictIsAtomic`).
`MaxUpdates` bounds the changes a user makes; two are enough for an update
followed by a rollback, which is the shortest history in which a ReplicaSet's
revision changes twice.  Pods move until they are listed, and Deployment and
ReplicaSets until they are last listed: later moves cannot be seen.

`CommandTerminates` is checked in the run `verify` under `WF_vars(Next)`: as long
as the command can take a step it eventually does.  The code justifies it: the
commands are straight-line code with no loop around a read, and each call returns
with an answer or an error (`ReadFails`).  The calls carry `context.Background()`,
so a server that never answers is outside this assumption.  The answers are
unconstrained, so the cluster may change for ever: that the run ends does not
depend on it.

`revisions` (`RevisionCommand.cfg`): the same questions for StatefulSets and
DaemonSets, the refinement of `Verification` among them, where "current" is stated from the revisions' numbers and names and
not with the code's suffix comparison.  Two hashes, three pods (so that the last
pod by name can differ from the first two), five workload answers in and out of
an update, and three answers of the ControllerRevision list.

`scan` (`Scan.cfg`): exit 0 exactly if every Deployment listed was read in full
and the values prove it a match (`CleanScanIsProven`); drift in one Deployment
is exit 2 whatever could not be read of the others, and in whatever order they
come (`DriftOutranksFailure`); the summary and the exit code, which are computed
from two different lists, agree (`SummaryAgreesWithExit`); the scan answers once,
after the last Deployment and for all of them (`ImplementsVerification`); it ends
(`ScanTerminates`, under weak fairness of the command: the loop is over a list
that was read once, and every call returns an answer or an error).  Lists of up
to three Deployments put one before, between and after the others.

`attestation` (`AttestationFiles.cfg`): two runs of `keygen`, two of `attest` and
one of `verify-attestation` on the same files.  What is found valid was issued,
field by field, by the partner of the public key at hand (`ValidMeansIssued`),
and carries the proof of its match, for *all* pods it says were desired
(`ValidCarriesProof`; the verification itself compares only the first pod of each
container with the expected digest, `verify_attestation.go:139`); an issued file
is valid (`IssuedIsValid`); a keygen that says it succeeded has left one pair
(`KeygenLeavesAPair`); a refused or failed run leaves an earlier attestation alone
(`OnlySignedRunsTouchTheFile`).  Two writers of each file are needed for one to
interrupt the other, two key pairs for a wrong key; answers with one and with
two pods let the second pod differ from the first, and the answers are of
Deployments and StatefulSets.

`compare` (`SnapshotFiles.cfg`): `compare` answers only if each document was
printed in full by a run with a verdict, both on the same workload
(`AnswerNeedsTwoSnapshots`); NO_CHANGE is never said of two looks at the cluster
that differ in what a comparison is for, which are the revision, the replica
counts, the pods and their readiness, and what runs in each counted container
(`NoChangeIsAgreement`), and CHANGED never of two that agree (`ChangeIsReal`);
with the same declaration, owners and pod revisions, NO_CHANGE keeps the verdict
unless a pod of which neither snapshot shows a container has started or stopped
terminating (`NoChangeHidesOnlyTermination`).  Three runs with two files: two for the pair to
compare, and the third to rewrite one of them, or tear it, between the two reads.
The answers include a pod replaced under its name, an init container that changes
alone, a restart without any other change, an unready pod, that pod terminating
next to the one pod desired (which takes PARTIAL to MATCH under NO_CHANGE), and
workloads of two names and three kinds.

What a comparison does not see, by its construction: UIDs, phases and termination
of pods, ReplicaSets and ControllerRevisions, findings, status, and an
`updateRevision` that differs from the current one.  `Agree` therefore speaks only
of what remains.  Of this, the termination of a pod can decide a verdict although
declaration, owners and revisions stand still: it is recorded (`verifier.go:268`),
terminating pods are skipped (`verifier.go:44`), and only readiness is compared
(`comparison.go:112`).  With one replica desired, a ready pod next to an unready
one is PARTIAL; when the unready pod starts to terminate it is MATCH, and the two
snapshots compare as NO_CHANGE.  `SameFrame` names what has to stand still, and
leaves open what pods tell: readiness, termination and reports.

### Disagreements between documentation and code

Each is a run in which TLC finds the documented statement violated.

| Run | Documented | What the code does |
|---|---|---|
| `drift_masked` | `README.md:230`: exit 2 for verified drift, 3 for insufficient evidence | a container that runs another digest than the declared one makes the verdict PARTIAL; the gate overwrites it by UNKNOWN when the digest expected of another container is not reported yet (`expected.go:65`) |
| `unstable_bytes` | `canonical.go:31`: the same logical attestation always gives the same bytes | findings of two undeclared containers of one pod tie in both sorts and keep the order of a map, so payload and signature differ (`canonical.go:50`, `verifier.go:145`) |
| `race_no_snapshot` | `README.md:72`: one API snapshot | a match can be pieced together from instants none of which matched |
| `scan_downgrades_failure` | `README.md:284`: list failures are operational errors, not downgraded | a failed list of one Deployment is its UNKNOWN, and the scan exits with 3 or 2 (`scan.go:33`) |
| `revision_misnamed` | `attest.go:162`: only current-revision pods make it to observations | the evidence names `currentRevision` (DaemonSet: the first ControllerRevision by name) while the pods are checked against `updateRevision` (DaemonSet: the highest number) |

Noted while reading, without a run: between an update and the controller's sync
`observedGeneration` is recorded and not consulted (`verifier.go:246`), so pods of
the old template count as current and diverge from the new one; an old ReplicaSet without listed pods yields no
finding (`verifier.go:47` against `README.md:95`); with no ready pod, a revision reported as
incomplete is exit 3 (`verifier.go:79` against `README.md:230`); an image ID
without a digest counts as a mismatch (`image.go:42` against `README.md:102`);
the ReplicaSets are listed twice (`README.md:90` says once); the pod loop of
StatefulSets and DaemonSets assigns the status, so the last uncounted pod by
name chooses between exit 2 and 3 (`verifier.go:381`); `attest` refuses an UNKNOWN
verdict with exit 2, not 3 (`attest.go:73`); `README.md:277` says
`schema_version: "1.0"`, the code writes `schemaVersion` 1, and no check reads
the replica counts (the signature covers them); `README.md:121` lists
StatefulSets as unsupported, `README.md:29` as supported.

## 4. What is proved

TLAPS proves the following for every value of the constants: any number of pods,
ReplicaSets, containers, digests and flags, and any answers of the reads.

* `Truth_proofs`: folding `combineStatus` over any collection of statuses gives
  `CombineAll` of the set of them, so the order of pods and containers cannot
  matter (`CombineIsFold`); a container matches exactly if both sides carry the
  same digest (`ObservationMatch`); a container set matches exactly if each
  declared container does (`ContainerSetMatch`); the gate lets a match pass exactly
  if every counted pod runs every expected digest (`GatePasses`).
* `DeploymentTruth_proofs`: what each stage of the status of a Deployment rests on
  (`FinalStatusMatch`, `AfterReplicasMatch`, `PartialSet`), for `verify` and `scan`.
* `VerifyCommand_proofs`, all the safety properties of `verify deployment`:
  `TypeCorrect` (`TypeOK`), `MatchIsAlwaysProven` (`MatchIsProven`),
  `MatchIsNeverWithheld` (`MatchIsNotWithheld`), `GateNeverStrengthens`
  (`GateOnlyWeakens`), `CommandImplementsVerification` (`ImplementsVerification`);
  and of its report `FlagsHonoured` (`EveryFlagHonoured`), `DriftIsReported`
  (`MismatchIsDrift`), `NoPodIsLost` (`EveryPodAccountedFor`), `VerdictExplained`
  (`VerdictIsExplained`).
* `RevisionCommand_proofs`, the same for StatefulSets and DaemonSets:
  `RevisionTypes` (`TypeOK`), `RevisionMatchIsProven` (`MatchIsProven`),
  `RevisionMatchIsNotWithheld` (`MatchIsNotWithheld`), `RevisionDriftIsReported`
  (`MismatchIsDrift`), `RevisionNoPodIsLost` (`EveryPodAccountedFor`) and
  `RevisionImplementsVerification` (`ImplementsVerification`).
* `Scan_proofs`: `ScanTypes` (`TypeOK`), `CleanScanMeansProof`
  (`CleanScanIsProven`), `DriftOutranks` (`DriftOutranksFailure`),
  `SummaryAgrees` (`SummaryAgreesWithExit`) and `ScanImplementsVerification`
  (`ImplementsVerification`), for lists of any length.
* `RolloutRace_proofs`: `RaceImplementsCommand`
  (`RaceSpec => Spec`: whatever a changing cluster answers, the command behaves as
  `VerifyCommand` says, so all its theorems hold during a rollout, the refinement
  of `Verification` among them); `QuietIsAtomic` (`QuietVerdictIsAtomic`);
  `CurrentPodsCounted` (`NoCurrentPodMissed`); `NoOldPodJudged`
  (`OnlyCurrentPodsJudged`).
* `SnapshotFiles_proofs`: `SnapshotTypes` (`TypeOK`), `AnswerFromTwoSnapshots`
  (`AnswerNeedsTwoSnapshots`), `NoChangeAgrees` (`NoChangeIsAgreement`),
  `ChangeDiffers` (`ChangeIsReal`) and `OnlyTerminationHidden`
  (`NoChangeHidesOnlyTermination`),
  for any number of runs of `evidence` and any workloads they verify.
* `AttestationFiles_proofs`: `AttestationTypes` (`TypeOK`), `ValidWasIssued`
  (`ValidMeansIssued`), `ValidProvesMatch` (`ValidCarriesProof`), `IssuedStaysValid`
  (`IssuedIsValid`), `KeygenPairs` (`KeygenLeavesAPair`) and `OnlySignedTouch`
  (`OnlySignedRunsTouchTheFile`), for any number of runs of the three commands, any
  keys, flags and workloads, and any interruption of one by another.

Assumptions: `DigestsAssumption` (the markers for absent digests are no
digests), `MaxRevisionAssumption`, `BoundsAssumption` and `RevisionAssumption` (the
bounds are numbers, and pod names have an order), `RunsAssumption` of
`AttestationFiles` (a run of keygen is named by the pair it makes, and flags are lists
of flag values),
`AnswersAssumption` (each answer has the type its API object has, which the API
server validates; a list of pods is finite, the names in a list of Deployments
and the numbers of a workload's ControllerRevisions differ, and, for an attestation,
a pod template has a container and no two of one name); for the cluster of `RolloutRace`,
`ClusterAssumption` (its constants have their types, and the names of pods are
finitely many) and `EveryAnswerAssumption` (`VerifyCommand` is taken with
every answer of the type, which is what a cluster may give).  TLC evaluates all of
them in the passing runs.

**Exit codes.**  `MatchIsProven` speaks of the last state and of values read many
steps before, so it is not inductive.  `IInv` adds `ResultIsVerdict`: up to the
verdict there is no result; at the gate `res` is `verifyDeployment(dep, sets,
pods)`; after it, and to the end of an answered run, it is the gated verdict of
the same variables; and the exit code is set from its status.  `IInv` is
preserved because nothing writes `dep`, `sets`, `pods` or `expected` after
`Judge`.  That leaves a statement without time, `VerdictExact`: the gated
verdict is MATCH exactly if `Proven` holds of the values.  It follows from
`FinalStatusMatch` (each stage of the status), `CurrentIsCounted` and
`AfterReplicasMatch` (the pods the code keeps are the ones the property counts),
`ContainerSetMatch`, and `GateMatch` with `NormalObservations` (the gate sees
one observation for each counted pod and each declared and reported container).
The refinement needs nothing more: `Gathering`, `Judging`, `ExitAnnounces` and
`FailGivesUp` map the last read, the silent steps, the exit and a failure to the
steps of `Verification`.

**Reports.**  `FlagsParsed` (the parsed map is that of the flags, from `ParseFlags`
on) is added to `IInv`; the rest is about the verdict as a function, stage by
stage: what of a result comes from which pod (`ReportByPod`, `ObservedByPod`), that
the gate takes nothing away (`GateKeepsReport`), and what each status short of a
match rests on (`PartialExplained`, `UnknownExplained`, `GateExplained`).

**StatefulSets and DaemonSets.**  The invariant has the shape of the one above,
with `DistinctNumbers` (no two ControllerRevisions of a workload have the same
number) for `ResultIsVerdict` to be about one revision.  `RevisionVerdictExact` is
again the statement without time.  What is different is the revision a pod has to
be of: `HighestIsNewest` (the maximum the code keeps while it walks the list is
the newest ControllerRevision), `CommonIsShared` (the revision taken from the pods
is one that all of them share) and `NamedRevisionMatch` (the suffix comparison accepts
exactly the spellings of one revision) give `CurrentIsWanted`: the pods that the
code takes for current are those of the wanted revision.

**Scan.**  A loop is proved with an invariant about its past.  `RecordedSoFar`
says that the results are those of the Deployments before the loop's position, one
for each name, and each either UNKNOWN with nothing read or the verdict on what
`seen` holds; `AnswersAtTheEnd` says that nothing is printed and no exit code set
before the list is used up.  At the end the results are those of the whole list
(`RecordedAtTheEnd`), and what is left is about one Deployment: the verdict recorded
is MATCH exactly if what was read proves it, and PARTIAL if it shows drift
(`RecordedVerdict`).  The refinement maps every read and every verdict to a
stutter or to `Gather` (`ScanGathers`: with something left to read, a step can at
most complete the evidence), the failed list of Deployments to `GiveUp`, and the
exit to `Announce` (`ScanAnnounces`, from `CleanScanIsProven` of the state it leads to).

**Moving cluster.**  `RaceStepIsCommandStep` needs only that the cluster is of its
type.  `QuietVerdictIsAtomic` follows from `AsOfOneInstant`: as long as the
Deployment and its ReplicaSets have not changed between the reads, what the command
holds is what one look, at the time of the pod list, would have shown.  `NoCurrentPodMissed` has to survive changes, and
rests on an order: `RevisionsGrow` (the Deployment's revision never falls below
the one that was read of it, and never runs ahead of its newest ReplicaSet) and
`CurrentListed` (a ReplicaSet that the first list does not have is newer than the
Deployment that was read, so every pod of that revision is among the listed).  So
a current pod is listed, and the last list decides: it is counted, or named as old.
That a match then counts it (`MatchCountsCurrent`), and that no other pod is judged,
needs `CurrentStays`: the numbers of a Deployment's ReplicaSets differ, and a number
that was read of it is never given to another ReplicaSet later, so what the last list
calls current was current when the pods were listed (`WereCurrent`).  Which cluster
this is about, `ClusterOK` says, and `ClusterStaysWellFormed` that it stays one.

**Comparison.**  `SInv` says where every document comes from: what a file or
`compare` holds is `NoDocument`, other JSON, or the snapshot of a run that is done
with a verdict; the code of `compare` belongs to what it holds.  Runs that print
are never undone (`PrintedForGood`), so the origin of a document outlives its file.
What is left is about functions: a snapshot has exactly one entry for each declared
and reported container of a counted pod (`SnapshotContainers`), and the set of
changes is empty exactly if the looks agree (`EqualIsAgreement`).  A pod of
which a snapshot shows a container is counted, so it does not terminate
(`ShownIsLive`), and what one of two agreeing snapshots shows, both show: only the
other pods can start or stop terminating unseen (`NothingElseIsHidden`).  If none
does, two looks that agree have one verdict (`SameVerdict`), which needs all of what
is compared: the pods' readiness and their standing decide which pods are counted
and with which status they enter (`SameCounted`), and the containers that are both declared and reported
decide the rest (`SameSetStatus`: an undeclared container contributes nothing).

**Attestation.**  `ValidMeansIssued` speaks of a file and a key that many runs may
have written since, so the invariant `AInv` is about origins.  `IssuedOK`: whatever
was signed, `attest` can make of some answer, some accepted flags and some key
(`Issuable`).  `FilesOK`: the attestation file is empty, torn, foreign, was issued,
or is an issued one with one field edited (`FromIssued`).  `RunsOK`, `AttestOK` and
`VerifyOK` say the same of what each run holds, and that a verdict is
`VerifyAttestation` of it.  `KeygenOK` says which half of its pair a run of keygen
has written, as long as no other has started.  `issued` only grows, so an origin is
never lost (`IssuedGrows`); the rest is about functions.  `EditIsSeen`: every
field an edit can change is covered by the signature, or is the signature, so an
edited attestation that verifies is the issued one.  `IssuedCarriesProof`: the
status MATCH of a result gives the evidence in the attestation, for every kind of
workload (`WorkloadMatch`, `ResultMatch`, `EntriesOfMatch`).  `IssuedVerifies`:
each of the twelve checks accepts what `attest` made; the check of the expected
digests looks at the first pod only, which exists (`FirstExists`) and runs the
expected digest because all counted pods do.

Every invariant, action property and refinement that a run checks is proved.  Only
model-checked is termination (`CommandTerminates`, `ScanTerminates`): liveness under
fairness needs ENABLED, which the prover cannot handle.  What is not proved either is
that findings without ties are sorted in one way only: the order is defined by a
choice among sequences, and the uniqueness of a sorted sequence is an induction over
its length.

## 5. Plan

The modules of section 2 were built in the order of that table.  What is left is a
moving cluster for StatefulSets and DaemonSets, as `RolloutRace` is for Deployments:
a partitioned update writes `updateRevision`, the ControllerRevisions and the pods
one after the other.

## 6. Not modelled

* **Configuration references** (`configuration.go`): a traversal of the pod spec
  that no verdict, comparison or attestation reads; its list is printed as it is.
* **Formatter and `explain`** (`internal/output`, `cmd/explain.go`): text of results
  that are modelled; that the whole document is printed in one write is in
  `SnapshotFiles`.
* **Order of observations and graph edges**: next to a match their sort keys do not
  tie, so an attestation has one order of them.  The order of a printed comparison
  is that of keys that do not tie either.
* **The form `verify workload <kind>/<name>`**: it chooses one of the modelled
  branches; an unsupported kind is an error before any read.
* **Client construction** (client-go's loading of kubeconfig), **manifests** and
  **tests**, which were read for what they say of the program.
* **A server that never answers**: the calls have no deadline, and the command has
  no code for it.
