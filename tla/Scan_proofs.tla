----------------------------- MODULE Scan_proofs -----------------------------
(***************************************************************************)
(* Proofs about scan for every value of its constants: any number of       *)
(* Deployments, pods, ReplicaSets and containers, and any answers of the   *)
(* cluster.                                                                *)
(***************************************************************************)
EXTENDS Scan, DeploymentTruth_proofs, SequenceTheorems, TLAPS

-----------------------------------------------------------------------------
(* The verdict on one Deployment *)

\* What was read for a Deployment proves a match exactly if it is judged one.
LEMMA ProvenIsMatch ==
  ASSUME NEW d \in DeploymentValues, NEW s, NEW l, IsFiniteSet(DOMAIN l)
  PROVE  FinalStatus(d, s, l) = "MATCH" <=> Proven(d, [pods |-> l, sets |-> s])
<1> DEFINE C == CurrentPods(d, s, l)
           R == ReadyPods(d, s, l)
           Runs(p) == \A k \in Kinds : \A c \in DOMAIN d.template[k] :
                        /\ d.template[k][c] \in Digests
                        /\ c \in DOMAIN l[p].reports[k]
                        /\ l[p].reports[k][c] = d.template[k][c]
<1>1. ASSUME NEW p
      PROVE  (\A k \in Kinds : SetStatus(d, l, p, k) = "MATCH") <=> Runs(p)
  BY ContainerSetMatch DEF SetStatus
<1>2. d.replicas \in Nat
  BY BoundsAssumption DEF DeploymentValues
<1> HIDE DEF Runs
<1>3. FinalStatus(d, s, l) = "MATCH"
        <=> /\ R # {}
            /\ NotReadyPods(d, s, l) = {}
            /\ Cardinality(R) >= d.replicas
            /\ \A p \in R : Runs(p)
  BY <1>1, <1>2, FinalStatusMatch, AfterReplicasMatch
<1> USE DEF Runs
<1>4. C = { p \in DOMAIN l :
              /\ ~l[p].terminating
              /\ DOMAIN s # {} =>
                   /\ d.revision # NoRevision
                   /\ l[p].owner \in DOMAIN s
                   /\ s[l[p].owner] = d.revision }
  BY DEF CurrentPods, StalePods, LivePods, currentReplicaSets
<1>5. Proven(d, [pods |-> l, sets |-> s])
        <=> /\ C # {}
            /\ Cardinality(C) >= d.replicas
            /\ \A p \in C : l[p].ready /\ Runs(p)
  BY <1>4 DEF Proven
<1>6. /\ NotReadyPods(d, s, l) = {} => R = C
      /\ NotReadyPods(d, s, l) = {} <=> \A p \in C : l[p].ready
  BY DEF NotReadyPods, ReadyPods
<1> HIDE DEF C, R, Runs
<1> QED
  BY <1>3, <1>5, <1>6

\* Drift in what was read makes the Deployment PARTIAL, whatever else was read.
LEMMA DriftIsPartial ==
  ASSUME NEW d, NEW s, NEW l, Drifted(d, [pods |-> l, sets |-> s])
  PROVE  FinalStatus(d, s, l) = "PARTIAL"
<1> DEFINE declared == d.template["container"]
<1>1. PICK p \in DOMAIN l :
        /\ l[p].ready /\ ~l[p].terminating
        /\ l[p].owner \in currentReplicaSets(d, s)
        /\ \E c \in DOMAIN declared \cap DOMAIN l[p].reports["container"] :
             /\ {declared[c], l[p].reports["container"][c]} \subseteq Digests
             /\ declared[c] # l[p].reports["container"][c]
  BY DEF Drifted
<1>2. PICK c \in DOMAIN declared \cap DOMAIN l[p].reports["container"] :
        /\ declared[c] \in Digests /\ l[p].reports["container"][c] \in Digests
        /\ declared[c] # l[p].reports["container"][c]
  BY <1>1
<1>3. p \in ReadyPods(d, s, l)
  BY <1>1 DEF ReadyPods, CurrentPods, StalePods, LivePods
<1>4. ObservationStatus(declared[c], l[p].reports["container"][c]) = "MISMATCH"
  BY <1>2, DigestsAssumption
     DEF ObservationStatus, imageIdentityMatch, DigestOf, NoDigest, NoImageID
<1>5. SetStatus(d, l, p, "container") = "PARTIAL"
  BY <1>2, <1>4, DivergentSet DEF SetStatus
<1> QED
  BY <1>3, <1>5, PartialSet DEF Kinds

-----------------------------------------------------------------------------
(* The invariant *)

\* How many of the Deployments are done with.
Finished == Len(deployments) - Len(todo)

\* What is recorded for d is the verdict on what was read for it, or UNKNOWN when a
\* read failed.
RecordedFor(d) ==
  \/ seen[d.name] = Failed /\ results[d.name] = "UNKNOWN"
  \/ \E s, l : /\ seen[d.name] = [pods |-> l, sets |-> s]
               /\ IsFiniteSet(DOMAIN l)
               /\ results[d.name] = FinalStatus(d, s, l)

\* The results are those of the Deployments that are done with, each under a name of
\* its own.
RecordedSoFar ==
  /\ \A i, j \in DOMAIN deployments : deployments[i].name = deployments[j].name => i = j
  /\ IsFiniteSet(DOMAIN pods)
  /\ DOMAIN results = {deployments[i].name : i \in 1 .. Finished}
  /\ DOMAIN seen = DOMAIN results
  /\ \A i \in 1 .. Finished : RecordedFor(deployments[i])

\* Only the last step prints and answers, and only after the last Deployment.
AnswersAtTheEnd ==
  /\ pc = "list" => deployments = <<>>
  /\ pc \in {"listPods", "listSets", "judge"} => todo # <<>>
  /\ pc # "done" => exit = NoExit /\ printed = NotPrinted
  /\ pc = "done" =>
       \/ exit = OperationalError /\ printed = NotPrinted
       \/ /\ todo = <<>>
          /\ exit = exitForStatus(ScanStatus)
          /\ printed = BuildScanSummary

IInv == TypeOK /\ RecordedSoFar /\ AnswersAtTheEnd

\* Where the loop stands in the list.
LEMMA LoopPosition ==
  ASSUME TypeOK
  PROVE  /\ Len(deployments) \in Nat /\ DOMAIN deployments = 1 .. Len(deployments)
         /\ Finished \in 0 .. Len(deployments)
         /\ todo = SubSeq(deployments, Finished + 1, Len(deployments))
         /\ todo = <<>> <=> Finished = Len(deployments)
<1>1. /\ Len(deployments) \in Nat /\ DOMAIN deployments = 1 .. Len(deployments)
      /\ \A i \in 1 .. Len(deployments) : deployments[i] \in DeploymentValues
  BY LenProperties, ElementOfSeq DEF TypeOK
<1>2. PICK i \in 0 .. Len(deployments) : todo = SubSeq(deployments, i + 1, Len(deployments))
  BY DEF TypeOK
<1>3. /\ todo \in Seq(DeploymentValues)
      /\ Len(todo) = IF i + 1 <= Len(deployments) THEN Len(deployments) - (i + 1) + 1 ELSE 0
  <2>1. \A j \in (i + 1) .. Len(deployments) : deployments[j] \in DeploymentValues
    BY <1>1
  <2> QED
    BY <1>1, <1>2, <2>1, SubSeqProperties
<1>4. Finished = i /\ (Len(todo) = 0 <=> i = Len(deployments))
  <2>1. i \in Int /\ Len(deployments) \in Int /\ i <= Len(deployments)
    BY <1>1
  <2>2. Len(todo) = Len(deployments) - i
    <3>1. ASSUME NEW n \in Int, NEW m \in Int, m <= n
          PROVE  (IF m + 1 <= n THEN n - (m + 1) + 1 ELSE 0) = n - m
      BY <3>1
    <3> QED
      BY <1>3, <2>1, <3>1
  <2>3. \A n, m \in Int : n - (n - m) = m
    OBVIOUS
  <2>4. Finished = i
    BY <2>1, <2>2, <2>3 DEF Finished
  <2>5. Len(todo) = 0 <=> i = Len(deployments)
    BY <2>1, <2>2
  <2> QED
    BY <2>4, <2>5
<1>5. todo = <<>> <=> Len(todo) = 0
  BY <1>3, EmptySeq
<1> QED
  BY <1>1, <1>2, <1>4, <1>5

\* The Deployment the loop is at, and where it is after one more.
LEMMA LoopStep ==
  ASSUME TypeOK, todo # <<>>
  PROVE  /\ Finished + 1 \in 1 .. Len(deployments)
         /\ dep = deployments[Finished + 1] /\ dep \in DeploymentValues
         /\ Tail(todo) = SubSeq(deployments, Finished + 2, Len(deployments))
         /\ Len(Tail(todo)) = Len(todo) - 1 /\ Len(todo) \in Nat
<1>1. /\ Len(deployments) \in Nat
      /\ Finished \in 0 .. Len(deployments)
      /\ todo = SubSeq(deployments, Finished + 1, Len(deployments))
      /\ Finished # Len(deployments)
      /\ deployments \in Seq(DeploymentValues)
  BY LoopPosition DEF TypeOK
<1> DEFINE m == Finished + 1
<1>2. m \in 1 .. Len(deployments) /\ Len(deployments) \in m .. Len(deployments)
  BY <1>1
<1>3. deployments[m] \in DeploymentValues
  BY <1>1, <1>2, ElementOfSeq
<1>4. /\ Head(SubSeq(deployments, m, Len(deployments))) = deployments[m]
      /\ Tail(SubSeq(deployments, m, Len(deployments)))
           = SubSeq(deployments, m + 1, Len(deployments))
  BY <1>1, <1>2, HeadTailOfSubSeq
<1>5. m + 1 = Finished + 2
  BY <1>1
<1>6. todo \in Seq(DeploymentValues)
  <2>1. \A j \in m .. Len(deployments) : deployments[j] \in DeploymentValues
    BY <1>1, <1>2, ElementOfSeq
  <2> QED
    BY <1>1, <1>2, <2>1, SubSeqProperties
<1>7. Len(Tail(todo)) = Len(todo) - 1 /\ Len(todo) \in Nat
  BY <1>6, HeadTailProperties, LenProperties
<1> QED
  BY <1>1, <1>2, <1>3, <1>4, <1>5, <1>7 DEF dep

\* An empty list is no pods at all.
LEMMA EmptyValues ==
  /\ DOMAIN Empty = {} /\ IsFiniteSet(DOMAIN Empty)
  /\ \A S : Empty \in [{} -> S]
BY FS_EmptySet DEF Empty

\* The command starts with every variable of its type and nothing recorded.
LEMMA ScanStarts == Init => IInv
<1> SUFFICES ASSUME Init
             PROVE  IInv
  OBVIOUS
<1>1. /\ deployments = <<>> /\ todo = <<>> /\ pods = Empty /\ sets = Empty
      /\ results = Empty /\ seen = Empty /\ pc = "list" /\ owned = {}
      /\ exit = NoExit /\ printed = NotPrinted
  BY DEF Init, NotRead
<1>2. Len(deployments) = 0 /\ deployments \in Seq(DeploymentValues)
  BY <1>1, EmptySeq
<1>3. todo = SubSeq(deployments, 0 + 1, Len(deployments))
  BY <1>1, <1>2, SubSeqEmpty
<1>4. TypeOK
  <2>1. \E i \in 0 .. Len(deployments) : todo = SubSeq(deployments, i + 1, Len(deployments))
    BY <1>2, <1>3
  <2> QED
    BY <1>1, <1>2, <2>1, EmptyValues DEF TypeOK, NoExit
<1>5. Finished = 0 /\ 1 .. Finished = {} /\ DOMAIN deployments = {}
  BY <1>1, <1>2 DEF Finished
<1>6. RecordedSoFar
  BY <1>1, <1>5, EmptyValues DEF RecordedSoFar
<1> QED
  BY <1>1, <1>4, <1>6 DEF IInv, AnswersAtTheEnd

\* What a read returns, and what the command keeps of it.
LEMMA ReadsKept ==
  /\ \A l \in NamespacePods : \A S :
       LET kept == GetDeploymentPods(l, S)
       IN  DOMAIN kept \subseteq PodNames /\ kept \in [DOMAIN kept -> PodValues]
           /\ IsFiniteSet(DOMAIN kept)
  /\ \A l \in NamespaceSets : \A n :
       LET kept == GetReplicaSetsForDeployment(l, n)
       IN  DOMAIN kept \subseteq SetNames /\ kept \in [DOMAIN kept -> Revisions]
<1>1. ASSUME NEW l \in NamespacePods, NEW S
      PROVE  LET kept == GetDeploymentPods(l, S)
             IN  DOMAIN kept \subseteq PodNames /\ kept \in [DOMAIN kept -> PodValues]
                 /\ IsFiniteSet(DOMAIN kept)
  <2> DEFINE kept == GetDeploymentPods(l, S)
  <2>1. /\ DOMAIN l \subseteq PodNames /\ l \in [DOMAIN l -> PodValues]
        /\ IsFiniteSet(DOMAIN l)
    BY AnswersAssumption
  <2>2. /\ DOMAIN kept \in SUBSET DOMAIN l
        /\ \A p \in DOMAIN kept : kept[p] = l[p]
        /\ kept = [p \in DOMAIN kept |-> kept[p]]
    BY DEF GetDeploymentPods
  <2>3. IsFiniteSet(DOMAIN kept)
    BY <2>1, <2>2, FS_Subset
  <2> HIDE DEF kept
  <2>4. DOMAIN kept \subseteq PodNames /\ kept \in [DOMAIN kept -> PodValues]
    BY <2>1, <2>2
  <2> QED
    BY <2>3, <2>4 DEF kept
<1>2. ASSUME NEW l \in NamespaceSets, NEW n
      PROVE  LET kept == GetReplicaSetsForDeployment(l, n)
             IN  DOMAIN kept \subseteq SetNames /\ kept \in [DOMAIN kept -> Revisions]
  BY AnswersAssumption DEF GetReplicaSetsForDeployment, SetValues
<1> QED
  BY <1>1, <1>2

\* A step that finishes no Deployment and neither prints nor answers.
LEMMA LoopUnmoved ==
  ASSUME IInv,
         UNCHANGED <<deployments, todo, results, printed, exit, seen>>,
         \/ pc = "loop" /\ todo # <<>>
         \/ pc \in {"listPods", "listSets"},
         pc' \in {"listPods", "listSets", "judge"},
         owned' \subseteq SetNames,
         DOMAIN pods' \subseteq PodNames, pods' \in [DOMAIN pods' -> PodValues],
         IsFiniteSet(DOMAIN pods'),
         DOMAIN sets' \subseteq SetNames, sets' \in [DOMAIN sets' -> Revisions]
  PROVE  IInv'
<1>1. TypeOK'
  BY DEF IInv, TypeOK
<1>2. RecordedSoFar'
  <2>1. Finished' = Finished
    BY DEF Finished
  <2>2. \A i \in 1 .. Finished : RecordedFor(deployments[i])'
    BY DEF IInv, RecordedSoFar, RecordedFor
  <2> QED
    BY <2>1, <2>2 DEF IInv, RecordedSoFar
<1>3. AnswersAtTheEnd'
  BY DEF IInv, AnswersAtTheEnd
<1> QED
  BY <1>1, <1>2, <1>3 DEF IInv

\* Recording a Deployment under its own name leaves the others' results alone.
LEMMA RecordKeeps ==
  ASSUME IInv, todo # <<>>, pc # "done",
         NEW status \in Verdicts, NEW values, Record(status, values),
         \/ values = Failed /\ status = "UNKNOWN"
         \/ \E s, l : /\ values = [pods |-> l, sets |-> s]
                      /\ IsFiniteSet(DOMAIN l)
                      /\ status = FinalStatus(dep, s, l)
  PROVE  IInv'
<1>1. /\ results' = With(results, dep.name, status)
      /\ seen' = With(seen, dep.name, values)
      /\ todo' = Tail(todo) /\ deployments' = deployments
      /\ pods' = Empty /\ sets' = Empty /\ owned' = {} /\ pc' = "loop"
      /\ UNCHANGED <<printed, exit>>
  BY DEF Record
<1>2. /\ Finished + 1 \in 1 .. Len(deployments)
      /\ dep = deployments[Finished + 1] /\ dep \in DeploymentValues
      /\ Tail(todo) = SubSeq(deployments, Finished + 2, Len(deployments))
      /\ Len(Tail(todo)) = Len(todo) - 1 /\ Len(todo) \in Nat
  BY LoopStep DEF IInv
<1>3. Len(deployments) \in Nat /\ DOMAIN deployments = 1 .. Len(deployments)
      /\ Finished \in 0 .. Len(deployments)
  BY LoopPosition DEF IInv
<1>4. Finished' = Finished + 1
  <2>1. Finished' = Len(deployments) - (Len(todo) - 1)
    BY <1>1, <1>2 DEF Finished
  <2>2. \A n, m \in Int : n - (m - 1) = (n - m) + 1
    OBVIOUS
  <2> QED
    BY <1>2, <1>3, <2>1, <2>2 DEF Finished
<1>5. /\ DOMAIN results' = DOMAIN results \cup {dep.name}
      /\ DOMAIN seen' = DOMAIN seen \cup {dep.name}
      /\ \A n \in DOMAIN results' :
           results'[n] = IF n = dep.name THEN status ELSE results[n]
      /\ \A n \in DOMAIN seen' : seen'[n] = IF n = dep.name THEN values ELSE seen[n]
  BY <1>1 DEF With
<1>6. results' \in [DOMAIN results' -> Verdicts] /\ DOMAIN results' \subseteq Owners
  <2>1. dep.name \in Owners
    BY <1>2 DEF DeploymentValues
  <2>2. results' = [n \in DOMAIN results' |-> results'[n]]
    BY <1>1 DEF With
  <2>3. /\ DOMAIN results \subseteq Owners
        /\ \A n \in DOMAIN results : results[n] \in Verdicts
    BY DEF IInv, TypeOK
  <2>4. \A n \in DOMAIN results' : results'[n] \in Verdicts
    BY <1>5, <2>3
  <2> QED
    BY <1>5, <2>1, <2>2, <2>3, <2>4
<1>7. TypeOK'
  <2>1. \E i \in 0 .. Len(deployments) : Tail(todo) = SubSeq(deployments, i + 1, Len(deployments))
    <3>1. Finished + 1 \in 0 .. Len(deployments) /\ (Finished + 1) + 1 = Finished + 2
      BY <1>2, <1>3
    <3> QED
      BY <1>2, <3>1
  <2>2. deployments \in Seq(DeploymentValues)
        /\ exit \in {0, OperationalError, 2, 3, NoExit}
    BY DEF IInv, TypeOK
  <2> QED
    BY <1>1, <1>6, <2>1, <2>2, EmptyValues DEF TypeOK
<1>8. \A i, j \in DOMAIN deployments : deployments[i].name = deployments[j].name => i = j
  BY DEF IInv, RecordedSoFar
<1>9. 1 .. Finished' = (1 .. Finished) \cup {Finished + 1}
  BY <1>3, <1>4
<1>10. DOMAIN results' = {deployments[i].name : i \in 1 .. Finished'}
  <2>1. DOMAIN results = {deployments[i].name : i \in 1 .. Finished}
    BY DEF IInv, RecordedSoFar
  <2>2. \A n : (\E i \in 1 .. Finished' : n = deployments[i].name)
                 <=> n \in DOMAIN results \/ n = dep.name
    BY <1>2, <1>9, <2>1
  <2> QED
    BY <1>5, <2>2
<1>11. ASSUME NEW i \in 1 .. Finished'
       PROVE  RecordedFor(deployments[i])'
  <2> DEFINE d == deployments[i]
  <2>1. d' = d
    BY <1>1
  <2>2. CASE i = Finished + 1
    <3>1. d = dep
      BY <1>2, <2>2
    <3>2. seen'[d.name] = values /\ results'[d.name] = status
      BY <1>5, <3>1
    <3> HIDE DEF d
    <3> QED
      BY <2>1, <3>1, <3>2 DEF RecordedFor, d
  <2>3. CASE i \in 1 .. Finished
    <3>1. RecordedFor(d) /\ d.name \in DOMAIN results /\ d.name \in DOMAIN seen
      BY <2>3 DEF IInv, RecordedSoFar
    <3>2. d.name # dep.name
      BY <1>2, <1>3, <1>8, <2>3
    <3>3. seen'[d.name] = seen[d.name] /\ results'[d.name] = results[d.name]
      BY <1>5, <3>1, <3>2
    <3> HIDE DEF d
    <3> QED
      BY <2>1, <3>1, <3>3 DEF RecordedFor, d
  <2> QED
    BY <1>9, <2>2, <2>3
<1>12. RecordedSoFar'
  <2>1. DOMAIN seen' = DOMAIN results'
    BY <1>5 DEF IInv, RecordedSoFar
  <2> QED
    BY <1>1, <1>8, <1>10, <1>11, <2>1, EmptyValues DEF RecordedSoFar
<1>13. AnswersAtTheEnd'
  BY <1>1 DEF IInv, AnswersAtTheEnd
<1> QED
  BY <1>7, <1>12, <1>13 DEF IInv

\* Every step keeps the invariant.
LEMMA ScanKeepsInvariant == IInv /\ [Next]_vars => IInv'
<1> SUFFICES ASSUME IInv, [Next]_vars
             PROVE  IInv'
  OBVIOUS
<1>1. /\ owned \subseteq SetNames
      /\ DOMAIN pods \subseteq PodNames /\ pods \in [DOMAIN pods -> PodValues]
      /\ DOMAIN sets \subseteq SetNames /\ sets \in [DOMAIN sets -> Revisions]
      /\ IsFiniteSet(DOMAIN pods)
  BY DEF IInv, TypeOK, RecordedSoFar
<1>2. ASSUME NEW answer \in DeploymentLists, ListDeployments(answer)
      PROVE  IInv'
  <2>1. /\ pc = "list" /\ pc' = "loop" /\ deployments' = answer /\ todo' = answer
        /\ UNCHANGED <<owned, pods, sets, results, printed, exit, seen>>
    BY <1>2 DEF ListDeployments
  <2>2. answer \in Seq(DeploymentValues) /\ Len(answer) \in Nat
        /\ \A i, j \in DOMAIN answer : answer[i].name = answer[j].name => i = j
    BY AnswersAssumption, LenProperties
  <2>3. TypeOK'
    <3>1. answer = SubSeq(answer, 0 + 1, Len(answer)) /\ 0 \in 0 .. Len(answer)
      BY <2>2, SubSeqFull
    <3>2. \E i \in 0 .. Len(answer) : answer = SubSeq(answer, i + 1, Len(answer))
      BY <3>1
    <3> QED
      BY <2>1, <2>2, <3>2 DEF IInv, TypeOK
  <2>4. Len(deployments) = 0 /\ Finished = 0
    <3>1. deployments = <<>> /\ Len(deployments) = 0
      BY <2>1, EmptySeq DEF IInv, AnswersAtTheEnd
    <3> QED
      BY <3>1, LoopPosition DEF IInv
  <2>5. Finished' = 0
    BY <2>1, <2>2 DEF Finished
  <2>6. RecordedSoFar'
    BY <1>1, <2>1, <2>2, <2>4, <2>5 DEF IInv, RecordedSoFar
  <2>7. AnswersAtTheEnd'
    BY <2>1 DEF IInv, AnswersAtTheEnd
  <2> QED
    BY <2>3, <2>6, <2>7 DEF IInv
<1>3. CASE ListDeploymentsFails
  <2>1. /\ pc = "list" /\ pc' = "done" /\ exit' = OperationalError
        /\ UNCHANGED <<deployments, todo, owned, pods, sets, results, printed, seen>>
    BY <1>3 DEF ListDeploymentsFails
  <2>2. TypeOK'
    BY <2>1 DEF IInv, TypeOK
  <2>3. Finished' = Finished /\ \A i \in 1 .. Finished : RecordedFor(deployments[i])'
    BY <2>1 DEF IInv, RecordedSoFar, RecordedFor, Finished
  <2>4. RecordedSoFar'
    BY <2>1, <2>3 DEF IInv, RecordedSoFar
  <2> QED
    BY <2>1, <2>2, <2>4 DEF IInv, AnswersAtTheEnd
<1>4. ASSUME NEW answer \in NamespaceSets, ListOwnedReplicaSets(answer)
      PROVE  IInv'
  <2>1. owned' \subseteq SetNames
    BY <1>4, ReadsKept DEF ListOwnedReplicaSets
  <2> QED
    BY <1>1, <1>4, <2>1, LoopUnmoved DEF ListOwnedReplicaSets
<1>5. ASSUME NEW answer \in NamespacePods, ListPods(answer)
      PROVE  IInv'
  <2>1. /\ DOMAIN pods' \subseteq PodNames /\ pods' \in [DOMAIN pods' -> PodValues]
        /\ IsFiniteSet(DOMAIN pods')
    BY <1>5, ReadsKept DEF ListPods
  <2> QED
    BY <1>1, <1>5, <2>1, LoopUnmoved DEF ListPods
<1>6. ASSUME NEW answer \in NamespaceSets, ListReplicaSets(answer)
      PROVE  IInv'
  <2>1. DOMAIN sets' \subseteq SetNames /\ sets' \in [DOMAIN sets' -> Revisions]
    BY <1>6, ReadsKept DEF ListReplicaSets
  <2> QED
    BY <1>1, <1>6, <2>1, LoopUnmoved DEF ListReplicaSets
<1>7. CASE ReadFails
  <2>1. Record("UNKNOWN", Failed) /\ todo # <<>> /\ pc # "done"
    BY <1>7 DEF ReadFails, Reading, IInv, AnswersAtTheEnd
  <2> QED
    BY <2>1, RecordKeeps DEF Verdicts
<1>8. CASE Judge
  <2>1. /\ Record(FinalStatus(dep, sets, pods), [pods |-> pods, sets |-> sets])
        /\ todo # <<>> /\ pc # "done"
    BY <1>8 DEF Judge, verifyDeployment, IInv, AnswersAtTheEnd
  <2>2. FinalStatus(dep, sets, pods) \in Verdicts
    BY FinalStatusType
  <2> QED
    BY <1>1, <2>1, <2>2, RecordKeeps
<1>9. CASE Exit
  <2>1. /\ pc = "loop" /\ todo = <<>> /\ pc' = "done"
        /\ printed' = BuildScanSummary /\ exit' = exitForStatus(ScanStatus)
        /\ UNCHANGED <<deployments, todo, owned, pods, sets, results, seen>>
    BY <1>9 DEF Exit
  <2>2. exit' \in {0, 2, 3}
    BY <2>1 DEF exitForStatus
  <2>3. TypeOK'
    BY <2>1, <2>2 DEF IInv, TypeOK
  <2>4. Finished' = Finished
    BY <2>1 DEF Finished
  <2>5. RecordedSoFar'
    <3>1. \A i \in 1 .. Finished : RecordedFor(deployments[i])'
      BY <2>1 DEF IInv, RecordedSoFar, RecordedFor
    <3> QED
      BY <2>1, <2>4, <3>1 DEF IInv, RecordedSoFar
  <2>6. ScanStatus' = ScanStatus /\ BuildScanSummary' = BuildScanSummary
    BY <2>1 DEF ScanStatus, Recorded, BuildScanSummary
  <2>7. AnswersAtTheEnd'
    BY <2>1, <2>6 DEF AnswersAtTheEnd
  <2> QED
    BY <2>3, <2>5, <2>7 DEF IInv
<1>10. CASE UNCHANGED vars
  <2>1. UNCHANGED <<pc, deployments, todo, owned, pods, sets, results, printed, exit, seen>>
    BY <1>10 DEF vars
  <2>2. Finished' = Finished /\ \A i \in 1 .. Finished : RecordedFor(deployments[i])'
    BY <2>1 DEF IInv, RecordedSoFar, RecordedFor, Finished
  <2>3. ScanStatus' = ScanStatus /\ BuildScanSummary' = BuildScanSummary
    BY <2>1 DEF ScanStatus, Recorded, BuildScanSummary
  <2>4. TypeOK'
    BY <2>1 DEF IInv, TypeOK
  <2>5. RecordedSoFar'
    BY <2>1, <2>2 DEF IInv, RecordedSoFar
  <2>6. AnswersAtTheEnd'
    BY <2>1, <2>3 DEF IInv, AnswersAtTheEnd
  <2> QED
    BY <2>4, <2>5, <2>6 DEF IInv
<1> QED
  BY <1>2, <1>3, <1>4, <1>5, <1>6, <1>7, <1>8, <1>9, <1>10 DEF Next

\* The invariant holds in every run.
LEMMA ScanInvariant == Spec => []IInv
BY ScanStarts, ScanKeepsInvariant, PTL DEF Spec

-----------------------------------------------------------------------------
(* The properties *)

\* Every variable of a scan keeps its type, whatever the cluster answers.
THEOREM ScanTypes == Spec => []TypeOK
<1>1. IInv => TypeOK
  BY DEF IInv
<1> QED
  BY <1>1, ScanInvariant, PTL

\* At the end a status is recorded exactly if a Deployment listed has it.
LEMMA RecordedAtTheEnd ==
  ASSUME IInv, pc = "done", exit # OperationalError
  PROVE  /\ exit = exitForStatus(ScanStatus) /\ printed = BuildScanSummary
         /\ \A i \in DOMAIN deployments :
              /\ deployments[i] \in DeploymentValues
              /\ deployments[i].name \in DOMAIN results
              /\ deployments[i].name \in DOMAIN seen
              /\ results[deployments[i].name] \in Verdicts
              /\ RecordedFor(deployments[i])
         /\ \A st : st \in Recorded
                      <=> \E i \in DOMAIN deployments : results[deployments[i].name] = st
<1>1. todo = <<>> /\ exit = exitForStatus(ScanStatus) /\ printed = BuildScanSummary
  BY DEF IInv, AnswersAtTheEnd
<1>2. Finished = Len(deployments) /\ DOMAIN deployments = 1 .. Finished
  BY <1>1, LoopPosition DEF IInv
<1>3. /\ DOMAIN results = {deployments[i].name : i \in DOMAIN deployments}
      /\ DOMAIN seen = DOMAIN results
      /\ \A i \in DOMAIN deployments : RecordedFor(deployments[i])
  BY <1>2 DEF IInv, RecordedSoFar
<1>4. \A i \in DOMAIN deployments : deployments[i] \in DeploymentValues
  BY ElementOfSeq, LenProperties DEF IInv, TypeOK
<1>5. \A n \in DOMAIN results : results[n] \in Verdicts
  BY DEF IInv, TypeOK
<1>6. \A st : st \in Recorded
                <=> \E i \in DOMAIN deployments : results[deployments[i].name] = st
  BY <1>3 DEF Recorded
<1> QED
  BY <1>1, <1>3, <1>4, <1>5, <1>6

\* What was read for a Deployment and the verdict that is recorded for it.
LEMMA RecordedVerdict ==
  ASSUME NEW d \in DeploymentValues, RecordedFor(d)
  PROVE  /\ results[d.name] = "MATCH"
              <=> (seen[d.name] # Failed /\ Proven(d, seen[d.name]))
         /\ (seen[d.name] # Failed /\ Drifted(d, seen[d.name]))
              => results[d.name] = "PARTIAL"
<1>1. CASE seen[d.name] = Failed /\ results[d.name] = "UNKNOWN"
  BY <1>1
<1>2. ASSUME NEW s, NEW l, seen[d.name] = [pods |-> l, sets |-> s], IsFiniteSet(DOMAIN l),
             results[d.name] = FinalStatus(d, s, l)
      PROVE  /\ results[d.name] = "MATCH"
                  <=> (seen[d.name] # Failed /\ Proven(d, seen[d.name]))
             /\ (seen[d.name] # Failed /\ Drifted(d, seen[d.name]))
                  => results[d.name] = "PARTIAL"
  <2>1. seen[d.name] # Failed
    <3>1. DOMAIN [pods |-> l, sets |-> s] = {"pods", "sets"} /\ DOMAIN Failed = {"failed"}
      BY DEF Failed
    <3>2. "pods" # "failed"
      OBVIOUS
    <3> QED
      BY <1>2, <3>1, <3>2
  <2>2. FinalStatus(d, s, l) = "MATCH" <=> Proven(d, [pods |-> l, sets |-> s])
    BY <1>2, ProvenIsMatch
  <2>3. Drifted(d, [pods |-> l, sets |-> s]) => FinalStatus(d, s, l) = "PARTIAL"
    BY DriftIsPartial
  <2> QED
    BY <1>2, <2>1, <2>2, <2>3
<1> QED
  BY <1>1, <1>2 DEF RecordedFor

\* The exit code is that of the worst status recorded.
LEMMA ScanExit ==
  /\ exitForStatus(ScanStatus) = 0 <=> ("PARTIAL" \notin Recorded /\ "UNKNOWN" \notin Recorded)
  /\ exitForStatus(ScanStatus) = 2 <=> "PARTIAL" \in Recorded
BY DEF exitForStatus, ScanStatus

\* The exit code is 0 exactly if what was recorded is what proves every Deployment.
LEMMA CleanScan == IInv => CleanScanIsProven
<1> SUFFICES ASSUME IInv, pc = "done", exit # OperationalError
             PROVE  exit = 0 <=> AllProven
  BY DEF CleanScanIsProven
<1>1. exit = 0 <=> \A i \in DOMAIN deployments : results[deployments[i].name] = "MATCH"
  BY RecordedAtTheEnd, ScanExit DEF Verdicts
<1>2. \A i \in DOMAIN deployments :
        /\ deployments[i].name \in DOMAIN seen
        /\ results[deployments[i].name] = "MATCH"
             <=> ( /\ seen[deployments[i].name] # Failed
                   /\ Proven(deployments[i], seen[deployments[i].name]) )
  BY RecordedAtTheEnd, RecordedVerdict
<1> QED
  BY <1>1, <1>2 DEF AllProven, Elements

\* A scan exits with 0 exactly if what it read proves every Deployment a match.
THEOREM CleanScanMeansProof == Spec => []CleanScanIsProven
BY CleanScan, ScanInvariant, PTL

\* Drift in one Deployment is exit 2, whatever could not be read of the others.
THEOREM DriftOutranks == Spec => []DriftOutranksFailure
<1>1. IInv => DriftOutranksFailure
  <2> SUFFICES ASSUME IInv, pc = "done", exit # OperationalError,
                      NEW i \in DOMAIN deployments,
                      seen[deployments[i].name] # Failed,
                      Drifted(deployments[i], seen[deployments[i].name])
               PROVE  exit = 2
    BY DEF DriftOutranksFailure, Elements
  <2>1. results[deployments[i].name] = "PARTIAL"
    BY RecordedAtTheEnd, RecordedVerdict
  <2> QED
    BY <2>1, RecordedAtTheEnd, ScanExit
<1> QED
  BY <1>1, ScanInvariant, PTL

\* The counts that are printed add up, and agree with the exit code.
THEOREM SummaryAgrees == Spec => []SummaryAgreesWithExit
<1>1. IInv => SummaryAgreesWithExit
  <2> SUFFICES ASSUME IInv, printed # NotPrinted
               PROVE  /\ printed.match + printed.partial + printed.unknown
                           = printed.inspected
                      /\ exit = 0 <=> printed.match = printed.inspected
                      /\ exit = 2 <=> printed.partial > 0
    BY DEF SummaryAgreesWithExit
  <2>1. pc = "done" /\ exit # OperationalError
    <3>1. exit = exitForStatus(ScanStatus) /\ pc = "done"
      BY DEF IInv, AnswersAtTheEnd
    <3> QED
      BY <3>1 DEF exitForStatus, OperationalError
  <2> DEFINE D == DOMAIN deployments
             Of(st) == {i \in D : results[deployments[i].name] = st}
             M == Of("MATCH")
             P == Of("PARTIAL")
             U == Of("UNKNOWN")
             n == Len(deployments)
  <2>2. D = 1 .. n /\ n \in Nat /\ IsFiniteSet(D) /\ Cardinality(D) = n
    <3>1. D = 1 .. n /\ n \in Nat
      BY LoopPosition DEF IInv
    <3>2. ASSUME NEW k \in Nat
          PROVE  IsFiniteSet(1 .. k) /\ Cardinality(1 .. k) = k
      <4>1. IsFiniteSet(1 .. k) /\ Cardinality(1 .. k) = IF 1 > k THEN 0 ELSE k - 1 + 1
        BY FS_Interval
      <4> QED
        BY <4>1
    <3> HIDE DEF D, n
    <3> QED
      BY <3>1, <3>2
  <2>3. /\ M \cup P \cup U = D
        /\ M \cap P = {} /\ (M \cup P) \cap U = {}
    BY <2>1, RecordedAtTheEnd DEF Verdicts
  <2>4. /\ printed.inspected = n
        /\ printed.match = Cardinality(M)
        /\ printed.partial = Cardinality(P)
        /\ printed.unknown = Cardinality(U)
    <3>1. \A st : {i \in D : (IF deployments[i].name \in DOMAIN results
                              THEN results[deployments[i].name] ELSE "UNKNOWN") = st} = Of(st)
      BY <2>1, RecordedAtTheEnd
    <3>2. printed = BuildScanSummary
      BY <2>1, RecordedAtTheEnd
    <3> HIDE DEF Of
    <3> QED
      BY <3>1, <3>2 DEF BuildScanSummary
  <2>5. /\ exit = 0 <=> (P = {} /\ U = {})
        /\ exit = 2 <=> P # {}
    BY <2>1, RecordedAtTheEnd, ScanExit
  <2> HIDE DEF M, P, U, D, n, Of
  <2>6. IsFiniteSet(M) /\ IsFiniteSet(P) /\ IsFiniteSet(U) /\ IsFiniteSet(M \cup P)
    BY <2>2, <2>3, FS_Subset
  <2>7. Cardinality(M) \in Nat /\ Cardinality(P) \in Nat /\ Cardinality(U) \in Nat
    BY <2>6, FS_CardinalityType
  <2>8. /\ Cardinality(M \cup P) = Cardinality(M) + Cardinality(P) - Cardinality({})
        /\ n = Cardinality(M \cup P) + Cardinality(U) - Cardinality({})
    <3>1. Cardinality(M \cup P) = Cardinality(M) + Cardinality(P) - Cardinality(M \cap P)
      BY <2>6, FS_Union
    <3>2. Cardinality((M \cup P) \cup U)
            = Cardinality(M \cup P) + Cardinality(U) - Cardinality((M \cup P) \cap U)
      BY <2>6, FS_Union
    <3> QED
      BY <2>2, <2>3, <3>1, <3>2
  <2>9. Cardinality(M) + Cardinality(P) + Cardinality(U) = n
    BY <2>7, <2>8, FS_EmptySet
  <2>10. /\ P = {} <=> Cardinality(P) = 0
         /\ U = {} <=> Cardinality(U) = 0
    BY <2>6, FS_EmptySet
  <2> QED
    BY <2>2, <2>4, <2>5, <2>7, <2>9, <2>10
<1> QED
  BY <1>1, ScanInvariant, PTL

-----------------------------------------------------------------------------
(* The refinement *)

\* Until the last Deployment is done with there is neither evidence nor an answer, and
\* a step that does not answer at most completes the evidence.
LEMMA ScanGathers ==
  ASSUME IInv, pc # "done", pc = "loop" => todo # <<>>, exit' = exit
  PROVE  \/ UNCHANGED <<EvidenceNow, AnswerOf(exit)>>
         \/ V!Gather
<1>1. exit = NoExit
  BY DEF IInv, AnswersAtTheEnd
<1>2. EvidenceNow = "incomplete" /\ AnswerOf(exit) = "none" /\ AnswerOf(exit)' = "none"
  BY <1>1 DEF EvidenceNow, AnswerOf, NoExit
<1>3. EvidenceNow' \in {"incomplete", "proof", "no proof"}
  BY DEF EvidenceNow
<1> QED
  BY <1>2, <1>3 DEF V!Gather

\* The answer is the one that the evidence of all the Deployments asks for.
LEMMA ScanAnnounces ==
  ASSUME IInv, IInv', IInv' => CleanScanIsProven', Exit
  PROVE  V!Announce
<1>1. /\ pc = "loop" /\ todo = <<>> /\ pc' = "done" /\ exit' = exitForStatus(ScanStatus)
      /\ UNCHANGED <<deployments, todo, owned, pods, sets, results, seen>>
  BY DEF Exit
<1>2. exit = NoExit /\ exit' \in {0, 2, 3} /\ exit' # OperationalError
  BY <1>1 DEF IInv, AnswersAtTheEnd, exitForStatus, OperationalError
<1>3. AllProven' <=> AllProven
  BY <1>1 DEF AllProven, Elements, Proven
<1>4. exit' = 0 <=> AllProven
  BY <1>1, <1>2, <1>3 DEF CleanScanIsProven
<1>5. /\ EvidenceNow = (IF AllProven THEN "proof" ELSE "no proof")
      /\ EvidenceNow' = (IF AllProven' THEN "proof" ELSE "no proof")
      /\ AnswerOf(exit) = "none"
  BY <1>1, <1>2 DEF EvidenceNow, AnswerOf, NoExit, OperationalError
<1>6. AnswerOf(exit)' \in IF AllProven THEN {"match"} ELSE {"drift", "unknown"}
  BY <1>2, <1>4 DEF AnswerOf, NoExit
<1>7. EvidenceNow' = EvidenceNow
  BY <1>3, <1>5
<1> QED
  BY <1>5, <1>6, <1>7 DEF V!Announce

\* A scan is a verification of the whole namespace: one answer, after the last
\* Deployment, and a match only if each of them is proved one.
THEOREM ScanImplementsVerification == Spec => ImplementsVerification
<1>1. Init => V!Init
  BY DEF Init, V!Init, EvidenceNow, AnswerOf, NoExit
<1>2. ASSUME IInv, [Next]_vars
      PROVE  [V!Next]_<<EvidenceNow, AnswerOf(exit)>>
  <2>1. CASE \E answer \in DeploymentLists : ListDeployments(answer)
    BY <1>2, <2>1, ScanGathers DEF ListDeployments, V!Next
  <2>2. CASE ListDeploymentsFails
    <3>1. pc = "list" /\ pc' = "done" /\ exit = NoExit /\ exit' = OperationalError
      BY <1>2, <2>2 DEF ListDeploymentsFails, IInv, AnswersAtTheEnd
    <3>2. /\ EvidenceNow = "incomplete" /\ EvidenceNow' = "incomplete"
          /\ AnswerOf(exit) = "none" /\ AnswerOf(exit)' = "error"
      BY <3>1 DEF EvidenceNow, AnswerOf, OperationalError, NoExit
    <3> QED
      BY <3>2 DEF V!Next, V!GiveUp
  <2>3. CASE \E answer \in NamespaceSets : ListOwnedReplicaSets(answer)
    BY <1>2, <2>3, ScanGathers DEF ListOwnedReplicaSets, V!Next
  <2>4. CASE \E answer \in NamespacePods : ListPods(answer)
    BY <1>2, <2>4, ScanGathers DEF ListPods, V!Next
  <2>5. CASE \E answer \in NamespaceSets : ListReplicaSets(answer)
    BY <1>2, <2>5, ScanGathers DEF ListReplicaSets, V!Next
  <2>6. CASE ReadFails
    BY <1>2, <2>6, ScanGathers DEF ReadFails, Reading, Record, V!Next
  <2>7. CASE Judge
    BY <1>2, <2>7, ScanGathers DEF Judge, Record, V!Next
  <2>8. CASE Exit
    <3>1. IInv'
      BY <1>2, ScanKeepsInvariant
    <3>2. IInv' => CleanScanIsProven'
      BY CleanScan, PTL
    <3> QED
      BY <1>2, <2>8, <3>1, <3>2, ScanAnnounces DEF V!Next
  <2>9. CASE UNCHANGED vars
    BY <2>9 DEF vars, EvidenceNow, AnswerOf, AllProven, Elements, Proven
  <2> QED
    BY <1>2, <2>1, <2>2, <2>3, <2>4, <2>5, <2>6, <2>7, <2>8, <2>9 DEF Next
<1>3. V!Spec <=> V!Init /\ [][V!Next]_<<EvidenceNow, AnswerOf(exit)>>
  BY DEF V!Spec
<1> QED
  BY <1>1, <1>2, <1>3, ScanInvariant, PTL DEF Spec, ImplementsVerification
=============================================================================
