----------------------- MODULE RevisionCommand_proofs -----------------------
(***************************************************************************)
(* Proofs about verify for StatefulSets and DaemonSets, for every value of *)
(* its constants: any number of pods, ControllerRevisions, hashes,         *)
(* containers and flags, and any answers of the cluster.                   *)
(***************************************************************************)
EXTENDS RevisionCommand, Truth_proofs, FiniteSetTheorems, SequenceTheorems, TLAPS

target == targetRevision(w, crs, pods)

\* No two ControllerRevisions of a workload have the same number.
DistinctNumbers ==
  \A m, n \in DOMAIN crs : crs[m].revision = crs[n].revision => m = n

-----------------------------------------------------------------------------
(* The revision a pod has to be of *)

\* The names and hashes a pod may carry, taken apart.
LEMMA RevisionShapes ==
  /\ \A r \in RevisionNames : Len(r) = 2 /\ r = <<r[1], r[2]>> /\ r # NoRev
                              /\ r[2] \in Hashes
  /\ \A h : Len(<<h>>) = 1 /\ <<h>> # NoRev
  /\ \A r \in PodRevisions : r = NoRev \/ r \in RevisionNames \/ \E h \in Hashes : r = <<h>>
BY DEF RevisionNames, PodRevisions, NoRev

\* The two suffixes of a pair that a revision can be.
LEMMA PairSuffixes ==
  ASSUME NEW b, NEW h
  PROVE  SubSeq(<<b, h>>, 1, 2) = <<b, h>> /\ SubSeq(<<b, h>>, 2, 2) = <<h>>
<1> DEFINE s == <<b, h>>
           S == {b, h}
<1>1. s \in Seq(S) /\ Len(s) = 2 /\ s # <<>>
  OBVIOUS
<1>2. Tail(s) = <<h>>
  OBVIOUS
<1> HIDE DEF s, S
<1>3. SubSeq(s, 1, 2) = s
  BY <1>1, SubSeqFull
<1>4. SubSeq(s, 2, 2) = Tail(s)
  BY <1>1, TailIsSubSeq
<1> QED
  BY <1>2, <1>3, <1>4 DEF s

\* What a suffix of a revision's name is.
LEMMA NameSuffixes ==
  ASSUME NEW n \in RevisionNames, NEW r \in PodRevisions, r # NoRev
  PROVE  /\ HasSuffix(n, r) <=> r \in {n, <<n[2]>>}
         /\ HasSuffix(r, n) <=> r = n
<1>1. PICK b \in Bases, h \in Hashes : n = <<b, h>>
  BY DEF RevisionNames
<1>2. CASE r \in RevisionNames
  <2>1. PICK b2 \in Bases, h2 \in Hashes : r = <<b2, h2>>
    BY <1>2 DEF RevisionNames
  <2>2. SubSeq(<<b, h>>, 1, 2) = <<b, h>> /\ SubSeq(<<b2, h2>>, 1, 2) = <<b2, h2>>
    BY PairSuffixes
  <2>3. Len(<<b, h>>) = 2 /\ Len(<<b2, h2>>) = 2 /\ 2 - 2 + 1 = 1
    OBVIOUS
  <2> QED
    BY <1>1, <2>1, <2>2, <2>3 DEF HasSuffix
<1>3. ASSUME NEW h2 \in Hashes, r = <<h2>>
      PROVE  /\ HasSuffix(n, r) <=> r \in {n, <<n[2]>>}
             /\ HasSuffix(r, n) <=> r = n
  <2>1. SubSeq(<<b, h>>, 2, 2) = <<h>>
    BY PairSuffixes
  <2>2. Len(<<b, h>>) = 2 /\ Len(<<h2>>) = 1 /\ 2 - 1 + 1 = 2
    OBVIOUS
  <2> QED
    BY <1>1, <1>3, <2>1, <2>2 DEF HasSuffix
<1> QED
  BY <1>2, <1>3, RevisionShapes

\* A pod matches a named revision exactly if it carries its name or one of its hashes:
\* no other way of spelling a revision is accepted, and none of these is refused.
LEMMA NamedRevisionMatch ==
  ASSUME TypeOK, NEW p \in DOMAIN pods, pods[p].rev # NoRev, NEW n \in RevisionNames
  PROVE  isRevisionMatch(pods[p].rev, n, crs) <=> OfRevision(p, n)
<1> DEFINE r == pods[p].rev
<1>1. r \in PodRevisions
  BY DEF TypeOK, RevisionPods
<1>2. HasSuffix(n, r) <=> r \in {n, <<n[2]>>}
  BY <1>1, NameSuffixes
<1>3. HasSuffix(r, n) <=> r = n
  BY <1>1, NameSuffixes
<1>4. \A m \in DOMAIN crs : crs[m].hash # n
  <2>1. \A m \in DOMAIN crs : crs[m].hash = NoRev \/ \E h \in Hashes : crs[m].hash = <<h>>
    BY DEF TypeOK, RevisionValues
  <2> QED
    BY <2>1, RevisionShapes
<1> HIDE DEF r
<1>5. isRevisionMatch(r, n, crs)
        <=> r = n \/ r = <<n[2]>> \/ (n \in DOMAIN crs /\ crs[n].hash = r)
  BY <1>2, <1>3, <1>4 DEF isRevisionMatch
<1>6. OfRevision(p, n)
        <=> r = n \/ r = <<n[2]>> \/ (n \in DOMAIN crs /\ crs[n].hash = r)
  BY DEF OfRevision, r
<1> QED
  BY <1>5, <1>6 DEF r

\* Of finitely many numbers bounded by MaxRevision one is the highest.
LEMMA HighestExists ==
  ASSUME TypeOK, DOMAIN crs # {}
  PROVE  \E n \in DOMAIN crs : \A m \in DOMAIN crs : crs[m].revision <= crs[n].revision
<1> DEFINE left == {MaxRevision - crs[n].revision : n \in DOMAIN crs}
<1>1. MaxRevision \in Nat /\ \A n \in DOMAIN crs : crs[n].revision \in 1 .. MaxRevision
  BY MaxRevisionAssumption DEF TypeOK, RevisionValues
<1>2. left \subseteq Nat /\ left # {}
  BY <1>1
<1>3. PICK k \in left : \A i \in left : ~(<<i, k>> \in OpToRel(<, Nat))
  BY <1>2, NatLessThanWellFounded, WFMin
<1>4. \A i \in left : ~(i < k)
  BY <1>2, <1>3 DEF OpToRel
<1>5. PICK n \in DOMAIN crs : k = MaxRevision - crs[n].revision
  BY <1>3
<1>6. ASSUME NEW m \in DOMAIN crs
      PROVE  crs[m].revision <= crs[n].revision
  <2>1. MaxRevision - crs[m].revision \in left
    OBVIOUS
  <2>2. ~(MaxRevision - crs[m].revision < MaxRevision - crs[n].revision)
    BY <1>4, <1>5, <2>1
  <2> HIDE DEF left
  <2>3. \A a, i, j \in Int : ~(a - i < a - j) => i <= j
    OBVIOUS
  <2>4. MaxRevision \in Int /\ crs[m].revision \in Int /\ crs[n].revision \in Int
    BY <1>1
  <2> QED
    BY <2>2, <2>3, <2>4
<1> QED
  BY <1>6

\* The revision the code calls highest is the newest one, and there is one such.
LEMMA HighestIsNewest ==
  ASSUME TypeOK, DistinctNumbers, DOMAIN crs # {}
  PROVE  /\ HighestRevision(crs) \in DOMAIN crs
         /\ Newest = {HighestRevision(crs)}
<1>1. /\ HighestRevision(crs) \in DOMAIN crs
      /\ \A m \in DOMAIN crs : crs[m].revision <= crs[HighestRevision(crs)].revision
  BY HighestExists DEF HighestRevision
<1>2. \A n \in DOMAIN crs : crs[n].revision \in Int
  BY DEF TypeOK, RevisionValues
<1> HIDE DEF HighestRevision
<1>3. ASSUME NEW n \in Newest
      PROVE  n = HighestRevision(crs)
  <2>1. /\ n \in DOMAIN crs
        /\ crs[n].revision <= crs[HighestRevision(crs)].revision
        /\ crs[HighestRevision(crs)].revision <= crs[n].revision
    BY <1>1 DEF Newest
  <2> QED
    BY <1>1, <1>2, <2>1 DEF DistinctNumbers
<1> QED
  BY <1>1, <1>3 DEF Newest

\* The pods of a DaemonSet without ControllerRevisions agree on a revision, or none
\* of them is counted.
LEMMA CommonIsShared ==
  ASSUME TypeOK, NEW p \in DOMAIN pods
  PROVE  /\ CommonRevision(pods) # NoRev => \A q \in DOMAIN pods : pods[q].rev = CommonRevision(pods)
         /\ (\A q \in DOMAIN pods : pods[q].rev = pods[p].rev)
              => CommonRevision(pods) = pods[p].rev
<1> DEFINE carried == {pods[q].rev : q \in DOMAIN pods}
           f == [q \in DOMAIN pods |-> pods[q].rev]
<1>1. IsFiniteSet(carried)
  <2>1. f \in Surjection(DOMAIN pods, carried)
    BY DEF Surjection
  <2>2. IsFiniteSet(DOMAIN pods)
    BY DEF TypeOK
  <2> HIDE DEF f, carried
  <2> QED
    BY <2>1, <2>2, FS_Surjection
<1>2. Cardinality(carried) = 1 <=> \E r : carried = {r}
  <2> HIDE DEF carried
  <2> QED
    BY <1>1, FS_Singleton
<1>3. CommonRevision(pods) =
        IF Cardinality(carried) = 1 THEN CHOOSE r \in carried : TRUE ELSE NoRev
  BY DEF CommonRevision
<1>4. ASSUME CommonRevision(pods) # NoRev, NEW q \in DOMAIN pods
      PROVE  pods[q].rev = CommonRevision(pods)
  <2>1. pods[q].rev \in carried
    OBVIOUS
  <2> HIDE DEF carried
  <2> QED
    BY <1>2, <1>3, <1>4, <2>1
<1>5. ASSUME \A q \in DOMAIN pods : pods[q].rev = pods[p].rev
      PROVE  CommonRevision(pods) = pods[p].rev
  <2>1. carried = {pods[p].rev}
    BY <1>5
  <2> HIDE DEF carried
  <2> QED
    BY <1>2, <1>3, <2>1
<1> QED
  BY <1>4, <1>5

\* The pods the code takes for current are those of the revision that is wanted,
\* whichever of its three sources the target came from.
LEMMA CurrentIsWanted ==
  ASSUME TypeOK, DistinctNumbers, w \in Workloads, NEW p \in Live(pods)
  PROVE  p \in Current(target, crs, pods) <=> OfWanted(p)
<1> DEFINE r == pods[p].rev
           named == {w.updateRevision, w.currentRevision} \ {NoRev}
<1>1. p \in DOMAIN pods
  BY DEF Live
<1>2. p \in Current(target, crs, pods)
        <=> target # NoRev /\ r # NoRev /\ isRevisionMatch(r, target, crs)
  BY DEF Current, Old, Unknown
<1>3. /\ w.kind \in {"StatefulSet", "DaemonSet"}
      /\ w.updateRevision \in {NoRev} \cup RevisionNames
      /\ w.currentRevision \in {NoRev} \cup RevisionNames
  BY DEF Workloads, WorkloadKinds
<1>4. \A n \in RevisionNames : n # NoRev
  BY RevisionShapes
<1>5. ASSUME NEW n \in RevisionNames, target = n
      PROVE  p \in Current(target, crs, pods) <=> r # NoRev /\ OfRevision(p, n)
  BY <1>1, <1>2, <1>4, <1>5, NamedRevisionMatch
<1>6. CASE w.kind = "StatefulSet" /\ named # {}
  <2>1. /\ target = FirstKnown(w.updateRevision, w.currentRevision)
        /\ target \in RevisionNames
    BY <1>3, <1>6 DEF target, targetRevision, FirstKnown
  <2>2. OfWanted(p) <=> r # NoRev /\ \E n \in named : OfRevision(p, n)
                                        /\ w.updateRevision \in {n, NoRev}
    BY <1>6 DEF OfWanted
  <2>3. \A n : (n \in named /\ w.updateRevision \in {n, NoRev}) <=> n = target
    BY <1>3, <1>4, <1>6, <2>1 DEF FirstKnown
  <2> HIDE DEF named
  <2>4. OfWanted(p) <=> r # NoRev /\ OfRevision(p, target)
    BY <2>2, <2>3
  <2> QED
    BY <1>5, <2>1, <2>4
<1>7. ASSUME w.kind = "DaemonSet" \/ named = {}, DOMAIN crs # {}
      PROVE  p \in Current(target, crs, pods) <=> OfWanted(p)
  <2>1. /\ HighestRevision(crs) \in DOMAIN crs /\ Newest = {HighestRevision(crs)}
        /\ HighestRevision(crs) \in RevisionNames
    BY <1>7, HighestIsNewest DEF TypeOK
  <2>2. target = HighestRevision(crs)
    BY <1>3, <1>4, <1>7, <2>1 DEF target, targetRevision, FirstKnown
  <2>3. OfWanted(p) <=> r # NoRev /\ \E n \in Newest : OfRevision(p, n)
    BY <1>3, <1>7 DEF OfWanted
  <2> QED
    BY <1>5, <2>1, <2>2, <2>3
<1>8. ASSUME w.kind = "DaemonSet", DOMAIN crs = {}
      PROVE  p \in Current(target, crs, pods) <=> OfWanted(p)
  <2>1. target = CommonRevision(pods)
    BY <1>8 DEF target, targetRevision, FirstKnown, HighestRevision
  <2>2. OfWanted(p) <=> r # NoRev /\ \A q \in DOMAIN pods : pods[q].rev = r
    BY <1>8 DEF OfWanted, Newest
  <2>3. isRevisionMatch(r, r, crs)
    BY DEF isRevisionMatch
  <2> QED
    BY <1>1, <1>2, <2>1, <2>2, <2>3, CommonIsShared
<1>9. ASSUME w.kind = "StatefulSet", named = {}, DOMAIN crs = {}
      PROVE  p \in Current(target, crs, pods) <=> OfWanted(p)
  <2>1. target = NoRev
    BY <1>9 DEF target, targetRevision, FirstKnown, HighestRevision
  <2>2. ~OfWanted(p)
    BY <1>9 DEF OfWanted, Newest
  <2> QED
    BY <1>2, <2>1, <2>2
<1> QED
  BY <1>3, <1>6, <1>7, <1>8, <1>9

-----------------------------------------------------------------------------
(* The verdict *)

\* The status the pod loop ends with is a match exactly if it has a target and met no
\* pod that is unready or of an unknown revision.
LEMMA PodStatusMatch ==
  ASSUME NEW t, NEW c, NEW l
  PROVE  /\ PodStatus(t, c, l) \in Verdicts
         /\ PodStatus(t, c, l) = "MATCH"
              <=> t # NoRev /\ Unready(t, c, l) = {} /\ Unknown(t, l) = {}
<1> DEFINE marking == Unready(t, c, l) \cup Unknown(t, l)
<1>1. CASE marking = {} /\ t = NoRev
  BY <1>1 DEF PodStatus, Verdicts
<1>2. CASE marking = {} /\ t # NoRev
  <2>1. PodStatus(t, c, l) = "MATCH"
    BY <1>2 DEF PodStatus
  <2> QED
    BY <1>2, <2>1 DEF Verdicts
<1>3. CASE marking # {}
  <2>1. PodStatus(t, c, l) \in {"UNKNOWN", "PARTIAL"}
    BY <1>3 DEF PodStatus
  <2> QED
    BY <1>3, <2>1 DEF Verdicts
<1> QED
  BY <1>1, <1>2, <1>3

\* What the verdict means when it is a match.
LEMMA RevisionStatusMatch ==
  ASSUME NEW x, NEW t, NEW c, NEW l,
         desiredPods(x) \in Nat, IsFiniteSet(DOMAIN l)
  PROVE  RevisionStatus(x, t, c, l) = "MATCH"
           <=> /\ t # NoRev /\ Unready(t, c, l) = {} /\ Unknown(t, l) = {}
               /\ Counted(t, c, l) # {}
               /\ Cardinality(Counted(t, c, l)) >= desiredPods(x)
               /\ \A p \in Counted(t, c, l), k \in Kinds :
                    ContainerSetStatus(x.template[k], l[p].reports[k]) = "MATCH"
<1> DEFINE C == Counted(t, c, l)
           first == CountedStatus(x, t, c, l)
<1>1. Cardinality(C) \in Nat
  <2>1. C \in SUBSET DOMAIN l
    BY DEF Counted, Current, Live
  <2>2. IsFiniteSet(C)
    BY <2>1, FS_Subset
  <2> QED
    BY <2>2, FS_CardinalityType
<1> HIDE DEF C
<1>2. /\ first \in Verdicts
      /\ first = "MATCH" <=> /\ PodStatus(t, c, l) = "MATCH"
                             /\ C # {}
                             /\ Cardinality(C) >= desiredPods(x)
  <2>1. CASE C = {}
    BY <2>1 DEF CountedStatus, C, Verdicts
  <2>2. CASE C # {} /\ Short(x, t, c, l)
    <3>1. first = "PARTIAL" /\ Cardinality(C) < desiredPods(x)
      BY <2>2 DEF CountedStatus, Short, C
    <3> QED
      BY <1>1, <3>1 DEF Verdicts
  <2>3. CASE C # {} /\ ~Short(x, t, c, l)
    <3>1. first = PodStatus(t, c, l)
      BY <2>3 DEF CountedStatus, C
    <3>2. PodStatus(t, c, l) = "MATCH" => ~(Cardinality(C) < desiredPods(x))
      BY <2>3 DEF Short, C
    <3> QED
      BY <1>1, <2>3, <3>1, <3>2, PodStatusMatch
  <2> QED
    BY <2>1, <2>2, <2>3
<1>3. RevisionStatus(x, t, c, l) = CombineAll({first} \cup StatusesOn(C, x.template, l))
  BY DEF RevisionStatus, StatusesOn, C
<1>4. RevisionStatus(x, t, c, l) = "MATCH"
        <=> /\ first = "MATCH"
            /\ \A p \in C, k \in Kinds :
                 ContainerSetStatus(x.template[k], l[p].reports[k]) = "MATCH"
  BY <1>2, <1>3, CombinedPods
<1> QED
  BY <1>2, <1>4, PodStatusMatch DEF C

\* A verdict on a workload is told apart from the absence of one.
LEMMA RevisionVerdicts ==
  ASSUME NEW x, NEW c, NEW l
  PROVE  /\ verifyRevisions(x, c, l) # NoResult
         /\ verifyRevisions(x, c, l).status \in Verdicts
<1>1. RevisionStatus(x, targetRevision(x, c, l), c, l) \in Verdicts
  BY CombineAllType DEF RevisionStatus, Verdicts
<1> QED
  BY <1>1 DEF verifyRevisions, NoResult, Verdicts, None

\* The gate keeps a verdict a verdict.
LEMMA RevisionGate ==
  ASSUME NEW x, NEW c, NEW l, NEW e
  PROVE  LET v == verifyRevisions(x, c, l)
             g == ApplyExpectedDigests(v, e)
         IN  /\ g # NoResult /\ g.status \in Verdicts
             /\ DOMAIN e = {} => g = v
             /\ DOMAIN e # {} => /\ g.status = GatedStatus(v, e)
                                 /\ v.findings \subseteq g.findings
                                 /\ g.observations =
                                      { [o EXCEPT !.reason = GatedReason(o, v, e)]
                                        : o \in v.observations }
<1> DEFINE v == verifyRevisions(x, c, l)
           g == ApplyExpectedDigests(v, e)
<1>1. v # NoResult /\ v.status \in Verdicts
  BY RevisionVerdicts
<1>2. DOMAIN e = {} => g = v
  BY DEF ApplyExpectedDigests
<1>3. DOMAIN e # {} => /\ g.status = GatedStatus(v, e)
                       /\ v.findings \subseteq g.findings
                       /\ g.observations =
                            { [o EXCEPT !.reason = GatedReason(o, v, e)]
                              : o \in v.observations }
  BY DEF ApplyExpectedDigests, verifyRevisions
<1>4. GatedStatus(v, e) \in Verdicts
  BY <1>1 DEF GatedStatus, Verdicts
<1>5. g.status \in Verdicts
  BY <1>1, <1>2, <1>3, <1>4
<1>6. g # NoResult
  BY <1>5 DEF NoResult, Verdicts, None
<1> QED
  BY <1>2, <1>3, <1>5, <1>6

\* The status of the whole computation is a match exactly if the values that were
\* read prove one.
LEMMA RevisionVerdictExact ==
  ASSUME TypeOK, DistinctNumbers, w \in Workloads
  PROVE  ApplyExpectedDigests(verifyRevisions(w, crs, pods), expected).status = "MATCH"
           <=> Proven
<1> DEFINE v == verifyRevisions(w, crs, pods)
           g == ApplyExpectedDigests(v, expected)
           C == Counted(target, crs, pods)
           Cur == Current(target, crs, pods)
           all == \A p \in C, k \in Kinds :
                    ContainerSetStatus(w.template[k], pods[p].reports[k]) = "MATCH"
<1>1. /\ v.status = RevisionStatus(w, target, crs, pods)
      /\ v.observations = ObservedOn(C, w.template, pods)
  BY DEF verifyRevisions, RevisionObservations, ObservedOn, target
<1>2. desiredPods(w) \in Nat /\ IsFiniteSet(DOMAIN pods)
  BY RevisionAssumption DEF Workloads, desiredPods, TypeOK
<1>3. v.status = "MATCH"
        <=> /\ target # NoRev /\ Unready(target, crs, pods) = {} /\ Unknown(target, pods) = {}
            /\ C # {} /\ Cardinality(C) >= desiredPods(w)
            /\ all
  BY <1>1, <1>2, RevisionStatusMatch
<1>4. all <=> \A p \in C : Identified(p)
  BY ContainerSetMatch DEF Identified
<1>5. v.status = "MATCH" => (GatedStatus(v, expected) = "MATCH" <=> \A p \in C : Expected(p))
  <2> SUFFICES ASSUME v.status = "MATCH"
               PROVE  GatedStatus(v, expected) = "MATCH" <=> \A p \in C : Expected(p)
    OBVIOUS
  <2>1. C # {} /\ all
    BY <1>3
  <2>2. \A p \in C : ContainerSetStatus(w.template["container"],
                                        pods[p].reports["container"]) = "MATCH"
    BY <2>1 DEF Kinds
  <2>3. \A c \in DOMAIN expected : expected[c] \in Digests
    BY DEF TypeOK
  <2> HIDE DEF v, C, all
  <2>4. GatedStatus(v, expected) = "MATCH"
          <=> \A p \in C : \A c \in DOMAIN expected :
                /\ c \in DOMAIN w.template["container"]
                /\ c \in DOMAIN pods[p].reports["container"]
                /\ pods[p].reports["container"][c] = expected[c]
    BY <1>1, <2>1, <2>2, <2>3, GatePasses
  <2> QED
    BY <2>4 DEF Expected
<1>6. g.status = "MATCH" <=> v.status = "MATCH" /\ \A p \in C : Expected(p)
  <2>1. DOMAIN expected = {} => g = v
    BY RevisionGate
  <2>2. DOMAIN expected # {} => g.status = GatedStatus(v, expected)
    BY RevisionGate
  <2>3. DOMAIN expected = {} => \A p \in C : Expected(p)
    BY DEF Expected
  <2> HIDE DEF v, g, C
  <2>4. GatedStatus(v, expected) = "MATCH" => v.status = "MATCH"
    BY DEF GatedStatus
  <2> QED
    BY <1>5, <2>1, <2>2, <2>3, <2>4
<1>7. Cur = {p \in Live(pods) : OfWanted(p)}
  <2>1. Cur \subseteq Live(pods)
    BY DEF Current
  <2> QED
    BY <2>1, CurrentIsWanted
<1>8. /\ Unready(target, crs, pods) = {} => C = Cur
      /\ Unready(target, crs, pods) = {} <=> \A p \in Cur : pods[p].ready
      /\ C \subseteq Cur
  BY DEF Unready, Counted
<1>9. Cur # {} => target # NoRev
  BY DEF Current, Unknown
<1>10. target # NoRev => (Unknown(target, pods) = {} <=> \A p \in Live(pods) : pods[p].rev # NoRev)
  BY DEF Unknown
<1>11. Proven <=> /\ Cur # {} /\ Cardinality(Cur) >= desiredPods(w)
                  /\ \A p \in Live(pods) : pods[p].rev # NoRev
                  /\ \A p \in Cur : pods[p].ready /\ Identified(p) /\ Expected(p)
  BY <1>7 DEF Proven, Live
<1> HIDE DEF v, g, C, Cur, all
<1>12. g.status = "MATCH" <=> Proven
  BY <1>3, <1>4, <1>6, <1>8, <1>9, <1>10, <1>11
<1> QED
  BY <1>12 DEF g, v

-----------------------------------------------------------------------------
(* The command *)

\* The inductive invariant: at each step the result is the verdict on the values
\* read, first ungated and then gated; the workload has been read by then; and only
\* the last step sets the exit code.
ResultIsVerdict ==
  /\ pc \in {"parse", "get", "listPods", "listRevisions", "judge"} => res = NoResult
  /\ pc \in {"listPods", "listRevisions", "judge", "gate", "exit"} => w \in Workloads
  /\ pc = "gate" => res = verifyRevisions(w, crs, pods)
  /\ pc = "exit" => res = ApplyExpectedDigests(verifyRevisions(w, crs, pods), expected)
  /\ pc # "done" => exit = NoExit
  /\ Answered =>
       /\ w \in Workloads
       /\ res = ApplyExpectedDigests(verifyRevisions(w, crs, pods), expected)
       /\ exit = exitForStatus(res.status)

IInv == TypeOK /\ DistinctNumbers /\ ResultIsVerdict

\* The command starts with every variable of its type and without a result.
LEMMA RevisionStart == Init => IInv
BY AnswersAssumption, FS_EmptySet
   DEF Init, IInv, TypeOK, DistinctNumbers, ResultIsVerdict, Empty, NotRead, Answered,
       NoExit, OperationalError

\* Every step of the command, and every answer of a read, keeps the invariant.
LEMMA RevisionStep == IInv /\ [Next]_vars => IInv'
<1> SUFFICES ASSUME IInv, [Next]_vars
             PROVE  IInv'
  OBVIOUS
<1> USE DEF IInv
<1>1. CASE ParseFlags
  <2>1. /\ DOMAIN expected' \subseteq Containers
        /\ expected' \in [DOMAIN expected' -> Digests]
    BY <1>1, ParsedDigests DEF ParseFlags, TypeOK
  <2> QED
    BY <1>1, <2>1 DEF ParseFlags, TypeOK, DistinctNumbers, ResultIsVerdict, Answered
<1>2. CASE RejectFlags
  BY <1>2 DEF RejectFlags, Fail, TypeOK, DistinctNumbers, ResultIsVerdict, Answered
<1>3. ASSUME NEW answer \in WorkloadAnswers, GetWorkload(answer)
      PROVE  IInv'
  BY <1>3, AnswersAssumption
     DEF GetWorkload, TypeOK, DistinctNumbers, ResultIsVerdict, Answered
<1>4. ASSUME NEW answer \in NamespacePods, ListPods(answer)
      PROVE  IInv'
  <2>1. w.kind \in WorkloadKinds /\ w.name \in Bases
    BY <1>4 DEF ListPods, ResultIsVerdict, Workloads
  <2>2. /\ IsFiniteSet(DOMAIN pods') /\ DOMAIN pods' \subseteq PodNames
        /\ pods' \in [DOMAIN pods' -> RevisionPods]
    BY <1>4, <2>1, AnswersAssumption DEF ListPods
  <2> QED
    BY <1>4, <2>2 DEF ListPods, TypeOK, DistinctNumbers, ResultIsVerdict, Answered
<1>5. ASSUME NEW answer \in NamespaceRevisions, ListRevisions(answer)
      PROVE  IInv'
  <2>1. w.kind \in WorkloadKinds /\ w.name \in Bases
    BY <1>5 DEF ListRevisions, ResultIsVerdict, Workloads
  <2>2. /\ DOMAIN crs' \subseteq {<<w.name, h>> : h \in Hashes}
        /\ crs' \in [DOMAIN crs' -> RevisionValues]
        /\ \A m, n \in DOMAIN crs' : crs'[m].revision = crs'[n].revision => m = n
    BY <1>5, <2>1, AnswersAssumption DEF ListRevisions
  <2>3. DOMAIN crs' \subseteq RevisionNames
    BY <2>1, <2>2 DEF RevisionNames
  <2> QED
    BY <1>5, <2>2, <2>3 DEF ListRevisions, TypeOK, DistinctNumbers, ResultIsVerdict, Answered
<1>6. CASE ReadFails
  BY <1>6 DEF ReadFails, Fail, TypeOK, DistinctNumbers, ResultIsVerdict, Answered
<1>7. CASE Judge
  <2>1. res' = verifyRevisions(w, crs, pods) /\ res'.status \in Verdicts
    BY <1>7, RevisionVerdicts DEF Judge
  <2> QED
    BY <1>7, <2>1 DEF Judge, TypeOK, DistinctNumbers, ResultIsVerdict, Answered
<1>8. CASE ApplyGate
  <2>1. res = verifyRevisions(w, crs, pods)
    BY <1>8 DEF ApplyGate, ResultIsVerdict
  <2>2. /\ res' = ApplyExpectedDigests(verifyRevisions(w, crs, pods), expected)
        /\ res'.status \in Verdicts
    BY <1>8, <2>1, RevisionGate DEF ApplyGate
  <2> QED
    BY <1>8, <2>2 DEF ApplyGate, TypeOK, DistinctNumbers, ResultIsVerdict, Answered
<1>9. CASE Exit
  <2>1. exit' = exitForStatus(res.status) /\ exit' \in {0, 2, 3}
    BY <1>9 DEF Exit, exitForStatus
  <2> QED
    BY <1>9, <2>1 DEF Exit, TypeOK, DistinctNumbers, ResultIsVerdict, Answered
<1>10. CASE UNCHANGED vars
  BY <1>10 DEF vars, TypeOK, DistinctNumbers, ResultIsVerdict, Answered
<1> QED
  BY <1>1, <1>2, <1>3, <1>4, <1>5, <1>6, <1>7, <1>8, <1>9, <1>10 DEF Next

\* The invariant holds in every run.
LEMMA RevisionInvariant == Spec => []IInv
BY RevisionStart, RevisionStep, PTL DEF Spec

\* Every variable of the command keeps its type, whatever the cluster answers.
THEOREM RevisionTypes == Spec => []TypeOK
BY RevisionInvariant, PTL DEF IInv

\* An answer is the exit code of the gated verdict.
LEMMA RevisionAnswer ==
  ASSUME IInv, Answered
  PROVE  /\ w \in Workloads
         /\ res = ApplyExpectedDigests(verifyRevisions(w, crs, pods), expected)
         /\ exit = exitForStatus(res.status)
         /\ res.status = "MATCH" <=> Proven
BY RevisionVerdictExact DEF IInv, ResultIsVerdict

\* Exit 0 for a StatefulSet or a DaemonSet is a proof, however the revisions are
\* spelled and whatever pods of other revisions there are.
THEOREM RevisionMatchIsProven == Spec => []MatchIsProven
<1>1. IInv => MatchIsProven
  <2> SUFFICES ASSUME IInv, exit = 0
               PROVE  Proven
    BY DEF MatchIsProven
  <2>1. Answered
    BY DEF IInv, ResultIsVerdict, Answered, NoExit, OperationalError
  <2>2. exitForStatus(res.status) = 0
    BY <2>1, RevisionAnswer
  <2>3. res.status = "MATCH"
    BY <2>2 DEF exitForStatus
  <2> QED
    BY <2>1, <2>3, RevisionAnswer
<1> QED
  BY <1>1, RevisionInvariant, PTL

\* And a proof is never answered with another exit code.
THEOREM RevisionMatchIsNotWithheld == Spec => []MatchIsNotWithheld
<1>1. IInv => MatchIsNotWithheld
  BY RevisionAnswer DEF MatchIsNotWithheld, exitForStatus
<1> QED
  BY <1>1, RevisionInvariant, PTL

\* A mismatch in a counted pod is exit 2 when no digest is expected, also after a pod
\* of an unknown revision.
THEOREM RevisionDriftIsReported == Spec => []MismatchIsDrift
<1>1. IInv => MismatchIsDrift
  <2> SUFFICES ASSUME IInv, Answered, DOMAIN expected = {},
                      NEW o \in res.observations, o.status = "MISMATCH"
               PROVE  exit = 2
    BY DEF MismatchIsDrift
  <2> DEFINE C == Counted(target, crs, pods)
             of(p, k) == ContainerSetStatus(w.template[k], pods[p].reports[k])
             stat == {of(pk[1], pk[2]) : pk \in C \X Kinds}
  <2>1. res = verifyRevisions(w, crs, pods) /\ exit = exitForStatus(res.status)
    BY RevisionAnswer DEF ApplyExpectedDigests
  <2>2. res.observations = ObservedOn(C, w.template, pods)
    BY <2>1 DEF verifyRevisions, RevisionObservations, ObservedOn, target
  <2>3. PICK p \in C, k \in Kinds :
          o \in ObservationsOf(k, p, w.template[k], pods[p].reports[k])
    BY <2>2, ObservedOnPod
  <2>4. \E c \in DOMAIN w.template[k] :
          /\ c \in DOMAIN pods[p].reports[k]
          /\ ObservationStatus(w.template[k][c], pods[p].reports[k][c]) = "MISMATCH"
    BY <2>3 DEF ObservationsOf, Observed
  <2>5. of(p, k) = "PARTIAL"
    BY <2>4, DivergentSet
  <2>6. "PARTIAL" \in stat
    <3>1. <<p, k>> \in C \X Kinds /\ <<p, k>>[1] = p /\ <<p, k>>[2] = k
      OBVIOUS
    <3> QED
      BY <2>5, <3>1
  <2>7. RevisionStatus(w, target, crs, pods)
          = CombineAll({CountedStatus(w, target, crs, pods)} \cup stat)
    BY DEF RevisionStatus
  <2> HIDE DEF stat
  <2>8. res.status = "PARTIAL"
    BY <2>1, <2>6, <2>7 DEF CombineAll, verifyRevisions, target
  <2> QED
    BY <2>1, <2>8 DEF exitForStatus
<1> QED
  BY <1>1, RevisionInvariant, PTL

\* A verification names each live pod or speaks of each of its declared containers.
LEMMA RevisionPodAccountedFor ==
  ASSUME NEW x, NEW c, NEW l, NEW p \in DOMAIN l, ~l[p].terminating
  PROVE  LET v == verifyRevisions(x, c, l)
         IN  \/ \E f \in v.findings : f.pod = p /\ f.container = None
             \/ \A k \in Kinds : \A n \in DOMAIN x.template[k] :
                  \/ \E o \in v.observations : o.kind = k /\ o.pod = p /\ o.container = n
                  \/ \E f \in v.findings : f.pod = p /\ f.container = n
<1> DEFINE t == targetRevision(x, c, l)
           C == Counted(t, c, l)
           v == verifyRevisions(x, c, l)
<1>1. /\ v.observations = ObservedOn(C, x.template, l)
      /\ v.findings = RevisionFindings(x, t, c, l)
  BY DEF verifyRevisions, RevisionObservations, ObservedOn
<1>2. PodFindings(t, c, l) \subseteq v.findings
  BY <1>1 DEF RevisionFindings
<1>3. p \in Old(t, c, l) \/ p \in Unknown(t, l) \/ p \in Unready(t, c, l) \/ p \in C
  BY DEF Live, Current, Unready, Counted
<1> HIDE DEF v, t, C
<1>4. CASE p \in Old(t, c, l)
  <2>1. Finding("OLD_REVISION_IGNORED", "STALE", p, None) \in v.findings
    BY <1>2, <1>4 DEF PodFindings
  <2> QED
    BY <2>1 DEF Finding, v
<1>5. CASE p \in Unknown(t, l)
  <2>1. Finding("IMMUTABLE_IDENTITY_UNAVAILABLE", "UNKNOWN", p, None) \in v.findings
    BY <1>2, <1>5 DEF PodFindings
  <2> QED
    BY <2>1 DEF Finding, v
<1>6. CASE p \in Unready(t, c, l)
  <2>1. Finding("POD_NOT_READY", "PARTIAL", p, None) \in v.findings
    BY <1>2, <1>6 DEF PodFindings
  <2> QED
    BY <2>1 DEF Finding, v
<1>7. CASE p \in C
  <2>1. ASSUME NEW k \in Kinds, NEW n \in DOMAIN x.template[k]
        PROVE  \/ \E o \in v.observations : o.kind = k /\ o.pod = p /\ o.container = n
               \/ \E f \in v.findings : f.pod = p /\ f.container = n
    <3>1. CASE n \in DOMAIN l[p].reports[k]
      <4>1. PICK o \in ObservationsOf(k, p, x.template[k], l[p].reports[k]) :
              o.kind = k /\ o.pod = p /\ o.container = n
        BY <3>1, ObservationMade
      <4>2. o \in v.observations
        BY <1>1, <1>7, <4>1, ObservedOnPod
      <4> QED
        BY <4>1, <4>2
    <3>2. CASE n \notin DOMAIN l[p].reports[k]
      <4>1. Finding(MissingReason(k), "UNKNOWN", p, n)
              \in ContainerFindings(k, p, x.template[k], l[p].reports[k])
        BY <3>2 DEF ContainerFindings, MissingFindings
      <4>2. <<p, k>> \in C \X Kinds /\ <<p, k>>[1] = p /\ <<p, k>>[2] = k
        BY <1>7
      <4>3. ContainerFindings(k, p, x.template[k], l[p].reports[k]) \subseteq v.findings
        BY <1>1, <4>2 DEF RevisionFindings, C
      <4>4. Finding(MissingReason(k), "UNKNOWN", p, n) \in v.findings
        BY <4>1, <4>3
      <4> QED
        BY <4>4 DEF Finding
    <3> QED
      BY <3>1, <3>2
  <2> QED
    BY <2>1 DEF v
<1> QED
  BY <1>3, <1>4, <1>5, <1>6, <1>7

\* The gate takes none of it back: findings stay, and observations change their
\* reason only.
LEMMA RevisionGateKeeps ==
  ASSUME NEW x, NEW c, NEW l, NEW e
  PROVE  LET v == verifyRevisions(x, c, l)
             g == ApplyExpectedDigests(v, e)
         IN  /\ v.findings \subseteq g.findings
             /\ \A o \in v.observations : \E o2 \in g.observations :
                  o2.kind = o.kind /\ o2.pod = o.pod /\ o2.container = o.container
<1> DEFINE v == verifyRevisions(x, c, l)
           g == ApplyExpectedDigests(v, e)
           Gate(o) == [o EXCEPT !.reason = GatedReason(o, v, e)]
<1>1. ASSUME NEW o \in v.observations
      PROVE  /\ Gate(o).kind = o.kind /\ Gate(o).pod = o.pod
             /\ Gate(o).container = o.container
  <2>1. v.observations = ObservedOn(Counted(targetRevision(x, c, l), c, l), x.template, l)
    BY DEF verifyRevisions, RevisionObservations, ObservedOn
  <2> HIDE DEF v
  <2>2. PICK p, k : o \in ObservationsOf(k, p, x.template[k], l[p].reports[k])
    BY <2>1, ObservedOnPod
  <2>3. PICK ki, po, cn, ex, va, st, re :
          o = [kind |-> ki, pod |-> po, container |-> cn, expected |-> ex,
               value |-> va, status |-> st, reason |-> re]
    BY <2>2 DEF ObservationsOf
  <2> QED
    BY <2>3
<1>2. DOMAIN e = {} => g = v
  BY RevisionGate
<1>3. DOMAIN e # {} => /\ v.findings \subseteq g.findings
                       /\ g.observations = {Gate(o) : o \in v.observations}
  BY RevisionGate
<1> HIDE DEF v, g, Gate
<1>4. /\ v.findings \subseteq g.findings
      /\ \A o \in v.observations : \E o2 \in g.observations :
           o2.kind = o.kind /\ o2.pod = o.pod /\ o2.container = o.container
  BY <1>1, <1>2, <1>3
<1> QED
  BY <1>4 DEF v, g

\* Every live pod the workload owns is accounted for in the result.
THEOREM RevisionNoPodIsLost == Spec => []EveryPodAccountedFor
<1>1. IInv => EveryPodAccountedFor
  <2> SUFFICES ASSUME IInv, Answered, NEW p \in DOMAIN pods, ~pods[p].terminating
               PROVE  \/ \E f \in res.findings : f.pod = p /\ f.container = None
                      \/ \A k \in Kinds : \A c \in DOMAIN w.template[k] :
                           \/ \E o \in res.observations :
                                o.kind = k /\ o.pod = p /\ o.container = c
                           \/ \E f \in res.findings : f.pod = p /\ f.container = c
    BY DEF EveryPodAccountedFor
  <2> DEFINE v == verifyRevisions(w, crs, pods)
  <2>1. res = ApplyExpectedDigests(v, expected)
    BY RevisionAnswer
  <2>2. /\ v.findings \subseteq res.findings
        /\ \A o \in v.observations : \E o2 \in res.observations :
             o2.kind = o.kind /\ o2.pod = o.pod /\ o2.container = o.container
    BY <2>1, RevisionGateKeeps
  <2>3. \/ \E f \in v.findings : f.pod = p /\ f.container = None
        \/ \A k \in Kinds : \A n \in DOMAIN w.template[k] :
             \/ \E o \in v.observations : o.kind = k /\ o.pod = p /\ o.container = n
             \/ \E f \in v.findings : f.pod = p /\ f.container = n
    BY RevisionPodAccountedFor
  <2> HIDE DEF v
  <2> QED
    BY <2>2, <2>3
<1> QED
  BY <1>1, RevisionInvariant, PTL

-----------------------------------------------------------------------------
(* The abstract specification *)

\* What the evidence amounts to depends on four variables only.
LEMMA RevisionEvidenceFixed ==
  ASSUME UNCHANGED <<w, pods, crs, expected>>
  PROVE  Proven' <=> Proven
BY DEF Proven, OfWanted, OfRevision, Newest, Identified, Expected

\* Before the last list there is neither evidence nor an answer.
LEMMA RevisionGathering ==
  ASSUME pc \in {"parse", "get", "listPods", "listRevisions"}, exit = NoExit
  PROVE  EvidenceNow = "incomplete" /\ AnswerOf(exit) = "none"
BY DEF EvidenceNow, Answered, AnswerOf, NoExit

\* The last step announces what the evidence amounts to.
LEMMA RevisionAnnounces ==
  ASSUME IInv, Exit
  PROVE  V!Announce
<1>1. pc = "exit" /\ exit = NoExit /\ exit' = exitForStatus(res.status)
  BY DEF Exit, IInv, ResultIsVerdict
<1>2. res.status = "MATCH" <=> Proven
  BY <1>1, RevisionVerdictExact DEF IInv, ResultIsVerdict
<1>3. Proven' <=> Proven
  BY RevisionEvidenceFixed DEF Exit
<1>4. /\ EvidenceNow = (IF Proven THEN "proof" ELSE "no proof")
      /\ AnswerOf(exit) = "none"
  BY <1>1 DEF EvidenceNow, AnswerOf, NoExit
<1>5. exit' \in {0, 2, 3} /\ (exit' = 0 <=> res.status = "MATCH")
  BY <1>1 DEF exitForStatus
<1>6. Answered'
  BY <1>5 DEF Exit, Answered, OperationalError
<1>7. EvidenceNow' = (IF Proven' THEN "proof" ELSE "no proof")
  BY <1>6 DEF EvidenceNow
<1>8. AnswerOf(exit)' \in IF Proven THEN {"match"} ELSE {"drift", "unknown"}
  BY <1>2, <1>5 DEF AnswerOf, NoExit
<1> QED
  BY <1>3, <1>4, <1>7, <1>8 DEF V!Announce

\* A run that ends with an operational error has no complete evidence.
LEMMA RevisionGivesUp ==
  ASSUME pc \in {"parse", "get", "listPods", "listRevisions"}, exit = NoExit, Fail
  PROVE  V!GiveUp
<1>1. EvidenceNow' = "incomplete"
  BY DEF Fail, EvidenceNow, Answered
<1>2. AnswerOf(exit)' = "error"
  BY DEF Fail, AnswerOf, OperationalError, NoExit
<1> QED
  BY <1>1, <1>2, RevisionGathering DEF V!GiveUp

\* For StatefulSets and DaemonSets too, every step of the command is one of the
\* abstract specification, or changes nothing the caller can see.
THEOREM RevisionImplementsVerification == Spec => ImplementsVerification
<1>1. Init => V!Init
  BY RevisionGathering DEF Init, V!Init
<1>2. ASSUME IInv, [Next]_vars
      PROVE  [V!Next]_<<EvidenceNow, AnswerOf(exit)>>
  <2> DEFINE Still == UNCHANGED <<EvidenceNow, AnswerOf(exit)>>
  <2>1. pc # "done" => exit = NoExit
    BY <1>2 DEF IInv, ResultIsVerdict
  <2>2. ASSUME pc \in {"parse", "get", "listPods"},
               pc' \in {"get", "listPods", "listRevisions"}, exit' = exit
        PROVE  Still
    <3>1. /\ EvidenceNow = "incomplete" /\ AnswerOf(exit) = "none"
          /\ EvidenceNow' = "incomplete" /\ AnswerOf(exit)' = "none"
      BY <2>1, <2>2, RevisionGathering DEF EvidenceNow, Answered, AnswerOf
    <3> QED
      BY <3>1
  <2>3. ASSUME pc \in {"judge", "gate"}, pc' \in {"gate", "exit"}, exit' = exit,
               UNCHANGED <<w, pods, crs, expected>>
        PROVE  Still
    <3>1. Proven' <=> Proven
      BY <2>3, RevisionEvidenceFixed
    <3>2. /\ EvidenceNow = (IF Proven THEN "proof" ELSE "no proof")
          /\ EvidenceNow' = (IF Proven' THEN "proof" ELSE "no proof")
      BY <2>3 DEF EvidenceNow
    <3> QED
      BY <2>3, <3>1, <3>2 DEF AnswerOf
  <2>4. CASE ParseFlags
    BY <2>2, <2>4 DEF ParseFlags
  <2>5. CASE RejectFlags
    BY <2>1, <2>5, RevisionGivesUp DEF RejectFlags, V!Next
  <2>6. CASE \E answer \in WorkloadAnswers : GetWorkload(answer)
    BY <2>2, <2>6 DEF GetWorkload
  <2>7. CASE \E answer \in NamespacePods : ListPods(answer)
    BY <2>2, <2>7 DEF ListPods
  <2>8. CASE \E answer \in NamespaceRevisions : ListRevisions(answer)
    <3>1. pc = "listRevisions" /\ pc' = "judge" /\ exit' = exit
      BY <2>8 DEF ListRevisions
    <3>2. EvidenceNow = "incomplete" /\ AnswerOf(exit) = "none"
      BY <2>1, <3>1, RevisionGathering
    <3>3. EvidenceNow' \in {"proof", "no proof"} /\ AnswerOf(exit)' = AnswerOf(exit)
      BY <3>1 DEF EvidenceNow, AnswerOf
    <3> QED
      BY <3>2, <3>3 DEF V!Next, V!Gather
  <2>9. CASE ReadFails
    BY <2>1, <2>9, RevisionGivesUp DEF ReadFails, V!Next
  <2>10. CASE Judge
    BY <2>3, <2>10 DEF Judge
  <2>11. CASE ApplyGate
    BY <2>3, <2>11 DEF ApplyGate
  <2>12. CASE Exit
    BY <1>2, <2>12, RevisionAnnounces DEF V!Next
  <2>13. CASE UNCHANGED vars
    <3>1. Proven' <=> Proven
      BY <2>13, RevisionEvidenceFixed DEF vars
    <3> QED
      BY <2>13, <3>1 DEF vars, EvidenceNow, Answered, AnswerOf
  <2> QED
    BY <1>2, <2>4, <2>5, <2>6, <2>7, <2>8, <2>9, <2>10, <2>11, <2>12, <2>13 DEF Next
<1>3. V!Spec <=> V!Init /\ [][V!Next]_<<EvidenceNow, AnswerOf(exit)>>
  BY DEF V!Spec
<1> QED
  BY <1>1, <1>2, <1>3, RevisionInvariant, PTL DEF Spec, ImplementsVerification
=============================================================================
