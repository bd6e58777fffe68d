------------------------ MODULE SnapshotFiles_proofs ------------------------
(***************************************************************************)
(* Proofs about evidence and compare for any number of runs, pods,         *)
(* containers and answers of the cluster: what compare answers, it answers *)
(* of two complete snapshots of one workload, it says NO_CHANGE exactly if *)
(* the two looks at the cluster agree, and then they have one verdict      *)
(* unless a pod that neither snapshot shows began or ceased to terminate.  *)
(***************************************************************************)
EXTENDS SnapshotFiles, TLAPS

-----------------------------------------------------------------------------
(* What a snapshot holds *)

Both(a, k, p) == DOMAIN a.w.template[k] \cap DOMAIN a.pods[p].reports[k]

Entry(a, k, p, c) ==
  [expected |-> a.w.template[k][c], value |-> a.pods[p].reports[k][c],
   restarts |-> a.restarts[p]]

Containing(a) == Snapshot(a).containers

\* Whatever the kind of the workload, its observations are those of its counted pods.
LEMMA ObservationsOfCounted ==
  ASSUME NEW a
  PROVE  verifyWorkload(a).observations =
           UNION { ObservationsOf(pk[2], pk[1], a.w.template[pk[2]],
                                  a.pods[pk[1]].reports[pk[2]])
                   : pk \in CountedPods(a) \X Kinds }
<1>1. CASE a.kind = "Deployment"
  <2>1. verifyWorkload(a).observations = Observations(a.w, a.owners, a.pods)
    BY <1>1 DEF verifyWorkload, verifyDeployment
  <2> QED
    BY <1>1, <2>1 DEF CountedPods, Observations
<1>2. CASE a.kind # "Deployment"
  <2>1. verifyWorkload(a).observations =
          RevisionObservations(a.w, targetRevision(a.w, a.owners, a.pods), a.owners,
                               a.pods)
    BY <1>2 DEF verifyWorkload, verifyRevisions
  <2> QED
    BY <1>2, <2>1 DEF CountedPods, RevisionObservations
<1> QED
  BY <1>1, <1>2

\* An observation stands for each container that is declared and reported.
LEMMA ObservedContainers ==
  ASSUME NEW a
  PROVE  /\ \A o \in verifyWorkload(a).observations :
              \E p \in CountedPods(a), k \in Kinds : \E c \in Both(a, k, p) :
                /\ ContainerKey(o) = <<k, p, c>>
                /\ o.expected = a.w.template[k][c] /\ o.value = a.pods[p].reports[k][c]
         /\ \A p \in CountedPods(a), k \in Kinds : \A c \in Both(a, k, p) :
              \E o \in verifyWorkload(a).observations : ContainerKey(o) = <<k, p, c>>
<1>1. ASSUME NEW o \in verifyWorkload(a).observations
      PROVE  \E p \in CountedPods(a), k \in Kinds : \E c \in Both(a, k, p) :
               /\ ContainerKey(o) = <<k, p, c>>
               /\ o.expected = a.w.template[k][c] /\ o.value = a.pods[p].reports[k][c]
  <2>1. PICK pk \in CountedPods(a) \X Kinds :
          o \in ObservationsOf(pk[2], pk[1], a.w.template[pk[2]],
                               a.pods[pk[1]].reports[pk[2]])
    BY <1>1, ObservationsOfCounted
  <2>2. PICK p \in CountedPods(a), k \in Kinds :
          o \in ObservationsOf(k, p, a.w.template[k], a.pods[p].reports[k])
    BY <2>1
  <2>3. PICK c \in Both(a, k, p) :
          /\ o.kind = k /\ o.pod = p /\ o.container = c
          /\ o.expected = a.w.template[k][c] /\ o.value = a.pods[p].reports[k][c]
    BY <2>2 DEF ObservationsOf, Observed, Both
  <2> QED
    BY <2>3 DEF ContainerKey
<1>2. ASSUME NEW p \in CountedPods(a), NEW k \in Kinds, NEW c \in Both(a, k, p)
      PROVE  \E o \in verifyWorkload(a).observations : ContainerKey(o) = <<k, p, c>>
  <2> DEFINE st == ObservationStatus(a.w.template[k][c], a.pods[p].reports[k][c])
             o  == [kind |-> k, pod |-> p, container |-> c,
                    expected |-> a.w.template[k][c], value |-> a.pods[p].reports[k][c],
                    status |-> st, reason |-> ObservationReason(st)]
  <2>1. o \in ObservationsOf(k, p, a.w.template[k], a.pods[p].reports[k])
    BY DEF ObservationsOf, Observed, Both
  <2>2. <<p, k>> \in CountedPods(a) \X Kinds /\ <<p, k>>[1] = p /\ <<p, k>>[2] = k
    OBVIOUS
  <2>3. ContainerKey(o) = <<k, p, c>>
    BY DEF ContainerKey
  <2> HIDE DEF o
  <2>4. o \in verifyWorkload(a).observations
    BY <2>1, <2>2, ObservationsOfCounted
  <2> QED
    BY <2>3, <2>4
<1> QED
  BY <1>1, <1>2

\* So the containers of a snapshot are those of the counted pods, by kind, pod and name.
LEMMA SnapshotContainers ==
  ASSUME NEW a
  PROVE  /\ \A x : x \in DOMAIN Containing(a) <=>
                     \E p \in CountedPods(a), k \in Kinds : \E c \in Both(a, k, p) :
                       x = <<k, p, c>>
         /\ \A p \in CountedPods(a), k \in Kinds : \A c \in Both(a, k, p) :
              Containing(a)[<<k, p, c>>] = Entry(a, k, p, c)
<1> DEFINE obs   == verifyWorkload(a).observations
           At(x) == CHOOSE o \in obs : ContainerKey(o) = x
           keys  == {ContainerKey(o) : o \in obs}
<1>1. Containing(a) =
        [x \in keys |-> [expected |-> At(x).expected, value |-> At(x).value,
                         restarts |-> a.restarts[x[2]]]]
  BY DEF Containing, Snapshot
<1>2. \A x : x \in keys <=> \E p \in CountedPods(a), k \in Kinds : \E c \in Both(a, k, p) :
                              x = <<k, p, c>>
  BY ObservedContainers
<1>3. ASSUME NEW p \in CountedPods(a), NEW k \in Kinds, NEW c \in Both(a, k, p)
      PROVE  Containing(a)[<<k, p, c>>] = Entry(a, k, p, c)
  <2>1. <<k, p, c>> \in keys
    BY <1>2
  <2>2. At(<<k, p, c>>) \in obs /\ ContainerKey(At(<<k, p, c>>)) = <<k, p, c>>
    BY <2>1
  <2>3. PICK p2 \in CountedPods(a), k2 \in Kinds : \E c2 \in Both(a, k2, p2) :
          /\ <<k, p, c>> = <<k2, p2, c2>>
          /\ At(<<k, p, c>>).expected = a.w.template[k2][c2]
          /\ At(<<k, p, c>>).value = a.pods[p2].reports[k2][c2]
    <3> HIDE DEF At
    <3> QED
      BY <2>2, ObservedContainers
  <2>4. /\ At(<<k, p, c>>).expected = a.w.template[k][c]
        /\ At(<<k, p, c>>).value = a.pods[p].reports[k][c]
    <3> HIDE DEF At
    <3> QED
      BY <2>3
  <2>5. <<k, p, c>>[2] = p
    OBVIOUS
  <2> HIDE DEF At, keys
  <2> QED
    BY <1>1, <2>1, <2>4, <2>5 DEF Entry
<1> HIDE DEF keys, At
<1> QED
  BY <1>1, <1>2, <1>3
-----------------------------------------------------------------------------
(* The comparison *)

\* No change in the containers means the same containers with the same content.
LEMMA NoContainerChange ==
  ASSUME NEW b, NEW a
  PROVE  compareObs(b, a) = {}
           <=> /\ DOMAIN b = DOMAIN a
               /\ \A x \in DOMAIN b : /\ b[x].expected = a[x].expected
                                      /\ b[x].value = a[x].value
                                      /\ b[x].restarts = a[x].restarts
<1> DEFINE both == DOMAIN b \cap DOMAIN a
<1>1. compareObs(b, a) =
        {Change("CONTAINER_REMOVED", x) : x \in DOMAIN b \ DOMAIN a}
        \cup {Change("CONTAINER_ADDED", x) : x \in DOMAIN a \ DOMAIN b}
        \cup { Change("DECLARED_IMAGE_CHANGED", x)
               : x \in {y \in both : b[y].expected # a[y].expected} }
        \cup { Change("RUNTIME_IMAGE_CHANGED", x)
               : x \in {y \in both : b[y].value # a[y].value} }
        \cup { Change("RESTART_COUNT_CHANGED", x)
               : x \in {y \in both : b[y].restarts # a[y].restarts} }
  BY DEF compareObs
<1>2. compareObs(b, a) = {}
        <=> /\ DOMAIN b \ DOMAIN a = {} /\ DOMAIN a \ DOMAIN b = {}
            /\ {y \in both : b[y].expected # a[y].expected} = {}
            /\ {y \in both : b[y].value # a[y].value} = {}
            /\ {y \in both : b[y].restarts # a[y].restarts} = {}
  BY <1>1
<1>3. DOMAIN b \ DOMAIN a = {} /\ DOMAIN a \ DOMAIN b = {} <=> DOMAIN b = DOMAIN a
  OBVIOUS
<1> QED
  BY <1>2, <1>3

\* No change in the pods means the same names, each as ready as before.
LEMMA NoPodChange ==
  ASSUME NEW b, NEW a
  PROVE  comparePods(b, a) = {}
           <=> DOMAIN b = DOMAIN a /\ \A p \in DOMAIN b : b[p] = a[p]
BY DEF comparePods

\* No change of the workload itself.
LEMMA NoWorkloadChange ==
  ASSUME NEW b, NEW a
  PROVE  compareWorkload(b, a) = {} <=> b.revision = a.revision /\ b.replicas = a.replicas
BY DEF compareWorkload

\* One container that runs, as Running lists it.
Tuple(a, k, p, c) ==
  <<k, p, c, a.w.template[k][c], a.pods[p].reports[k][c], a.restarts[p]>>

\* Running lists the containers that are declared and reported in counted pods.
LEMMA RunningMembers ==
  ASSUME NEW a
  PROVE  /\ \A t : t \in Running(a)
                     <=> \E p \in CountedPods(a), k \in Kinds : \E c \in Both(a, k, p) :
                           t = Tuple(a, k, p, c)
         /\ \A p, k, c, e, v, r :
              <<k, p, c, e, v, r>> \in Running(a)
                <=> /\ p \in CountedPods(a) /\ k \in Kinds /\ c \in Both(a, k, p)
                    /\ e = a.w.template[k][c] /\ v = a.pods[p].reports[k][c]
                    /\ r = a.restarts[p]
<1>1. ASSUME NEW t
      PROVE  t \in Running(a)
               <=> \E p \in CountedPods(a), k \in Kinds : \E c \in Both(a, k, p) :
                     t = Tuple(a, k, p, c)
  <2> DEFINE Of(k, p) == {Tuple(a, k, p, c) : c \in Both(a, k, p)}
  <2>1. Running(a) = UNION {Of(k, p) : k \in Kinds, p \in CountedPods(a)}
    BY DEF Running, Both, Tuple
  <2>2. \A k, p : t \in Of(k, p) <=> \E c \in Both(a, k, p) : t = Tuple(a, k, p, c)
    OBVIOUS
  <2> HIDE DEF Of
  <2>3. t \in Running(a) <=> \E k \in Kinds, p \in CountedPods(a) : t \in Of(k, p)
    BY <2>1
  <2> QED
    BY <2>2, <2>3
<1> QED
  BY <1>1 DEF Tuple

\* The counted pods run the same exactly if the containers of the snapshots are the
\* same.
LEMMA RunningTheSame ==
  ASSUME NEW x, NEW y
  PROVE  compareObs(Containing(x), Containing(y)) = {} <=> Running(x) = Running(y)
<1>1. ASSUME NEW a, NEW p, NEW k, NEW c, NEW e, NEW v, NEW r
      PROVE  <<k, p, c, e, v, r>> \in Running(a)
               <=> /\ <<k, p, c>> \in DOMAIN Containing(a)
                   /\ Containing(a)[<<k, p, c>>] =
                        [expected |-> e, value |-> v, restarts |-> r]
  <2>1. <<k, p, c>> \in DOMAIN Containing(a)
          <=> p \in CountedPods(a) /\ k \in Kinds /\ c \in Both(a, k, p)
    BY SnapshotContainers
  <2>2. <<k, p, c, e, v, r>> \in Running(a)
          <=> /\ p \in CountedPods(a) /\ k \in Kinds /\ c \in Both(a, k, p)
              /\ e = a.w.template[k][c] /\ v = a.pods[p].reports[k][c] /\ r = a.restarts[p]
    BY RunningMembers
  <2>3. p \in CountedPods(a) /\ k \in Kinds /\ c \in Both(a, k, p)
          => Containing(a)[<<k, p, c>>] = Entry(a, k, p, c)
    BY SnapshotContainers
  <2>4. Entry(a, k, p, c) = [expected |-> e, value |-> v, restarts |-> r]
          <=> e = a.w.template[k][c] /\ v = a.pods[p].reports[k][c] /\ r = a.restarts[p]
    BY DEF Entry
  <2> QED
    BY <2>1, <2>2, <2>3, <2>4
<1>2. ASSUME NEW a, NEW z \in DOMAIN Containing(a)
      PROVE  \E p, k, c : /\ z = <<k, p, c>>
                          /\ Containing(a)[z] = Entry(a, k, p, c)
  BY SnapshotContainers
<1>3. ASSUME Running(x) = Running(y)
      PROVE  compareObs(Containing(x), Containing(y)) = {}
  <2>1. ASSUME NEW a, NEW b, Running(a) = Running(b), NEW z \in DOMAIN Containing(a)
        PROVE  z \in DOMAIN Containing(b) /\ Containing(b)[z] = Containing(a)[z]
    <3>1. PICK p, k, c : z = <<k, p, c>> /\ Containing(a)[z] = Entry(a, k, p, c)
      BY <1>2, <2>1
    <3>2. Tuple(a, k, p, c) \in Running(a)
      BY <1>1, <2>1, <3>1 DEF Entry, Tuple
    <3>3. Tuple(a, k, p, c) \in Running(b)
      BY <2>1, <3>2
    <3> QED
      BY <1>1, <3>1, <3>3 DEF Entry, Tuple
  <2>2. DOMAIN Containing(x) = DOMAIN Containing(y)
    BY <1>3, <2>1
  <2>3. \A z \in DOMAIN Containing(x) : Containing(x)[z] = Containing(y)[z]
    BY <1>3, <2>1
  <2> QED
    BY <2>2, <2>3, NoContainerChange
<1>4. ASSUME compareObs(Containing(x), Containing(y)) = {}
      PROVE  Running(x) = Running(y)
  <2>1. /\ DOMAIN Containing(x) = DOMAIN Containing(y)
        /\ \A z \in DOMAIN Containing(x) :
             /\ Containing(x)[z].expected = Containing(y)[z].expected
             /\ Containing(x)[z].value = Containing(y)[z].value
             /\ Containing(x)[z].restarts = Containing(y)[z].restarts
    BY <1>4, NoContainerChange
  <2>2. \A z \in DOMAIN Containing(x) : Containing(x)[z] = Containing(y)[z]
    <3> SUFFICES ASSUME NEW z \in DOMAIN Containing(x)
                 PROVE  Containing(x)[z] = Containing(y)[z]
      OBVIOUS
    <3>1. PICK p, k, c : Containing(x)[z] = Entry(x, k, p, c)
      BY <1>2
    <3>2. PICK p2, k2, c2 : Containing(y)[z] = Entry(y, k2, p2, c2)
      BY <1>2, <2>1
    <3> QED
      BY <2>1, <3>1, <3>2 DEF Entry
  <2>3. ASSUME NEW a, NEW b, NEW t \in Running(a),
               DOMAIN Containing(a) = DOMAIN Containing(b),
               \A z \in DOMAIN Containing(a) : Containing(a)[z] = Containing(b)[z]
        PROVE  t \in Running(b)
    <3>1. PICK p \in CountedPods(a), k \in Kinds : \E c \in Both(a, k, p) :
            t = Tuple(a, k, p, c)
      BY RunningMembers, <2>3
    <3>2. PICK c \in Both(a, k, p) : t = Tuple(a, k, p, c)
      BY <3>1
    <3> DEFINE e == a.w.template[k][c]
               v == a.pods[p].reports[k][c]
               r == a.restarts[p]
    <3>3. t = <<k, p, c, e, v, r>>
      BY <3>2 DEF Tuple
    <3> HIDE DEF e, v, r
    <3>4. /\ <<k, p, c>> \in DOMAIN Containing(a)
          /\ Containing(a)[<<k, p, c>>] = [expected |-> e, value |-> v, restarts |-> r]
      BY <1>1, <2>3, <3>3
    <3>5. /\ <<k, p, c>> \in DOMAIN Containing(b)
          /\ Containing(b)[<<k, p, c>>] = [expected |-> e, value |-> v, restarts |-> r]
      BY <2>3, <3>4
    <3> QED
      BY <1>1, <3>3, <3>5
  <2>4. /\ \A t \in Running(x) : t \in Running(y)
        /\ \A t \in Running(y) : t \in Running(x)
    BY <2>1, <2>2, <2>3
  <2>5. ASSUME NEW t
        PROVE  t \in Running(x) <=> t \in Running(y)
    BY <2>4
  <2> QED
    BY <2>5
<1> QED
  BY <1>3, <1>4

\* Two snapshots compare equal exactly if the two looks at the cluster agree.
LEMMA EqualIsAgreement ==
  ASSUME NEW x, NEW y
  PROVE  CompareSnapshots(Snapshot(x), Snapshot(y)) = {} <=> Agree(x, y)
<1> DEFINE b == Snapshot(x)
           a == Snapshot(y)
<1>1. CompareSnapshots(b, a) = {}
        <=> /\ compareWorkload(b, a) = {}
            /\ comparePods(b.pods, a.pods) = {}
            /\ compareObs(b.containers, a.containers) = {}
  BY DEF CompareSnapshots
<1>2. compareWorkload(b, a) = {}
        <=> /\ workloadRevision(x) = workloadRevision(y)
            /\ desiredReplicas(x) = desiredReplicas(y)
            /\ x.readyReplicas = y.readyReplicas
  <2>1. /\ b.revision = workloadRevision(x) /\ a.revision = workloadRevision(y)
        /\ b.replicas = [desired |-> desiredReplicas(x), ready |-> x.readyReplicas]
        /\ a.replicas = [desired |-> desiredReplicas(y), ready |-> y.readyReplicas]
    BY DEF Snapshot
  <2> HIDE DEF a, b
  <2> QED
    BY <2>1, NoWorkloadChange
<1>3. comparePods(b.pods, a.pods) = {}
        <=> /\ DOMAIN x.pods = DOMAIN y.pods
            /\ \A p \in DOMAIN x.pods : x.pods[p].ready = y.pods[p].ready
  <2>1. /\ b.pods = [p \in DOMAIN x.pods |-> x.pods[p].ready]
        /\ a.pods = [p \in DOMAIN y.pods |-> y.pods[p].ready]
    BY DEF Snapshot
  <2> HIDE DEF a, b
  <2> QED
    BY <2>1, NoPodChange
<1>4. compareObs(b.containers, a.containers) = {} <=> Running(x) = Running(y)
  BY RunningTheSame DEF Containing
<1> HIDE DEF a, b
<1>5. CompareSnapshots(b, a) = {} <=> Agree(x, y)
  BY <1>1, <1>2, <1>3, <1>4 DEF Agree
<1> QED
  BY <1>5 DEF a, b
-----------------------------------------------------------------------------
(* The verdicts on two looks that agree *)

\* CommonRevision and PodStatus as functions of what they look at in the pods.
CommonOf(carried) == IF Cardinality(carried) = 1 THEN CHOOSE r \in carried : TRUE ELSE NoRev

StatusFrom(target, unready, unknown) ==
  LET marking == unready \cup unknown
      last    == CHOOSE p \in marking : \A q \in marking : PodRank[q] <= PodRank[p]
  IN  CASE marking = {} /\ target = NoRev -> "UNKNOWN"
        [] marking = {} /\ target # NoRev -> "MATCH"
        [] marking # {} -> IF last \in unknown THEN "UNKNOWN" ELSE "PARTIAL"

\* Pods that carry the same revisions have the same common revision.
LEMMA SameCommonRevision ==
  ASSUME NEW f, NEW g, DOMAIN f = DOMAIN g, \A p \in DOMAIN f : f[p].rev = g[p].rev
  PROVE  CommonRevision(f) = CommonRevision(g)
<1>1. /\ CommonRevision(f) = CommonOf({f[p].rev : p \in DOMAIN f})
      /\ CommonRevision(g) = CommonOf({g[p].rev : p \in DOMAIN g})
  BY DEF CommonRevision, CommonOf
<1>2. {f[p].rev : p \in DOMAIN f} = {g[p].rev : p \in DOMAIN g}
  OBVIOUS
<1> QED
  BY <1>1, <1>2

\* Pods that are marked alike have the same status before they are counted.
LEMMA SamePodStatus ==
  ASSUME NEW t, NEW o, NEW u, NEW f, NEW g, Unknown(t, f) = Unknown(t, g),
         Unready(t, o, f) = Unready(t, u, g)
  PROVE  PodStatus(t, o, f) = PodStatus(t, u, g)
<1>1. /\ PodStatus(t, o, f) = StatusFrom(t, Unready(t, o, f), Unknown(t, f))
      /\ PodStatus(t, u, g) = StatusFrom(t, Unready(t, u, g), Unknown(t, g))
  BY DEF PodStatus, StatusFrom
<1> QED
  BY <1>1

\* The same frame, with the same pods terminating.
SameStanding(x, y) ==
  SameFrame(x, y) /\ \A p \in DOMAIN x.pods : x.pods[p].terminating = y.pods[p].terminating

\* Pods of one standing are sorted the same way.
LEMMA SameCounted ==
  ASSUME NEW x, NEW y, IsAnswer(x), IsAnswer(y), x.kind = y.kind,
         SameStanding(x, y), Agree(x, y)
  PROVE  /\ CountedPods(x) = CountedPods(y)
         /\ x.kind = "Deployment" =>
              AfterReplicas(x.w, x.owners, x.pods) = AfterReplicas(y.w, y.owners, y.pods)
         /\ x.kind # "Deployment" =>
              /\ targetRevision(x.w, x.owners, x.pods) = targetRevision(y.w, y.owners, y.pods)
              /\ \A t : CountedStatus(x.w, t, x.owners, x.pods)
                         = CountedStatus(y.w, t, y.owners, y.pods)
<1>1. /\ x.w = y.w /\ x.owners = y.owners /\ DOMAIN x.pods = DOMAIN y.pods
      /\ \A p \in DOMAIN x.pods :
           /\ x.pods[p].ready = y.pods[p].ready
           /\ x.pods[p].terminating = y.pods[p].terminating
           /\ [x.pods[p] EXCEPT !.ready = TRUE, !.terminating = FALSE, !.reports = None]
                = [y.pods[p] EXCEPT !.ready = TRUE, !.terminating = FALSE, !.reports = None]
  BY DEF SameStanding, SameFrame, Agree
<1>2. CASE x.kind = "Deployment"
  <2>1. \A p \in DOMAIN x.pods : x.pods[p] \in PodValues /\ y.pods[p] \in PodValues
    BY <1>1, <1>2 DEF IsAnswer, WorkloadKinds
  <2>2. \A p \in DOMAIN x.pods : /\ x.pods[p].owner = y.pods[p].owner
                                 /\ x.pods[p].terminating = y.pods[p].terminating
    BY <1>1, <2>1 DEF PodValues
  <2>3. StalePods(x.w, x.owners, x.pods) = StalePods(y.w, y.owners, y.pods)
        /\ LivePods(x.pods) = LivePods(y.pods)
    BY <1>1, <2>2 DEF StalePods, LivePods
  <2>4. /\ ReadyPods(x.w, x.owners, x.pods) = ReadyPods(y.w, y.owners, y.pods)
        /\ NotReadyPods(x.w, x.owners, x.pods) = NotReadyPods(y.w, y.owners, y.pods)
    <3>1. CurrentPods(x.w, x.owners, x.pods) = CurrentPods(y.w, y.owners, y.pods)
      BY <2>3 DEF CurrentPods
    <3>2. CurrentPods(x.w, x.owners, x.pods) \subseteq DOMAIN x.pods
      BY DEF CurrentPods, LivePods
    <3> QED
      BY <1>1, <3>1, <3>2 DEF ReadyPods, NotReadyPods
  <2>5. AfterReplicas(x.w, x.owners, x.pods) = AfterReplicas(y.w, y.owners, y.pods)
    BY <1>1, <2>4 DEF AfterReplicas, Incomplete, AfterRevision, AfterPods
  <2> QED
    BY <1>2, <2>4, <2>5 DEF CountedPods
<1>3. CASE x.kind # "Deployment"
  <2>1. \A p \in DOMAIN x.pods : x.pods[p] \in RevisionPods /\ y.pods[p] \in RevisionPods
    BY <1>1, <1>3 DEF IsAnswer
  <2>2. \A p \in DOMAIN x.pods : /\ x.pods[p].rev = y.pods[p].rev
                                 /\ x.pods[p].terminating = y.pods[p].terminating
    BY <1>1, <2>1 DEF RevisionPods
  <2>3. CommonRevision(x.pods) = CommonRevision(y.pods)
    BY <1>1, <2>2, SameCommonRevision
  <2>4. targetRevision(x.w, x.owners, x.pods) = targetRevision(y.w, y.owners, y.pods)
    BY <1>1, <2>3 DEF targetRevision
  <2>5. ASSUME NEW t
        PROVE  /\ Unknown(t, x.pods) = Unknown(t, y.pods)
               /\ Unready(t, x.owners, x.pods) = Unready(t, y.owners, y.pods)
               /\ Counted(t, x.owners, x.pods) = Counted(t, y.owners, y.pods)
    <3>1. Live(x.pods) = Live(y.pods) /\ Live(x.pods) \subseteq DOMAIN x.pods
      BY <1>1, <2>2 DEF Live
    <3>2. Unknown(t, x.pods) = Unknown(t, y.pods)
          /\ Old(t, x.owners, x.pods) = Old(t, y.owners, y.pods)
      BY <1>1, <2>2, <3>1 DEF Unknown, Old
    <3>3. Current(t, x.owners, x.pods) = Current(t, y.owners, y.pods)
          /\ Current(t, x.owners, x.pods) \subseteq DOMAIN x.pods
      BY <3>1, <3>2 DEF Current
    <3> QED
      BY <1>1, <3>2, <3>3 DEF Unready, Counted
  <2>6. ASSUME NEW t
        PROVE  CountedStatus(x.w, t, x.owners, x.pods) = CountedStatus(y.w, t, y.owners, y.pods)
    <3>1. PodStatus(t, x.owners, x.pods) = PodStatus(t, y.owners, y.pods)
      BY <2>5, SamePodStatus
    <3>2. Short(x.w, t, x.owners, x.pods) = Short(y.w, t, y.owners, y.pods)
      <4>1. Counted(t, x.owners, x.pods) = Counted(t, y.owners, y.pods)
        BY <2>5
      <4> QED
        BY <1>1, <3>1, <4>1 DEF Short
    <3> QED
      BY <2>5, <3>1, <3>2 DEF CountedStatus
  <2> QED
    BY <1>3, <2>4, <2>5, <2>6 DEF CountedPods
<1> QED
  BY <1>2, <1>3

\* A pod of which a snapshot shows a container is counted, so it does not terminate.
LEMMA ShownIsLive ==
  ASSUME NEW a, IsAnswer(a), NEW p \in Shown(a)
  PROVE  p \in DOMAIN a.pods /\ a.pods[p].terminating = FALSE
<1>1. p \in CountedPods(a)
  <2>1. PICK t \in Running(a) : p = t[2]
    BY DEF Shown
  <2>2. PICK q \in CountedPods(a), k \in Kinds : \E c \in Both(a, k, q) : t = Tuple(a, k, q, c)
    BY <2>1, RunningMembers
  <2>3. t[2] = q
    BY <2>2 DEF Tuple
  <2> QED
    BY <2>1, <2>3
<1>2. CASE a.kind = "Deployment"
  <2>1. p \in LivePods(a.pods)
    BY <1>1, <1>2 DEF CountedPods, ReadyPods, CurrentPods
  <2>2. p \in DOMAIN a.pods /\ a.pods[p] \in PodValues /\ ~a.pods[p].terminating
    BY <1>2, <2>1 DEF LivePods, IsAnswer, WorkloadKinds
  <2> QED
    BY <2>2 DEF PodValues
<1>3. CASE a.kind # "Deployment"
  <2>1. p \in Live(a.pods)
    BY <1>1, <1>3 DEF CountedPods, Counted, Current
  <2>2. p \in DOMAIN a.pods /\ a.pods[p] \in RevisionPods /\ ~a.pods[p].terminating
    BY <1>3, <2>1 DEF Live, IsAnswer
  <2> QED
    BY <2>2 DEF RevisionPods
<1> QED
  BY <1>2, <1>3

\* So in two looks of one frame that agree the same pods terminate, except those that
\* neither snapshot shows: a pod that one shows, both show.
LEMMA NothingElseIsHidden ==
  ASSUME NEW x, NEW y, IsAnswer(x), IsAnswer(y), SameFrame(x, y), Agree(x, y),
         ~HiddenTermination(x, y)
  PROVE  SameStanding(x, y)
<1>1. DOMAIN x.pods = DOMAIN y.pods /\ Shown(x) = Shown(y)
  BY DEF Agree, Shown
<1>2. ASSUME NEW p \in DOMAIN x.pods
      PROVE  x.pods[p].terminating = y.pods[p].terminating
  <2>1. CASE p \in Shown(x)
    BY <1>1, <2>1, ShownIsLive
  <2>2. CASE p \notin Shown(x)
    BY <1>1, <2>2 DEF HiddenTermination
  <2> QED
    BY <2>1, <2>2
<1> QED
  BY <1>2 DEF SameStanding

\* A set of containers contributes what its declared and reported ones are.
LEMMA SameSetStatus ==
  ASSUME NEW declared, NEW s, NEW t,
         DOMAIN declared \cap DOMAIN s = DOMAIN declared \cap DOMAIN t,
         \A c \in DOMAIN declared \cap DOMAIN s : s[c] = t[c]
  PROVE  ContainerSetStatus(declared, s) = ContainerSetStatus(declared, t)
<1>1. \A c \in DOMAIN declared : Contribution(declared, s, c) = Contribution(declared, t, c)
  BY DEF Contribution
<1>2. {Contribution(declared, s, c) : c \in DOMAIN declared}
        = {Contribution(declared, t, c) : c \in DOMAIN declared}
  BY <1>1
<1> QED
  BY <1>2 DEF ContainerSetStatus

\* Two looks of one standing that agree have one verdict.
LEMMA SameVerdict ==
  ASSUME NEW x, NEW y, IsAnswer(x), IsAnswer(y), x.kind = y.kind,
         SameStanding(x, y), Agree(x, y)
  PROVE  verifyWorkload(x).status = verifyWorkload(y).status
<1> DEFINE R == CountedPods(x)
           of(a, p, k) == ContainerSetStatus(a.w.template[k], a.pods[p].reports[k])
<1>1. x.w = y.w /\ x.owners = y.owners /\ CountedPods(y) = R
  BY SameCounted DEF SameStanding, SameFrame
<1>2. ASSUME NEW p \in R, NEW k \in Kinds
      PROVE  of(x, p, k) = of(y, p, k)
  <2>1. \A t : t \in Running(x) <=> t \in Running(y)
    BY DEF Agree
  <2>2. \A c :
          /\ c \in Both(x, k, p) <=> c \in Both(y, k, p)
          /\ c \in Both(x, k, p) => x.pods[p].reports[k][c] = y.pods[p].reports[k][c]
    <3> TAKE c
    <3>1. \A e, v, r : <<k, p, c, e, v, r>> \in Running(x) <=> <<k, p, c, e, v, r>> \in Running(y)
      BY <2>1
    <3>2. \A e, v, r :
            <<k, p, c, e, v, r>> \in Running(x)
              <=> /\ c \in Both(x, k, p) /\ e = x.w.template[k][c]
                  /\ v = x.pods[p].reports[k][c] /\ r = x.restarts[p]
      BY RunningMembers
    <3>3. \A e, v, r :
            <<k, p, c, e, v, r>> \in Running(y)
              <=> /\ c \in Both(y, k, p) /\ e = y.w.template[k][c]
                  /\ v = y.pods[p].reports[k][c] /\ r = y.restarts[p]
      BY <1>1, RunningMembers
    <3> DEFINE X(e, v, r) == /\ c \in Both(x, k, p) /\ e = x.w.template[k][c]
                             /\ v = x.pods[p].reports[k][c] /\ r = x.restarts[p]
               Y(e, v, r) == /\ c \in Both(y, k, p) /\ e = y.w.template[k][c]
                             /\ v = y.pods[p].reports[k][c] /\ r = y.restarts[p]
    <3>4. \A e, v, r : X(e, v, r) <=> Y(e, v, r)
      <4> TAKE e, v, r
      <4>1. <<k, p, c, e, v, r>> \in Running(x) <=> X(e, v, r)
        BY <3>2
      <4>2. <<k, p, c, e, v, r>> \in Running(y) <=> Y(e, v, r)
        BY <3>3
      <4>3. <<k, p, c, e, v, r>> \in Running(x) <=> <<k, p, c, e, v, r>> \in Running(y)
        BY <3>1
      <4> HIDE DEF X, Y
      <4> QED
        BY <4>1, <4>2, <4>3
    <3>5. X(x.w.template[k][c], x.pods[p].reports[k][c], x.restarts[p])
            <=> Y(x.w.template[k][c], x.pods[p].reports[k][c], x.restarts[p])
      BY <3>4
    <3>6. X(y.w.template[k][c], y.pods[p].reports[k][c], y.restarts[p])
            <=> Y(y.w.template[k][c], y.pods[p].reports[k][c], y.restarts[p])
      BY <3>4
    <3> QED
      BY <3>5, <3>6
  <2>3. /\ Both(x, k, p) = DOMAIN x.w.template[k] \cap DOMAIN x.pods[p].reports[k]
        /\ Both(y, k, p) = DOMAIN x.w.template[k] \cap DOMAIN y.pods[p].reports[k]
        /\ of(x, p, k) = ContainerSetStatus(x.w.template[k], x.pods[p].reports[k])
        /\ of(y, p, k) = ContainerSetStatus(x.w.template[k], y.pods[p].reports[k])
    BY <1>1 DEF Both
  <2>4. Both(x, k, p) = Both(y, k, p)
    <3>1. \A c : c \in Both(x, k, p) <=> c \in Both(y, k, p)
      BY <2>2
    <3> QED
      BY <3>1 DEF Both
  <2>5. ContainerSetStatus(x.w.template[k], x.pods[p].reports[k])
          = ContainerSetStatus(x.w.template[k], y.pods[p].reports[k])
    BY <2>2, <2>3, <2>4, SameSetStatus
  <2> HIDE DEF of
  <2> QED
    BY <2>3, <2>5
<1>3. {of(x, pk[1], pk[2]) : pk \in R \X Kinds} = {of(y, pk[1], pk[2]) : pk \in R \X Kinds}
  <2>1. \A pk \in R \X Kinds : of(x, pk[1], pk[2]) = of(y, pk[1], pk[2])
    BY <1>2
  <2> HIDE DEF of, R
  <2> QED
    BY <2>1
<1>4. CASE x.kind = "Deployment"
  <2>1. /\ R = ReadyPods(x.w, x.owners, x.pods) /\ R = ReadyPods(y.w, y.owners, y.pods)
        /\ AfterReplicas(x.w, x.owners, x.pods) = AfterReplicas(y.w, y.owners, y.pods)
    BY <1>1, <1>4, SameCounted DEF CountedPods
  <2>2. AfterContainers(x.w, x.owners, x.pods) = AfterContainers(y.w, y.owners, y.pods)
    BY <1>3, <2>1 DEF AfterContainers, SetStatus
  <2> QED
    BY <1>4, <2>1, <2>2 DEF verifyWorkload, verifyDeployment, FinalStatus
<1>5. CASE x.kind # "Deployment"
  <2>1. PICK t : t = targetRevision(x.w, x.owners, x.pods)
    OBVIOUS
  <2>2. /\ t = targetRevision(y.w, y.owners, y.pods)
        /\ R = Counted(t, x.owners, x.pods) /\ R = Counted(t, y.owners, y.pods)
        /\ CountedStatus(x.w, t, x.owners, x.pods) = CountedStatus(y.w, t, y.owners, y.pods)
    BY <1>1, <1>5, <2>1, SameCounted DEF CountedPods
  <2>3. RevisionStatus(x.w, t, x.owners, x.pods) = RevisionStatus(y.w, t, y.owners, y.pods)
    BY <1>3, <2>2 DEF RevisionStatus
  <2> QED
    BY <1>5, <2>1, <2>2, <2>3 DEF verifyWorkload, verifyRevisions
<1> QED
  BY <1>4, <1>5

-----------------------------------------------------------------------------
(* The files *)

\* A run that has printed doc, with the verdict on what it read as its exit code.
HasPrinted(r, doc) ==
  /\ pc[r] = "done" /\ code[r] \in {0, 2, 3} /\ read[r] \in AnswersOf[r]
  /\ doc = Snapshot(read[r])

\* Where a document can come from.
Origin(doc) == doc \in {NoDocument, OtherJSON} \/ \E r \in Runs : HasPrinted(r, doc)

RunsOK ==
  /\ pc \in [Runs -> {"start", "verify", "print", "done"}]
  /\ code \in [Runs -> {0, OperationalError, 2, 3, NoExit}]
  /\ output = [r \in Runs |-> output[r]]
  /\ read = [r \in Runs |-> read[r]]
  /\ \A r \in Runs :
       /\ pc[r] \in {"verify", "print"} => output[r] \in Files
       /\ pc[r] = "print" => read[r] \in AnswersOf[r]
       /\ read[r] \in AnswersOf[r] \cup {NoAnswer}
       /\ code[r] \in {0, 2, 3} => pc[r] = "done" /\ read[r] \in AnswersOf[r]

FilesOK ==
  /\ file = [f \in Files |-> file[f]] /\ held = [f \in Files |-> held[f]]
  /\ \A f \in Files : Origin(file[f]) /\ Origin(held[f])

CompareOK ==
  /\ step \in {"readBefore", "readAfter", "compare", "done"}
  /\ exit \in {0, OperationalError, 2, NoExit}
  /\ step # "done" => exit = NoExit
  /\ Compared =>
       /\ Comparable(held["before"], held["after"])
       /\ exit = 0 <=> CompareSnapshots(held["before"], held["after"]) = {}

SInv == RunsOK /\ FilesOK /\ CompareOK

\* No exit code is taken for another.
LEMMA Codes ==
  /\ OperationalError \notin {0, 2, 3} /\ NoExit \notin {0, 2, 3}
  /\ \A st : exitForStatus(st) \in {0, 2, 3}
BY DEF OperationalError, NoExit, exitForStatus

\* At the start nothing is printed and nothing compared.
LEMMA SnapshotsStart == Init => SInv
<1> SUFFICES ASSUME Init
             PROVE  SInv
  OBVIOUS
<1>1. RunsOK
  BY Codes DEF Init, RunsOK
<1>2. FilesOK
  BY DEF Init, FilesOK, Origin
<1>3. CompareOK
  BY Codes DEF Init, CompareOK, Compared
<1> QED
  BY <1>1, <1>2, <1>3 DEF SInv

\* What a run has printed it has printed for good.
LEMMA PrintedForGood ==
  ASSUME RunsOK, NEW doc, Origin(doc),
         \A r \in Runs : pc[r] = "done" =>
           pc'[r] = pc[r] /\ code'[r] = code[r] /\ read'[r] = read[r]
  PROVE  Origin(doc)'
BY DEF Origin, HasPrinted

\* A run that is not done takes a step that does not print.
LEMMA SilentStep ==
  ASSUME SInv, NEW r \in Runs, NEW f \in Files,
         Redirect(r, f) \/ EvidenceFails(r) \/ \E answer \in AnswersOf[r] : Verify(r, answer)
  PROVE  SInv'
<1> USE DEF SInv
<1>1. RunsOK'
  <2>1. CASE Redirect(r, f)
    BY <2>1, Codes DEF Redirect, Goto, RunsOK
  <2>2. CASE EvidenceFails(r)
    BY <2>2, Codes DEF EvidenceFails, End, Goto, RunsOK
  <2>3. CASE \E answer \in AnswersOf[r] : Verify(r, answer)
    BY <2>3, Codes DEF Verify, Goto, RunsOK
  <2> QED
    BY <2>1, <2>2, <2>3
<1>2. \A q \in Runs : pc[q] = "done" =>
        pc'[q] = pc[q] /\ code'[q] = code[q] /\ read'[q] = read[q]
  BY DEF Redirect, EvidenceFails, Verify, Goto, End, RunsOK
<1>3. \A doc : Origin(doc) => Origin(doc)'
  BY <1>2, PrintedForGood
<1>4. /\ UNCHANGED <<held, step, exit>>
      /\ \/ file' = file
         \/ \E g \in Files : file' = [file EXCEPT ![g] = NoDocument]
  BY DEF Redirect, EvidenceFails, Verify, RunsOK
<1>5. /\ file' = [g \in Files |-> file'[g]]
      /\ \A g \in Files : file'[g] = file[g] \/ file'[g] = NoDocument
  BY <1>4 DEF FilesOK
<1>6. FilesOK'
  <2>1. Origin(NoDocument)'
    BY DEF Origin
  <2>2. ASSUME NEW g \in Files
        PROVE  Origin(file[g])' /\ Origin(held[g])'
    <3>1. Origin(file[g]) /\ Origin(held[g])
      BY DEF FilesOK
    <3>2. /\ file'[g] = file[g] \/ file'[g] = NoDocument
          /\ held'[g] = held[g]
      BY <1>4, <1>5
    <3>3. PICK old : old = file[g] /\ Origin(old)
      BY <3>1
    <3>4. PICK kept : kept = held[g] /\ Origin(kept)
      BY <3>1
    <3>5. Origin(old)' /\ Origin(kept)'
      BY <1>3, <3>3, <3>4
    <3> QED
      BY <2>1, <3>2, <3>3, <3>4, <3>5 DEF Origin, HasPrinted
  <2> QED
    BY <1>4, <1>5, <2>2 DEF FilesOK
<1>7. CompareOK'
  BY <1>4 DEF CompareOK, Compared
<1> QED
  BY <1>1, <1>6, <1>7
\* The step that prints leaves a whole document and the exit code of its verdict.
LEMMA PrintStep ==
  ASSUME SInv, NEW r \in Runs, PrintJSON(r)
  PROVE  SInv'
<1> USE DEF SInv
<1>0. PICK doc : doc = Snapshot(read[r])
  OBVIOUS
<1>1. /\ pc[r] = "print" /\ output[r] \in Files /\ read[r] \in AnswersOf[r]
      /\ pc' = [pc EXCEPT ![r] = "done"] /\ UNCHANGED <<output, read, step, held, exit>>
      /\ file' = [file EXCEPT ![output[r]] = doc]
  BY <1>0 DEF PrintJSON, End, Goto, RunsOK
<1>2. PICK c \in {0, 2, 3} : code' = [code EXCEPT ![r] = c]
  BY Codes DEF PrintJSON, End
<1>3. RunsOK'
  BY <1>1, <1>2, Codes DEF RunsOK
<1>4. \A q \in Runs : pc[q] = "done" =>
        pc'[q] = pc[q] /\ code'[q] = code[q] /\ read'[q] = read[q]
  BY <1>1, <1>2 DEF RunsOK
<1>5. \A d : Origin(d) => Origin(d)'
  BY <1>4, PrintedForGood
<1>6. Origin(doc)'
  <2>1. pc'[r] = "done" /\ code'[r] = c /\ read'[r] = read[r]
    BY <1>1, <1>2 DEF RunsOK
  <2>2. HasPrinted(r, doc)'
    BY <1>0, <1>1, <2>1 DEF HasPrinted
  <2> QED
    BY <2>2 DEF Origin
<1>7. FilesOK'
  <2>1. ASSUME NEW g \in Files
        PROVE  Origin(file[g])' /\ Origin(held[g])'
    <3>1. PICK old : old = file[g] /\ Origin(old)
      BY DEF FilesOK
    <3>2. PICK kept : kept = held[g] /\ Origin(kept)
      BY DEF FilesOK
    <3>3. Origin(old)' /\ Origin(kept)'
      BY <1>5, <3>1, <3>2
    <3>4. (file'[g] = old \/ file'[g] = doc) /\ held'[g] = kept
      BY <1>1, <3>1, <3>2 DEF FilesOK
    <3> QED
      BY <1>6, <3>3, <3>4 DEF Origin, HasPrinted
  <2> QED
    BY <1>1, <2>1 DEF FilesOK
<1>8. CompareOK'
  BY <1>1 DEF CompareOK, Compared
<1> QED
  BY <1>3, <1>7, <1>8

\* compare takes over what a file holds, and answers once it has both.
LEMMA CompareStep ==
  ASSUME SInv,
         \/ ReadDocument("before", "readBefore", "readAfter")
         \/ ReadDocument("after", "readAfter", "compare")
         \/ ReadDocumentFails \/ Compare
  PROVE  SInv'
<1> USE DEF SInv
<1>1. UNCHANGED <<file, pc, output, read, code>>
  BY DEF ReadDocument, ReadDocumentFails, Compare, CompareEnds
<1>2. RunsOK'
  BY <1>1 DEF RunsOK
<1>3. \A d : Origin(d) => Origin(d)'
  BY <1>1 DEF Origin, HasPrinted
<1>4. CASE \/ ReadDocument("before", "readBefore", "readAfter")
           \/ ReadDocument("after", "readAfter", "compare")
  <2>1. PICK f \in Files : held' = [held EXCEPT ![f] = file[f]]
    BY <1>4 DEF ReadDocument, Files
  <2>2. /\ step # "done" /\ step' \in {"readAfter", "compare"} /\ exit' = exit
    BY <1>4 DEF ReadDocument
  <2>3. ASSUME NEW g \in Files
        PROVE  Origin(file[g])' /\ Origin(held[g])'
    <3>1. PICK now : now = file[g] /\ Origin(now)
      BY DEF FilesOK
    <3>2. PICK kept : kept = held[g] /\ Origin(kept)
      BY DEF FilesOK
    <3>3. Origin(now)' /\ Origin(kept)'
      BY <1>3, <3>1, <3>2
    <3>4. file'[g] = now /\ (held'[g] = kept \/ held'[g] = now)
      BY <1>1, <2>1, <3>1, <3>2 DEF FilesOK
    <3> QED
      BY <3>3, <3>4 DEF Origin, HasPrinted
  <2>4. FilesOK'
    BY <1>1, <2>1, <2>3 DEF FilesOK
  <2>5. CompareOK'
    BY <2>2, Codes DEF CompareOK, Compared
  <2> QED
    BY <1>2, <2>4, <2>5
<1>5. CASE ReadDocumentFails \/ Compare
  <2>1. UNCHANGED held /\ step' = "done"
    BY <1>5 DEF ReadDocumentFails, Compare, CompareEnds
  <2>2. FilesOK'
    BY <1>1, <1>3, <2>1 DEF FilesOK, Origin, HasPrinted
  <2>3. exit' = OperationalError
        \/ /\ Comparable(held["before"], held["after"])
           /\ exit' = IF CompareSnapshots(held["before"], held["after"]) = {} THEN 0 ELSE 2
    BY <1>5 DEF ReadDocumentFails, Compare, CompareEnds
  <2>4. CompareOK'
    BY <2>1, <2>3, Codes DEF CompareOK, Compared
  <2> QED
    BY <1>2, <2>2, <2>4
<1> QED
  BY <1>4, <1>5

\* The invariant holds in every run.
LEMMA SnapshotsInvariant == Spec => []SInv
<1>1. SInv /\ [Next]_vars => SInv'
  <2> SUFFICES ASSUME SInv, [Next]_vars
               PROVE  SInv'
    OBVIOUS
  <2>1. CASE \E r \in Runs, f \in Files : Redirect(r, f)
    BY <2>1, SilentStep
  <2>2. CASE \E r \in Runs : \E answer \in AnswersOf[r] : Verify(r, answer)
    BY <2>2, SilentStep DEF Files
  <2>3. CASE \E r \in Runs : PrintJSON(r) \/ EvidenceFails(r)
    BY <2>3, PrintStep, SilentStep DEF Files
  <2>4. CASE \/ ReadDocument("before", "readBefore", "readAfter")
             \/ ReadDocument("after", "readAfter", "compare")
             \/ ReadDocumentFails \/ Compare
    BY <2>4, CompareStep
  <2>5. CASE UNCHANGED vars
    BY <2>5 DEF vars, SInv, RunsOK, FilesOK, CompareOK, Origin, HasPrinted, Compared
  <2> QED
    BY <2>1, <2>2, <2>3, <2>4, <2>5 DEF Next
<1> QED
  BY <1>1, SnapshotsStart, PTL DEF Spec

-----------------------------------------------------------------------------
(* The theorems *)

\* What is comparable was printed by a run of evidence.
LEMMA ComparableIsPrinted ==
  ASSUME SInv, Compared, NEW f \in Files
  PROVE  \E r \in Runs : HasPrinted(r, held[f])
<1>1. Comparable(held["before"], held["after"]) /\ Origin(held[f])
  BY DEF SInv, CompareOK, FilesOK
<1>2. held[f].schemaVersion = 1 /\ held[f].subject # <<>>
  BY <1>1 DEF Comparable, Files
<1>3. NoDocument.schemaVersion # 1 /\ OtherJSON.subject = <<>>
  BY DEF NoDocument, OtherJSON
<1> QED
  BY <1>1, <1>2, <1>3 DEF Origin

\* Every variable keeps its type.
THEOREM SnapshotTypes == Spec => []TypeOK
<1>1. SInv => TypeOK
  <2> SUFFICES ASSUME SInv
               PROVE  TypeOK
    OBVIOUS
  <2>1. ASSUME NEW doc, Origin(doc)
        PROVE  doc \in Documents
    <3>1. CASE doc = NoDocument \/ doc = OtherJSON
      BY <3>1 DEF Documents
    <3>2. CASE \E r \in Runs : HasPrinted(r, doc)
      <4>1. PICK r \in Runs : HasPrinted(r, doc)
        BY <3>2
      <4>2. doc \in {Snapshot(answer) : answer \in AnswersOf[r]}
        BY <4>1 DEF HasPrinted
      <4> QED
        BY <4>2 DEF Documents, Printable
    <3> QED
      BY <2>1, <3>1, <3>2 DEF Origin
  <2> QED
    BY <2>1 DEF SInv, RunsOK, FilesOK, CompareOK, TypeOK
<1> QED
  BY <1>1, SnapshotsInvariant, PTL

\* compare answers only if both documents were printed in full by runs that verified
\* the same workload, however many other runs rewrote or tore the files meanwhile.
THEOREM AnswerFromTwoSnapshots == Spec => []AnswerNeedsTwoSnapshots
<1>1. SInv => AnswerNeedsTwoSnapshots
  <2> SUFFICES ASSUME SInv, Compared
               PROVE  \E r \in Source("before"), q \in Source("after") :
                        read[r].kind = read[q].kind /\ read[r].w.name = read[q].w.name
    BY DEF AnswerNeedsTwoSnapshots
  <2>1. PICK r \in Runs : HasPrinted(r, held["before"])
    BY ComparableIsPrinted DEF Files
  <2>2. PICK q \in Runs : HasPrinted(q, held["after"])
    BY ComparableIsPrinted DEF Files
  <2>3. r \in Source("before") /\ q \in Source("after")
    BY <2>1, <2>2 DEF Source, HasPrinted
  <2>4. held["before"].subject = held["after"].subject
    BY DEF SInv, CompareOK, Comparable
  <2>5. /\ held["before"].subject = <<read[r].kind, read[r].w.name>>
        /\ held["after"].subject = <<read[q].kind, read[q].w.name>>
    BY <2>1, <2>2 DEF HasPrinted, Snapshot
  <2>6. read[r].kind = read[q].kind /\ read[r].w.name = read[q].w.name
    <3>1. \A k, n, k2, n2 : <<k, n>> = <<k2, n2>> => k = k2 /\ n = n2
      OBVIOUS
    <3>2. <<read[r].kind, read[r].w.name>> = <<read[q].kind, read[q].w.name>>
      BY <2>4, <2>5
    <3> QED
      BY <3>1, <3>2
  <2> QED
    BY <2>3, <2>6
<1> QED
  BY <1>1, SnapshotsInvariant, PTL

\* An answer is that of the comparison of two looks at the cluster.
LEMMA ComparisonIsExact ==
  ASSUME SInv, Compared, NEW r \in Source("before"), NEW q \in Source("after")
  PROVE  exit = 0 <=> Agree(read[r], read[q])
<1>1. held["before"] = Snapshot(read[r]) /\ held["after"] = Snapshot(read[q])
  BY DEF Source
<1>2. exit = 0 <=> CompareSnapshots(held["before"], held["after"]) = {}
  BY DEF SInv, CompareOK
<1> QED
  BY <1>1, <1>2, EqualIsAgreement

\* NO_CHANGE is said only of two looks at the cluster that agree.
THEOREM NoChangeAgrees == Spec => []NoChangeIsAgreement
<1>1. SInv => NoChangeIsAgreement
  BY ComparisonIsExact DEF NoChangeIsAgreement, Compared
<1> QED
  BY <1>1, SnapshotsInvariant, PTL

\* CHANGED is said only of two that differ.
THEOREM ChangeDiffers == Spec => []ChangeIsReal
<1>1. SInv => ChangeIsReal
  <2> SUFFICES ASSUME SInv, exit = 2, NEW r \in Source("before"), NEW q \in Source("after")
               PROVE  ~Agree(read[r], read[q])
    BY DEF ChangeIsReal
  <2> QED
    BY ComparisonIsExact DEF Compared
<1> QED
  BY <1>1, SnapshotsInvariant, PTL

\* With the declaration, the owners and the revisions of the pods unchanged, NO_CHANGE
\* keeps the verdict unless a pod of which neither snapshot shows a container has
\* started or stopped terminating.
THEOREM OnlyTerminationHidden == Spec => []NoChangeHidesOnlyTermination
<1>1. SInv => NoChangeHidesOnlyTermination
  <2> SUFFICES ASSUME SInv, exit = 0, NEW r \in Source("before"), NEW q \in Source("after"),
                      SameFrame(read[r], read[q]), ~HiddenTermination(read[r], read[q])
               PROVE  verifyWorkload(read[r]).status = verifyWorkload(read[q]).status
    BY DEF NoChangeHidesOnlyTermination
  <2>1. Compared /\ Agree(read[r], read[q])
    BY ComparisonIsExact DEF Compared
  <2>2. IsAnswer(read[r]) /\ IsAnswer(read[q])
    BY AnswersAssumption DEF SInv, RunsOK, Source
  <2>3. read[r].kind = read[q].kind
    <3>1. held["before"] = Snapshot(read[r]) /\ held["after"] = Snapshot(read[q])
      BY DEF Source
    <3>2. Snapshot(read[r]).subject = Snapshot(read[q]).subject
      BY <2>1, <3>1 DEF SInv, CompareOK, Comparable
    <3>3. <<read[r].kind, read[r].w.name>> = <<read[q].kind, read[q].w.name>>
      BY <3>2 DEF Snapshot
    <3>4. \A k, n, k2, n2 : <<k, n>> = <<k2, n2>> => k = k2
      OBVIOUS
    <3> QED
      BY <3>3, <3>4
  <2> QED
    BY <2>1, <2>2, <2>3, NothingElseIsHidden, SameVerdict
<1> QED
  BY <1>1, SnapshotsInvariant, PTL
=============================================================================
