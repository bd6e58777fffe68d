---------------------------- MODULE Truth_proofs ----------------------------
(***************************************************************************)
(* Facts about the pure functions of Truth and Gate, for any digests,      *)
(* containers, pods and flags.  The proofs about each workload kind rest   *)
(* on them.                                                                *)
(***************************************************************************)
EXTENDS Gate, WellFoundedInduction, TLAPS

-----------------------------------------------------------------------------
(* The status lattice *)

\* Adding one more status with combineStatus, as the loops over pods and
\* containers do, is what CombineAll does with one more element: the verdict
\* does not depend on the order in which pods and containers are visited.
LEMMA CombineIsFold ==
  ASSUME NEW statuses, NEW s
  PROVE  combineStatus(CombineAll(statuses), s) = CombineAll(statuses \cup {s})
BY DEF combineStatus, CombineAll

\* A combination of statuses is MATCH, PARTIAL or UNKNOWN.
LEMMA CombineAllType ==
  ASSUME NEW statuses
  PROVE  CombineAll(statuses) \in {"MATCH", "PARTIAL", "UNKNOWN"}
BY DEF CombineAll

\* It is a match exactly if no status is UNKNOWN or PARTIAL.
LEMMA CombineAllMatch ==
  ASSUME NEW statuses
  PROVE  CombineAll(statuses) = "MATCH"
           <=> ("PARTIAL" \notin statuses /\ "UNKNOWN" \notin statuses)
BY DEF CombineAll

-----------------------------------------------------------------------------
(* Image identity and one set of containers *)

\* A match of one container is equality of two digests, and nothing else is.
LEMMA ObservationMatch ==
  ASSUME NEW image, NEW imageID
  PROVE  ObservationStatus(image, imageID) = "MATCH"
           <=> (image \in Digests /\ imageID = image)
BY DigestsAssumption
   DEF ObservationStatus, imageIdentityMatch, DigestOf, NoDigest, NoImageID

\* A container matches, diverges, or is not known.
LEMMA ObservationType ==
  ASSUME NEW image, NEW imageID
  PROVE  ObservationStatus(image, imageID) \in {"MATCH", "MISMATCH", "UNKNOWN"}
BY DEF ObservationStatus

\* A set of containers matches exactly if every declared one does.
LEMMA ContainerSetMatch ==
  ASSUME NEW declared, NEW reported
  PROVE  ContainerSetStatus(declared, reported) = "MATCH"
           <=> \A c \in DOMAIN declared :
                 /\ c \in DOMAIN reported
                 /\ declared[c] \in Digests
                 /\ reported[c] = declared[c]
<1> DEFINE statuses == {Contribution(declared, reported, c) : c \in DOMAIN declared}
<1>1. ContainerSetStatus(declared, reported) = "MATCH"
        <=> ("PARTIAL" \notin statuses /\ "UNKNOWN" \notin statuses)
  BY CombineAllMatch DEF ContainerSetStatus
<1>2. ASSUME NEW c \in DOMAIN declared
      PROVE  Contribution(declared, reported, c) \notin {"PARTIAL", "UNKNOWN"}
               <=> /\ c \in DOMAIN reported
                   /\ ObservationStatus(declared[c], reported[c]) = "MATCH"
  BY ObservationType DEF Contribution
<1>3. ("PARTIAL" \notin statuses /\ "UNKNOWN" \notin statuses)
        <=> \A c \in DOMAIN declared :
              Contribution(declared, reported, c) \notin {"PARTIAL", "UNKNOWN"}
  OBVIOUS
<1> QED
  BY <1>1, <1>2, <1>3, ObservationMatch

\* A container that diverges makes its set PARTIAL, whatever its siblings are.
LEMMA DivergentSet ==
  ASSUME NEW declared, NEW reported, NEW c \in DOMAIN declared, c \in DOMAIN reported,
         ObservationStatus(declared[c], reported[c]) = "MISMATCH"
  PROVE  ContainerSetStatus(declared, reported) = "PARTIAL"
<1>1. Contribution(declared, reported, c) = "PARTIAL"
  BY DEF Contribution
<1> QED
  BY <1>1 DEF ContainerSetStatus, CombineAll

\* Each container that is declared and reported has its observation.
LEMMA ObservationMade ==
  ASSUME NEW k, NEW p, NEW declared, NEW reported, NEW c \in DOMAIN declared,
         c \in DOMAIN reported
  PROVE  \E o \in ObservationsOf(k, p, declared, reported) :
           /\ o.kind = k /\ o.pod = p /\ o.container = c
           /\ o.expected = declared[c] /\ o.value = reported[c]
<1> DEFINE st == ObservationStatus(declared[c], reported[c])
           o  == [kind |-> k, pod |-> p, container |-> c, expected |-> declared[c],
                  value |-> reported[c], status |-> st, reason |-> ObservationReason(st)]
<1>1. o \in ObservationsOf(k, p, declared, reported)
  BY DEF ObservationsOf, Observed
<1>2. /\ o.kind = k /\ o.pod = p /\ o.container = c
      /\ o.expected = declared[c] /\ o.value = reported[c]
  OBVIOUS
<1> HIDE DEF o
<1> QED
  BY <1>1, <1>2

-----------------------------------------------------------------------------
(* The containers of a set of pods *)

\* What each kind of container of each of the pods R of l contributes.
StatusesOn(R, template, l) ==
  { ContainerSetStatus(template[pk[2]], l[pk[1]].reports[pk[2]]) : pk \in R \X Kinds }

\* Next to a status that is reached without them, the containers of the pods R of l
\* leave a match exactly if that status is one and so is each of their sets.
LEMMA CombinedPods ==
  ASSUME NEW R, NEW template, NEW l, NEW first \in Verdicts
  PROVE  CombineAll({first} \cup StatusesOn(R, template, l)) = "MATCH"
           <=> /\ first = "MATCH"
               /\ \A p \in R, k \in Kinds :
                    ContainerSetStatus(template[k], l[p].reports[k]) = "MATCH"
<1> DEFINE of(p, k) == ContainerSetStatus(template[k], l[p].reports[k])
           stat == {of(pk[1], pk[2]) : pk \in R \X Kinds}
<1>1. \A p, k : of(p, k) \in {"MATCH", "PARTIAL", "UNKNOWN"}
  BY CombineAllType DEF ContainerSetStatus
<1>2. CombineAll({first} \cup stat) = "MATCH"
        <=> ("PARTIAL" \notin {first} \cup stat /\ "UNKNOWN" \notin {first} \cup stat)
  BY CombineAllMatch
<1>3. \A v : v \in stat <=> \E p \in R, k \in Kinds : v = of(p, k)
  <2>1. ASSUME NEW v \in stat
        PROVE  \E p \in R, k \in Kinds : v = of(p, k)
    <3>1. PICK pk \in R \X Kinds : v = of(pk[1], pk[2])
      BY <2>1
    <3>2. pk[1] \in R /\ pk[2] \in Kinds
      OBVIOUS
    <3> QED
      BY <3>1, <3>2
  <2>2. ASSUME NEW p \in R, NEW k \in Kinds
        PROVE  of(p, k) \in stat
    <3>1. <<p, k>> \in R \X Kinds /\ <<p, k>>[1] = p /\ <<p, k>>[2] = k
      OBVIOUS
    <3> QED
      BY <3>1
  <2> QED
    BY <2>1, <2>2
<1> HIDE DEF of, stat
<1>4. CombineAll({first} \cup stat) = "MATCH"
        <=> first = "MATCH" /\ \A p \in R, k \in Kinds : of(p, k) = "MATCH"
  BY <1>1, <1>2, <1>3 DEF Verdicts
<1> QED
  BY <1>4 DEF of, stat, StatusesOn

-----------------------------------------------------------------------------
(* The observations of a set of pods *)

\* What is observed on the pods R of l, all kinds of containers together.
ObservedOn(R, template, l) ==
  UNION { ObservationsOf(pk[2], pk[1], template[pk[2]], l[pk[1]].reports[pk[2]])
          : pk \in R \X Kinds }

\* It is put together from the pods, one kind of container at a time.
LEMMA ObservedOnPod ==
  ASSUME NEW R, NEW template, NEW l, NEW o
  PROVE  o \in ObservedOn(R, template, l)
           <=> \E p \in R, k \in Kinds :
                 o \in ObservationsOf(k, p, template[k], l[p].reports[k])
<1> DEFINE Of(p, k) == ObservationsOf(k, p, template[k], l[p].reports[k])
<1>1. ASSUME o \in ObservedOn(R, template, l)
      PROVE  \E p \in R, k \in Kinds : o \in Of(p, k)
  <2>1. PICK pk \in R \X Kinds : o \in Of(pk[1], pk[2])
    BY <1>1 DEF ObservedOn
  <2>2. pk[1] \in R /\ pk[2] \in Kinds
    OBVIOUS
  <2> QED
    BY <2>1, <2>2
<1>2. ASSUME NEW p \in R, NEW k \in Kinds, o \in Of(p, k)
      PROVE  o \in ObservedOn(R, template, l)
  <2>1. <<p, k>> \in R \X Kinds /\ <<p, k>>[1] = p /\ <<p, k>>[2] = k
    OBVIOUS
  <2> QED
    BY <1>2, <2>1 DEF ObservedOn
<1> QED
  BY <1>1, <1>2

\* An observation of a normal container comes from one of the pods and a container
\* that is declared and reported, and each of those yields one.
LEMMA NormalObservations ==
  ASSUME NEW R, NEW template, NEW l, NEW o
  PROVE  (o \in ObservedOn(R, template, l) /\ o.kind = "container")
           <=> \E p \in R : o \in ObservationsOf("container", p, template["container"],
                                                l[p].reports["container"])
<1>1. \A p, k : o \in ObservationsOf(k, p, template[k], l[p].reports[k]) => o.kind = k
  BY DEF ObservationsOf
<1>2. "container" \in Kinds
  BY DEF Kinds
<1> QED
  BY <1>1, <1>2, ObservedOnPod

-----------------------------------------------------------------------------
(* The flags *)

\* Every container that is named by a flag has a last flag, so the parsed map
\* holds a digest for it.
LEMMA ParsedDigests ==
  ASSUME NEW f \in Seq(FlagValues), Accepted(f)
  PROVE  /\ DOMAIN ParseExpectedDigests(f) \subseteq Containers
         /\ ParseExpectedDigests(f) \in [DOMAIN ParseExpectedDigests(f) -> Digests]
<1> DEFINE named == {f[i].container : i \in DOMAIN f}
<1>1. /\ DOMAIN f = 1 .. Len(f) /\ Len(f) \in Nat
      /\ \A i \in DOMAIN f : f[i] \in FlagValues
  OBVIOUS
<1>2. \A i \in DOMAIN f : f[i].container \in Containers /\ f[i].digest \in Digests
  BY <1>1 DEF FlagValues, Accepted
<1>3. ASSUME NEW c \in named
      PROVE  LastFor(f, c) \in DOMAIN f
  <2> DEFINE left == {Len(f) - i : i \in {j \in DOMAIN f : f[j].container = c}}
  <2>1. left \subseteq Nat /\ left # {}
    BY <1>1, <1>3
  <2>2. PICK m \in left : \A n \in left : ~(<<n, m>> \in OpToRel(<, Nat))
    BY <2>1, NatLessThanWellFounded, WFMin
  <2>3. \A n \in left : ~(n < m)
    BY <2>1, <2>2 DEF OpToRel
  <2>4. PICK i \in DOMAIN f : f[i].container = c /\ m = Len(f) - i
    BY <2>2
  <2>5. ASSUME NEW j \in DOMAIN f, f[j].container = c
        PROVE  j <= i
    <3>1. Len(f) - j \in left
      BY <2>5
    <3>2. ~(Len(f) - j < Len(f) - i)
      BY <2>3, <2>4, <3>1
    <3>3. i \in Nat /\ j \in Nat
      BY <1>1
    <3> HIDE DEF left
    <3> QED
      BY <1>1, <3>2, <3>3
  <2> QED
    BY <2>4, <2>5 DEF LastFor
<1>4. ParseExpectedDigests(f) = [c \in named |-> f[LastFor(f, c)].digest]
  BY DEF ParseExpectedDigests
<1>5. named \subseteq Containers
  BY <1>2
<1> HIDE DEF named
<1> QED
  BY <1>2, <1>3, <1>4, <1>5

\* After a match of the containers, the gate lets the result pass exactly if every
\* counted pod runs every expected digest.
LEMMA GatePasses ==
  ASSUME NEW R, NEW template, NEW l, NEW r, NEW e,
         r.status = "MATCH", r.observations = ObservedOn(R, template, l), R # {},
         \A p \in R :
           ContainerSetStatus(template["container"], l[p].reports["container"]) = "MATCH",
         \A c \in DOMAIN e : e[c] \in Digests
  PROVE  GatedStatus(r, e) = "MATCH"
           <=> \A p \in R : \A c \in DOMAIN e :
                 /\ c \in DOMAIN template["container"]
                 /\ c \in DOMAIN l[p].reports["container"]
                 /\ l[p].reports["container"][c] = e[c]
<1> DEFINE tmpl == template["container"]
           rep(p) == l[p].reports["container"]
           obs(p, c) == [kind |-> "container", pod |-> p, container |-> c,
                         expected |-> tmpl[c], value |-> rep(p)[c],
                         status |-> ObservationStatus(tmpl[c], rep(p)[c]),
                         reason |-> ObservationReason(
                                      ObservationStatus(tmpl[c], rep(p)[c]))]
<1>1. \A p \in R, c \in DOMAIN tmpl : c \in DOMAIN rep(p)
  BY ContainerSetMatch
<1>2. ASSUME NEW o
      PROVE  o \in Gated(r, e)
               <=> \E p \in R, c \in DOMAIN e :
                     c \in DOMAIN tmpl /\ c \in DOMAIN rep(p) /\ o = obs(p, c)
  <2>1. \A p : o \in ObservationsOf("container", p, tmpl, rep(p))
               <=> \E c \in DOMAIN tmpl \cap DOMAIN rep(p) : o = obs(p, c)
    BY DEF ObservationsOf, Observed
  <2>2. \A p, c : obs(p, c).container = c
    OBVIOUS
  <2> HIDE DEF obs, tmpl, rep
  <2>3. o \in Gated(r, e)
          <=> /\ o \in ObservedOn(R, template, l)
              /\ o.kind = "container"
              /\ o.container \in DOMAIN e
    BY DEF Gated
  <2>4. (o \in ObservedOn(R, template, l) /\ o.kind = "container")
          <=> \E p \in R : o \in ObservationsOf("container", p, tmpl, rep(p))
    BY NormalObservations DEF tmpl, rep
  <2> QED
    BY <2>1, <2>2, <2>3, <2>4
<1>3. \A p, c : obs(p, c).container = c /\ obs(p, c).value = rep(p)[c]
  OBVIOUS
<1>4. \A d \in Digests : DigestOf(d) = d /\ d # NoDigest
  BY DigestsAssumption DEF DigestOf
<1>5. \A x : DigestOf(x) # NoDigest => x \in Digests /\ DigestOf(x) = x
  BY DEF DigestOf
<1>6. GatedStatus(r, e) = "MATCH"
        <=> /\ Contradicted(r, e) = {}
            /\ NeverSeen(r, e) = {}
            /\ Unestablished(r, e) = {}
  BY DEF GatedStatus
<1> HIDE DEF obs, tmpl, rep
<1>7. ASSUME Contradicted(r, e) = {}, NeverSeen(r, e) = {}, Unestablished(r, e) = {},
             NEW p \in R, NEW c \in DOMAIN e
      PROVE  c \in DOMAIN tmpl /\ c \in DOMAIN rep(p) /\ rep(p)[c] = e[c]
  <2>1. PICK o \in Gated(r, e) : o.container = c
    BY <1>7 DEF NeverSeen
  <2>2. c \in DOMAIN tmpl /\ c \in DOMAIN rep(p)
    BY <1>1, <1>2, <1>3, <2>1
  <2>3. obs(p, c) \in Gated(r, e)
    BY <1>2, <2>2
  <2>4. DigestOf(rep(p)[c]) # NoDigest /\ DigestOf(rep(p)[c]) = e[c]
    BY <1>3, <1>7, <2>3 DEF Contradicted, Unestablished, Established
  <2> QED
    BY <1>5, <2>2, <2>4
<1>8. ASSUME \A p \in R, c \in DOMAIN e :
               c \in DOMAIN tmpl /\ c \in DOMAIN rep(p) /\ rep(p)[c] = e[c]
      PROVE  /\ Contradicted(r, e) = {}
             /\ NeverSeen(r, e) = {}
             /\ Unestablished(r, e) = {}
  <2>1. ASSUME NEW o \in Gated(r, e)
        PROVE  Established(o) /\ DigestOf(o.value) = e[o.container]
    <3>1. PICK p \in R, c \in DOMAIN e : o = obs(p, c)
      BY <1>2
    <3>2. o.container = c /\ o.value = e[c]
      BY <1>3, <1>8, <3>1
    <3> QED
      BY <1>4, <3>2 DEF Established
  <2>2. ASSUME NEW c \in DOMAIN e
        PROVE  \E o \in Gated(r, e) : o.container = c
    <3>1. PICK p \in R : TRUE
      OBVIOUS
    <3>2. obs(p, c) \in Gated(r, e)
      BY <1>2, <1>8
    <3> QED
      BY <1>3, <3>2
  <2> QED
    BY <2>1, <2>2 DEF Contradicted, NeverSeen, Unestablished
<1>9. GatedStatus(r, e) = "MATCH"
        <=> \A p \in R, c \in DOMAIN e :
              c \in DOMAIN tmpl /\ c \in DOMAIN rep(p) /\ rep(p)[c] = e[c]
  BY <1>6, <1>7, <1>8
<1> QED
  BY <1>9 DEF tmpl, rep
=============================================================================
