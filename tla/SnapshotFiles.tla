--------------------------- MODULE SnapshotFiles ---------------------------
(***************************************************************************)
(* Runs of "evidence <kind> <name> --json", whose output a shell puts into *)
(* a file, and one run of "compare before.json after.json".  The shell     *)
(* empties the file before the command reads anything of the cluster; the  *)
(* command prints its result in one write, whatever the verdict, and       *)
(* prints nothing if a read fails.  compare reads the two files one after  *)
(* the other, while runs of evidence may rewrite them.                     *)
(***************************************************************************)
EXTENDS Comparison, Gate

CONSTANTS
  Runs,      \* runs of evidence
  OutputsOf, \* for each of them, the files its output may go to
  AnswersOf  \* for each of them, what its verification may read

ASSUME AnswersAssumption == \A r \in Runs : \A a \in AnswersOf[r] : IsAnswer(a)

Files == {"before", "after"}

VARIABLES
  file,    \* the content of the two files
  pc,      \* the next step of each run of evidence
  output,  \* the file its output goes to
  read,    \* what its verification read
  code,    \* its exit code
  step,    \* the next step of compare
  held,    \* the documents compare has read
  exit     \* the exit code of compare

vars == <<file, pc, output, read, code, step, held, exit>>

NoDocument == [schemaVersion |-> 0]  \* no file, or one that is empty or torn
NoAnswer   == [kind |-> None]

\* Other JSON of this program, such as an attestation, has none of the fields.
OtherJSON ==
  [schemaVersion |-> 1, subject |-> <<>>, revision |-> <<>>,
   replicas |-> [desired |-> 0, ready |-> 0], pods |-> <<>>, containers |-> <<>>]

Init ==
  /\ file \in [Files -> {NoDocument, OtherJSON}]
  /\ pc = [r \in Runs |-> "start"]
  /\ output = [r \in Runs |-> None]
  /\ read = [r \in Runs |-> NoAnswer]
  /\ code = [r \in Runs |-> NoExit]
  /\ step = "readBefore"
  /\ held = [f \in Files |-> NoDocument]
  /\ exit = NoExit

-----------------------------------------------------------------------------
(* evidence *)

Goto(r, next) == pc' = [pc EXCEPT ![r] = next]

End(r, c) == Goto(r, "done") /\ code' = [code EXCEPT ![r] = c]

\* The shell opens the output file, which empties it.
Redirect(r, f) ==
  /\ pc[r] = "start" /\ f \in OutputsOf[r]
  /\ Goto(r, "verify")
  /\ output' = [output EXCEPT ![r] = f]
  /\ file' = [file EXCEPT ![f] = NoDocument]
  /\ UNCHANGED <<read, code, step, held, exit>>

Verify(r, answer) ==
  /\ pc[r] = "verify"
  /\ Goto(r, "print")
  /\ read' = [read EXCEPT ![r] = answer]
  /\ UNCHANGED <<file, output, code, step, held, exit>>

\* The exit code is that of the verdict.  What a longer document of another run
\* may leave behind is not read: decoding stops after the first JSON value.
PrintJSON(r) ==
  /\ pc[r] = "print"
  /\ file' = [file EXCEPT ![output[r]] = Snapshot(read[r])]
  /\ End(r, exitForStatus(verifyWorkload(read[r]).status))
  /\ UNCHANGED <<output, read, step, held, exit>>

\* A read of the cluster fails; or the output cannot be written, or the run is
\* killed, with or without damage to what the file held by then.
EvidenceFails(r) ==
  /\ pc[r] \in {"verify", "print"}
  /\ End(r, OperationalError)
  /\ \/ UNCHANGED file
     \/ pc[r] = "print" /\ file' = [file EXCEPT ![output[r]] = NoDocument]
  /\ UNCHANGED <<output, read, step, held, exit>>

-----------------------------------------------------------------------------
(* compare *)

ReadDocument(f, now, next) ==
  /\ step = now
  /\ file[f] # NoDocument
  /\ step' = next
  /\ held' = [held EXCEPT ![f] = file[f]]
  /\ UNCHANGED <<file, pc, output, read, code, exit>>

CompareEnds(c) ==
  /\ step' = "done"
  /\ exit' = c
  /\ UNCHANGED <<file, pc, output, read, code, held>>

\* A file cannot be opened, or does not hold a whole JSON value.
ReadDocumentFails ==
  /\ step \in {"readBefore", "readAfter"}
  /\ CompareEnds(OperationalError)

\* Seeded fault: the number of changes is the exit code.
Compare_Count ==
  /\ step = "compare"
  /\ CompareEnds(IF ~Comparable(held["before"], held["after"]) THEN OperationalError
                 ELSE Cardinality(CompareSnapshots(held["before"], held["after"])))

Compare ==
  /\ step = "compare"
  /\ CompareEnds(IF ~Comparable(held["before"], held["after"]) THEN OperationalError
                 ELSE IF CompareSnapshots(held["before"], held["after"]) = {} THEN 0
                 ELSE 2)

Next ==
  \/ \E r \in Runs, f \in Files : Redirect(r, f)
  \/ \E r \in Runs : \E answer \in AnswersOf[r] : Verify(r, answer)
  \/ \E r \in Runs : PrintJSON(r) \/ EvidenceFails(r)
  \/ ReadDocument("before", "readBefore", "readAfter")
  \/ ReadDocument("after", "readAfter", "compare")
  \/ ReadDocumentFails
  \/ Compare

Spec == Init /\ [][Next]_vars

-----------------------------------------------------------------------------
(* Properties *)

Printable == UNION {{Snapshot(answer) : answer \in AnswersOf[r]} : r \in Runs}
Documents == {NoDocument, OtherJSON} \cup Printable

TypeOK ==
  /\ \A f \in Files : file[f] \in Documents /\ held[f] \in Documents
  /\ \A r \in Runs :
       /\ pc[r] \in {"start", "verify", "print", "done"}
       /\ read[r] \in AnswersOf[r] \cup {NoAnswer}
       /\ code[r] \in {0, OperationalError, 2, 3, NoExit}
  /\ step \in {"readBefore", "readAfter", "compare", "done"}
  /\ exit \in {0, OperationalError, 2, NoExit}

Compared == exit \in {0, 2}

\* The runs that have printed the document compare read from f.
Source(f) ==
  {r \in Runs : code[r] \in {0, 2, 3} /\ Snapshot(read[r]) = held[f]}

\* Whatever was rewritten, torn or failed around it, compare answers only if both
\* documents were printed in full, each by a run with a verdict on the same workload.
AnswerNeedsTwoSnapshots ==
  Compared =>
    \E r \in Source("before"), q \in Source("after") :
      read[r].kind = read[q].kind /\ read[r].w.name = read[q].w.name

\* What the counted pods run: the declared image, the reported one, and restarts,
\* of each container that is declared and reported.
Running(a) ==
  UNION { { <<k, p, c, a.w.template[k][c], a.pods[p].reports[k][c], a.restarts[p]>>
            : c \in DOMAIN a.w.template[k] \cap DOMAIN a.pods[p].reports[k] }
          : k \in Kinds, p \in CountedPods(a) }

\* The cluster looked the same both times, as far as a comparison goes.
Agree(x, y) ==
  /\ workloadRevision(x) = workloadRevision(y)
  /\ desiredReplicas(x) = desiredReplicas(y) /\ x.readyReplicas = y.readyReplicas
  /\ DOMAIN x.pods = DOMAIN y.pods
  /\ \A p \in DOMAIN x.pods : x.pods[p].ready = y.pods[p].ready
  /\ Running(x) = Running(y)

\* NO_CHANGE is never said of two looks at the cluster that differ: a pod that was
\* replaced under its name has at least the readiness, images and restarts of the
\* one it replaced.
NoChangeIsAgreement ==
  exit = 0 =>
    \A r \in Source("before"), q \in Source("after") : Agree(read[r], read[q])

\* And CHANGED is never said of two that agree, however many runs rewrote the files.
ChangeIsReal ==
  exit = 2 =>
    \A r \in Source("before"), q \in Source("after") : ~Agree(read[r], read[q])

\* The declaration and the owners are the same in both looks, and each pod that is in
\* both has one owner or revision: a snapshot has neither of them.  Whether a pod is
\* ready, terminating and what it reports is left open.
SameFrame(x, y) ==
  LET placed(pod) == [pod EXCEPT !.ready = TRUE, !.terminating = FALSE, !.reports = None]
  IN  /\ x.w = y.w /\ x.owners = y.owners
      /\ \A p \in DOMAIN x.pods \cap DOMAIN y.pods :
           placed(x.pods[p]) = placed(y.pods[p])

\* The pods of which a snapshot shows a container.
Shown(a) == {t[2] : t \in Running(a)}

\* A pod that neither snapshot shows has started or stopped terminating.
HiddenTermination(x, y) ==
  \E p \in (DOMAIN x.pods \cap DOMAIN y.pods) \ (Shown(x) \cup Shown(y)) :
    x.pods[p].terminating # y.pods[p].terminating

\* A snapshot records whether a pod terminates, a verdict depends on it, and the
\* comparison does not look at it.  Nothing else that pods tell escapes it: with the
\* same declaration, owners and pod revisions, NO_CHANGE is said of two different
\* verdicts only if a pod of which neither snapshot shows a container has started or
\* stopped terminating.
NoChangeHidesOnlyTermination ==
  exit = 0 =>
    \A r \in Source("before"), q \in Source("after") :
      SameFrame(read[r], read[q]) =>
        \/ verifyWorkload(read[r]).status = verifyWorkload(read[q]).status
        \/ HiddenTermination(read[r], read[q])
=============================================================================
