---------------------------- MODULE Verification ----------------------------
(***************************************************************************)
(* What a verification promises its caller, whatever the workload and      *)
(* however many reads it takes: evidence is gathered once, or not at all;  *)
(* an answer is given once; it is "match" exactly if the evidence is a     *)
(* proof; and complete evidence is always answered with a verdict, never   *)
(* with an operational error.  VerifyCommand, RevisionCommand and Scan     *)
(* implement this specification.                                           *)
(***************************************************************************)
VARIABLES
  evidence,  \* what has been read, as far as the answer depends on it
  answer     \* what the caller is told

Evidence == {"incomplete", "proof", "no proof"}
Answers  == {"none", "match", "drift", "unknown", "error"}

Init == evidence = "incomplete" /\ answer = "none"

\* The last of the reads returns.
Gather ==
  /\ evidence = "incomplete" /\ answer = "none"
  /\ evidence' \in {"proof", "no proof"}
  /\ UNCHANGED answer

\* A flag is malformed, or a read fails (of a scan, the list of Deployments).
GiveUp ==
  /\ evidence = "incomplete" /\ answer = "none"
  /\ answer' = "error"
  /\ UNCHANGED evidence

Announce ==
  /\ evidence # "incomplete" /\ answer = "none"
  /\ answer' \in IF evidence = "proof" THEN {"match"} ELSE {"drift", "unknown"}
  /\ UNCHANGED evidence

Next == Gather \/ GiveUp \/ Announce

Spec == Init /\ [][Next]_<<evidence, answer>>
=============================================================================
