--------------------------- MODULE RolloutRaceMC ---------------------------
(***************************************************************************)
(* A small cluster: two or three templates, of which rs1 and rs3 run the   *)
(* same image, two pod names, and two changes by the user, enough for an   *)
(* update and a rollback, or an update and the deletion.                   *)
(***************************************************************************)
EXTENDS RolloutRace, TLC

MCImageOf == [rs \in SetNames |-> IF rs = "rs2" THEN "B" ELSE "A"]

NoFlags == {<<>>}

AllDeployments == DeploymentValues
AllSetLists    == UNION {[names -> SetValues] : names \in SUBSET SetNames}
AllPodLists    == PodLists

PodSymmetry == Permutations(PodNames)
=============================================================================
