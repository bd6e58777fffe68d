---------------------------- MODULE ClusterReads ----------------------------
(***************************************************************************)
(* What the commands keep of a list of ReplicaSets or pods                 *)
(* (internal/k8s/client.go).  Both lists are of the whole namespace.       *)
(***************************************************************************)

GetReplicaSetsForDeployment(list, name) ==
  [rs \in {r \in DOMAIN list : list[r].owner = name} |-> list[rs].revision]

\* Seeded fault: pods collected in a map by their ReplicaSet overwrite each other.
GetDeploymentPods_OnePerSet(list, ownedReplicaSets) ==
  [p \in { q \in DOMAIN list :
             /\ list[q].owner \in ownedReplicaSets
             /\ q = CHOOSE r \in DOMAIN list : list[r].owner = list[q].owner }
     |-> list[p]]

GetDeploymentPods(list, ownedReplicaSets) ==
  [p \in {q \in DOMAIN list : list[q].owner \in ownedReplicaSets} |-> list[p]]
=============================================================================
