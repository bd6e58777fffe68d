CONSTANTS
  Digests = {"A", "B"}
  PodNames = {"p1", "p2"}
  SetNames = {"rs1", "rs2", "rs3"}
  Owners = {"web", "api"}
  Target = "web"
  MaxReplicas = 2
  MaxRevision = 2
  Containers <- Names
  FlagLists <- MCFlagLists
  Deployments <- MCDeployments
  NamespaceSets <- MCNamespaceSets
  NamespacePods <- MCNamespacePods
SPECIFICATION Spec
CHECK_DEADLOCK FALSE
INVARIANT DriftIsNeverMasked
