CONSTANTS
  Digests = {"A", "B"}
  Containers = {"app"}
  PodNames = {"p1"}
  SetNames = {"rs1", "rs2", "rs3"}
  Owners = {"web"}
  Target = "web"
  MaxReplicas = 1
  MaxRevision = 3
  MaxUpdates = 2
  FirstSet = "rs1"
  ImageOf <- MCImageOf
  FlagLists <- NoFlags
  Deployments <- AllDeployments
  NamespaceSets <- AllSetLists
  NamespacePods <- AllPodLists
SPECIFICATION RaceSpec
CHECK_DEADLOCK FALSE
INVARIANT MatchHeldAtSomeInstant
