CONSTANTS
  Digests = {"A", "B"}
  Containers = {"app"}
  PodNames = {p1, p2}
  SetNames = {"rs1", "rs2"}
  Owners = {"web"}
  Target = "web"
  MaxReplicas = 2
  MaxRevision = 3
  MaxUpdates = 2
  FirstSet = "rs1"
  ImageOf <- MCImageOf
  FlagLists <- NoFlags
  Deployments <- AllDeployments
  NamespaceSets <- AllSetLists
  NamespacePods <- AllPodLists
SPECIFICATION RaceSpec
CHECK_DEADLOCK FALSE
INVARIANTS
  NoCurrentPodMissed
  OnlyCurrentPodsJudged
  QuietVerdictIsAtomic
SYMMETRY PodSymmetry
