CONSTANTS
  Digests = {"A", "B"}
  Containers = {"app"}
  PodNames = {"p1", "p2"}
  SetNames = {"rs1", "rs2", "rs3", "rs4"}
  MaxReplicas = 2
  MaxRevision = 2
  Owners = {"api", "jobs", "web"}
  DeploymentLists <- MCDeploymentLists
  NamespaceSets <- MCNamespaceSets
  NamespacePods <- MCNamespacePods
SPECIFICATION FairSpec
CHECK_DEADLOCK FALSE
INVARIANTS
  TypeOK
  CleanScanIsProven
  DriftOutranksFailure
  SummaryAgreesWithExit
PROPERTIES
  ScanTerminates
  ImplementsVerification
