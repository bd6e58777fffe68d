CONSTANTS
  Digests = {"A", "B"}
  Containers = {"app", "setup"}
  PodNames = {"web-0", "web-1", "web-2"}
  PodRank <- MCPodRank
  Hashes = {1, 2}
  Bases = {"web", "api"}
  MaxDesired = 2
  MaxRevision = 2
  FlagLists <- MCFlagLists
  WorkloadAnswers <- MCWorkloadAnswers
  NamespaceRevisions <- MCNamespaceRevisions
  NamespacePods <- MCNamespacePods
SPECIFICATION Spec
CHECK_DEADLOCK FALSE
INVARIANTS
  TypeOK
  MatchIsProven
  MatchIsNotWithheld
  MismatchIsDrift
  EveryPodAccountedFor
PROPERTY ImplementsVerification
