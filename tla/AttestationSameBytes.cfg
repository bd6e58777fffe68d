CONSTANTS
  Digests = {"A", "B"}
  Containers = {"app", "proxy", "agent"}
  PodNames = {"p1", "p2"}
  PodRank <- MCPodRank
  SetNames = {"rs1"}
  MaxReplicas = 2
  Hashes = {1}
  Bases = {"db"}
  MaxDesired = 2
  MaxRevision = 1
  k1 = k1
  k2 = k2
  a1 = a1
  a2 = a2
  v1 = v1
  Keys <- FewKeys
  Runs <- FewRuns
  CommandOf <- FewCommandOf
  Answers <- InjectedAnswers
  FlagLists <- MCFlagLists
SPECIFICATION Spec
CHECK_DEADLOCK FALSE
INVARIANT SameAttestationSameBytes
