CONSTANTS
  Digests = {"A", "B"}
  Containers = {"app"}
  PodNames = {"p1", "p2"}
  PodRank <- MCPodRank
  SetNames = {"rs1"}
  MaxReplicas = 2
  Hashes = {1}
  Bases = {"db"}
  MaxDesired = 2
  MaxRevision = 1
  k1 = k1
  k2 = k2
  a1 = a1
  a2 = a2
  v1 = v1
  Keys <- MCKeys
  Runs <- MCRuns
  CommandOf <- MCCommandOf
  Answers <- MCAnswers
  FlagLists <- MCFlagLists
SPECIFICATION Spec
SYMMETRY MCSymmetry
CHECK_DEADLOCK FALSE
INVARIANTS
  TypeOK
  ValidMeansIssued
  ValidCarriesProof
  IssuedIsValid
  KeygenLeavesAPair
PROPERTY OnlySignedRunsTouchTheFile
