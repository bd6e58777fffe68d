CONSTANTS
  Digests = {"A", "B"}
  Containers = {"app", "setup"}
  PodNames = {"web-0", "web-1"}
  PodRank <- MCPodRank
  SetNames = {"rs1", "rs2"}
  MaxReplicas = 2
  MaxRevision = 2
  Hashes = {1, 2}
  Bases = {"web", "api"}
  MaxDesired = 2
  Runs = {"first", "second", "third"}
  OutputsOf <- MCOutputsOf
  AnswersOf <- MCAnswersOf
SPECIFICATION Spec
CHECK_DEADLOCK FALSE
INVARIANTS
  TypeOK
  AnswerNeedsTwoSnapshots
  NoChangeIsAgreement
  ChangeIsReal
  NoChangeHidesOnlyTermination
