SPECIFICATION Spec
CONSTANTS
  Agents = {a1, a2}
  Executables = {sh, ls}
  Foreign = foreign
  Modes = {"monitor", "protect"}
  policyProposalMaxExecutables = 1
  maxConflictRetries = 0
  MaxEvents = 2
  MaxUser = 2
  MaxStale = 2
  MaxCrashes = 1
  None = None
CHECK_DEADLOCK FALSE
INVARIANTS
  TypeOK
  PolicyIsApproved
PROPERTIES
  LearningMonotone
  PromotedEventually
  LeftoverDeleted
  LearnedEventually
