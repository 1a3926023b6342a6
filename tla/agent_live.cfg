SPECIFICATION FairAgentSpec
CONSTANTS
  p1 = p1
  p2 = p2
  c1 = c1
  c2 = c2
  c3 = c3
  main = main
  side = side
  wp1 = wp1
  sh = sh
  app = app
  Pods = {p1}
  ContainerIDs = {c1}
  ContainerNames = {main}
  Policies = {wp1}
  Executables = {sh, app}
  PodOf <- MCPodOf
  NameOf <- MCNameOf
  PolicyOf <- MCPolicyOf
  BucketOf <- MCBucketOf
  Specs <- SpecsUpdate
  MaxPolicyID = 4
  MaxFaults = 0
  FailOpen = FALSE
  LearningEnabled = TRUE
  Foreign = {FALSE}
  MaxSpecChanges = 2
  MaxInterruptions = 2
  MaxExecs = 0
  MaxProbes = 1
  NoPolicy = NoPolicy
  NoSettings = NoSettings
  NoOwner = NoOwner
  NoSpec = NoSpec
  NoName = NoName
  NoContainer = NoContainer
  NoPod = NoPod
CHECK_DEADLOCK FALSE
INVARIANTS
  ConnectedMeansTracked
PROPERTIES
  ProbeMeansEnforced
  PolicyEventuallyApplied
  SynchronizeEventually
