SPECIFICATION Spec
CONSTANTS
  p1 = p1
  p2 = p2
  c1 = c1
  c2 = c2
  c3 = c3
  main = main
  side = side
  wp1 = wp1
  sh = sh
  app = app
  Pods = {p1, p2}
  ContainerIDs = {c1, c3}
  ContainerNames = {main, side}
  Policies = {wp1}
  Executables = {sh, app}
  PodOf <- MCPodOf
  NameOf <- MCNameOf
  PolicyOf <- MCPolicyOf
  BucketOf <- MCBucketOf
  Specs <- MCSpecs
  MaxPolicyID = 3
  MaxFaults = 2
  NoPolicy = NoPolicy
  NoSettings = NoSettings
  NoOwner = NoOwner
  NoSpec = NoSpec
  NoName = NoName
  NoContainer = NoContainer
  NoPod = NoPod
INVARIANTS
  TypeOK
  BindingsAreOwn
  ReadyMeansEnforced
  NoOrphanIDs
  BoundIsResolvable
