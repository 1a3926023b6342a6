SPECIFICATION Spec
CONSTANTS
  c = c
  x = x
  y = y
  Root = Root
  NoCgroup = NoCgroup
  Cgroups = {c, x, y}
  Containers = {c}
  ParentOf <- Tree
  Configs <- LoadTimeConfigs
  MaxFaults = 1
  MaxRestarts = 1
CHECK_DEADLOCK FALSE
INVARIANTS
  TypeOK
  TrackerIsAncestor
  NestedTracked
  ExecAttributed
