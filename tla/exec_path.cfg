SPECIFICATION KernelSpec
CONSTANTS
  rootfs = rootfs
  ctr = ctr
  bind = bind
  host = host
  shm = shm
  over = over
  detached = detached
  MAX_PATH_LEN = 8
  MAX_COMPONENT_LEN = 4
  PATH_ITERATIONS = 8
  KeySizes = {4, 8}
  Slack = 1
  NUL = 0
  SLASH = 1
  DELETED_STRING <- MCDeleted
  Dentries <- MCDentries
  Mounts <- MCMounts
  d_parent <- MCParent
  d_name <- MCName
  unhashed = {"fdel", "/memfd"}
  mnt_root <- MCMntRoot
  mnt_parent <- MCMntParent
  mnt_mountpoint <- MCMountpoint
  mnt_internal = {shm}
  mnt_ns <- MCNs
  TaskNs = "ctr"
  Files <- MCFiles
  AllowLists <- MCAllowLists
  NoPolicy = NoPolicy
  NoEvent = NoEvent
  NoNs = NoNs
  Lengths <- BoundaryLengths
  Pre511 = FALSE
INVARIANTS
  TypeOK
  PaddingIsNul
  UnresolvedIsDeep
  MatchExact
  EventExact
  StoredInSmallest
PROPERTY
  LookupExact
