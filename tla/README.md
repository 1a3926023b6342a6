# Verification of runtime-enforcer

TLA+ specifications of the runtime enforcer, checked with TLC on small
instances and, for the central invariants, proved with TLAPS for every value
of the constants. `PROJECT.json` maps every definition to the lines it models.

## The system

A `WorkloadPolicy` lists, per container name, the executables that may run, and
a mode: `monitor` reports other executables, `protect` denies them.

| Part | State | Operations | Interacts with |
|---|---|---|---|
| Resolver (`internal/resolver`) | `podCache`, `cgroupIDToPodID`, `wpState`, `nextPolicyID`, under the mutex `mu` | `AddPodContainerFromNri`, `RemovePodContainerFromNri`, `ReconcileWP`, `HandleWPDelete` | called by the NRI plugin and the policy handler; writes the BPF maps |
| BPF maps (`internal/bpf`) | `cgtracker_map`, `cg_to_policy_map`, `pol_str_maps_0..10`, `policy_settings_map` | update, replace, delete; each call may fail | written by the resolver, read by the LSM program |
| LSM program (`bpf/main.c`) | none of its own | `enforce_cgroup_policy`, `cgroup_mkdir`, `cgroup_release` | reads the maps without a lock |
| NRI plugin (`internal/nri`) | the connection, `nriSynchronized` | `Synchronize`, `StartContainer`, `RemoveContainer`, reconnection | container runtime |
| Policy handler (`internal/workloadpolicyhandler`) | work queue, `hasSynced` | `Reconcile`, `HasSynced` | API server, startup probe |
| Violation buffer (`internal/violationbuf`) | `buf`, `pos` | `Record`, `Drain` | event scraper, gRPC server |
| Event scraper, learning (`internal/eventscraper`, `internal/eventhandler`) | event channels, retry counters | learn an executable, report a violation | ring buffers, API server |
| Status sync (`internal/controller`, `api/v1alpha1`, `internal/grpcexporter`) | pool of agent clients, policy status | scrape, merge, acknowledge, patch | agents, API server |
| Proposal promotion (`internal/controller`) | proposals and policies | promote, delete leftovers | learning |
| Tools (`internal/kubectlplugin`, `internal/wpgen`, `internal/imagescan`, `internal/debugger`) | none | commands | API server, images |

What is hard: the maps are written one call at a time while the kernel reads
them; every call may fail half-way; the agent, the runtime and the API server
restart and reconnect independently; agent and program compute the string
map of a path separately; nested cgroups come and go while they are discovered;
and controllers work from caches that lag, with calls whose answers get lost.
The `hazards` of `PROJECT.json` list these places line by line.

## Modules

| Module | Models |
|---|---|
| `Resolver` | the resolver and the maps it writes |
| `Agent` | extends `Resolver` with runtime, NRI plugin, policy handler, readiness check, LSM program and agent restarts |
| `StringMaps` | the choice of the string map by path length, on both sides |
| `ExecPath` | the path of an executed file: walk of the dentries, lookup, event |
| `CgroupTracker` | `cgtracker_map` with nested cgroups, its three writers, and the attribution of an exec to a container |
| `ViolationBuffer`, `ViolationLog` | the ring of violations and the bounded log it implements |
| `StatusSync` | extends `ViolationBuffer` with the scrape, the client pool, the policy status and its acknowledgements |
| `Promotion` | learning agents, approval by a user, the proposal controller |
| `MC...` | small instances for TLC (`Promotion` needs none) |
| `...Proofs` | theorems |

**Resolver.** Every operation holds `mu` to its end, so `op` describes the only
one in progress. A step is one call that writes a kernel map, since the kernel
may run between two calls. Each such step has a `...Fails` twin in which the
call fails (at most `MaxFaults` times): a failing write of the string maps
leaves the maps before the failing one rewritten, a failing batch deletion
removes any subset. The eleven string maps of an ID are otherwise replaced in
one step: an exec reads only the one map of its path, so it cannot tell. A
container ID stands for its cgroup. `owner`, `applied` and `reported` are
history variables.

**Agent.** The resolver's variables change only by actions of `Resolver`.
`Connect` waits for an NRI call in progress; the runtime holds back events
during `Synchronize`; while no plugin is connected, containers start and go
unattended. `wpSpec` is the informer's view of the policies; a deleted policy
is `NoSpec`. `HandlerGet` and `HandlerCall` are separate, because `Reconcile`
reads the policy before it waits for the lock. The LSM program runs one exec at
a time, a step per lookup; its policy ID is read once. `exec.window` collects
the specs that were in force while the exec was checked.

**StringMaps.** A path is its length. The length 0 is refused by the agent and
never reaches the lookup. `MCExecPath` runs it beside `ExecPath`: the two are
the kernel's side of an allow list, and share no state.

**ExecPath.** The buffer of one CPU, byte by byte, with the code's masks and
wrap-arounds; the sizes are constants, since the masks behave alike for every
power of two. `FullPath` is the reference the walk is compared with. The kernel
is assumed not to enter the hook again on a CPU where it is running (a `todo`
in `main.c:486`). `fs->root` is a `struct path`, not a pointer to one, so the
walk's test for the root of the task never succeeds and paths are those of the
mount namespace; the model has it so. A file is foreign unless its mount is
internal to the kernel, detached from any namespace (`NoNs`), or of the task's.

**CgroupTracker.** A tree of cgroups, of which some are containers. A cgroup
starts (the tracepoint fires), becomes visible, is removed, and is released.
The walk of `UpdateCgTrackerMap` is a step per directory read, per ID read and
per map write, each of which may fail; so may the ID reads and the map update
of the tracepoints, which nothing repeats. The kernel is assumed to call the
mkdir program before the directory can be seen. The two runnables that attach
the program and that call `Synchronize` are not ordered
(`cmd/agent/main.go:230`, `:272`): `covered` has the containers that were
walked after the attachment and `raced` the cgroups that nobody could see, and
the properties are about the former.

**StatusSync.** One policy, one node. `sync` is the controller's single
goroutine, a step per call: list, pool and node statuses, pool, scrape, status
patch, annotation patch. A patch fails before or after it took effect
(`failed`, `lost`), a scrape before or after it drained the ring. `cache` is
the policy and `listed` the agent's pod as the controller's caches have them;
both lag. Times lose their fraction of a second in the API (`Stored`). A merge
patch sends only the fields that changed from the listed object (`MergePatch`).
Users acknowledge and allow what the status lists. `chosen`, `counted`,
`settled`, `ackedIDs` and `stale` are history variables; the last is set when a
sync started from an outdated cache.

**Promotion.** One workload, any number of agents. A cache shows the last
version, the one before or the one it showed before, for proposals and policies
independently; this also stands for the time between the reads and the write of
an agent's `Reconcile`, which is one step. The API server checks the resource
version of updates, the name of creations and nothing on deletions. A webhook
may refuse an agent's write, for good or so that it is retried
(`handleAdmissionError`). Of `ValidateDelete` only the outcome that lets a
policy go is an action; a refused deletion changes nothing. `approved`, `lost`
and `deleted` are history variables.

## Runs

| Run | Shows | Distinct states |
|---|---|---|
| `resolver` | types, own bindings, truthful READY, no ID left behind, resolvable cgroups, with up to two failing calls | 2,647,680 |
| `agent_faults` | containers running under a connected plugin are bound, an exec is denied when all specs in force while it was checked forbid it (as long as no call failed) and let through when all permit it, with a failing call and a lost connection or a restart | 1,519,474 |
| `agent_live` | tracking after `Synchronize`, truthful readiness, policies get applied, `Synchronize` gets through, with two restarts or lost connections | 120,202 |
| `exec_path` | the path is matched and reported exactly, whatever was executed before; storage and lookup agree for lengths at the boundaries | 32,577 |
| `cgroup_tracker` | entries name the right container, covered containers miss no nested cgroup, execs are attributed | 695,128 |
| `status_sync` | every violation counts at most once and in one record, IDs are unique, acknowledgements hit what was chosen and are logged at most once, annotations survive, the newest are listed; everything is scraped and acknowledged in the end; the ring implements the log | 555,566 |
| `promotion` | a policy is what a user approved, learning loses nothing, proposals are promoted and leftovers deleted | 90,510 |

Five runs end in a violation, of a property that a comment of the code states;
the `findings` of `PROJECT.json` quote it.

| Run | What happens |
|---|---|
| `sync_retry` | the tracker write of a container that is already cached is not retried |
| `delete_retry` | a deletion that fails half-way is not completed by its retry |
| `removed_container` | a container removed from a spec while no pod has it keeps its ID, and later pods are bound to the old rules |
| `string_maps_gap` | allowed paths of 121 to 144 bytes are looked up in another map than they are stored in |
| `first_observed` | a record is stamped with the newest of the violations that one scrape brings for it, since the ring is drained newest first |

**Bounds.** `resolver` has one policy and two pods with a container each, the
smallest instance in which pods share a policy ID and a reconcile visits one
pod before another; pods with two containers are in the proofs and in
`sync_retry`. Three or four policy IDs leave room for allocations that a
failing call wastes. Two policy changes cover create followed by update or
delete. The specs of `agent_faults` are made for an exec that overlaps an
update: two protect and forbid `sh`, the first and the third permit `app`, the
second and the third permit files of a foreign root. An interruption (a restart
or a lost connection) and an exec happen at most once there, in any reachable
state (a restarted agent knows nothing, so that a lost connection after a
restart is one of an agent started late); `agent_live` has two interruptions.
Independent policies share only the ID counter; that they do not disturb each
other's bindings is proved for any number. `MCStringMaps` and `MCExecPath`
select lengths on both sides of every boundary. `exec_path` runs any sequence
of execs and policies. `cgroup_tracker` has a container with two nested
cgroups, a failing call and a restart. `status_sync` lets one record more
happen than the ring holds, and violations of three keys with a status that
lists two, so that records share a batch and one is truncated, with one failing
call and one agent restart. Keys are interchangeable until one was used:
`MCKeys` lets the n-th violation have one of the first n keys. `promotion` has
two agents whose events exceed the size of a proposal, two outdated reads
(enough for a conflict and a leftover), two actions of users and a crash.

The agent runs, `cgroup_tracker` and `promotion` do not check for deadlock: a
behaviour may use up its bounds, all cgroups may be gone, and a system without
proposals and events is idle.

**Fairness.** `agent_live`: weak fairness for the steps of the agent's
goroutines, since the work queue and `Handler.Start`, which retries without
limit, keep running; strong fairness for the two calls that compete for `mu`,
since a `sync.Mutex` hands itself to a goroutine that has waited long.
`status_sync`: weak fairness of the sync goroutine, whose `Start` loops for
ever, and of the informer that brings a new pod into the cache. `promotion`:
weak fairness of each agent's work queue, of the controller's, and of its
resync (`SyncPeriod`, which the comment at
`workloadpolicyproposal_controller.go:46` relies on). None is assumed of the
API server, the runtime, users or execs.

**What the properties leave open,** on purpose, because the code does:

- While a removed container is unbound pod by pod, the pods not yet visited are
  bound to an ID without settings and their execs are let through. While a
  policy is deleted, an exec that has read its ID may be denied.
- A cgroup created between the read of its directory and the attachment of the
  mkdir program stays untracked; `Synchronize` skips the container later.
- Events of paths of 4095 and 4096 bytes show (parts of) an earlier path; a
  path of exactly 8192 bytes is not resolved; a longer one may leave bytes in
  the padding of later lookups on that CPU, which `main.c:785` calls full of
  NULs.
- Violations are lost with the answer of a scrape or a failing status patch.
  After a sync from an outdated cache IDs may be used twice. The annotation of
  an acknowledged violation stays if its own patch fails.
- `violationCount` counts violations, and `CountedOnce` says so, where its
  comment (`workloadpolicy_types.go:80`) says unique records.
- After `maxConflictRetries`, or a refusal by the webhook, an executable is not
  learned. A proposal whose policy was deleted by a user may be promoted, or
  deleted, once more.

## Proofs

- `ResolverProofs`: `TypeCorrect` and `OwnBindings`. `BindingsAreOwn` is not
  inductive: a binding copies an ID from `wpState`, which got it from the
  operation in progress. `IndInv` is the conjunction of `TypeOK`; `IDsOwned`
  (every ID held in `wpState`, `op.ids` or `cg_to_policy_map` is below
  `nextPolicyID` and was allocated for the policy and container name of that
  place, so a new allocation cannot change its owner); `PodsOK` (a cached pod
  holds only its own containers, and the operation visits only pods of its
  policy); and `OpOK` (what each `op.pc` says about the rest of `op`). There is
  one lemma per conjunct (four for `TypeOK`), each with one step per action;
  `NextInv` and `Invariance` combine them.
- `ResolverSteps` and `ReadyProofs`: `ReadyTruthful`, `NothingLeftBehind` and
  `BoundResolvable`. That a READY policy is enforced holds only between
  operations, so `ReadyInv` says what the operation that holds the lock has
  done so far: which containers it has cached (`ProgressOK`), which IDs it
  carries (`IDsCarried`), whose rules it has written (`RulesWritten`) and whom
  it has bound (`VisitedBound`); and that a READY policy's rules are in the
  maps, of the last spec or of the one being written (`ReadyRules`), with every
  covered container bound or excused by an error that the runtime is told
  (`ReadyBound`, `SuccessBound`). `OrphanInv` accounts for the IDs in the maps:
  each is the current one of a live policy, or in the hands of the operation.
  `ResolverSteps` states what each action changes, so that the later proofs
  need not expand it.
- `AgentProofs`: `AgentRefinesResolver`, every agent step is a step of the
  resolver or leaves it unchanged; hence `AgentOwnBindings` and
  `AgentReadyTruthful`. `AgentInv` adds who is behind the operation in progress
  (`CallersOK`), that the connected plugin knows what runs (`RunningKnown`,
  which needs `failOpen` off), that a container whose processes run is bound to
  nothing but its current ID (`StaysBound`), and what the exec in progress has
  found: an ID of its own container, whose map entries come from specs in force
  since the exec began, each executable on its own, because a write that fails
  half-way mixes two lists (`ExecFound`, `NotListed`). It gives
  `ConnectedBound`, `ForbiddenDenied`, `DenialsExplained`, `ProbeTruthful` and,
  while no call failed, `ConnectedTracked`; after a failed call the run
  `sync_retry` shows the contrary.
- `StringMapsProofs`: `IndexAgreement` for every length outside 121 to 144,
  `SmallestMap` and `ExactLookup`, on kernels from and before 5.11 (`Pre511`);
  the run `exec_path` is for the newer ones.
- `CgroupTrackerProofs`: `TrackerIsAncestorAlways`. The writers do not exclude
  each other, so the invariant also says what a walk holds between its steps
  (`WalkBelow`): a container, and directories below it.
- `PromotionProofs`: `PolicyIsApprovedAlways` and `LearningMonotoneAlways`. The
  controller and the agents act on what a cache shows, so the invariant `IInv`
  is about every version that some cache may show: it is not newer than the
  last write, a version with the number of the current one is the current one,
  and a labelled version carries rules that a user approved.

Assumed are only the types of the constants (`ConstantsAssumption`,
`NullsAssumption`, `AgentAssumption`, `LengthsAssumption`, `CgroupAssumption`,
`PromotionAssumption`) and that cgroups form a tree (`TreeAssumption`, since
what a recursive function computes cannot be proved by induction here).

Only model-checked are liveness (the prover has no fairness), what the
recursive definitions of `ExecPath` compute, the refinement of `ViolationLog`,
the invariants of `StatusSync`, and `NestedTracked` and `ExecAttributed` of
`CgroupTracker`.

## Not modelled

- The aggregation of node statuses (`policy_node_status.go`): counters, phase
  and the truncated lists. Known from reading: with 20 nodes in trouble a node
  that is listed again gets a new `since`, a policy without nodes is Ready, and
  `observedGeneration` may be ahead of what the agents enforce.
- The channels between ring buffers, event scraper and learning controller; the
  enrichment of events with pod data; full ring buffers.
- Capacities of kernel maps (500 entries of inner maps before Linux 5.9, 65536
  tracked cgroups), other than that any write may fail, the shutdown of the
  agent, two agents overlapping during a rolling update, two controllers
  without leader election.
- Skips of the learning controller (namespace selector, standalone pods, pods
  with a policy) and what the webhooks look at, which are single objects.
- Functions without state: workload names, cgroup parsing, certificates, kernel
  versions, `wpgen`, `imagescan`, `policydraft`, the debugger, and the kubectl
  commands that read or patch one object on their own.
- Generated code: API clients, protobuf, deep copies, and the kernel type
  headers `bpf/vmlinux_generated_*.h`, which are declarations and hold nearly
  all lines of C in the repository.
