------------------------------ MODULE Resolver ------------------------------
(***************************************************************************)
(* The resolver of the node agent (internal/resolver) and the eBPF maps it *)
(* writes (internal/bpf).  The resolver caches the pods and containers of  *)
(* the node and the policy IDs of every WorkloadPolicy, and mirrors them   *)
(* into four kernel maps that the LSM program reads without any lock.      *)
(*                                                                         *)
(* Every operation of the resolver holds the mutex r.mu to its end, so at  *)
(* most one is in progress: it is described by the variable op.  One step  *)
(* of an operation is one call that writes a kernel map, because the       *)
(* kernel runs between two such calls; what an operation does to the       *)
(* in-memory caches nobody else sees before it unlocks, so it is folded    *)
(* into the neighbouring step.                                             *)
(*                                                                         *)
(* The cgroup of a container is identified with its container ID: each     *)
(* container has its own cgroup, and its ID, name and cgroup never change. *)
(***************************************************************************)
EXTENDS Integers, FiniteSets

CONSTANTS
  Pods,             \* pod UIDs
  ContainerIDs,     \* container IDs, and the cgroup IDs of those containers
  ContainerNames,   \* names of containers in a pod template
  Policies,         \* namespaced names of WorkloadPolicies
  Executables,      \* executable paths
  PodOf,            \* the pod of a container
  NameOf,           \* the name of a container
  PolicyOf,         \* the policy label of a pod, or NoPolicy
  BucketOf,         \* the index of the string map that holds a path
  Specs,            \* the WorkloadPolicy specs under consideration
  MaxPolicyID,      \* bound on the policy IDs allocated in one agent life
  MaxFaults,        \* bound on the kernel map calls that fail
  NoPolicy, NoSettings, NoOwner, NoSpec, NoName, NoContainer, NoPod

Modes == {"monitor", "protect"}
PolicyIDs == 1 .. MaxPolicyID
Settings == [mode : Modes, foreign : BOOLEAN]
Rules == [allowed : SUBSET Executables, foreign : BOOLEAN]
Owners == Policies \X ContainerNames

\* A spec has a mode and the rules of a set of containers.
IsSpec(s) ==
  /\ s.mode \in Modes
  /\ s.containers \subseteq ContainerNames
  /\ s.rules \in [ContainerNames -> Rules]

ASSUME ConstantsAssumption ==
  /\ PodOf \in [ContainerIDs -> Pods]
  /\ NameOf \in [ContainerIDs -> ContainerNames]
  /\ PolicyOf \in [Pods -> Policies \cup {NoPolicy}]
  /\ BucketOf \in [Executables -> 0 .. 10]
  /\ \A s \in Specs : IsSpec(s)
  /\ MaxPolicyID \in Nat
  /\ MaxFaults \in Nat

ASSUME NullsAssumption ==
  /\ NoPolicy \notin Policies
  /\ NoSettings \notin Settings
  /\ NoOwner \notin Owners
  /\ NoSpec \notin Specs
  /\ NoName \notin ContainerNames
  /\ NoContainer \notin ContainerIDs
  /\ NoPod \notin Pods

VARIABLES
  podCache,         \* podCache[p]: cached containers of p; {} when p is not cached
  cgroupIDToPodID,  \* the cgroups that have an entry (its value is PodOf)
  wpState,          \* per policy: polByContainer (0 = no ID) and its status
  nextPolicyID,
  cgTracker,        \* cgtracker_map: the tracked container cgroups
  cgToPolicy,       \* cg_to_policy_map, 0 = no entry
  policyValues,     \* pol_str_maps_*: the allowed executables of a policy ID
  policySettings,   \* policy_settings_map
  op,               \* the operation that holds r.mu
  faults,           \* how many kernel map calls have failed so far
  owner,            \* history: for which policy and container an ID was allocated
  applied,          \* history: the spec of the last ReconcileWP that succeeded
  reported          \* history: containers whose AddPodContainerFromNri failed

cacheVars == <<podCache, cgroupIDToPodID, wpState, nextPolicyID>>
bpfVars == <<cgTracker, cgToPolicy, policyValues, policySettings>>
history == <<applied, reported>>
resolverVars == <<cacheVars, bpfVars, op, faults, owner, history>>

NoIDs == [n \in ContainerNames |-> 0]
NilInfo == [live |-> FALSE, pol |-> NoIDs, state |-> "unspecified", mode |-> "unspecified"]

\* No operation holds the lock.
Idle == [kind |-> "none", pc |-> "idle", wp |-> NoPolicy, spec |-> NoSpec, pod |-> NoPod,
         names |-> {}, name |-> NoName, ids |-> NoIDs, pods |-> {}, cs |-> {},
         added |-> {}, fresh |-> FALSE, failed |-> FALSE]
Unlocked == op.pc = "idle"

\* The operation ends; its caller then acts on the result (Return).
Finish(failed) == op' = [op EXCEPT !.pc = "done", !.failed = failed]

\* A kernel map call succeeds, or fails.
Ok == UNCHANGED faults
Fault == faults < MaxFaults /\ faults' = faults + 1

-----------------------------------------------------------------------------
(* Kernel map writers. *)

\* The string maps are written one after the other in index order, each one
\* atomically; a call that fails at map i has rewritten the maps before i.
WrittenUpTo(old, new, i) ==
  {e \in new : BucketOf[e] < i} \cup {e \in old : BucketOf[e] >= i}

\* generateBPFMaps, replaceBPFMaps and removeBPFMaps (new = {}).
PolicyUpdateBinaries(id, new) ==
  policyValues' = [policyValues EXCEPT ![id] = new]
PolicyUpdateBinariesFails(id, new) ==
  \E i \in 0 .. 10 :
    policyValues' = [policyValues EXCEPT ![id] = WrittenUpTo(@, new, i)]

PolicySettingsUpdate(id, settings) ==
  policySettings' = [policySettings EXCEPT ![id] = settings]

\* addPolicyToCgroups: UpdateNoExist, an existing entry must have the same ID.
Overlapping(id, c) == cgToPolicy[c] \notin {0, id}
AddPolicyToCgroup(id, c) ==
  ~Overlapping(id, c) /\ cgToPolicy' = [cgToPolicy EXCEPT ![c] = id]

RemoveCgroup(c) == cgToPolicy' = [cgToPolicy EXCEPT ![c] = 0]

\* removePolicyFromCgroups.
RemovePolicy(id) ==
  cgToPolicy' = [c \in ContainerIDs |-> IF cgToPolicy[c] = id THEN 0 ELSE cgToPolicy[c]]
RemovePolicyFails(id) ==
  \E S \in SUBSET {c \in ContainerIDs : cgToPolicy[c] = id} :
    cgToPolicy' = [c \in ContainerIDs |-> IF c \in S THEN 0 ELSE cgToPolicy[c]]

-----------------------------------------------------------------------------
(* AddPodContainerFromNri: called by StartContainer with one container and *)
(* by Synchronize with all the containers of a pod.                        *)

AddPodContainerFromNri(p, cs) ==
  /\ Unlocked
  /\ op' = [Idle EXCEPT !.kind = "add", !.pc = "track", !.pod = p,
                        !.cs = cs \ podCache[p], !.added = cs, !.fresh = podCache[p] = {}]
  /\ UNCHANGED <<cacheVars, bpfVars, faults, owner, history>>

\* One unknown container is cached and its cgroup added to cgtracker_map.
TrackContainer(c) ==
  /\ op.pc = "track" /\ c \in op.cs
  /\ podCache' = [podCache EXCEPT ![op.pod] = @ \cup {c}]
  /\ cgroupIDToPodID' = cgroupIDToPodID \cup {c}
  /\ cgTracker' = cgTracker \cup {c}
  /\ op' = [op EXCEPT !.cs = @ \ {c}]
  /\ Ok
  /\ UNCHANGED <<wpState, nextPolicyID, cgToPolicy, policyValues, policySettings, owner, history>>

\* cgTrackerUpdateFunc fails: the entry of a new pod is not stored, but the
\* container stays in an entry that was there before.
TrackContainerFails(c) ==
  /\ op.pc = "track" /\ c \in op.cs
  /\ Fault
  /\ podCache' = [podCache EXCEPT ![op.pod] = IF op.fresh THEN {} ELSE @ \cup {c}]
  /\ cgroupIDToPodID' = cgroupIDToPodID \cup {c}
  /\ Finish(TRUE)
  /\ UNCHANGED <<wpState, nextPolicyID, bpfVars, owner, history>>

\* applyPolicyToPodIfPresent, up to the loop of applyPolicyToPod.
ApplyPolicyToPodIfPresent ==
  LET wp == PolicyOf[op.pod] IN
  /\ op.pc = "track" /\ op.cs = {}
  /\ \/ wp = NoPolicy /\ Finish(FALSE)
     \/ wp # NoPolicy /\ ~wpState[wp].live /\ Finish(TRUE)
     \/ /\ wp # NoPolicy
        /\ wpState[wp].live
        /\ op' = [op EXCEPT !.pc = "bind", !.wp = wp, !.names = ContainerNames,
                  !.cs = {c \in podCache[op.pod] : wpState[wp].pol[NameOf[c]] # 0}]
  /\ UNCHANGED <<cacheVars, bpfVars, faults, owner, history>>

\* Mutant: the deferred function leaves the status of the last reconcile.
StatusOnErrorKept == wpState' = wpState

\* An operation that fails: ReconcileWP's deferred function records the error.
StatusOnError ==
  wpState' = IF op.kind = "reconcile"
             THEN [wpState EXCEPT ![op.wp].state = "error", ![op.wp].mode = op.spec.mode]
             ELSE wpState
Abort == StatusOnError /\ Finish(TRUE)

\* The loop of applyPolicyToPod.
BindContainer(c) ==
  /\ op.pc = "bind" /\ c \in op.cs
  /\ AddPolicyToCgroup(wpState[op.wp].pol[NameOf[c]], c)
  /\ op' = [op EXCEPT !.cs = @ \ {c}]
  /\ Ok
  /\ UNCHANGED <<cacheVars, cgTracker, policyValues, policySettings, owner, history>>

BindContainerFails(c) ==
  /\ op.pc = "bind" /\ c \in op.cs
  /\ \/ Overlapping(wpState[op.wp].pol[NameOf[c]], c) /\ Ok
     \/ Fault
  /\ Abort
  /\ UNCHANGED <<podCache, cgroupIDToPodID, nextPolicyID, bpfVars, owner, history>>

PodBound ==
  /\ op.pc = "bind" /\ op.cs = {}
  /\ \/ op.kind = "add" /\ Finish(FALSE)
     \/ op.kind = "reconcile" /\ op' = [op EXCEPT !.pc = "pods"]
  /\ UNCHANGED <<cacheVars, bpfVars, faults, owner, history>>

-----------------------------------------------------------------------------
(* RemovePodContainerFromNri: a single map call, so a single step.  The    *)
(* caller only logs an error.                                              *)

\* Mutant: a removed container leaves its cgroup in cg_to_policy_map.
RemovePodContainerKeepsCgroup(c) ==
  /\ Unlocked
  /\ IF c \in podCache[PodOf[c]]
     THEN /\ podCache' = [podCache EXCEPT ![PodOf[c]] = @ \ {c}]
          /\ cgroupIDToPodID' = cgroupIDToPodID \ {c}
     ELSE UNCHANGED <<podCache, cgroupIDToPodID>>
  /\ reported' = reported \ {c}
  /\ UNCHANGED <<wpState, nextPolicyID, bpfVars, op, faults, owner, applied>>

RemovePodContainerFromNri(c) ==
  /\ Unlocked
  /\ IF c \in podCache[PodOf[c]]
     THEN /\ podCache' = [podCache EXCEPT ![PodOf[c]] = @ \ {c}]
          /\ cgroupIDToPodID' = cgroupIDToPodID \ {c}
          /\ \/ RemoveCgroup(c) /\ Ok
             \/ UNCHANGED cgToPolicy /\ Fault
     ELSE UNCHANGED <<podCache, cgroupIDToPodID, cgToPolicy, faults>>
  /\ reported' = reported \ {c}
  /\ UNCHANGED <<wpState, nextPolicyID, cgTracker, policyValues, policySettings, op, owner, applied>>

-----------------------------------------------------------------------------
(* ReconcileWP.                                                            *)

ReconcileWP(wp, spec) ==
  /\ Unlocked
  /\ wpState' = [wpState EXCEPT ![wp].live = TRUE]
  /\ op' = [Idle EXCEPT !.kind = "reconcile", !.pc = "values", !.wp = wp, !.spec = spec,
                        !.names = spec.containers]
  /\ UNCHANGED <<podCache, cgroupIDToPodID, nextPolicyID, bpfVars, faults, owner, history>>

\* syncWorkloadPolicy: the ID of a container, allocated when it has none.
SyncID(n) == IF wpState[op.wp].pol[n] # 0 THEN wpState[op.wp].pol[n] ELSE nextPolicyID

\* Mutant: the counter is not advanced, so the next container gets the same ID.
AllocPolicyIDNoIncrement(n) ==
  IF wpState[op.wp].pol[n] # 0
  THEN UNCHANGED <<nextPolicyID, owner>>
  ELSE /\ nextPolicyID \in PolicyIDs
       /\ nextPolicyID' = nextPolicyID
       /\ owner' = [owner EXCEPT ![nextPolicyID] = <<op.wp, n>>]

AllocPolicyID(n) ==
  IF wpState[op.wp].pol[n] # 0
  THEN UNCHANGED <<nextPolicyID, owner>>
  ELSE /\ nextPolicyID \in PolicyIDs
       /\ nextPolicyID' = nextPolicyID + 1
       /\ owner' = [owner EXCEPT ![nextPolicyID] = <<op.wp, n>>]

\* Mutant: the maps of an ID are emptied by a call of their own before they are filled.
UpsertValuesEmptiesFirst(n) ==
  /\ op.pc = "values" /\ n \in op.names
  /\ IF wpState[op.wp].pol[n] # 0 /\ policyValues[SyncID(n)] \notin {{}, op.spec.rules[n].allowed}
     THEN PolicyUpdateBinaries(SyncID(n), {}) /\ UNCHANGED <<nextPolicyID, owner, op>>
     ELSE /\ AllocPolicyID(n)
          /\ PolicyUpdateBinaries(SyncID(n), op.spec.rules[n].allowed)
          /\ op' = [op EXCEPT !.pc = "settings", !.names = @ \ {n}, !.name = n,
                              !.ids[n] = IF wpState[op.wp].pol[n] = 0 THEN nextPolicyID ELSE 0]
  /\ Ok
  /\ UNCHANGED <<podCache, cgroupIDToPodID, wpState, cgTracker, cgToPolicy, policySettings, history>>

\* Mutant: the settings of an ID are deleted while its maps are replaced.
UpsertValuesDeletesSettings(n) ==
  /\ op.pc = "values" /\ n \in op.names
  /\ AllocPolicyID(n)
  /\ PolicyUpdateBinaries(SyncID(n), op.spec.rules[n].allowed)
  /\ PolicySettingsUpdate(SyncID(n), NoSettings)
  /\ op' = [op EXCEPT !.pc = "settings", !.names = @ \ {n}, !.name = n,
                      !.ids[n] = IF wpState[op.wp].pol[n] = 0 THEN nextPolicyID ELSE 0]
  /\ Ok
  /\ UNCHANGED <<podCache, cgroupIDToPodID, wpState, cgTracker, cgToPolicy, history>>

\* Mutant: the ID recorded for a new container is the counter after its increment.
UpsertValuesSkipsID(n) ==
  /\ op.pc = "values" /\ n \in op.names
  /\ AllocPolicyID(n)
  /\ PolicyUpdateBinaries(SyncID(n), op.spec.rules[n].allowed)
  /\ op' = [op EXCEPT !.pc = "settings", !.names = @ \ {n}, !.name = n,
                      !.ids[n] = IF wpState[op.wp].pol[n] = 0 THEN nextPolicyID + 1 ELSE 0]
  /\ Ok
  /\ UNCHANGED <<podCache, cgroupIDToPodID, wpState, cgTracker, cgToPolicy, policySettings, history>>

\* upsertPolicyIDInBPF, first call: the allowed executables of a container.
UpsertValues(n) ==
  /\ op.pc = "values" /\ n \in op.names
  /\ AllocPolicyID(n)
  /\ PolicyUpdateBinaries(SyncID(n), op.spec.rules[n].allowed)
  /\ op' = [op EXCEPT !.pc = "settings", !.names = @ \ {n}, !.name = n,
                      !.ids[n] = IF wpState[op.wp].pol[n] = 0 THEN nextPolicyID ELSE 0]
  /\ Ok
  /\ UNCHANGED <<podCache, cgroupIDToPodID, wpState, cgTracker, cgToPolicy, policySettings, history>>

\* newContainers is lost when the call fails, so a retry allocates another ID.
UpsertValuesFails(n) ==
  /\ op.pc = "values" /\ n \in op.names
  /\ AllocPolicyID(n)
  /\ PolicyUpdateBinariesFails(SyncID(n), op.spec.rules[n].allowed)
  /\ Fault
  /\ Abort
  /\ UNCHANGED <<podCache, cgroupIDToPodID, cgTracker, cgToPolicy, policySettings, history>>

CurrentID == IF op.ids[op.name] # 0 THEN op.ids[op.name] ELSE wpState[op.wp].pol[op.name]

\* upsertPolicyIDInBPF, second call: mode and allowForeignRootExec.
UpsertSettings ==
  /\ op.pc = "settings"
  /\ PolicySettingsUpdate(CurrentID,
       [mode |-> op.spec.mode, foreign |-> op.spec.rules[op.name].foreign])
  /\ op' = [op EXCEPT !.pc = "values", !.name = NoName]
  /\ Ok
  /\ UNCHANGED <<cacheVars, cgTracker, cgToPolicy, policyValues, owner, history>>

UpsertSettingsFails ==
  /\ op.pc = "settings"
  /\ Fault
  /\ Abort
  /\ UNCHANGED <<podCache, cgroupIDToPodID, nextPolicyID, bpfVars, owner, history>>

\* The sync is complete: maps.Copy(polByContainer, newContainers), then
\* op.ids becomes removedMap and the matching pods are visited.
MergeNewContainers ==
  [n \in ContainerNames |-> IF op.ids[n] # 0 THEN op.ids[n] ELSE wpState[op.wp].pol[n]]

SplitAppliedRemoved ==
  /\ op.pc = "values" /\ op.names = {}
  /\ wpState' = [wpState EXCEPT ![op.wp].pol = MergeNewContainers]
  /\ op' = [op EXCEPT !.pc = "pods",
              !.ids = [n \in ContainerNames |->
                         IF n \in op.spec.containers THEN 0 ELSE wpState[op.wp].pol[n]],
              !.pods = {p \in Pods : podCache[p] # {} /\ PolicyOf[p] = op.wp}]
  /\ UNCHANGED <<podCache, cgroupIDToPodID, nextPolicyID, bpfVars, faults, owner, history>>

VisitPod(p) ==
  /\ op.pc = "pods" /\ p \in op.pods
  /\ op' = [op EXCEPT !.pc = "unbind", !.pods = @ \ {p}, !.pod = p,
                      !.cs = {c \in podCache[p] : op.ids[NameOf[c]] # 0}]
  /\ UNCHANGED <<cacheVars, bpfVars, faults, owner, history>>

\* removePolicyFromPod: first the cgroup of the container, then (through
\* ClearValues and ClearSettings) the policy ID of its name.
UnbindContainer(c) ==
  /\ op.pc = "unbind" /\ c \in op.cs
  /\ RemoveCgroup(c)
  /\ op' = [op EXCEPT !.pc = "clearValues", !.cs = @ \ {c}, !.name = NameOf[c]]
  /\ Ok
  /\ UNCHANGED <<cacheVars, cgTracker, policyValues, policySettings, owner, history>>

UnbindContainerFails(c) ==
  /\ op.pc = "unbind" /\ c \in op.cs
  /\ Fault
  /\ Abort
  /\ UNCHANGED <<podCache, cgroupIDToPodID, nextPolicyID, bpfVars, owner, history>>

PodUnbound ==
  /\ op.pc = "unbind" /\ op.cs = {}
  /\ op' = [op EXCEPT !.pc = "bind",
              !.cs = {c \in podCache[op.pod] : NameOf[c] \in op.spec.containers}]
  /\ UNCHANGED <<cacheVars, bpfVars, faults, owner, history>>

\* Mutant: the status is set before every matching pod has been visited.
ReconcileDoneEarly ==
  /\ op.pc = "pods"
  /\ wpState' = [wpState EXCEPT ![op.wp].state = "ready", ![op.wp].mode = op.spec.mode]
  /\ applied' = [applied EXCEPT ![op.wp] = op.spec]
  /\ Finish(FALSE)
  /\ UNCHANGED <<podCache, cgroupIDToPodID, nextPolicyID, bpfVars, faults, owner, reported>>

ReconcileDone ==
  /\ op.pc = "pods" /\ op.pods = {}
  /\ wpState' = [wpState EXCEPT ![op.wp].state = "ready", ![op.wp].mode = op.spec.mode]
  /\ applied' = [applied EXCEPT ![op.wp] = op.spec]
  /\ Finish(FALSE)
  /\ UNCHANGED <<podCache, cgroupIDToPodID, nextPolicyID, bpfVars, faults, owner, reported>>

-----------------------------------------------------------------------------
(* HandleWPDelete.  The cache entry goes first: if a map call fails, the   *)
(* retry finds no entry and has nothing left to do.                        *)

HandleWPDelete(wp) ==
  /\ Unlocked
  /\ wpState' = [wpState EXCEPT ![wp] = NilInfo]
  /\ applied' = [applied EXCEPT ![wp] = NoSpec]
  /\ op' = [Idle EXCEPT !.kind = "delete", !.wp = wp, !.ids = wpState[wp].pol,
              !.pc = IF wpState[wp].live THEN "rmPolicy" ELSE "done",
              !.names = {n \in ContainerNames : wpState[wp].pol[n] # 0}]
  /\ UNCHANGED <<podCache, cgroupIDToPodID, nextPolicyID, bpfVars, faults, owner, reported>>

\* Mutant: the deletion unbinds the cgroups and does not clear the ID.
RemovePolicyStepNoClear(n) ==
  /\ op.pc = "rmPolicy" /\ n \in op.names
  /\ RemovePolicy(op.ids[n])
  /\ op' = [op EXCEPT !.names = @ \ {n}]
  /\ Ok
  /\ UNCHANGED <<cacheVars, cgTracker, policyValues, policySettings, owner, history>>

RemovePolicyStep(n) ==
  /\ op.pc = "rmPolicy" /\ n \in op.names
  /\ RemovePolicy(op.ids[n])
  /\ op' = [op EXCEPT !.pc = "clearValues", !.names = @ \ {n}, !.name = n]
  /\ Ok
  /\ UNCHANGED <<cacheVars, cgTracker, policyValues, policySettings, owner, history>>

RemovePolicyStepFails(n) ==
  /\ op.pc = "rmPolicy" /\ n \in op.names
  /\ RemovePolicyFails(op.ids[n])
  /\ Fault
  /\ Finish(TRUE)
  /\ UNCHANGED <<cacheVars, cgTracker, policyValues, policySettings, owner, history>>

DeleteDone ==
  /\ op.pc = "rmPolicy" /\ op.names = {}
  /\ Finish(FALSE)
  /\ UNCHANGED <<cacheVars, bpfVars, faults, owner, history>>

-----------------------------------------------------------------------------
(* clearPolicyIDFromBPF, called by removePolicyFromPod and HandleWPDelete. *)

ClearValues ==
  /\ op.pc = "clearValues"
  /\ PolicyUpdateBinaries(op.ids[op.name], {})
  /\ op' = [op EXCEPT !.pc = "clearSettings"]
  /\ Ok
  /\ UNCHANGED <<cacheVars, cgTracker, cgToPolicy, policySettings, owner, history>>

ClearValuesFails ==
  /\ op.pc = "clearValues"
  /\ PolicyUpdateBinariesFails(op.ids[op.name], {})
  /\ Fault
  /\ Abort
  /\ UNCHANGED <<podCache, cgroupIDToPodID, nextPolicyID, cgTracker, cgToPolicy, policySettings,
                 owner, history>>

\* removePolicyFromPod then forgets the ID of the container.
ClearSettings ==
  /\ op.pc = "clearSettings"
  /\ PolicySettingsUpdate(op.ids[op.name], NoSettings)
  /\ IF op.kind = "reconcile"
     THEN /\ wpState' = [wpState EXCEPT ![op.wp].pol[op.name] = 0]
          /\ op' = [op EXCEPT !.pc = "unbind", !.name = NoName]
     ELSE /\ op' = [op EXCEPT !.pc = "rmPolicy", !.name = NoName]
          /\ UNCHANGED wpState
  /\ Ok
  /\ UNCHANGED <<podCache, cgroupIDToPodID, nextPolicyID, cgTracker, cgToPolicy, policyValues,
                 owner, history>>

ClearSettingsFails ==
  /\ op.pc = "clearSettings"
  /\ Fault
  /\ Abort
  /\ UNCHANGED <<podCache, cgroupIDToPodID, nextPolicyID, bpfVars, owner, history>>

-----------------------------------------------------------------------------
(* The specification: operations are called in any order, one at a time.   *)

Return ==
  /\ op.pc = "done"
  /\ op' = Idle
  /\ reported' = CASE op.kind = "add" /\ op.failed -> reported \cup op.added
                   [] op.kind = "add" /\ ~op.failed -> reported \ podCache[op.pod]
                   [] op.kind = "reconcile" /\ ~op.failed ->
                        {c \in reported : PolicyOf[PodOf[c]] # op.wp}
                   [] OTHER -> reported
  /\ UNCHANGED <<cacheVars, bpfVars, faults, owner, applied>>

\* tg_cgtracker_cgroup_release: the kernel drops a cgroup that is gone.
CgroupRelease(c) ==
  /\ cgTracker' = cgTracker \ {c}
  /\ UNCHANGED <<cacheVars, cgToPolicy, policyValues, policySettings, op, faults, owner, history>>

FreshAgent ==
  /\ podCache = [p \in Pods |-> {}]
  /\ cgroupIDToPodID = {}
  /\ wpState = [wp \in Policies |-> NilInfo]
  /\ nextPolicyID = 1
  /\ cgTracker = {}
  /\ cgToPolicy = [c \in ContainerIDs |-> 0]
  /\ policyValues = [id \in PolicyIDs |-> {}]
  /\ policySettings = [id \in PolicyIDs |-> NoSettings]
  /\ op = Idle
  /\ owner = [id \in PolicyIDs |-> NoOwner]
  /\ applied = [wp \in Policies |-> NoSpec]
  /\ reported = {}

\* The maps are not pinned: they are lost with the process that created them.
Restart ==
  /\ podCache' = [p \in Pods |-> {}]
  /\ cgroupIDToPodID' = {}
  /\ wpState' = [wp \in Policies |-> NilInfo]
  /\ nextPolicyID' = 1
  /\ cgTracker' = {}
  /\ cgToPolicy' = [c \in ContainerIDs |-> 0]
  /\ policyValues' = [id \in PolicyIDs |-> {}]
  /\ policySettings' = [id \in PolicyIDs |-> NoSettings]
  /\ op' = Idle
  /\ owner' = [id \in PolicyIDs |-> NoOwner]
  /\ applied' = [wp \in Policies |-> NoSpec]
  /\ reported' = {}
  /\ UNCHANGED faults

Init == FreshAgent /\ faults = 0

\* The steps of the operation that holds the lock.
OpStep ==
  \/ \E c \in ContainerIDs : \/ TrackContainer(c) \/ TrackContainerFails(c)
                             \/ BindContainer(c) \/ BindContainerFails(c)
                             \/ UnbindContainer(c) \/ UnbindContainerFails(c)
  \/ \E n \in ContainerNames : \/ UpsertValues(n) \/ UpsertValuesFails(n)
                               \/ RemovePolicyStep(n) \/ RemovePolicyStepFails(n)
  \/ \E p \in Pods : VisitPod(p)
  \/ ApplyPolicyToPodIfPresent \/ PodBound
  \/ UpsertSettings \/ UpsertSettingsFails
  \/ SplitAppliedRemoved \/ PodUnbound \/ ReconcileDone \/ DeleteDone
  \/ ClearValues \/ ClearValuesFails \/ ClearSettings \/ ClearSettingsFails

Next ==
  \/ \E p \in Pods : \E cs \in SUBSET {c \in ContainerIDs : PodOf[c] = p} :
       cs # {} /\ AddPodContainerFromNri(p, cs)
  \/ \E c \in ContainerIDs : RemovePodContainerFromNri(c) \/ CgroupRelease(c)
  \/ \E wp \in Policies, spec \in Specs : ReconcileWP(wp, spec)
  \/ \E wp \in Policies : HandleWPDelete(wp)
  \/ OpStep
  \/ Return
  \/ Restart

Spec == Init /\ [][Next]_resolverVars

-----------------------------------------------------------------------------
(* Properties. *)

OpKinds == {"none", "add", "reconcile", "delete"}
OpPcs == {"idle", "done", "track", "bind", "values", "settings", "pods", "unbind",
          "rmPolicy", "clearValues", "clearSettings"}
WPInfos == [live : BOOLEAN, pol : [ContainerNames -> 0 .. MaxPolicyID],
            state : {"unspecified", "ready", "error"}, mode : Modes \cup {"unspecified"}]
Ops == [kind : OpKinds, pc : OpPcs, wp : Policies \cup {NoPolicy}, spec : Specs \cup {NoSpec},
        pod : Pods \cup {NoPod}, names : SUBSET ContainerNames,
        name : ContainerNames \cup {NoName}, ids : [ContainerNames -> 0 .. MaxPolicyID],
        pods : SUBSET Pods, cs : SUBSET ContainerIDs, added : SUBSET ContainerIDs,
        fresh : BOOLEAN, failed : BOOLEAN]

CacheTypeOK ==
  /\ podCache \in [Pods -> SUBSET ContainerIDs]
  /\ cgroupIDToPodID \in SUBSET ContainerIDs
  /\ wpState \in [Policies -> WPInfos]
  /\ nextPolicyID \in 1 .. MaxPolicyID + 1

MapsTypeOK ==
  /\ cgTracker \in SUBSET ContainerIDs
  /\ cgToPolicy \in [ContainerIDs -> 0 .. MaxPolicyID]
  /\ policyValues \in [PolicyIDs -> SUBSET Executables]
  /\ policySettings \in [PolicyIDs -> Settings \cup {NoSettings}]

HistoryTypeOK ==
  /\ faults \in 0 .. MaxFaults
  /\ owner \in [PolicyIDs -> Owners \cup {NoOwner}]
  /\ applied \in [Policies -> Specs \cup {NoSpec}]
  /\ reported \in SUBSET ContainerIDs

\* Every variable has its type: policy IDs are within the maps, the operation
\* record is well formed.
TypeOK == CacheTypeOK /\ MapsTypeOK /\ op \in Ops /\ HistoryTypeOK

\* cg_to_policy_map never attaches a container to the rules of another policy
\* or of another container name: whatever the order of NRI events, reconciles
\* and deletions, and whichever map calls failed, the ID a cgroup is bound to
\* was allocated by syncWorkloadPolicy for that pod's policy and that name.
BindingsAreOwn ==
  \A c \in ContainerIDs :
    cgToPolicy[c] # 0 => owner[cgToPolicy[c]] = <<PolicyOf[PodOf[c]], NameOf[c]>>

\* What the kernel must hold to enforce spec on container c.
Enforced(c, spec) ==
  LET id == cgToPolicy[c]
      rules == spec.rules[NameOf[c]]
  IN  /\ id # 0
      /\ policyValues[id] = rules.allowed
      /\ policySettings[id] = [mode |-> spec.mode, foreign |-> rules.foreign]

\* The READY status reported for a policy is truthful: every cached container
\* that the spec covers is enforced with exactly that spec, unless the runtime
\* was told, by an error of AddPodContainerFromNri, that it is not.  ReconcileWP
\* must not report READY on a partial update, even when map calls fail.
ReadyMeansEnforced ==
  Unlocked =>
    \A wp \in Policies : wpState[wp].state = "ready" =>
      /\ applied[wp] # NoSpec
      /\ wpState[wp].mode = applied[wp].mode
      /\ \A c \in ContainerIDs :
           /\ c \in podCache[PodOf[c]] /\ PolicyOf[PodOf[c]] = wp
           /\ NameOf[c] \in applied[wp].containers
           => Enforced(c, applied[wp]) \/ c \in reported

\* An ID that any kernel map still mentions is the current ID of a container of
\* a live policy: without failed calls, ReconcileWP and HandleWPDelete leave no
\* rules, settings or bindings behind in the maps.
InUse(id) == \/ policyValues[id] # {}
             \/ policySettings[id] # NoSettings
             \/ \E c \in ContainerIDs : cgToPolicy[c] = id
NoOrphanIDs ==
  Unlocked /\ faults = 0 =>
    \A id \in PolicyIDs : InUse(id) =>
      \E wp \in Policies, n \in ContainerNames :
        wpState[wp].live /\ wpState[wp].pol[n] = id /\ owner[id] = <<wp, n>>

\* An event from an enforced cgroup can be attributed: while no call failed, a
\* bound cgroup has its entry in cgroupIDToPodID and its container is cached.
BoundIsResolvable ==
  faults = 0 =>
    \A c \in ContainerIDs :
      cgToPolicy[c] # 0 => c \in cgroupIDToPodID /\ c \in podCache[PodOf[c]]
=============================================================================
