--------------------------- MODULE CgroupTracker ----------------------------
(***************************************************************************)
(* The cgroup tracker: which container a cgroup belongs to.                *)
(* cgtracker_map takes the ID of a cgroup to the ID of the container's     *)
(* cgroup it lies in.  Three writers share the map without a lock:         *)
(*   - UpdateCgTrackerMap (internal/bpf/cgtracker.go) adds a container     *)
(*     and, for one that already runs, walks the directories below it;     *)
(*   - the cgroup_mkdir program (bpf/main.c) adds a new child of a tracked *)
(*     cgroup;                                                             *)
(*   - the cgroup_release program removes a cgroup that is gone.           *)
(* The exec hook reads the map twice, once for the task and once for its   *)
(* parent.  The programs are attached by a goroutine of the BPF manager,   *)
(* which nothing orders with the NRI plugin that asks for the walks.       *)
(***************************************************************************)
EXTENDS Naturals, FiniteSets

CONSTANTS
  Cgroups,       \* the cgroups that may be created below the runtime's root
  Containers,    \* those that are the cgroup of a container
  Root,          \* the root of the hierarchy, and the cgroup of the runtime
  NoCgroup,      \* the ID 0
  ParentOf,      \* the cgroup a cgroup is created in
  Configs,       \* the load-time configurations considered
  MaxFaults,     \* bound on failed map updates and failed reads of an ID
  MaxRestarts    \* bound on agent restarts

Ancestors[g \in Cgroups \union {Root}] ==
  IF g = Root THEN {Root} ELSE {g} \union Ancestors[ParentOf[g]]

Subtree(c) == {g \in Cgroups : c \in Ancestors[g]}
Children(g) == {h \in Cgroups : ParentOf[h] = g}

ASSUME CgroupAssumption ==
  /\ Containers \subseteq Cgroups
  /\ Root \notin Cgroups
  /\ NoCgroup \notin Cgroups \union {Root}
  /\ ParentOf \in [Cgroups -> Cgroups \union {Root}]
  /\ \A c, d \in Containers : c # d => c \notin Ancestors[d]
  /\ Configs \subseteq [magic : {"v1", "v2"}, subsys_idx : Nat, host_mnt_ns : BOOLEAN]
  /\ {MaxFaults, MaxRestarts} \subseteq Nat

\* The hierarchy is a tree, so that the recursion of Ancestors ends.
ASSUME TreeAssumption ==
  /\ Ancestors[Root] = {Root}
  /\ \A g \in Cgroups : Ancestors[g] = {g} \union Ancestors[ParentOf[g]]

VARIABLES
  config,        \* load_time_config: cgroup version, controller index, host ns
  starting,      \* created, the mkdir program has run, not to be listed yet
  alive,         \* the cgroups whose directory exists
  dying,         \* removed, the kernel still holds a reference
  released,      \* gone; IDs are never used again
  cgtracker_map, \* cgroup ID -> tracker ID, NoCgroup for no entry
  attached,      \* the attached programs, of "mkdir" and "release"
  walk,          \* the walk of UpdateCgTrackerMap in progress
  tracked,       \* containers UpdateCgTrackerMap was called for
  covered,       \* history: those added with the mkdir program attached
  raced,         \* history: cgroups the mkdir program and the walk both missed
  exec,          \* the exec hook in progress
  faults,
  restarts

kernel == <<starting, alive, dying, released>>
agent == <<attached, walk, tracked, covered, raced>>
vars == <<config, kernel, cgtracker_map, agent, exec, faults, restarts>>

IdleWalk == [pc |-> "idle", cg |-> NoCgroup, dir |-> NoCgroup, todo |-> {}]
IdleExec == [pc |-> "idle", cg |-> NoCgroup, parent |-> NoCgroup, ns |-> "own",
             tracker |-> NoCgroup, settled |-> FALSE]

Init ==
  /\ config \in Configs
  /\ starting = {} /\ alive = {} /\ dying = {} /\ released = {}
  /\ cgtracker_map = [g \in Cgroups |-> NoCgroup]
  /\ attached = {}
  /\ walk = IdleWalk
  /\ tracked = {} /\ covered = {} /\ raced = {}
  /\ exec = IdleExec
  /\ faults = 0 /\ restarts = 0

(***************************************************************************)
(* The kernel: directories come and go, and the programs follow.  The      *)
(* kernel runs the mkdir program before it makes the directory visible.    *)
(***************************************************************************)

\* cgrp_get_tracker_id(cgid)
cgrp_get_tracker_id(g) == IF g \in Cgroups THEN cgtracker_map[g] ELSE NoCgroup

\* cgroup_get_parent_id(cgrp): the root has no parent
cgroup_get_parent_id(g) == IF g = Root THEN NoCgroup ELSE ParentOf[g]

\* mutant: the child is tracked by the cgroup it was created in
MkdirTracksParent(g) ==
  /\ g \notin starting \union alive \union dying \union released
  /\ ParentOf[g] \in alive \union {Root}
  /\ starting' = starting \union {g}
  /\ LET parent == cgroup_get_parent_id(g) IN
     cgtracker_map' = IF "mkdir" \in attached /\ cgrp_get_tracker_id(parent) # NoCgroup
                        THEN [cgtracker_map EXCEPT ![g] = parent]
                        ELSE cgtracker_map
  /\ UNCHANGED <<config, alive, dying, released, agent, exec, faults, restarts>>

\* tg_cgtracker_cgroup_mkdir(ctx).  The program leaves the map alone when it cannot
\* read one of the two IDs, and does not look at the result of the update.
Mkdir(g) ==
  /\ g \notin starting \union alive \union dying \union released
  /\ ParentOf[g] \in alive \union {Root}
  /\ starting' = starting \union {g}
  /\ LET tracker == cgrp_get_tracker_id(cgroup_get_parent_id(g)) IN
     \/ /\ cgtracker_map' = IF "mkdir" \in attached /\ tracker # NoCgroup
                              THEN [cgtracker_map EXCEPT ![g] = tracker]
                              ELSE cgtracker_map
        /\ UNCHANGED faults
     \/ /\ "mkdir" \in attached /\ tracker # NoCgroup
        /\ faults < MaxFaults
        /\ faults' = faults + 1
        /\ UNCHANGED cgtracker_map
  /\ UNCHANGED <<config, alive, dying, released, agent, exec, restarts>>

\* The directory of a new cgroup becomes visible.
Activate(g) ==
  /\ g \in starting
  /\ starting' = starting \ {g}
  /\ alive' = alive \union {g}
  /\ UNCHANGED <<config, dying, released, cgtracker_map, agent, exec, faults, restarts>>

\* Only an empty cgroup can be removed: no child, no task.
Rmdir(g) ==
  /\ g \in alive
  /\ Children(g) \intersect (starting \union alive) = {}
  /\ exec.pc # "idle" => g \notin {exec.cg, exec.parent}
  /\ alive' = alive \ {g}
  /\ dying' = dying \union {g}
  /\ UNCHANGED <<config, starting, released, cgtracker_map, agent, exec, faults, restarts>>

\* tg_cgtracker_cgroup_release(ctx): the entry stays when the ID cannot be read
Release(g) ==
  /\ g \in dying
  /\ dying' = dying \ {g}
  /\ released' = released \union {g}
  /\ \/ /\ cgtracker_map' = IF "release" \in attached
                              THEN [cgtracker_map EXCEPT ![g] = NoCgroup]
                              ELSE cgtracker_map
        /\ UNCHANGED faults
     \/ /\ "release" \in attached
        /\ faults < MaxFaults
        /\ faults' = faults + 1
        /\ UNCHANGED cgtracker_map
  /\ UNCHANGED <<config, starting, alive, agent, exec, restarts>>

(***************************************************************************)
(* The agent.                                                              *)
(***************************************************************************)

\* cgroupTrackerStart: the mkdir program first, then the release program
Attach ==
  /\ attached' = IF "mkdir" \in attached THEN {"mkdir", "release"} ELSE {"mkdir"}
  /\ attached' # attached
  /\ UNCHANGED <<config, kernel, cgtracker_map, walk, tracked, covered, raced,
                 exec, faults, restarts>>

\* The children of a cgroup that were created, and not tracked by the mkdir program,
\* before the cgroup had an entry, and that cannot be listed yet.
Caught(g) == {h \in Children(g) \intersect starting : cgtracker_map[h] = NoCgroup}

\* UpdateCgTrackerMap(cgID, cgroupPath): the container's own entry, and the
\* start of the walk unless the path is empty.  StartContainer passes an empty
\* path, for a container that does not run yet; Synchronize passes the path.
UpdateCgTrackerMap(c, path) ==
  /\ walk.pc = "idle"
  /\ c \in alive \ tracked
  /\ path = "" =>
       Children(c) \intersect (starting \union alive \union dying \union released) = {}
  /\ \/ /\ cgtracker_map' = [cgtracker_map EXCEPT ![c] = c]
        /\ tracked' = tracked \union {c}
        /\ covered' = IF "mkdir" \in attached THEN covered \union {c} ELSE covered
        /\ raced' = raced \union Caught(c)
        /\ walk' = IF path = "" THEN walk
                   ELSE [pc |-> "read", cg |-> c, dir |-> c, todo |-> {}]
        /\ UNCHANGED faults
     \/ /\ faults < MaxFaults
        /\ faults' = faults + 1
        /\ UNCHANGED <<cgtracker_map, tracked, covered, raced, walk>>
  /\ UNCHANGED <<config, kernel, attached, exec, restarts>>

\* mutant: the callback does not leave out the directory the walk starts from
WalkReadDirItself ==
  /\ walk.pc = "read"
  /\ walk' = [walk EXCEPT !.pc = "next",
                          !.todo = IF walk.dir \in alive
                                     THEN @ \union {walk.dir}
                                            \union (Children(walk.dir) \intersect alive)
                                     ELSE @]
  /\ UNCHANGED <<config, kernel, cgtracker_map, attached, tracked, covered, raced,
                 exec, faults, restarts>>

\* filepath.WalkDir lists a directory after the callback saw it; a directory
\* that cannot be listed is skipped.
WalkReadDir ==
  /\ walk.pc = "read"
  /\ walk' = [walk EXCEPT !.pc = "next",
                          !.todo = IF walk.dir \in alive
                                     THEN @ \union (Children(walk.dir) \intersect alive)
                                     ELSE @]
  /\ UNCHANGED <<config, kernel, cgtracker_map, attached, tracked, covered, raced,
                 exec, faults, restarts>>

\* The callback reads the ID of a directory.  When it cannot, because the
\* directory is gone or for another reason, the walk goes on below it.
WalkStat(d) ==
  /\ walk.pc = "next"
  /\ d \in walk.todo
  /\ \/ /\ d \in alive
        /\ walk' = [walk EXCEPT !.pc = "update", !.dir = d, !.todo = @ \ {d}]
        /\ UNCHANGED faults
     \/ /\ d \notin alive
        /\ walk' = [walk EXCEPT !.pc = "read", !.dir = d, !.todo = @ \ {d}]
        /\ UNCHANGED faults
     \/ /\ d \in alive
        /\ faults < MaxFaults
        /\ faults' = faults + 1
        /\ walk' = [walk EXCEPT !.pc = "read", !.dir = d, !.todo = @ \ {d}]
  /\ UNCHANGED <<config, kernel, cgtracker_map, attached, tracked, covered, raced,
                 exec, restarts>>

\* mutant: the entry of the directory is not written
WalkUpdateSkips ==
  /\ walk.pc = "update"
  /\ cgtracker_map' = cgtracker_map
  /\ walk' = [walk EXCEPT !.pc = "read"]
  /\ UNCHANGED <<config, kernel, attached, tracked, covered, raced, exec, faults, restarts>>

\* The callback writes the entry of the directory; a failure is only logged.
WalkUpdate ==
  /\ walk.pc = "update"
  /\ \/ /\ cgtracker_map' = [cgtracker_map EXCEPT ![walk.dir] = walk.cg]
        /\ raced' = (raced \ {walk.dir}) \union Caught(walk.dir)
        /\ UNCHANGED faults
     \/ /\ faults < MaxFaults
        /\ faults' = faults + 1
        /\ UNCHANGED <<cgtracker_map, raced>>
  /\ walk' = [walk EXCEPT !.pc = "read"]
  /\ UNCHANGED <<config, kernel, attached, tracked, covered, exec, restarts>>

WalkEnd ==
  /\ walk.pc = "next"
  /\ walk.todo = {}
  /\ walk' = IdleWalk
  /\ UNCHANGED <<config, kernel, cgtracker_map, attached, tracked, covered, raced,
                 exec, faults, restarts>>

\* The maps and the programs belong to the agent's process: a new one starts
\* with an empty map and attaches its own programs.
Restart ==
  /\ restarts < MaxRestarts
  /\ restarts' = restarts + 1
  /\ exec.pc = "idle"
  /\ cgtracker_map' = [g \in Cgroups |-> NoCgroup]
  /\ attached' = {}
  /\ walk' = IdleWalk
  /\ tracked' = {} /\ covered' = {} /\ raced' = {}
  /\ UNCHANGED <<config, kernel, exec, faults>>

(***************************************************************************)
(* The exec hook.                                                          *)
(***************************************************************************)

\* The cgroups of a task: with cgroup v1 a task of a container is in the
\* default hierarchy's root and in the container's cgroup of each controller.
Task(g) == IF config.magic = "v2" THEN [dfl_cgrp |-> g, subsys |-> Root]
                                  ELSE [dfl_cgrp |-> Root, subsys |-> g]

pids_cgrp_id == 11

\* get_task_cgroup(task, cgrp_fs_ver, subsys_idx)
get_task_cgroup(task) ==
  IF config.magic = "v2" THEN task.dfl_cgrp
  ELSE IF config.subsys_idx > pids_cgrp_id THEN NoCgroup ELSE task.subsys

\* tg_get_current_cgroup_id(): the helper of the default hierarchy with
\* cgroup v2, the task's css_set otherwise
tg_get_current_cgroup_id(task) ==
  IF config.magic = "v2" THEN task.dfl_cgrp ELSE get_task_cgroup(task)

\* No cgroup on the way up from g was missed.
Seen(g) == Ancestors[g] \intersect raced = {}

\* A container is settled when it was added with the mkdir program attached,
\* its walk is over, and nothing failed.
Settled(c) == c \in covered /\ walk.cg # c /\ faults = 0

\* get_tracker_id_from_curr_task() at the head of enforce_cgroup_policy.  A
\* task of a container runs in the container's mount namespace, or, while the
\* runtime prepares it, in the host's.
ExecBegin(g, parent, ns) ==
  /\ exec.pc = "idle"
  /\ g \in alive
  /\ parent \in alive \union {Root}
  /\ LET tracker == cgrp_get_tracker_id(tg_get_current_cgroup_id(Task(g)))
     IN exec' = [pc |-> IF tracker = NoCgroup THEN "untracked" ELSE "bootstrap",
                 cg |-> g, parent |-> parent, ns |-> ns, tracker |-> tracker,
                 settled |-> /\ Seen(g) /\ Seen(parent)
                             /\ \E c \in Containers : g \in Subtree(c) /\ Settled(c)]
  /\ UNCHANGED <<config, kernel, cgtracker_map, agent, faults, restarts>>

\* mutant: the mount namespace alone decides
BootstrapByNamespace(tracker, parent, ns) ==
  /\ config.host_mnt_ns
  /\ ns = "host"

\* exec_is_runtime_bootstrap(cg_tracker_id)
exec_is_runtime_bootstrap(tracker, parent, ns) ==
  /\ config.host_mnt_ns
  /\ ns = "host"
  /\ cgrp_get_tracker_id(get_task_cgroup(Task(parent))) # tracker

\* The hook drops an exec of the runtime and goes on with any other.
ExecBootstrap ==
  /\ exec.pc = "bootstrap"
  /\ exec' = [exec EXCEPT !.pc =
                IF exec_is_runtime_bootstrap(exec.tracker, exec.parent, exec.ns)
                  THEN "runtime" ELSE "checked"]
  /\ UNCHANGED <<config, kernel, cgtracker_map, agent, faults, restarts>>

ExecEnd ==
  /\ exec.pc \in {"untracked", "runtime", "checked"}
  /\ exec' = IdleExec
  /\ UNCHANGED <<config, kernel, cgtracker_map, agent, faults, restarts>>

Next ==
  \/ \E g \in Cgroups : Mkdir(g) \/ Activate(g) \/ Rmdir(g) \/ Release(g)
  \/ Attach
  \/ \E c \in Containers, path \in {"", "path"} : UpdateCgTrackerMap(c, path)
  \/ WalkReadDir
  \/ \E d \in Cgroups : WalkStat(d)
  \/ WalkUpdate
  \/ WalkEnd
  \/ Restart
  \/ \E g \in Cgroups, parent \in Cgroups \union {Root}, ns \in {"own", "host"} :
        ExecBegin(g, parent, ns)
  \/ ExecBootstrap
  \/ ExecEnd

Spec == Init /\ [][Next]_vars

-----------------------------------------------------------------------------
(***************************************************************************)
(* Properties.                                                             *)
(***************************************************************************)

\* Every variable has its type.
TypeOK ==
  /\ config \in Configs
  /\ {starting, alive, dying, released, raced} \subseteq SUBSET Cgroups
  /\ cgtracker_map \in [Cgroups -> Cgroups \union {NoCgroup}]
  /\ attached \subseteq {"mkdir", "release"}
  /\ walk.pc \in {"idle", "read", "next", "update"}
  /\ walk.todo \subseteq Subtree(walk.cg) \ {walk.cg}
  /\ covered \subseteq tracked /\ tracked \subseteq Containers
  /\ exec.pc \in {"idle", "untracked", "bootstrap", "runtime", "checked"}
  /\ faults \in 0..MaxFaults /\ restarts \in 0..MaxRestarts

\* A tracker ID names the container the cgroup lies in, whichever of the three
\* writers wrote it last and whatever failed: no process is ever judged by
\* another container's policy.
TrackerIsAncestor ==
  \A g \in Cgroups : cgtracker_map[g] # NoCgroup =>
    /\ cgtracker_map[g] \in Containers
    /\ g \in Subtree(cgtracker_map[g])

\* Once UpdateCgTrackerMap has returned for a container that was added with the
\* mkdir program attached, every cgroup below it is tracked, however directories
\* were created and removed while the walk went on.  The one exception is the
\* cgroup whose mkdir program ran before its parent had an entry and which could
\* not be listed yet when the parent got one, and what is created in it.
NestedTracked ==
  \A c \in Containers : Settled(c) =>
    \A g \in Subtree(c) \intersect alive : Seen(g) => cgtracker_map[g] = c

\* An exec in a settled container is checked, for that container, unless it is
\* the runtime's: in the host's mount namespace with a parent outside of the
\* container.  This holds for both cgroup versions, while the controller's
\* index is one the program can read.
ExecAttributed ==
  LET runtime == /\ config.host_mnt_ns
                 /\ exec.ns = "host"
                 /\ exec.tracker \notin Ancestors[exec.parent]
      readable == config.magic = "v2" \/ config.subsys_idx <= pids_cgrp_id
  IN /\ readable /\ exec.settled => exec.pc # "untracked"
     /\ exec.pc = "checked" => exec.cg \in Subtree(exec.tracker)
     /\ exec.pc = "checked" /\ faults = 0 => ~runtime
     /\ exec.pc = "runtime" /\ exec.settled => runtime
=============================================================================
