------------------------------- MODULE Agent --------------------------------
(***************************************************************************)
(* The node agent: the resolver with the three parties that drive it and   *)
(* the one that reads its maps.                                            *)
(*   - the container runtime, through the NRI plugin (internal/nri): it    *)
(*     starts and removes containers, and synchronizes its containers each *)
(*     time the plugin connects;                                           *)
(*   - the API server, through the WorkloadPolicy handler                  *)
(*     (internal/workloadpolicyhandler), a work queue of policy names;     *)
(*   - the startup probe;                                                  *)
(*   - the LSM program enforce_cgroup_policy (bpf/main.c), one execution   *)
(*     at a time of a process of some running container.                   *)
(* The resolver's variables change only by actions of Resolver.            *)
(***************************************************************************)
EXTENDS Resolver

CONSTANTS
  FailOpen,          \* agent.nriFailopen
  LearningEnabled,   \* load_time_config.learning_enabled
  Foreign,           \* is the file on a foreign root: the answers considered
  MaxSpecChanges,    \* bound on creations, updates and deletions of policies
  MaxInterruptions,  \* bound on lost NRI connections and agent restarts
  MaxExecs,          \* bound on exec calls
  MaxProbes          \* bound on readiness checks

ASSUME AgentAssumption ==
  /\ FailOpen \in BOOLEAN
  /\ LearningEnabled \in BOOLEAN
  /\ Foreign \subseteq BOOLEAN
  /\ {MaxSpecChanges, MaxInterruptions, MaxExecs, MaxProbes} \subseteq Nat

VARIABLES
  phase,             \* the life of a container, as the runtime sees it
  nri,               \* the connection of the NRI plugin
  syncSet,           \* containers Synchronize has still to add
  nriCall,           \* the NRI handler whose AddPodContainerFromNri is running
  nriSynchronized,
  wpSpec,            \* the WorkloadPolicies, as the agent's informer sees them
  queue,             \* work queue of the handler
  handler,           \* the Reconcile call in progress
  probe,             \* the List result of a HasSynced call in progress
  hasSynced,
  exec,              \* the exec in progress in the kernel
  used               \* how much of each bound is used up

nriVars == <<phase, nri, syncSet, nriCall, nriSynchronized>>
handlerVars == <<wpSpec, queue, handler, probe, hasSynced>>
agentVars == <<resolverVars, nriVars, handlerVars, exec, used>>

NoHandler == [pc |-> "idle", wp |-> NoPolicy, spec |-> NoSpec]
NoProbe == [on |-> FALSE, list |-> [wp \in Policies |-> NoSpec]]
NoExec == [pc |-> "idle", c |-> NoContainer, exe |-> {}, foreign |-> FALSE, id |-> 0,
           claimed |-> FALSE, window |-> {}, verdict |-> "none"]

Spend(what, bound) == used[what] < bound /\ used' = [used EXCEPT ![what] = @ + 1]

-----------------------------------------------------------------------------
(* The container runtime and the NRI plugin.                               *)

\* Mutant: the plugin does not connect again once it has been synchronized.
ConnectOnce ==
  /\ nri = "down" /\ nriCall = "none" /\ ~nriSynchronized
  /\ nri' = "sync"
  /\ syncSet' = {c \in ContainerIDs : phase[c] = "running"}
  /\ UNCHANGED <<resolverVars, phase, nriCall, nriSynchronized, handlerVars, exec, used>>

\* startNRIPlugin: the plugin connects and the runtime calls Synchronize with
\* its running containers.  The runtime holds back other events meanwhile.
Connect ==
  /\ nri = "down" /\ nriCall = "none"
  /\ nri' = "sync"
  /\ syncSet' = {c \in ContainerIDs : phase[c] = "running"}
  /\ UNCHANGED <<resolverVars, phase, nriCall, nriSynchronized, handlerVars, exec, used>>

\* Synchronize adds the containers pod by pod.
SyncPod(p) ==
  LET cs == {c \in syncSet : PodOf[c] = p} IN
  /\ nri = "sync" /\ cs # {}
  /\ AddPodContainerFromNri(p, cs)
  /\ nriCall' = "sync"
  /\ UNCHANGED <<phase, nri, syncSet, nriSynchronized, handlerVars, exec, used>>

\* An error makes the runtime close the connection; Handler.Start retries.
SyncReturn ==
  /\ nriCall = "sync"
  /\ Return
  /\ nriCall' = "none"
  /\ nri' = IF op.failed THEN "down" ELSE nri
  /\ syncSet' = IF nri = "sync" /\ ~op.failed THEN syncSet \ op.added ELSE {}
  /\ UNCHANGED <<phase, nriSynchronized, handlerVars, exec, used>>

\* Mutant: Synchronize returns before it has added every pod.
SyncDoneEarly ==
  /\ nri = "sync" /\ nriCall = "none"
  /\ nri' = "up"
  /\ nriSynchronized' = TRUE
  /\ UNCHANGED <<resolverVars, phase, syncSet, nriCall, handlerVars, exec, used>>

SyncDone ==
  /\ nri = "sync" /\ syncSet = {} /\ nriCall = "none"
  /\ nri' = "up"
  /\ nriSynchronized' = TRUE
  /\ UNCHANGED <<resolverVars, phase, syncSet, nriCall, handlerVars, exec, used>>

\* The runtime drops the plugin and goes on without it.
StartAnyway == [c \in ContainerIDs |-> IF phase[c] = "starting" THEN "running" ELSE phase[c]]

Disconnect ==
  /\ nri # "down"
  /\ Spend("interruptions", MaxInterruptions)
  /\ nri' = "down"
  /\ syncSet' = {}
  /\ phase' = StartAnyway
  /\ UNCHANGED <<resolverVars, nriCall, nriSynchronized, handlerVars, exec>>

StartContainer(c) ==
  /\ nri = "up" /\ phase[c] = "new"
  /\ AddPodContainerFromNri(PodOf[c], {c})
  /\ nriCall' = "start"
  /\ phase' = [phase EXCEPT ![c] = "starting"]
  /\ UNCHANGED <<nri, syncSet, nriSynchronized, handlerVars, exec, used>>

\* Mutant: an error never stops the container from starting.
StartReturnIgnoresError ==
  /\ nriCall = "start"
  /\ Return
  /\ nriCall' = "none"
  /\ phase' = [c \in ContainerIDs |-> IF phase[c] = "starting" THEN "running" ELSE phase[c]]
  /\ UNCHANGED <<nri, syncSet, nriSynchronized, handlerVars, exec, used>>

\* handleError: with failOpen the container starts without enforcement.
StartReturn ==
  LET outcome == IF op.failed /\ ~FailOpen THEN "stopped" ELSE "running" IN
  /\ nriCall = "start"
  /\ Return
  /\ nriCall' = "none"
  /\ phase' = [c \in ContainerIDs |-> IF phase[c] = "starting" THEN outcome ELSE phase[c]]
  /\ UNCHANGED <<nri, syncSet, nriSynchronized, handlerVars, exec, used>>

\* RemoveContainer; an error is only logged.
RemoveContainer(c) ==
  /\ nri = "up" /\ phase[c] = "stopped"
  /\ RemovePodContainerFromNri(c)
  /\ phase' = [phase EXCEPT ![c] = "gone"]
  /\ UNCHANGED <<nri, syncSet, nriCall, nriSynchronized, handlerVars, exec, used>>

\* What the runtime does while no plugin is connected.
Unattended(c) ==
  /\ nri = "down"
  /\ \/ phase[c] = "new" /\ phase' = [phase EXCEPT ![c] = "running"]
     \/ phase[c] = "stopped" /\ phase' = [phase EXCEPT ![c] = "gone"]
  /\ UNCHANGED <<resolverVars, nri, syncSet, nriCall, nriSynchronized, handlerVars, exec, used>>

\* The last process of a container exits; its cgroup is released later on.
Exit(c) ==
  /\ phase[c] = "running" /\ exec.c # c
  /\ phase' = [phase EXCEPT ![c] = "stopped"]
  /\ UNCHANGED <<resolverVars, nri, syncSet, nriCall, nriSynchronized, handlerVars, exec, used>>

ReleaseCgroup(c) ==
  /\ phase[c] \in {"stopped", "gone"} /\ c \in cgTracker
  /\ CgroupRelease(c)
  /\ UNCHANGED <<nriVars, handlerVars, exec, used>>

-----------------------------------------------------------------------------
(* The API server and the WorkloadPolicy handler.                          *)

\* Mutant: an event for the policy that is being reconciled is dropped.
ChangePolicyDropped(wp, spec) ==
  /\ spec # wpSpec[wp]
  /\ Spend("changes", MaxSpecChanges)
  /\ wpSpec' = [wpSpec EXCEPT ![wp] = spec]
  /\ queue' = IF handler.wp = wp THEN queue ELSE queue \cup {wp}
  /\ UNCHANGED <<resolverVars, nriVars, handler, probe, hasSynced, exec>>

\* A policy is created, updated or (NoSpec) deleted.
ChangePolicy(wp, spec) ==
  /\ spec # wpSpec[wp]
  /\ Spend("changes", MaxSpecChanges)
  /\ wpSpec' = [wpSpec EXCEPT ![wp] = spec]
  /\ queue' = queue \cup {wp}
  /\ UNCHANGED <<resolverVars, nriVars, handler, probe, hasSynced, exec>>

\* Reconcile reads the policy before it waits for the resolver's lock.
HandlerGet(wp) ==
  /\ handler.pc = "idle" /\ wp \in queue
  /\ queue' = queue \ {wp}
  /\ handler' = [pc |-> "got", wp |-> wp, spec |-> wpSpec[wp]]
  /\ UNCHANGED <<resolverVars, nriVars, wpSpec, probe, hasSynced, exec, used>>

HandlerCall ==
  /\ handler.pc = "got"
  /\ IF handler.spec = NoSpec THEN HandleWPDelete(handler.wp)
                              ELSE ReconcileWP(handler.wp, handler.spec)
  /\ handler' = [handler EXCEPT !.pc = "called"]
  /\ exec' = IF exec.c # NoContainer /\ PolicyOf[PodOf[exec.c]] = handler.wp
             THEN [exec EXCEPT !.window = @ \cup {handler.spec}] ELSE exec
  /\ UNCHANGED <<nriVars, wpSpec, queue, probe, hasSynced, used>>

\* Mutant: the retry is queued under the name of the request after its reset.
HandlerReturnResetFirst ==
  /\ handler.pc = "called" /\ nriCall = "none"
  /\ Return
  /\ handler' = NoHandler
  /\ queue' = IF op.failed THEN queue \cup {NoHandler.wp} ELSE queue
  /\ UNCHANGED <<nriVars, wpSpec, probe, hasSynced, exec, used>>

\* A Reconcile that returns an error is queued again.
HandlerReturn ==
  /\ handler.pc = "called" /\ nriCall = "none"
  /\ Return
  /\ handler' = NoHandler
  /\ queue' = IF op.failed THEN queue \cup {handler.wp} ELSE queue
  /\ UNCHANGED <<nriVars, wpSpec, probe, hasSynced, exec, used>>

\* HasSynced: List, then GetPolicyStatuses under the lock.
ProbeList ==
  /\ ~hasSynced /\ ~probe.on
  /\ Spend("probes", MaxProbes)
  /\ probe' = [on |-> TRUE, list |-> wpSpec]
  /\ UNCHANGED <<resolverVars, nriVars, wpSpec, queue, handler, hasSynced, exec>>

\* Mutant: the mode of a policy is not compared with the listed one.
PoliciesReadyAnyMode ==
  \A wp \in Policies : probe.list[wp] # NoSpec =>
    wpState[wp].live /\ wpState[wp].state = "ready"

PoliciesReady ==
  \A wp \in Policies : probe.list[wp] # NoSpec =>
    wpState[wp].live /\ wpState[wp].state = "ready" /\ wpState[wp].mode = probe.list[wp].mode

ProbeStatuses ==
  /\ probe.on
  /\ Unlocked
  /\ hasSynced' = PoliciesReady
  /\ probe' = NoProbe
  /\ UNCHANGED <<resolverVars, nriVars, wpSpec, queue, handler, exec, used>>

-----------------------------------------------------------------------------
(* enforce_cgroup_policy: a step per map lookup.  The first two are one    *)
(* step, because no entry of a running container leaves cgtracker_map.  An *)
(* exec of the OCI runtime itself (exec_is_runtime_bootstrap) is ignored.  *)

\* History: the specs that may be in force for container c from now on, NoSpec
\* standing for none or for an unfinished one.  A container outside the spec
\* may still be bound to an ID of an older spec.
InForce(c) ==
  LET wp == PolicyOf[PodOf[c]]
      settled == wpState[wp].state = "ready" /\ NameOf[c] \in applied[wp].containers
  IN  {IF settled THEN applied[wp] ELSE NoSpec}
      \cup (IF op.wp = wp /\ op.kind \in {"reconcile", "delete"} THEN {op.spec} ELSE {})

\* History: the agent claims to enforce the policy of c on c.
Claimed(c) ==
  /\ nri = "up" /\ nriCall = "none" /\ ~FailOpen
  /\ PolicyOf[PodOf[c]] # NoPolicy

\* The cgroup's tracker ID and its policy are looked up.  A cgroup without a
\* policy is at most reported to the learning ring buffer.
ExecBegin(c, e, f) ==
  /\ exec.pc = "idle" /\ phase[c] = "running" /\ PolicyOf[PodOf[c]] # NoPolicy
  /\ Spend("execs", MaxExecs)
  /\ exec' = [pc |-> IF c \in cgTracker /\ cgToPolicy[c] # 0 THEN "path" ELSE "done",
              c |-> c, exe |-> {e}, foreign |-> f, id |-> cgToPolicy[c],
              claimed |-> Claimed(c), window |-> InForce(c),
              verdict |-> CASE c \notin cgTracker -> "untracked"
                            [] c \in cgTracker /\ cgToPolicy[c] = 0 /\ LearningEnabled -> "learn"
                            [] OTHER -> "none"]
  /\ UNCHANGED <<resolverVars, nriVars, handlerVars>>

\* get_process_evt, populate_evt_with_path or the copy of the path fails: the
\* exec is let through.
ExecUnresolved ==
  /\ exec.pc \in {"path", "settings"}
  /\ exec' = [exec EXCEPT !.pc = "done", !.verdict = "unresolved"]
  /\ UNCHANGED <<resolverVars, nriVars, handlerVars, used>>

\* The string map lookup, skipped for a file on a foreign root.
ExecLookup ==
  /\ exec.pc = "path"
  /\ exec' = IF ~exec.foreign /\ exec.exe \subseteq policyValues[exec.id]
             THEN [exec EXCEPT !.pc = "done", !.verdict = "allow"]
             ELSE [exec EXCEPT !.pc = "settings"]
  /\ UNCHANGED <<resolverVars, nriVars, handlerVars, used>>

\* The settings lookup and the verdict.
ExecSettings ==
  LET s == policySettings[exec.id] IN
  /\ exec.pc = "settings"
  /\ exec' = [exec EXCEPT !.pc = "done", !.verdict =
               CASE s = NoSettings -> "noSettings"
                 [] s # NoSettings /\ exec.foreign /\ s.foreign -> "allow"
                 [] s # NoSettings /\ ~(exec.foreign /\ s.foreign) ->
                      IF s.mode = "monitor" THEN "monitor" ELSE "deny"]
  /\ UNCHANGED <<resolverVars, nriVars, handlerVars, used>>

ExecEnd ==
  /\ exec.pc = "done"
  /\ exec' = NoExec
  /\ UNCHANGED <<resolverVars, nriVars, handlerVars, used>>

-----------------------------------------------------------------------------
(* The agent process dies and is started again: its maps and its programs  *)
(* go with it, the informer lists the policies afresh.                     *)

AgentRestart ==
  /\ Spend("interruptions", MaxInterruptions)
  /\ Restart
  /\ phase' = StartAnyway
  /\ nri' = "down" /\ syncSet' = {} /\ nriCall' = "none" /\ nriSynchronized' = FALSE
  /\ queue' = {wp \in Policies : wpSpec[wp] # NoSpec}
  /\ handler' = NoHandler /\ probe' = NoProbe /\ hasSynced' = FALSE
  /\ exec' = NoExec
  /\ UNCHANGED wpSpec

ResolverStep == OpStep /\ UNCHANGED <<nriVars, handlerVars, exec, used>>

AgentInit ==
  /\ Init
  /\ phase = [c \in ContainerIDs |-> "new"]
  /\ nri = "down" /\ syncSet = {} /\ nriCall = "none" /\ nriSynchronized = FALSE
  /\ wpSpec = [wp \in Policies |-> NoSpec]
  /\ queue = {} /\ handler = NoHandler /\ probe = NoProbe /\ hasSynced = FALSE
  /\ exec = NoExec
  /\ used = [what \in {"changes", "interruptions", "execs", "probes"} |-> 0]

NriNext ==
  \/ Connect \/ SyncReturn \/ SyncDone \/ Disconnect \/ StartReturn
  \/ \E p \in Pods : SyncPod(p)
  \/ \E c \in ContainerIDs :
       StartContainer(c) \/ RemoveContainer(c) \/ Unattended(c) \/ Exit(c) \/ ReleaseCgroup(c)

HandlerNext ==
  \/ \E wp \in Policies : \E spec \in Specs \cup {NoSpec} : ChangePolicy(wp, spec)
  \/ \E wp \in Policies : HandlerGet(wp)
  \/ HandlerCall \/ HandlerReturn \/ ProbeList \/ ProbeStatuses

ExecNext ==
  \/ \E c \in ContainerIDs, e \in Executables, f \in Foreign : ExecBegin(c, e, f)
  \/ ExecUnresolved \/ ExecLookup \/ ExecSettings \/ ExecEnd

AgentNext == NriNext \/ HandlerNext \/ ExecNext \/ ResolverStep \/ AgentRestart

AgentSpec == AgentInit /\ [][AgentNext]_agentVars

\* The goroutines of the agent keep running: the queue and the retries of
\* Handler.Start never give up.  Calls that wait for r.mu get it in the end,
\* because a sync.Mutex hands itself over to a goroutine that has waited long.
Fairness ==
  /\ WF_agentVars(ResolverStep)
  /\ WF_agentVars(Connect) /\ WF_agentVars(SyncReturn) /\ WF_agentVars(SyncDone)
  /\ WF_agentVars(StartReturn) /\ WF_agentVars(HandlerReturn)
  /\ SF_agentVars(HandlerCall)
  /\ \A p \in Pods : SF_agentVars(SyncPod(p))
  /\ \A wp \in Policies : WF_agentVars(HandlerGet(wp))

FairAgentSpec == AgentSpec /\ Fairness

-----------------------------------------------------------------------------
(* Properties. *)

\* The agent's own variables have their types.
AgentTypeOK ==
  /\ phase \in [ContainerIDs -> {"new", "starting", "running", "stopped", "gone"}]
  /\ nri \in {"down", "sync", "up"}
  /\ syncSet \subseteq ContainerIDs
  /\ nriCall \in {"none", "start", "sync"}
  /\ nriSynchronized \in BOOLEAN /\ hasSynced \in BOOLEAN
  /\ wpSpec \in [Policies -> Specs \cup {NoSpec}]
  /\ queue \subseteq Policies
  /\ handler \in [pc : {"idle", "got", "called"}, wp : Policies \cup {NoPolicy},
                  spec : Specs \cup {NoSpec}]
  /\ probe \in [on : BOOLEAN, list : [Policies -> Specs \cup {NoSpec}]]
  /\ exec.pc \in {"idle", "path", "settings", "done"}
  /\ exec.id \in 0 .. MaxPolicyID

\* Container c runs, its pod has policy wp and the spec in force covers it.
Covered(c, wp) ==
  /\ phase[c] = "running"
  /\ PolicyOf[PodOf[c]] = wp
  /\ wpState[wp].state = "ready"
  /\ NameOf[c] \in applied[wp].containers

\* While the plugin is connected (Synchronize has succeeded on this connection)
\* and failOpen is off, a READY policy is enforced on every container that runs,
\* also on those started or restarted while the agent was down or disconnected,
\* and although map calls may fail: a failed StartContainer prevents the start,
\* a failed Synchronize is retried.
ConnectedMeansBound ==
  nri = "up" /\ nriCall = "none" /\ Unlocked /\ ~FailOpen =>
    \A c \in ContainerIDs, wp \in Policies : Covered(c, wp) => Enforced(c, applied[wp])

\* The same for cgtracker_map, without which the LSM program ignores a cgroup.
ConnectedMeansTracked ==
  nri = "up" /\ nriCall = "none" /\ ~FailOpen =>
    \A c \in ContainerIDs, wp \in Policies : Covered(c, wp) => c \in cgTracker

\* An exec that every spec in force while it is checked forbids in protect mode
\* is denied: no interleaving of the lookups of enforce_cgroup_policy with the
\* map writes of a reconcile, an NRI event or a resynchronization lets it
\* through (an exec whose path cannot be resolved is let through on purpose).
ForbiddenBy(s) ==
  LET n == NameOf[exec.c] IN
  /\ s # NoSpec
  /\ n \in s.containers /\ s.mode = "protect"
  /\ IF exec.foreign THEN ~s.rules[n].foreign ELSE ~(exec.exe \subseteq s.rules[n].allowed)
EnforcementComplete ==
  exec.pc = "done" /\ exec.claimed /\ faults = 0 /\ (\A s \in exec.window : ForbiddenBy(s)) =>
    exec.verdict \in {"deny", "unresolved"}

\* A denied exec is explained by the specs in force while it was checked: one
\* of them does not list the executable and one of them protects.  They need
\* not be the same, because ReconcileWP writes the values before the mode; a
\* spec that drops the container explains anything, because its ID is cleared.
Drops(s) == s = NoSpec \/ NameOf[exec.c] \notin s.containers
DenialExplained ==
  exec.verdict = "deny" =>
    /\ \E s \in exec.window : Drops(s) \/ s.mode = "protect"
    /\ \E s \in exec.window :
         \/ Drops(s)
         \/ IF exec.foreign THEN ~s.rules[NameOf[exec.c]].foreign
            ELSE ~(exec.exe \subseteq s.rules[NameOf[exec.c]].allowed)

\* When the policy readiness check first succeeds on a connected agent, every
\* listed policy is enforced in its listed mode on all the containers that run
\* and that its spec covers, so that the old agent may stop (HasSynced).
ProbeMeansEnforced ==
  [][~hasSynced /\ hasSynced' /\ nri = "up" /\ nriCall = "none" /\ ~FailOpen =>
       \A wp \in Policies : probe.list[wp] # NoSpec =>
         /\ applied[wp] # NoSpec /\ applied[wp].mode = probe.list[wp].mode
         /\ \A c \in ContainerIDs : Covered(c, wp) => Enforced(c, applied[wp])]_agentVars

\* Once a policy no longer changes, its last spec is the one in force and its
\* status READY, or, if it was deleted, the resolver has forgotten it.
PolicyEventuallyApplied ==
  \A wp \in Policies, s \in Specs \cup {NoSpec} :
    <>[](wpSpec[wp] = s) =>
      <>[](IF s = NoSpec THEN ~wpState[wp].live
                         ELSE applied[wp] = s /\ wpState[wp].state = "ready")

\* Once every labelled pod has its policy, the plugin gets through Synchronize:
\* it cannot wait for ever for a policy that the handler has not reconciled.
SynchronizeEventually ==
  <>[](\A p \in Pods : PolicyOf[p] # NoPolicy => wpSpec[PolicyOf[p]] # NoSpec) => <>[](nri = "up")

\* A deleted policy leaves no binding once HandleWPDelete has succeeded and
\* nothing is queued for it.
DeletedLeavesNoBinding ==
  \A wp \in Policies :
    wpSpec[wp] = NoSpec /\ wp \notin queue /\ handler.wp # wp =>
      \A c \in ContainerIDs : PolicyOf[PodOf[c]] = wp => cgToPolicy[c] = 0

\* A container that a READY policy does not list is bound to none of its rules.
RemovedContainersUnbound ==
  Unlocked =>
    \A c \in ContainerIDs : \A wp \in Policies :
      /\ PolicyOf[PodOf[c]] = wp /\ wpState[wp].state = "ready"
      /\ NameOf[c] \notin applied[wp].containers
      => cgToPolicy[c] = 0
=============================================================================
