---------------------------- MODULE AgentProofs -----------------------------
(***************************************************************************)
(* The agent drives the resolver only through the resolver's operations,   *)
(* so what is proved of the resolver alone holds of the whole agent, with  *)
(* its NRI plugin, policy handler, readiness probe, kernel and restarts.   *)
(***************************************************************************)
EXTENDS Agent, ReadyProofs

\* The parties only pass on containers, policies and specs that exist.
CallsOK ==
  /\ syncSet \subseteq ContainerIDs
  /\ wpSpec \in [Policies -> Specs \cup {NoSpec}]
  /\ queue \subseteq Policies
  /\ handler \in [pc : {"idle", "got", "called"}, wp : Policies \cup {NoPolicy},
                  spec : Specs \cup {NoSpec}]
  /\ handler.pc # "idle" => handler.wp \in Policies

\* No party has called anything at the start.
LEMMA CallsInit == AgentInit => CallsOK
  BY DEF AgentInit, CallsOK, NoHandler

\* Every step of the runtime, the API server, the handler, the probe, the kernel
\* and the resolver passes on what exists.
LEMMA CallsStep == CallsOK /\ [AgentNext]_agentVars => CallsOK'
<1> SUFFICES ASSUME CallsOK, [AgentNext]_agentVars PROVE CallsOK'
  BY Zenon
<1> USE DEF CallsOK, handlerVars, nriVars
<1>1. CASE NriNext
  <2>1. CASE Connect
    BY <2>1, Zenon DEF Connect
  <2>2. CASE SyncReturn
    BY <2>2, Zenon DEF SyncReturn
  <2>3. CASE SyncDone
    BY <2>3, Zenon DEF SyncDone
  <2>4. CASE Disconnect
    BY <2>4, Zenon DEF Disconnect
  <2>5. CASE StartReturn
    BY <2>5, Zenon DEF StartReturn
  <2>6. ASSUME NEW p \in Pods, SyncPod(p) PROVE CallsOK'
    BY <2>6, Zenon DEF SyncPod
  <2>7. ASSUME NEW c \in ContainerIDs,
               StartContainer(c) \/ RemoveContainer(c) \/ Unattended(c) \/ Exit(c) \/ ReleaseCgroup(c)
        PROVE  CallsOK'
    BY <2>7, Zenon DEF StartContainer, RemoveContainer, Unattended, Exit, ReleaseCgroup
  <2> QED
    BY <1>1, <2>1, <2>2, <2>3, <2>4, <2>5, <2>6, <2>7, Zenon DEF NriNext
<1>2. CASE HandlerNext
  <2>1. ASSUME NEW wp \in Policies, NEW spec \in Specs \cup {NoSpec}, ChangePolicy(wp, spec)
        PROVE  CallsOK'
    BY <2>1, Zenon DEF ChangePolicy
  <2>2. ASSUME NEW wp \in Policies, HandlerGet(wp) PROVE CallsOK'
    BY <2>2, Zenon DEF HandlerGet
  <2>3. CASE HandlerCall
    BY <2>3, Zenon DEF HandlerCall
  <2>4. CASE HandlerReturn
    BY <2>4, Zenon DEF HandlerReturn, NoHandler
  <2>5. CASE ProbeList \/ ProbeStatuses
    BY <2>5, Zenon DEF ProbeList, ProbeStatuses
  <2> QED
    BY <1>2, <2>1, <2>2, <2>3, <2>4, <2>5, Zenon DEF HandlerNext
<1>3. CASE ExecNext
  <2>1. ASSUME NEW c \in ContainerIDs, NEW e \in Executables, NEW f \in Foreign, ExecBegin(c, e, f)
        PROVE  CallsOK'
    BY <2>1, Zenon DEF ExecBegin
  <2>2. CASE ExecUnresolved \/ ExecLookup \/ ExecSettings \/ ExecEnd
    BY <2>2, Zenon DEF ExecUnresolved, ExecLookup, ExecSettings, ExecEnd
  <2> QED
    BY <1>3, <2>1, <2>2, Zenon DEF ExecNext
<1>4. CASE ResolverStep
  BY <1>4, Zenon DEF ResolverStep
<1>5. CASE AgentRestart
  BY <1>5, Zenon DEF AgentRestart, NoHandler
<1>6. CASE UNCHANGED agentVars
  BY <1>6, Zenon DEF agentVars
<1> QED
  BY <1>1, <1>2, <1>3, <1>4, <1>5, <1>6, Zenon DEF AgentNext

\* A step of the agent is a step of the resolver, or leaves it alone.
LEMMA StepRefines == CallsOK /\ [AgentNext]_agentVars => [Next]_resolverVars
<1> SUFFICES ASSUME CallsOK, [AgentNext]_agentVars PROVE [Next]_resolverVars
  BY Zenon
<1>1. CASE NriNext
  <2>1. CASE Connect \/ SyncDone \/ Disconnect
    BY <2>1, Zenon DEF Connect, SyncDone, Disconnect
  <2>2. CASE SyncReturn \/ StartReturn
    BY <2>2, Zenon DEF SyncReturn, StartReturn, Next
  <2>3. ASSUME NEW p \in Pods, SyncPod(p) PROVE Next
    <3>1. PICK cs : cs # {} /\ cs = {c \in syncSet : PodOf[c] = p} /\ AddPodContainerFromNri(p, cs)
      BY <2>3, Zenon DEF SyncPod
    <3>2. cs \in SUBSET {c \in ContainerIDs : PodOf[c] = p}
      BY <3>1, Zenon DEF CallsOK
    <3> QED
      BY <3>1, <3>2, Zenon DEF Next
  <2>4. ASSUME NEW c \in ContainerIDs, StartContainer(c) PROVE Next
    <3>1. PodOf[c] \in Pods /\ {c} \in SUBSET {d \in ContainerIDs : PodOf[d] = PodOf[c]}
      BY ConstantsAssumption, Zenon
    <3>2. AddPodContainerFromNri(PodOf[c], {c})
      BY <2>4, Zenon DEF StartContainer
    <3> QED
      BY <3>1, <3>2, Zenon DEF Next
  <2>5. ASSUME NEW c \in ContainerIDs, RemoveContainer(c) \/ ReleaseCgroup(c) PROVE Next
    BY <2>5, Zenon DEF RemoveContainer, ReleaseCgroup, Next
  <2>6. ASSUME NEW c \in ContainerIDs, Unattended(c) \/ Exit(c) PROVE UNCHANGED resolverVars
    BY <2>6, Zenon DEF Unattended, Exit
  <2> QED
    BY <1>1, <2>1, <2>2, <2>3, <2>4, <2>5, <2>6, Zenon DEF NriNext
<1>2. CASE HandlerNext
  <2>1. ASSUME NEW wp \in Policies, NEW spec \in Specs \cup {NoSpec}, ChangePolicy(wp, spec)
        PROVE  UNCHANGED resolverVars
    BY <2>1, Zenon DEF ChangePolicy
  <2>2. ASSUME NEW wp \in Policies, HandlerGet(wp) PROVE UNCHANGED resolverVars
    BY <2>2, Zenon DEF HandlerGet
  <2>3. CASE HandlerCall
    <3>1. handler.wp \in Policies /\ handler.spec \in Specs \cup {NoSpec}
      BY <2>3, Zenon DEF HandlerCall, CallsOK
    <3>2. \/ HandleWPDelete(handler.wp)
          \/ handler.spec # NoSpec /\ ReconcileWP(handler.wp, handler.spec)
      BY <2>3, Zenon DEF HandlerCall
    <3> QED
      BY <3>1, <3>2, Zenon DEF Next
  <2>4. CASE HandlerReturn
    BY <2>4, Zenon DEF HandlerReturn, Next
  <2>5. CASE ProbeList \/ ProbeStatuses
    BY <2>5, Zenon DEF ProbeList, ProbeStatuses
  <2> QED
    BY <1>2, <2>1, <2>2, <2>3, <2>4, <2>5, Zenon DEF HandlerNext
<1>3. CASE ExecNext
  <2>1. ASSUME NEW c \in ContainerIDs, NEW e \in Executables, NEW f \in Foreign, ExecBegin(c, e, f)
        PROVE  UNCHANGED resolverVars
    BY <2>1, Zenon DEF ExecBegin
  <2>2. CASE ExecUnresolved \/ ExecLookup \/ ExecSettings \/ ExecEnd
    BY <2>2, Zenon DEF ExecUnresolved, ExecLookup, ExecSettings, ExecEnd
  <2> QED
    BY <1>3, <2>1, <2>2, Zenon DEF ExecNext
<1>4. CASE ResolverStep
  BY <1>4, Zenon DEF ResolverStep, Next
<1>5. CASE AgentRestart
  BY <1>5, Zenon DEF AgentRestart, Next
<1>6. CASE UNCHANGED agentVars
  BY <1>6, Zenon DEF agentVars
<1> QED
  BY <1>1, <1>2, <1>3, <1>4, <1>5, <1>6, Zenon DEF AgentNext

\* The agent implements the resolver specification: no party reaches the caches
\* or the kernel maps except by the operations of Resolver.
THEOREM AgentRefinesResolver == AgentSpec => Spec
<1>1. AgentInit => Init
  BY Zenon DEF AgentInit
<1> QED
  BY <1>1, CallsInit, CallsStep, StepRefines, PTL DEF AgentSpec, Spec

\* In the whole agent, a cgroup is never bound to the rules of another policy
\* or of another container, also across restarts and lost NRI connections.
THEOREM AgentOwnBindings == AgentSpec => []BindingsAreOwn
  BY AgentRefinesResolver, OwnBindings, PTL

-----------------------------------------------------------------------------
(* What relates the parties to the resolver: the inductive invariant of the*)
(* agent.                                                                  *)

\* Container c is cached, and the runtime was not told otherwise.
Known(c) == c \in podCache[PodOf[c]] /\ c \notin reported

\* Who is behind the operation that holds the lock, and what it works for.
CallersOK ==
  /\ nriCall # "none" <=> op.kind = "add"
  /\ handler.pc = "called" <=> op.kind \in {"reconcile", "delete"}
  /\ handler.pc = "called" => handler.wp = op.wp /\ handler.spec = op.spec
  /\ syncSet # {} => nri = "sync"
  /\ nriCall = "sync" => nri # "up"
  /\ nriCall = "sync" /\ nri = "sync" => op.added \subseteq syncSet
  /\ nriCall = "start" => nri # "sync"
  /\ nriCall = "start" /\ nri = "up" => \A c \in op.added : phase[c] = "starting"
  /\ \A c \in ContainerIDs : phase[c] = "starting" => nriCall = "start" /\ c \in op.added

\* Without failOpen, the connected plugin knows every running container, or
\* Synchronize has still to add it.
RunningKnown ==
  ~FailOpen /\ nri # "down" =>
    \A c \in ContainerIDs : phase[c] = "running" => c \in syncSet \/ Known(c)

\* As long as no map call failed, a cached container whose processes may still
\* run is tracked.
CachedTracked ==
  faults = 0 => \A c \in ContainerIDs :
    c \in podCache[PodOf[c]] /\ phase[c] \notin {"stopped", "gone"} => c \in cgTracker

\* The exec in progress, its policy and the name of its container.
ExecPolicy == PolicyOf[PodOf[exec.c]]
ExecName == NameOf[exec.c]

Execs == [pc : {"idle", "path", "settings", "done"}, c : ContainerIDs \cup {NoContainer},
          exe : SUBSET Executables, foreign : BOOLEAN, id : 0 .. MaxPolicyID,
          claimed : BOOLEAN, window : SUBSET (Specs \cup {NoSpec}),
          verdict : {"none", "untracked", "learn", "unresolved", "allow", "noSettings",
                     "monitor", "deny"}]

ExecOK ==
  /\ exec \in Execs
  /\ exec.pc # "idle" =>
       exec.c \in ContainerIDs /\ ExecPolicy \in Policies /\ \E e \in Executables : exec.exe = {e}
  /\ exec.verdict = "deny" => exec.pc = "done"

\* The processes of container c have not all exited.
Stays(c) == phase[c] \notin {"stopped", "gone"}

\* Such a container is bound only while it is cached, and under a READY policy that
\* keeps it only to the current ID of its name, also after map calls that failed.
StaysBound ==
  /\ \A c \in ContainerIDs : Stays(c) /\ cgToPolicy[c] # 0 => c \in podCache[PodOf[c]]
  /\ op.kind = "add" /\ op.pc = "track" /\ op.fresh =>
       \A c \in ContainerIDs : PodOf[c] = op.pod /\ Stays(c) => cgToPolicy[c] = 0
  /\ \A wp \in Policies, c \in ContainerIDs :
       Covers(wp, c) /\ Stays(c) /\ cgToPolicy[c] # 0 => Bound(c)

\* No spec in force during the exec drops its container.
KeptInForce == \A s \in exec.window : ~Drops(s)

\* The ID that the exec has looked up belongs to its container, and what the maps
\* hold under it comes from specs in force: a write of the string maps that fails
\* half way leaves a mixture of two of them, so each executable is on its own.
ExecFound ==
  exec.pc \in {"path", "settings"} /\ KeptInForce =>
    /\ exec.id # 0 /\ AllocatedFor(exec.id, <<ExecPolicy, ExecName>>)
    /\ op.wp = ExecPolicy =>
         op.kind # "delete" /\ (op.kind = "reconcile" => op.spec \in exec.window)
    /\ \A e \in Executables : \E s \in exec.window :
         e \in policyValues[exec.id] <=> e \in s.rules[ExecName].allowed
    /\ \E s \in exec.window : policySettings[exec.id] = SettingsOf(s, ExecName)

\* The first lookup has not found the executable in one of these specs.
NotListed ==
  exec.pc = "settings" /\ KeptInForce /\ ~exec.foreign =>
    \E s \in exec.window : ~(exec.exe \subseteq s.rules[ExecName].allowed)

\* Between two execs nothing is looked up and no verdict is pending.
LEMMA NoExecOK == NoExec \in Execs /\ NoExec.pc = "idle" /\ NoExec.verdict = "none"
  BY ConstantsAssumption DEF NoExec, Execs

-----------------------------------------------------------------------------
(* The parties and the operation that holds the lock.                      *)

\* The step of an operation goes on with the call, keeps the cache except for the
\* containers of the call, and tracks what it caches.
LEMMA OpFrame ==
  ASSUME IndInv, ProgressOK, OpStep
  PROVE  /\ op'.kind = op.kind /\ op'.added = op.added
         /\ op.kind # "add" => op'.wp = op.wp /\ op'.spec = op.spec
         /\ reported' = reported
         /\ faults' \in {faults, faults + 1}
         /\ cgTracker \subseteq cgTracker'
         /\ \A c \in ContainerIDs : c \in podCache[PodOf[c]] =>
              c \in podCache'[PodOf[c]] \/ (op.kind = "add" /\ c \in op.added)
         /\ faults' = faults => \A c \in ContainerIDs : c \in podCache'[PodOf[c]] =>
              c \in podCache[PodOf[c]] \/ c \in cgTracker'
<1> DEFINE Frame ==
         /\ op'.kind = op.kind /\ op'.added = op.added
         /\ op.kind # "add" => op'.wp = op.wp /\ op'.spec = op.spec
         /\ reported' = reported
         /\ faults' \in {faults, faults + 1}
         /\ cgTracker \subseteq cgTracker'
         /\ \A c \in ContainerIDs : c \in podCache[PodOf[c]] =>
              c \in podCache'[PodOf[c]] \/ (op.kind = "add" /\ c \in op.added)
         /\ faults' = faults => \A c \in ContainerIDs : c \in podCache'[PodOf[c]] =>
              c \in podCache[PodOf[c]] \/ c \in cgTracker'
<1> SUFFICES Frame
  BY Zenon
<1> USE DEF cacheVars, bpfVars, history
<1>0. PodOf \in [ContainerIDs -> Pods] /\ faults \in Nat
  BY ConstantsAssumption DEF IndInv, TypeOK, HistoryTypeOK
<1>1. ASSUME NEW c \in ContainerIDs, TrackContainer(c) PROVE Frame
  BY <1>0, <1>1, TrackEffect, Zenon DEF TrackContainer, OnlyAt, SameCall
<1>2. ASSUME NEW c \in ContainerIDs, TrackContainerFails(c) PROVE Frame
  <2>1. op.kind = "add" /\ op.pc = "track" /\ op.pod \in Pods
    BY <1>2, TrackFailsEffect, Zenon DEF IndInv, OpOK, AtPod
  <2>2. op.fresh => podCache[op.pod] \subseteq op.added
    BY <2>1, Zenon DEF ProgressOK
  <2>3. \A d \in ContainerIDs : d \in podCache[PodOf[d]] =>
          d \in podCache'[PodOf[d]] \/ d \in op.added
    BY <1>0, <1>2, <2>1, <2>2, TrackFailsEffect, Zenon DEF OnlyAt
  <2>4. op'.kind = op.kind /\ op'.added = op.added /\ faults' = faults + 1
    BY <1>2, TrackFailsEffect, Zenon DEF Finished, SameCall
  <2>5. faults' # faults
    BY <1>0, <2>4
  <2> QED
    BY <1>2, <2>1, <2>3, <2>4, <2>5, Zenon DEF TrackContainerFails
<1>3. ASSUME NEW c \in ContainerIDs, BindContainer(c) PROVE Frame
  BY <1>3, BindEffect, Zenon DEF BindContainer, SameCall
<1>4. ASSUME NEW c \in ContainerIDs, BindContainerFails(c) PROVE Frame
  BY <1>4, BindFailsEffect, Zenon DEF Aborted, Finished, SameCall
<1>5. ASSUME NEW c \in ContainerIDs, UnbindContainer(c) PROVE Frame
  BY <1>5, UnbindEffect, Zenon DEF UnbindContainer, SameCall
<1>6. ASSUME NEW c \in ContainerIDs, UnbindContainerFails(c) PROVE Frame
  BY <1>6, UnbindFailsEffect, Zenon DEF Aborted, Finished, SameCall
<1>7. ASSUME NEW n \in ContainerNames, UpsertValues(n) PROVE Frame
  BY <1>7, ValuesEffect, Zenon DEF UpsertValues, SameCall
<1>8. ASSUME NEW n \in ContainerNames, UpsertValuesFails(n) PROVE Frame
  BY <1>8, ValuesFailsEffect, Zenon DEF UpsertValuesFails, Aborted, Finished, SameCall
<1>9. ASSUME NEW n \in ContainerNames, RemovePolicyStep(n) PROVE Frame
  BY <1>9, RemovePolicyEffect, Zenon DEF RemovePolicyStep, SameCall
<1>10. ASSUME NEW n \in ContainerNames, RemovePolicyStepFails(n) PROVE Frame
  BY <1>10, RemovePolicyFailsEffect, Zenon DEF RemovePolicyStepFails, Finished, SameCall
<1>11. ASSUME NEW p \in Pods, VisitPod(p) PROVE Frame
  BY <1>11, VisitEffect, Zenon DEF SameCall
<1>12. CASE ApplyPolicyToPodIfPresent
  <2>1. op.kind = "add"
    BY <1>12, ApplyEffect, Zenon DEF IndInv, OpOK
  <2> QED
    BY <1>12, <2>1, ApplyEffect, Zenon DEF Finished, SameCall
<1>13. CASE PodBound
  BY <1>13, PodBoundEffect, Zenon DEF Finished, SameCall
<1>14. CASE UpsertSettings
  BY <1>14, SettingsEffect, Zenon DEF UpsertSettings, SameCall
<1>15. CASE UpsertSettingsFails
  BY <1>15, SettingsFailsEffect, Zenon DEF Aborted, Finished, SameCall
<1>16. CASE SplitAppliedRemoved
  BY <1>16, SplitEffect, Zenon DEF SameCall
<1>17. CASE PodUnbound
  BY <1>17, PodUnboundEffect, Zenon DEF SameCall
<1>18. CASE ReconcileDone
  BY <1>18, ReconcileDoneEffect, Zenon DEF Finished, SameCall
<1>19. CASE DeleteDone
  BY <1>19, DeleteDoneEffect, Zenon DEF Finished, SameCall
<1>20. CASE ClearValues
  BY <1>20, ClearValuesEffect, Zenon DEF ClearValues, SameCall
<1>21. CASE ClearValuesFails
  BY <1>21, ClearValuesFailsEffect, Zenon DEF ClearValuesFails, Aborted, Finished, SameCall
<1>22. CASE ClearSettings
  BY <1>22, ClearSettingsEffect, Zenon DEF ClearSettings, SameCall
<1>23. CASE ClearSettingsFails
  BY <1>23, ClearSettingsFailsEffect, Zenon DEF Aborted, Finished, SameCall
<1> QED
  BY <1>1, <1>2, <1>3, <1>4, <1>5, <1>6, <1>7, <1>8, <1>9, <1>10, <1>11, <1>12, <1>13, <1>14, <1>15,
     <1>16, <1>17, <1>18, <1>19, <1>20, <1>21, <1>22, <1>23, Zenon DEF OpStep

\* The variables of the runtime, the plugin and the probe have their types.
PartiesOK ==
  /\ phase \in [ContainerIDs -> {"new", "starting", "running", "stopped", "gone"}]
  /\ nri \in {"down", "sync", "up"}
  /\ nriCall \in {"none", "start", "sync"}
  /\ nriSynchronized \in BOOLEAN /\ hasSynced \in BOOLEAN
  /\ probe \in [on : BOOLEAN, list : [Policies -> Specs \cup {NoSpec}]]

\* The runtime, the plugin and the probe keep to their states.
LEMMA PartiesStep == CallsOK /\ PartiesOK /\ [AgentNext]_agentVars => PartiesOK'
<1> SUFFICES ASSUME CallsOK, PartiesOK, [AgentNext]_agentVars PROVE PartiesOK'
  BY Zenon
<1> USE DEF PartiesOK, handlerVars, nriVars
<1>1. CASE Connect \/ SyncReturn \/ SyncDone
  BY <1>1, Zenon DEF Connect, SyncReturn, SyncDone
<1>2. CASE Disconnect
  BY <1>2, Zenon DEF Disconnect, StartAnyway
<1>3. CASE StartReturn
  BY <1>3, Zenon DEF StartReturn
<1>4. ASSUME NEW p \in Pods, SyncPod(p) PROVE PartiesOK'
  BY <1>4, Zenon DEF SyncPod
<1>5. ASSUME NEW c \in ContainerIDs, StartContainer(c) \/ RemoveContainer(c) PROVE PartiesOK'
  BY <1>5, Zenon DEF StartContainer, RemoveContainer
<1>6. ASSUME NEW c \in ContainerIDs, Unattended(c) \/ Exit(c) \/ ReleaseCgroup(c)
      PROVE  PartiesOK'
  BY <1>6, Zenon DEF Unattended, Exit, ReleaseCgroup
<1>7. ASSUME NEW wp \in Policies, NEW spec \in Specs \cup {NoSpec}, ChangePolicy(wp, spec)
      PROVE  PartiesOK'
  BY <1>7, Zenon DEF ChangePolicy
<1>8. ASSUME NEW wp \in Policies, HandlerGet(wp) PROVE PartiesOK'
  BY <1>8, Zenon DEF HandlerGet
<1>9. CASE HandlerCall \/ HandlerReturn
  BY <1>9, Zenon DEF HandlerCall, HandlerReturn
<1>10. CASE ProbeList
  BY <1>10, Zenon DEF ProbeList, CallsOK
<1>11. CASE ProbeStatuses
  BY <1>11, Zenon DEF ProbeStatuses, PoliciesReady, NoProbe
<1>12. CASE ExecNext
  BY <1>12 DEF ExecNext, ExecBegin, ExecUnresolved, ExecLookup, ExecSettings, ExecEnd
<1>13. CASE ResolverStep
  BY <1>13, Zenon DEF ResolverStep
<1>14. CASE AgentRestart
  BY <1>14, Zenon DEF AgentRestart, StartAnyway, NoProbe
<1>15. CASE UNCHANGED agentVars
  BY <1>15, Zenon DEF agentVars
<1> QED
  BY <1>1, <1>2, <1>3, <1>4, <1>5, <1>6, <1>7, <1>8, <1>9, <1>10, <1>11, <1>12, <1>13, <1>14, <1>15,
     Zenon DEF AgentNext, NriNext, HandlerNext

\* The lock is held for the NRI plugin or for the handler, and for what they were
\* called with.
LEMMA CallersStep ==
  IndInv /\ ProgressOK /\ CallsOK /\ PartiesOK /\ CallersOK /\ [AgentNext]_agentVars => CallersOK'
<1> SUFFICES ASSUME IndInv, ProgressOK, CallsOK, PartiesOK, CallersOK, [AgentNext]_agentVars
             PROVE  CallersOK'
  BY Zenon
<1> USE DEF handlerVars, nriVars
<1>0. op.pc = "idle" => op.kind = "none"
  BY Zenon DEF ProgressOK
<1>1. CASE Connect
  <2>1. nriCall = "none" /\ UNCHANGED <<op, phase, nriCall, handler>> /\ nri' = "sync"
    BY <1>1, Zenon DEF Connect, resolverVars
  <2> QED
    BY <2>1, Zenon DEF CallersOK
<1>2. CASE SyncReturn
  <2>1. /\ nriCall = "sync" /\ nriCall' = "none" /\ op' = Idle /\ UNCHANGED <<phase, handler>>
        /\ syncSet' # {} => nri' = "sync"
    BY <1>2, Zenon DEF SyncReturn, Return
  <2>2. op.kind = "add" /\ handler.pc # "called" /\ \A c \in ContainerIDs : phase[c] # "starting"
    BY <2>1, Zenon DEF CallersOK
  <2> QED
    BY <2>1, <2>2, Zenon DEF CallersOK, Idle
<1>3. CASE SyncDone
  BY <1>3, Zenon DEF SyncDone, CallersOK, resolverVars
<1>4. CASE Disconnect
  <2>1. /\ nri' = "down" /\ syncSet' = {} /\ UNCHANGED <<op, nriCall, handler>>
        /\ \A c \in ContainerIDs : phase'[c] # "starting"
    BY <1>4, Zenon DEF Disconnect, StartAnyway, resolverVars
  <2> QED
    BY <2>1, Zenon DEF CallersOK
<1>5. CASE StartReturn
  <2>1. /\ nriCall = "start" /\ nriCall' = "none" /\ op' = Idle /\ UNCHANGED <<nri, syncSet, handler>>
        /\ \A c \in ContainerIDs : phase'[c] # "starting"
    BY <1>5, Zenon DEF StartReturn, Return
  <2>2. op.kind = "add" /\ handler.pc # "called"
    BY <2>1, Zenon DEF CallersOK
  <2> QED
    BY <2>1, <2>2, Zenon DEF CallersOK, Idle
<1>6. ASSUME NEW p \in Pods, SyncPod(p) PROVE CallersOK'
  <2>1. PICK cs : /\ cs = {c \in syncSet : PodOf[c] = p} /\ AddPodContainerFromNri(p, cs)
                  /\ nri = "sync" /\ nriCall' = "sync"
                  /\ UNCHANGED <<phase, nri, syncSet, handler>>
    BY <1>6, Zenon DEF SyncPod
  <2>2. op'.kind = "add" /\ op'.added = cs /\ op.pc = "idle"
    BY <2>1, AddEffect, Zenon DEF Started
  <2>3. nriCall = "none" /\ handler.pc # "called" /\ \A c \in ContainerIDs : phase[c] # "starting"
    BY <1>0, <2>2, Zenon DEF CallersOK
  <2> QED
    BY <2>1, <2>2, <2>3, Zenon DEF CallersOK
<1>7. ASSUME NEW c \in ContainerIDs, StartContainer(c) PROVE CallersOK'
  <2>1. /\ AddPodContainerFromNri(PodOf[c], {c}) /\ nri = "up" /\ nriCall' = "start"
        /\ phase' = [phase EXCEPT ![c] = "starting"] /\ UNCHANGED <<nri, syncSet, handler>>
    BY <1>7, Zenon DEF StartContainer
  <2>2. op'.kind = "add" /\ op'.added = {c} /\ op.pc = "idle"
    BY <2>1, AddEffect, ConstantsAssumption, Zenon DEF Started
  <2>3. nriCall = "none" /\ handler.pc # "called" /\ \A d \in ContainerIDs : phase[d] # "starting"
    BY <1>0, <2>2, Zenon DEF CallersOK
  <2>4. \A d \in ContainerIDs : phase'[d] = "starting" <=> d = c
    BY <2>1, <2>3, Zenon DEF PartiesOK
  <2> QED
    BY <2>1, <2>2, <2>3, <2>4, Zenon DEF CallersOK
<1>8. ASSUME NEW c \in ContainerIDs, RemoveContainer(c) PROVE CallersOK'
  <2>1. RemovePodContainerFromNri(c) /\ UNCHANGED <<nri, syncSet, nriCall, handler>>
    BY <1>8, Zenon DEF RemoveContainer
  <2>2. op' = op /\ \A d \in ContainerIDs : phase'[d] = "starting" <=> phase[d] = "starting"
    BY <1>8, <2>1, RemoveEffect, Zenon DEF RemoveContainer, PartiesOK
  <2>3. op.kind # "add"
    BY <1>0, <2>1, RemoveEffect, Zenon
  <2> QED
    BY <2>1, <2>2, <2>3, Zenon DEF CallersOK
<1>9. ASSUME NEW c \in ContainerIDs, Unattended(c) \/ Exit(c) PROVE CallersOK'
  <2>1. /\ UNCHANGED <<op, nri, syncSet, nriCall, handler>>
        /\ \A d \in ContainerIDs : phase'[d] = "starting" <=> phase[d] = "starting"
    BY <1>9, Zenon DEF Unattended, Exit, PartiesOK, resolverVars
  <2>2. op.added \subseteq ContainerIDs
    BY Zenon DEF IndInv, TypeOK, Ops
  <2> QED
    BY <2>1, <2>2, Zenon DEF CallersOK
<1>10. ASSUME NEW c \in ContainerIDs, ReleaseCgroup(c) PROVE CallersOK'
  BY <1>10, Zenon DEF ReleaseCgroup, CgroupRelease, CallersOK
<1>11. ASSUME NEW wp \in Policies, NEW spec \in Specs \cup {NoSpec}, ChangePolicy(wp, spec)
       PROVE  CallersOK'
  BY <1>11, Zenon DEF ChangePolicy, CallersOK, resolverVars
<1>12. ASSUME NEW wp \in Policies, HandlerGet(wp) PROVE CallersOK'
  <2>1. /\ handler.pc # "called" /\ handler'.pc # "called"
        /\ UNCHANGED <<op, phase, nri, syncSet, nriCall>>
    BY <1>12, Zenon DEF HandlerGet, resolverVars
  <2> QED
    BY <2>1, Zenon DEF CallersOK
<1>13. CASE HandlerCall
  <2>1. /\ handler.pc = "got" /\ handler.wp \in Policies /\ UNCHANGED <<phase, nri, syncSet, nriCall>>
        /\ handler'.pc = "called" /\ handler'.wp = handler.wp /\ handler'.spec = handler.spec
    BY <1>13, Zenon DEF HandlerCall, CallsOK
  <2>2. /\ op.pc = "idle" /\ op'.kind \in {"reconcile", "delete"} /\ op'.wp = handler.wp
        /\ op'.spec = handler.spec
    <3>1. CASE handler.spec = NoSpec
      BY <1>13, <2>1, <3>1, DeleteEffect, Zenon DEF HandlerCall, Started
    <3>2. CASE handler.spec # NoSpec
      <4>1. handler.spec \in Specs
        BY <3>2, Zenon DEF CallsOK
      <4> QED
        BY <1>13, <2>1, <3>2, <4>1, ReconcileEffect, Zenon DEF HandlerCall, Started
    <3> QED
      BY <3>1, <3>2, Zenon
  <2>3. nriCall = "none" /\ \A c \in ContainerIDs : phase[c] # "starting"
    BY <1>0, <2>2, Zenon DEF CallersOK
  <2> QED
    BY <2>1, <2>2, <2>3, Zenon DEF CallersOK
<1>14. CASE HandlerReturn
  <2>1. /\ nriCall = "none" /\ op' = Idle /\ handler' = NoHandler
        /\ UNCHANGED <<phase, nri, syncSet, nriCall>>
    BY <1>14, Zenon DEF HandlerReturn, Return
  <2> QED
    BY <2>1, Zenon DEF CallersOK, Idle, NoHandler
<1>15. CASE ProbeList \/ ProbeStatuses
  BY <1>15, Zenon DEF ProbeList, ProbeStatuses, CallersOK, resolverVars
<1>16. CASE ExecNext
  <2>1. UNCHANGED <<op, nriVars, handler>>
    BY <1>16, Zenon DEF ExecNext, ExecBegin, ExecUnresolved, ExecLookup, ExecSettings, ExecEnd,
       resolverVars
  <2> QED
    BY <2>1, Zenon DEF CallersOK
<1>17. CASE ResolverStep
  <2>1. /\ op'.kind = op.kind /\ op'.added = op.added
        /\ op.kind # "add" => op'.wp = op.wp /\ op'.spec = op.spec
        /\ UNCHANGED <<phase, nri, syncSet, nriCall, handler>>
    BY <1>17, OpFrame, Zenon DEF ResolverStep
  <2> QED
    BY <2>1, Zenon DEF CallersOK
<1>18. CASE AgentRestart
  <2>1. /\ nri' = "down" /\ syncSet' = {} /\ nriCall' = "none" /\ handler' = NoHandler
        /\ op' = Idle /\ \A c \in ContainerIDs : phase'[c] # "starting"
    BY <1>18, Zenon DEF AgentRestart, Restart, StartAnyway
  <2> QED
    BY <2>1, Zenon DEF CallersOK, Idle, NoHandler
<1>19. CASE UNCHANGED agentVars
  BY <1>19, Zenon DEF agentVars, resolverVars, CallersOK
<1> QED
  BY <1>1, <1>2, <1>3, <1>4, <1>5, <1>6, <1>7, <1>8, <1>9, <1>10, <1>11, <1>12, <1>13, <1>14, <1>15,
     <1>16, <1>17, <1>18, <1>19, Zenon DEF AgentNext, NriNext, HandlerNext

-----------------------------------------------------------------------------
(* The containers that the plugin knows and the kernel tracks.             *)

\* The plugin loses no running container: what a failed call leaves uncached or
\* reported is stopped, or disconnects the plugin.
LEMMA RunningKnownStep ==
  IndInv /\ ProgressOK /\ CallsOK /\ PartiesOK /\ CallersOK /\ RunningKnown /\ [AgentNext]_agentVars
  => RunningKnown'
<1> SUFFICES ASSUME IndInv, ProgressOK, CallsOK, PartiesOK, CallersOK, RunningKnown,
                    [AgentNext]_agentVars,
                    ~FailOpen, nri' # "down",
                    NEW c \in ContainerIDs, phase'[c] = "running"
             PROVE  c \in syncSet' \/ Known(c)'
  BY Zenon DEF RunningKnown
<1> USE DEF handlerVars, nriVars, resolverVars, cacheVars, history
<1>0. nri # "down" /\ phase[c] = "running" => c \in syncSet \/ Known(c)
  BY Zenon DEF RunningKnown
<1>p. PodOf[c] \in Pods
  BY ConstantsAssumption, Zenon
\* A call that succeeds has cached its containers and takes back what was reported.
<1>s. ASSUME Return, op.kind = "add", ~op.failed PROVE c \in op.added \/ Known(c) => Known(c)'
  <2>1. /\ op.pc = "done" /\ reported' = reported \ podCache[op.pod] /\ podCache' = podCache
    BY <1>s, ReturnEffect, Zenon
  <2>2. op.added \subseteq podCache[op.pod] /\ op.pod \in Pods
    BY <1>s, <2>1, Zenon DEF ProgressOK
  <2>3. \A d \in podCache[op.pod] : PodOf[d] = op.pod
    BY <2>2, Zenon DEF IndInv, PodsOK
  <2> QED
    BY <2>1, <2>2, <2>3, Zenon DEF Known
<1>1. CASE Connect
  BY <1>1, Zenon DEF Connect
<1>2. CASE SyncReturn
  <2>1. /\ nriCall = "sync" /\ Return /\ ~op.failed /\ nri' = nri /\ phase' = phase
    BY <1>2, Zenon DEF SyncReturn
  <2>2. op.kind = "add" /\ nri = "sync" /\ syncSet' = syncSet \ op.added
    BY <1>2, <2>1, Zenon DEF SyncReturn, CallersOK, PartiesOK
  <2> QED
    BY <1>0, <1>s, <2>1, <2>2, Zenon
<1>3. CASE SyncDone
  BY <1>0, <1>3, Zenon DEF SyncDone, Known
<1>4. CASE Disconnect
  BY <1>4, Zenon DEF Disconnect
<1>5. CASE StartReturn
  <2>1. /\ nriCall = "start" /\ Return /\ UNCHANGED <<nri, syncSet>>
        /\ phase[c] = "starting" => ~op.failed
        /\ phase[c] # "starting" => phase[c] = "running"
    BY <1>5, Zenon DEF StartReturn
  <2>2. /\ op.kind = "add" /\ nri = "up" /\ syncSet = {}
        /\ (phase[c] = "starting" <=> c \in op.added)
    BY <2>1, Zenon DEF CallersOK, PartiesOK
  <2>3. CASE ~op.failed
    BY <1>0, <1>s, <2>1, <2>2, <2>3, Zenon
  <2>4. CASE op.failed
    BY <1>0, <2>1, <2>2, <2>4, ReturnEffect, Zenon DEF Known
  <2> QED
    BY <2>3, <2>4, Zenon
<1>6. ASSUME NEW p \in Pods, SyncPod(p) PROVE c \in syncSet' \/ Known(c)'
  BY <1>0, <1>6, Zenon DEF SyncPod, AddPodContainerFromNri, Known
<1>7. ASSUME NEW d \in ContainerIDs, StartContainer(d) PROVE c \in syncSet' \/ Known(c)'
  <2>1. /\ UNCHANGED <<nri, syncSet, podCache, reported>>
        /\ phase' = [phase EXCEPT ![d] = "starting"]
    BY <1>7, Zenon DEF StartContainer, AddPodContainerFromNri
  <2>2. phase[c] = "running"
    BY <2>1, Zenon DEF PartiesOK
  <2> QED
    BY <1>0, <2>1, <2>2, Zenon DEF Known
<1>8. ASSUME NEW d \in ContainerIDs, RemoveContainer(d) PROVE c \in syncSet' \/ Known(c)'
  <2>1. /\ RemovePodContainerFromNri(d) /\ UNCHANGED <<nri, syncSet>>
        /\ phase' = [phase EXCEPT ![d] = "gone"]
    BY <1>8, Zenon DEF RemoveContainer
  <2>2. c # d /\ phase[c] = "running"
    BY <2>1, Zenon DEF PartiesOK
  <2>3. podCache'[PodOf[c]] \in {podCache[PodOf[c]], podCache[PodOf[c]] \ {d}}
    BY <1>p, <2>1, RemoveEffect, Zenon DEF OnlyAt
  <2>4. reported' = reported \ {d}
    BY <2>1, RemoveEffect, Zenon
  <2> QED
    BY <1>0, <2>1, <2>2, <2>3, <2>4, Zenon DEF Known
<1>9. ASSUME NEW d \in ContainerIDs, Unattended(d) \/ Exit(d) PROVE c \in syncSet' \/ Known(c)'
  <2>1. UNCHANGED <<nri, syncSet, podCache, reported>> /\ Exit(d)
    BY <1>9 DEF Unattended, Exit
  <2>2. phase[c] = "running"
    BY <2>1, Zenon DEF Exit, PartiesOK
  <2> QED
    BY <1>0, <2>1, <2>2, Zenon DEF Known
<1>10. ASSUME NEW d \in ContainerIDs, ReleaseCgroup(d) PROVE c \in syncSet' \/ Known(c)'
  BY <1>0, <1>10, Zenon DEF ReleaseCgroup, CgroupRelease, Known
<1>11. ASSUME NEW wp \in Policies, NEW spec \in Specs \cup {NoSpec},
              ChangePolicy(wp, spec) \/ HandlerGet(wp)
       PROVE  c \in syncSet' \/ Known(c)'
  BY <1>0, <1>11, Zenon DEF ChangePolicy, HandlerGet, Known
<1>12. CASE HandlerCall
  BY <1>0, <1>12, Zenon DEF HandlerCall, HandleWPDelete, ReconcileWP, Known
<1>13. CASE HandlerReturn
  <2>1. /\ Return /\ op.kind \in {"reconcile", "delete"} /\ UNCHANGED <<nri, syncSet, phase>>
    BY <1>13, Zenon DEF HandlerReturn, CallersOK
  <2>2. podCache' = podCache /\ reported' \subseteq reported
    BY <2>1, ReturnEffect, Zenon DEF IndInv, TypeOK, Ops
  <2> QED
    BY <1>0, <2>1, <2>2, Zenon DEF Known
<1>14. CASE ProbeList \/ ProbeStatuses
  BY <1>0, <1>14, Zenon DEF ProbeList, ProbeStatuses, Known
<1>15. CASE ExecNext
  <2>1. UNCHANGED <<podCache, reported, nriVars>>
    BY <1>15, Zenon DEF ExecNext, ExecBegin, ExecUnresolved, ExecLookup, ExecSettings, ExecEnd
  <2> QED
    BY <1>0, <2>1, Zenon DEF Known
<1>16. CASE ResolverStep
  <2>1. OpStep /\ UNCHANGED <<nri, syncSet, phase, nriCall>>
    BY <1>16, Zenon DEF ResolverStep
  <2>2. /\ reported' = reported
        /\ c \in podCache[PodOf[c]] => c \in podCache'[PodOf[c]] \/ (op.kind = "add" /\ c \in op.added)
    BY <2>1, OpFrame, Zenon
  <2>3. op.kind = "add" /\ c \in op.added => c \in syncSet
    BY <2>1, Zenon DEF CallersOK, PartiesOK
  <2> QED
    BY <1>0, <2>1, <2>2, <2>3, Zenon DEF Known
<1>17. CASE AgentRestart
  BY <1>17, Zenon DEF AgentRestart
<1>18. CASE UNCHANGED agentVars
  BY <1>0, <1>18, Zenon DEF agentVars, Known
<1> QED
  BY <1>1, <1>2, <1>3, <1>4, <1>5, <1>6, <1>7, <1>8, <1>9, <1>10, <1>11, <1>12, <1>13, <1>14, <1>15,
     <1>16, <1>17, <1>18, Zenon DEF AgentNext, NriNext, HandlerNext

\* A map call that fails is counted: the counter is never reset.
LEMMA FaultsGrow == IndInv /\ ProgressOK /\ CallsOK /\ [AgentNext]_agentVars /\ faults' = 0 => faults = 0
<1> SUFFICES ASSUME IndInv, ProgressOK, [Next]_resolverVars, faults' = 0 PROVE faults = 0
  BY StepRefines, Zenon
<1>0. faults \in Nat
  BY DEF IndInv, TypeOK, HistoryTypeOK
<1>1. CASE OpStep
  <2>1. faults' \in {faults, faults + 1}
    BY <1>1, OpFrame, Zenon
  <2> QED
    BY <1>0, <2>1
<1>2. ASSUME NEW c \in ContainerIDs, RemovePodContainerFromNri(c) PROVE faults = 0
  <2>1. faults' \in {faults, faults + 1}
    BY <1>2, RemoveEffect, Zenon
  <2> QED
    BY <1>0, <2>1
<1>3. CASE UNCHANGED faults
  BY <1>3, Zenon
<1> QED
  BY <1>1, <1>2, <1>3, Zenon DEF Next, AddPodContainerFromNri, CgroupRelease, ReconcileWP,
     HandleWPDelete, Return, Restart, resolverVars

\* AddPodContainerFromNri caches a container and its cgroup together, and the kernel
\* drops only cgroups that no process is left in.
LEMMA CachedTrackedStep ==
  IndInv /\ ProgressOK /\ CallsOK /\ PartiesOK /\ CachedTracked /\ [AgentNext]_agentVars
  => CachedTracked'
<1> SUFFICES ASSUME IndInv, ProgressOK, CallsOK, PartiesOK, CachedTracked, [AgentNext]_agentVars,
                    faults' = 0, NEW c \in ContainerIDs, c \in podCache'[PodOf[c]],
                    phase'[c] \notin {"stopped", "gone"}
             PROVE  c \in cgTracker'
  BY Zenon DEF CachedTracked
<1> USE DEF handlerVars, nriVars, resolverVars, cacheVars, bpfVars
<1>0. faults = 0
  BY FaultsGrow, Zenon
<1>1. c \in podCache[PodOf[c]] /\ phase[c] \notin {"stopped", "gone"} => c \in cgTracker
  BY <1>0, Zenon DEF CachedTracked
<1>p. PodOf[c] \in Pods
  BY ConstantsAssumption, Zenon
\* No container comes back to life.
<1>2. phase[c] \notin {"stopped", "gone"}
  <2>1. CASE NriNext
    BY <2>1, Zenon DEF NriNext, Connect, SyncReturn, SyncDone, Disconnect, StartReturn, SyncPod,
       StartContainer, RemoveContainer, Unattended, Exit, ReleaseCgroup, StartAnyway, PartiesOK
  <2>2. CASE HandlerNext
    BY <2>2, Zenon DEF HandlerNext, ChangePolicy, HandlerGet, HandlerCall, HandlerReturn, ProbeList,
       ProbeStatuses
  <2>3. CASE ExecNext
    BY <2>3, Zenon DEF ExecNext, ExecBegin, ExecUnresolved, ExecLookup, ExecSettings, ExecEnd
  <2>4. CASE ResolverStep
    BY <2>4, Zenon DEF ResolverStep
  <2>5. CASE AgentRestart
    BY <2>5, Zenon DEF AgentRestart, StartAnyway, PartiesOK
  <2>6. CASE UNCHANGED agentVars
    BY <2>6, Zenon DEF agentVars
  <2> QED
    BY <2>1, <2>2, <2>3, <2>4, <2>5, <2>6, Zenon DEF AgentNext
<1>3. CASE OpStep
  <2>1. /\ cgTracker \subseteq cgTracker'
        /\ c \in podCache[PodOf[c]] \/ c \in cgTracker'
    BY <1>0, <1>3, OpFrame, Zenon
  <2> QED
    BY <1>1, <1>2, <2>1, Zenon
<1>4. ASSUME NEW d \in ContainerIDs, RemovePodContainerFromNri(d) PROVE c \in cgTracker'
  <2>1. cgTracker' = cgTracker
    BY <1>4, Zenon DEF RemovePodContainerFromNri
  <2>2. podCache'[PodOf[c]] \in {podCache[PodOf[c]], podCache[PodOf[c]] \ {d}}
    BY <1>p, <1>4, RemoveEffect, Zenon DEF OnlyAt
  <2> QED
    BY <1>1, <1>2, <2>1, <2>2, Zenon
<1>5. ASSUME NEW d \in ContainerIDs, ReleaseCgroup(d) PROVE c \in cgTracker'
  BY <1>1, <1>5, Zenon DEF ReleaseCgroup, CgroupRelease
<1>6. CASE Restart
  BY <1>p, <1>6, Zenon DEF Restart
<1>7. CASE UNCHANGED <<podCache, cgTracker>>
  BY <1>1, <1>2, <1>7, Zenon
<1>8. CASE NriNext
  BY <1>4, <1>5, <1>7, <1>8, Zenon DEF NriNext, Connect, SyncReturn, SyncDone, Disconnect,
     StartReturn, SyncPod, StartContainer, RemoveContainer, Unattended, Exit, Return,
     AddPodContainerFromNri
<1>9. CASE HandlerNext
  BY <1>7, <1>9, Zenon DEF HandlerNext, ChangePolicy, HandlerGet, HandlerCall, HandlerReturn,
     ProbeList, ProbeStatuses, Return, HandleWPDelete, ReconcileWP
<1>10. CASE ExecNext
  BY <1>7, <1>10, Zenon DEF ExecNext, ExecBegin, ExecUnresolved, ExecLookup, ExecSettings, ExecEnd
<1> QED
  BY <1>3, <1>6, <1>7, <1>8, <1>9, <1>10, Zenon DEF AgentNext, ResolverStep, AgentRestart, agentVars

-----------------------------------------------------------------------------
(* The bindings of the containers whose processes may still run.           *)

\* A step of an operation binds a container only to the current ID of its name and
\* only while it is cached; only a failed first add of a pod takes containers out of
\* the cache, before it has bound any.
LEMMA BindingFrame ==
  ASSUME IndInv, ProgressOK, OpStep
  PROVE  /\ \A c \in ContainerIDs : \/ cgToPolicy'[c] \in {0, cgToPolicy[c]}
                                    \/ Bound(c)' /\ c \in podCache'[PodOf[c]]
         /\ \A c \in ContainerIDs : c \in podCache[PodOf[c]] =>
              \/ c \in podCache'[PodOf[c]]
              \/ /\ op.kind = "add" /\ op.pc = "track" /\ op.fresh /\ PodOf[c] = op.pod
                 /\ cgToPolicy'[c] = cgToPolicy[c]
         /\ op.kind = "add" =>
              /\ UNCHANGED <<wpState, applied>>
              /\ op'.pc = "track" => /\ op.pc = "track" /\ op'.fresh = op.fresh
                                     /\ op'.pod = op.pod /\ UNCHANGED cgToPolicy
<1> DEFINE Frame ==
         /\ \A c \in ContainerIDs : \/ cgToPolicy'[c] \in {0, cgToPolicy[c]}
                                    \/ Bound(c)' /\ c \in podCache'[PodOf[c]]
         /\ \A c \in ContainerIDs : c \in podCache[PodOf[c]] =>
              \/ c \in podCache'[PodOf[c]]
              \/ /\ op.kind = "add" /\ op.pc = "track" /\ op.fresh /\ PodOf[c] = op.pod
                 /\ cgToPolicy'[c] = cgToPolicy[c]
         /\ op.kind = "add" =>
              /\ UNCHANGED <<wpState, applied>>
              /\ op'.pc = "track" => /\ op.pc = "track" /\ op'.fresh = op.fresh
                                     /\ op'.pod = op.pod /\ UNCHANGED cgToPolicy
<1> SUFFICES Frame
  BY Zenon
<1> USE DEF cacheVars, bpfVars, history
<1>0. ASSUME op.kind # "add", UNCHANGED podCache,
             \A c \in ContainerIDs : cgToPolicy'[c] \in {0, cgToPolicy[c]}
      PROVE  Frame
  BY <1>0, Zenon
<1>1. ASSUME NEW c \in ContainerIDs, TrackContainer(c) PROVE Frame
  <2>1. \A d \in ContainerIDs : podCache[PodOf[d]] \subseteq podCache'[PodOf[d]]
    BY <1>1, TrackEffect, ConstantsAssumption, Zenon DEF OnlyAt
  <2> QED
    BY <1>1, <2>1, TrackEffect, Zenon DEF SameCall, SamePlace
<1>2. ASSUME NEW c \in ContainerIDs, TrackContainerFails(c) PROVE Frame
  <2>1. op.kind = "add" /\ op.pc = "track" /\ op.pod \in Pods
    BY <1>2, TrackFailsEffect DEF IndInv, OpOK, AtPod
  <2>2. \A d \in ContainerIDs : d \in podCache[PodOf[d]] =>
          d \in podCache'[PodOf[d]] \/ (op.fresh /\ PodOf[d] = op.pod)
    BY <1>2, <2>1, TrackFailsEffect, ConstantsAssumption, Zenon DEF OnlyAt
  <2>3. op'.pc = "done" /\ UNCHANGED <<cgToPolicy, wpState, applied>>
    BY <1>2, TrackFailsEffect, Zenon DEF Finished
  <2> QED
    BY <2>1, <2>2, <2>3, Zenon
<1>3. ASSUME NEW c \in ContainerIDs, BindContainer(c) PROVE Frame
  <2>1. /\ op.pc = "bind" /\ op'.pc = op.pc /\ UNCHANGED <<podCache, wpState, applied>>
        /\ PodOf[c] = op.pod /\ c \in podCache[PodOf[c]] /\ PolicyOf[PodOf[c]] = op.wp
    BY <1>3, BindEffect, Zenon DEF ProgressOK
  <2>2. Bound(c)'
    BY <1>3, <2>1, BindEffect, Zenon DEF Bound
  <2>3. \A d \in ContainerIDs : d # c => cgToPolicy'[d] = cgToPolicy[d]
    BY <1>3, BindEffect, Zenon DEF OnlyAt
  <2> QED
    BY <2>1, <2>2, <2>3, Zenon
<1>4. ASSUME NEW c \in ContainerIDs, BindContainerFails(c) PROVE Frame
  <2>1. op'.pc = "done" /\ UNCHANGED <<podCache, cgToPolicy, applied>>
    BY <1>4, BindFailsEffect, Zenon DEF Aborted, Finished
  <2>2. op.kind = "add" => UNCHANGED wpState
    BY <1>4, Zenon DEF BindContainerFails, Abort, StatusOnError
  <2> QED
    BY <2>1, <2>2, Zenon
<1>5. ASSUME NEW c \in ContainerIDs, UnbindContainer(c) PROVE Frame
  BY <1>0, <1>5, UnbindEffect, Zenon DEF OnlyAt
<1>6. ASSUME NEW c \in ContainerIDs, UnbindContainerFails(c) PROVE Frame
  BY <1>0, <1>6, UnbindFailsEffect, Zenon
<1>7. ASSUME NEW n \in ContainerNames, UpsertValues(n) PROVE Frame
  BY <1>0, <1>7, ValuesEffect, Zenon
<1>8. ASSUME NEW n \in ContainerNames, UpsertValuesFails(n) PROVE Frame
  BY <1>0, <1>8, ValuesFailsEffect, Zenon
<1>9. ASSUME NEW n \in ContainerNames, RemovePolicyStep(n) PROVE Frame
  BY <1>0, <1>9, RemovePolicyEffect, Zenon
<1>10. ASSUME NEW n \in ContainerNames, RemovePolicyStepFails(n) PROVE Frame
  BY <1>0, <1>10, RemovePolicyFailsEffect, Zenon
<1>11. ASSUME NEW p \in Pods, VisitPod(p) PROVE Frame
  BY <1>0, <1>11, VisitEffect, Zenon
<1>12. CASE ApplyPolicyToPodIfPresent
  <2>1. op'.pc # "track" /\ UNCHANGED <<podCache, cgToPolicy, wpState, applied>>
    BY <1>12, ApplyEffect, Zenon DEF Finished
  <2> QED
    BY <2>1, Zenon
<1>13. CASE PodBound
  <2>1. op'.pc # "track" /\ UNCHANGED <<podCache, cgToPolicy, wpState, applied>>
    BY <1>13, PodBoundEffect, Zenon DEF Finished
  <2> QED
    BY <2>1
<1>14. CASE UpsertSettings
  BY <1>0, <1>14, SettingsEffect, Zenon
<1>15. CASE UpsertSettingsFails
  BY <1>0, <1>15, SettingsFailsEffect, Zenon
<1>16. CASE SplitAppliedRemoved
  BY <1>0, <1>16, SplitEffect, Zenon
<1>17. CASE PodUnbound
  BY <1>0, <1>17, PodUnboundEffect, Zenon
<1>18. CASE ReconcileDone
  BY <1>0, <1>18, ReconcileDoneEffect, Zenon
<1>19. CASE DeleteDone
  BY <1>0, <1>19, DeleteDoneEffect, Zenon
<1>20. CASE ClearValues
  BY <1>0, <1>20, ClearValuesEffect, Zenon
<1>21. CASE ClearValuesFails
  BY <1>0, <1>21, ClearValuesFailsEffect, Zenon
<1>22. CASE ClearSettings
  BY <1>0, <1>22, ClearSettingsEffect, Zenon
<1>23. CASE ClearSettingsFails
  BY <1>0, <1>23, ClearSettingsFailsEffect, Zenon
<1> QED
  BY <1>1, <1>2, <1>3, <1>4, <1>5, <1>6, <1>7, <1>8, <1>9, <1>10, <1>11, <1>12, <1>13, <1>14, <1>15,
     <1>16, <1>17, <1>18, <1>19, <1>20, <1>21, <1>22, <1>23, Zenon DEF OpStep

\* No container comes back to life, and these are the steps that change the cache of
\* pods, the bindings or the lock.
LEMMA StaysCases ==
  ASSUME IndInv, CallsOK, PartiesOK, [AgentNext]_agentVars
  PROVE  /\ \A c \in ContainerIDs : Stays(c)' => Stays(c)
         /\ \/ OpStep
            \/ \E p \in Pods : \E cs : AddPodContainerFromNri(p, cs)
            \/ \E c \in ContainerIDs : RemovePodContainerFromNri(c) /\ ~Stays(c)'
            \/ Restart
            \/ UNCHANGED <<podCache, cgToPolicy>> /\ op'.kind # "add"
            \/ UNCHANGED <<podCache, cgToPolicy, wpState, applied, op>>
<1> DEFINE Same == UNCHANGED <<podCache, cgToPolicy, wpState, applied, op>>
           Mortal == \A c \in ContainerIDs : Stays(c)' => Stays(c)
           Frees == UNCHANGED <<podCache, cgToPolicy>> /\ op'.kind # "add"
<1> USE DEF resolverVars, cacheVars, bpfVars, history, nriVars, handlerVars
<1>0. phase \in [ContainerIDs -> {"new", "starting", "running", "stopped", "gone"}]
  BY Zenon DEF PartiesOK
<1>1. CASE Connect \/ SyncDone \/ Disconnect
  BY <1>0, <1>1, Zenon DEF Connect, SyncDone, Disconnect, StartAnyway, Stays
<1>2. CASE SyncReturn \/ StartReturn \/ HandlerReturn
  <2>1. Mortal
    BY <1>0, <1>2, Zenon DEF SyncReturn, StartReturn, HandlerReturn, Stays
  <2>2. Return
    BY <1>2, Zenon DEF SyncReturn, StartReturn, HandlerReturn
  <2>3. Frees
    BY <2>2, ReturnEffect, Zenon DEF Idle
  <2> QED
    BY <2>1, <2>3, Zenon
<1>3. ASSUME NEW p \in Pods, SyncPod(p)
      PROVE  Mortal /\ \E cs : AddPodContainerFromNri(p, cs)
  BY <1>3, Zenon DEF SyncPod, Stays
<1>4. ASSUME NEW c \in ContainerIDs, StartContainer(c)
      PROVE  Mortal /\ \E p \in Pods : \E cs : AddPodContainerFromNri(p, cs)
  BY <1>0, <1>4, ConstantsAssumption, Zenon DEF StartContainer, Stays
<1>5. ASSUME NEW c \in ContainerIDs, RemoveContainer(c)
      PROVE  Mortal /\ RemovePodContainerFromNri(c) /\ ~Stays(c)'
  BY <1>0, <1>5, Zenon DEF RemoveContainer, Stays
<1>6. ASSUME NEW c \in ContainerIDs, ReleaseCgroup(c) PROVE Mortal /\ Same
  BY <1>6, Zenon DEF ReleaseCgroup, CgroupRelease, Stays
<1>7. ASSUME NEW c \in ContainerIDs, Unattended(c) \/ Exit(c) PROVE Mortal /\ Same
  BY <1>0, <1>7, Zenon DEF Unattended, Exit, Stays
<1>8. ASSUME NEW wp \in Policies, NEW spec \in Specs \cup {NoSpec},
             ChangePolicy(wp, spec) \/ HandlerGet(wp)
      PROVE  Mortal /\ Same
  BY <1>8, Zenon DEF ChangePolicy, HandlerGet, Stays
<1>9. CASE ProbeList \/ ProbeStatuses \/ UNCHANGED agentVars \/ ExecNext
  <2>1. UNCHANGED <<resolverVars, nriVars>>
    BY <1>9, Zenon DEF ProbeList, ProbeStatuses, agentVars, ExecNext, ExecBegin, ExecUnresolved,
       ExecLookup, ExecSettings, ExecEnd
  <2> QED
    BY <2>1, Zenon DEF Stays
<1>10. CASE HandlerCall
  <2>1. Mortal
    BY <1>10, Zenon DEF HandlerCall, Stays
  <2>2. handler.wp \in Policies /\ (handler.spec # NoSpec => handler.spec \in Specs)
    BY <1>10, Zenon DEF HandlerCall, CallsOK
  <2>3. CASE handler.spec = NoSpec
    BY <1>10, <2>1, <2>2, <2>3, DeleteEffect, Zenon DEF HandlerCall, Started
  <2>4. CASE handler.spec # NoSpec
    BY <1>10, <2>1, <2>2, <2>4, ReconcileEffect, Zenon DEF HandlerCall, Started
  <2> QED
    BY <2>3, <2>4, Zenon
<1>11. CASE ResolverStep
  BY <1>11, Zenon DEF ResolverStep, Stays
<1>12. CASE AgentRestart
  BY <1>0, <1>12, Zenon DEF AgentRestart, StartAnyway, Stays
<1> QED
  BY <1>1, <1>2, <1>3, <1>4, <1>5, <1>6, <1>7, <1>8, <1>9, <1>10, <1>11, <1>12, Zenon
  DEF AgentNext, NriNext, HandlerNext

\* A container that has not exited keeps no binding that the cache does not know of,
\* whatever map calls fail.
LEMMA StaysBoundStep ==
  IndInv /\ ReadyInv /\ CallsOK /\ PartiesOK /\ StaysBound /\ [AgentNext]_agentVars => StaysBound'
<1> SUFFICES ASSUME IndInv, ReadyInv, CallsOK, PartiesOK, StaysBound, [AgentNext]_agentVars
             PROVE  StaysBound'
  OBVIOUS
<1> USE DEF cacheVars, bpfVars, history
<1>0. \A c \in ContainerIDs : Stays(c)' => Stays(c)
  BY StaysCases, Zenon
<1>p. ProgressOK /\ PodOf \in [ContainerIDs -> Pods]
  BY ConstantsAssumption, Zenon DEF ReadyInv
<1>c. CoverageKept
  BY CoverageStep, StepRefines, Zenon DEF ReadyInv
<1>b. \A c \in ContainerIDs : Stays(c) /\ cgToPolicy[c] # 0 => c \in podCache[PodOf[c]]
  BY Zenon DEF StaysBound
<1>u. \A wp \in Policies, c \in ContainerIDs :
        Covers(wp, c) /\ Stays(c) /\ cgToPolicy[c] # 0 => Bound(c)
  BY Zenon DEF StaysBound
<1>k. ASSUME NEW c \in ContainerIDs, NEW wp \in Policies, Covers(wp, c)', Stays(c)', cgToPolicy'[c] # 0,
             cgToPolicy'[c] \in {0, cgToPolicy[c]}, ~JustTracked(c)'
      PROVE  Bound(c)'
  <2>1. \/ Covers(wp, c) /\ (Bound(c) => Bound(c)')
        \/ Bound(c)'
    BY <1>c, <1>k, Zenon DEF CoverageKept
  <2> QED
    BY <1>0, <1>k, <1>u, <2>1, Zenon
\* A step of AddPodContainerFromNri that binds nothing.
<1>j. ASSUME NEW c \in ContainerIDs, NEW wp \in Policies, Covers(wp, c)', Stays(c)', cgToPolicy'[c] # 0,
             UNCHANGED <<wpState, applied>>, cgToPolicy'[c] = cgToPolicy[c],
             op.kind \in {"add", "none"}, op'.kind = "add"
      PROVE  Bound(c)'
  <2>1. c \in podCache[PodOf[c]]
    BY <1>0, <1>b, <1>j, Zenon
  <2>2. Kept(wp)' = Kept(wp)
    BY <1>j, Zenon DEF Kept, Busy
  <2>3. Covers(wp, c)
    BY <1>j, <2>1, <2>2, Zenon DEF Covers
  <2> QED
    BY <1>0, <1>j, <1>u, <2>3, Zenon DEF Bound
<1>1. CASE OpStep
  <2>1. \A c \in ContainerIDs : \/ cgToPolicy'[c] \in {0, cgToPolicy[c]}
                                \/ Bound(c)' /\ c \in podCache'[PodOf[c]]
    BY <1>1, <1>p, BindingFrame, Zenon
  <2>2. \A c \in ContainerIDs : c \in podCache[PodOf[c]] =>
          \/ c \in podCache'[PodOf[c]]
          \/ /\ op.kind = "add" /\ op.pc = "track" /\ op.fresh /\ PodOf[c] = op.pod
             /\ cgToPolicy'[c] = cgToPolicy[c]
    BY <1>1, <1>p, BindingFrame, Zenon
  <2>3. op.kind = "add" =>
          /\ UNCHANGED <<wpState, applied>>
          /\ op'.pc = "track" => /\ op.pc = "track" /\ op'.fresh = op.fresh
                                 /\ op'.pod = op.pod /\ UNCHANGED cgToPolicy
    BY <1>1, <1>p, BindingFrame, Zenon
  <2>4. op'.kind = op.kind
    BY <1>1, <1>p, OpFrame, Zenon
  <2>5. op.kind = "add" /\ op.pc = "track" /\ op.fresh =>
          \A c \in ContainerIDs : PodOf[c] = op.pod /\ Stays(c) => cgToPolicy[c] = 0
    BY Zenon DEF StaysBound
  <2>6. ASSUME NEW c \in ContainerIDs, Stays(c)', cgToPolicy'[c] # 0
        PROVE  c \in podCache'[PodOf[c]]
    BY <1>0, <1>b, <2>1, <2>2, <2>5, <2>6, Zenon
  <2>7. ASSUME op'.kind = "add", op'.pc = "track", op'.fresh, NEW c \in ContainerIDs,
               PodOf[c] = op'.pod, Stays(c)'
        PROVE  cgToPolicy'[c] = 0
    BY <1>0, <2>3, <2>4, <2>5, <2>7, Zenon
  <2>8. ASSUME NEW wp \in Policies, NEW c \in ContainerIDs, Covers(wp, c)', Stays(c)',
               cgToPolicy'[c] # 0
        PROVE  Bound(c)'
    <3>1. CASE Bound(c)'
      BY <3>1, Zenon
    <3>2. CASE ~Bound(c)'
      <4>1. cgToPolicy'[c] \in {0, cgToPolicy[c]} /\ cgToPolicy'[c] = cgToPolicy[c]
        BY <2>1, <2>8, <3>2, Zenon
      <4>2. op.kind = "add" => Bound(c)'
        BY <1>j, <2>3, <2>4, <2>8, <4>1, Zenon
      <4>3. op.kind # "add" => ~JustTracked(c)'
        BY <2>4, Zenon DEF JustTracked
      <4> QED
        BY <1>k, <2>8, <4>1, <4>2, <4>3, Zenon
    <3> QED
      BY <3>1, <3>2, Zenon
  <2> QED
    BY <2>6, <2>7, <2>8, Zenon DEF StaysBound
<1>2. ASSUME NEW p \in Pods, NEW cs, AddPodContainerFromNri(p, cs) PROVE StaysBound'
  <2>1. /\ op.pc = "idle" /\ op'.kind = "add" /\ op'.pod = p /\ (op'.fresh <=> podCache[p] = {})
        /\ UNCHANGED <<podCache, cgToPolicy, wpState, applied>>
    BY <1>2, AddEffect, Zenon DEF Started
  <2>2. op.kind = "none"
    BY <1>p, <2>1, Zenon DEF ProgressOK
  <2>3. \A c \in ContainerIDs : Stays(c)' /\ cgToPolicy'[c] # 0 => c \in podCache'[PodOf[c]]
    BY <1>0, <1>b, <2>1, Zenon
  <2>4. op'.fresh => \A c \in ContainerIDs : PodOf[c] = op'.pod /\ Stays(c)' => cgToPolicy'[c] = 0
    BY <2>1, <2>3, Zenon
  <2>5. \A wp \in Policies, c \in ContainerIDs :
          Covers(wp, c)' /\ Stays(c)' /\ cgToPolicy'[c] # 0 => Bound(c)'
    BY <1>j, <2>1, <2>2, Zenon
  <2> QED
    BY <2>3, <2>4, <2>5, Zenon DEF StaysBound
<1>3. ASSUME NEW d \in ContainerIDs, RemovePodContainerFromNri(d), ~Stays(d)' PROVE StaysBound'
  <2>1. op.pc = "idle" /\ op' = op
    BY <1>3, RemoveEffect, Zenon
  <2>2. op'.kind = "none"
    BY <1>p, <2>1, Zenon DEF ProgressOK
  <2>3. \A c \in ContainerIDs : c # d =>
          cgToPolicy'[c] = cgToPolicy[c] /\ (c \in podCache[PodOf[c]] => c \in podCache'[PodOf[c]])
    BY <1>3, <1>p, RemoveEffect DEF OnlyAt
  <2>4. \A c \in ContainerIDs : Stays(c)' /\ cgToPolicy'[c] # 0 => c \in podCache'[PodOf[c]]
    BY <1>0, <1>3, <1>b, <2>3, Zenon
  <2>5. \A wp \in Policies, c \in ContainerIDs :
          Covers(wp, c)' /\ Stays(c)' /\ cgToPolicy'[c] # 0 => Bound(c)'
    BY <1>3, <1>k, <2>2, <2>3, Zenon DEF JustTracked
  <2> QED
    BY <2>2, <2>4, <2>5, Zenon DEF StaysBound
<1>4. CASE Restart
  <2>1. \A c \in ContainerIDs : cgToPolicy'[c] = 0
    BY <1>4, Zenon DEF Restart
  <2> QED
    BY <2>1, Zenon DEF StaysBound
<1>5. CASE UNCHANGED <<podCache, cgToPolicy>> /\ op'.kind # "add"
  <2>1. \A wp \in Policies, c \in ContainerIDs :
          Covers(wp, c)' /\ Stays(c)' /\ cgToPolicy'[c] # 0 => Bound(c)'
    BY <1>5, <1>k, Zenon DEF JustTracked
  <2> QED
    BY <1>0, <1>5, <1>b, <2>1, Zenon DEF StaysBound
<1>6. CASE UNCHANGED <<podCache, cgToPolicy, wpState, applied, op>>
  BY <1>0, <1>6, Zenon DEF StaysBound, Covers, Bound, Kept, Busy
<1> QED
  BY <1>1, <1>2, <1>3, <1>4, <1>5, <1>6, StaysCases, Zenon

\* Under an ID that is in use, a step of an operation writes only the rules that the
\* spec of its reconcile gives to the container of the ID, as long as that spec
\* keeps the container.
LEMMA WritesFrame ==
  ASSUME IndInv, IDsCarried, OpStep, NEW id \in PolicyIDs, NEW q \in Policies,
         NEW n \in ContainerNames, AllocatedFor(id, <<q, n>>),
         op.wp = q => op.kind # "delete" /\ (op.kind = "reconcile" => n \in op.spec.containers)
  PROVE  /\ AllocatedFor(id, <<q, n>>)'
         /\ \A e \in Executables :
              \/ e \in policyValues'[id] <=> e \in policyValues[id]
              \/ /\ op.kind = "reconcile" /\ op.wp = q
                 /\ e \in policyValues'[id] <=> e \in op.spec.rules[n].allowed
         /\ \/ policySettings'[id] = policySettings[id]
            \/ /\ op.kind = "reconcile" /\ op.wp = q
               /\ policySettings'[id] = SettingsOf(op.spec, n)
<1> DEFINE Frame ==
         /\ AllocatedFor(id, <<q, n>>)'
         /\ \A e \in Executables :
              \/ e \in policyValues'[id] <=> e \in policyValues[id]
              \/ /\ op.kind = "reconcile" /\ op.wp = q
                 /\ e \in policyValues'[id] <=> e \in op.spec.rules[n].allowed
         /\ \/ policySettings'[id] = policySettings[id]
            \/ /\ op.kind = "reconcile" /\ op.wp = q
               /\ policySettings'[id] = SettingsOf(op.spec, n)
<1> SUFFICES Frame
  BY Zenon
<1> USE DEF cacheVars, bpfVars, history
<1>0. id # 0 /\ id < nextPolicyID /\ owner[id] = <<q, n>>
  BY ConstantsAssumption DEF PolicyIDs, AllocatedFor
<1>a. ASSUME UNCHANGED <<nextPolicyID, owner>> PROVE AllocatedFor(id, <<q, n>>)'
  BY <1>a, Zenon DEF AllocatedFor
<1>b. ASSUME UNCHANGED <<nextPolicyID, owner, policyValues, policySettings>> PROVE Frame
  BY <1>a, <1>b, Zenon
\* The ID belongs to the container that the step is about.
<1>c. ASSUME NEW m \in ContainerNames, op.ids[m] = id PROVE op.wp = q /\ m = n
  <2>1. owner[id] = <<op.wp, m>>
    BY <1>0, <1>c, Zenon DEF IndInv, IDsOwned, AllocatedFor
  <2> QED
    BY <1>0, <2>1
<1>d. ASSUME NEW m \in ContainerNames, op.wp \in Policies, wpState[op.wp].pol[m] = id
      PROVE  op.wp = q /\ m = n
  <2>1. owner[id] = <<op.wp, m>>
    BY <1>0, <1>d, Zenon DEF IndInv, IDsOwned, AllocatedFor
  <2> QED
    BY <1>0, <2>1
<1>e. ASSUME op.pc \in {"clearValues", "clearSettings"}, op.kind \in {"reconcile", "delete"},
             op.name \in ContainerNames
      PROVE  op.ids[op.name] # id
  <2> SUFFICES ASSUME op.ids[op.name] = id PROVE FALSE
    BY Zenon
  <2>1. op.wp = q /\ op.name = n
    BY <1>c, <1>e, Zenon
  <2>2. op.kind = "reconcile" /\ n \in op.spec.containers
    BY <1>e, <2>1, Zenon
  <2> QED
    BY <1>0, <1>e, <2>1, <2>2, Zenon DEF IDsCarried, Visiting
\* The ID that upsertPolicyIDInBPF writes to is new, or that of its container.
<1>s. ASSUME NEW m \in ContainerNames, AllocPolicyID(m), op.kind = "reconcile", SyncID(m) = id
      PROVE  op.wp = q /\ m = n
  <2>1. op.wp \in Policies
    BY <1>s, Zenon DEF IndInv, OpOK
  <2>2. nextPolicyID \in Nat /\ id \in Nat
    BY ConstantsAssumption DEF IndInv, TypeOK, CacheTypeOK, PolicyIDs
  <2>3. wpState[op.wp].pol[m] = id
    BY <1>0, <1>s, <2>2 DEF SyncID
  <2> QED
    BY <1>d, <2>1, <2>3, Zenon
<1>t. ASSUME NEW m \in ContainerNames, AllocPolicyID(m) PROVE AllocatedFor(id, <<q, n>>)'
  <2>1. id \in 0 .. MaxPolicyID
    BY ConstantsAssumption DEF PolicyIDs
  <2> QED
    BY <1>t, <2>1, AllocationLemma, Zenon
<1>1. ASSUME NEW c \in ContainerIDs, TrackContainer(c) PROVE Frame
  BY <1>1, <1>b, TrackEffect, Zenon
<1>2. ASSUME NEW c \in ContainerIDs, TrackContainerFails(c) PROVE Frame
  BY <1>2, <1>b, TrackFailsEffect, Zenon
<1>3. ASSUME NEW c \in ContainerIDs, BindContainer(c) PROVE Frame
  BY <1>3, <1>b, BindEffect, Zenon
<1>4. ASSUME NEW c \in ContainerIDs, BindContainerFails(c) PROVE Frame
  BY <1>4, <1>b, BindFailsEffect, Zenon
<1>5. ASSUME NEW c \in ContainerIDs, UnbindContainer(c) PROVE Frame
  BY <1>5, <1>b, UnbindEffect, Zenon
<1>6. ASSUME NEW c \in ContainerIDs, UnbindContainerFails(c) PROVE Frame
  BY <1>6, <1>b, UnbindFailsEffect, Zenon
<1>7. ASSUME NEW m \in ContainerNames, UpsertValues(m) PROVE Frame
  <2>1. /\ op.kind = "reconcile" /\ AllocPolicyID(m) /\ UNCHANGED policySettings
        /\ policyValues'[SyncID(m)] = op.spec.rules[m].allowed
        /\ SyncID(m) # id => policyValues'[id] = policyValues[id]
    BY <1>7, ValuesEffect DEF OnlyAt
  <2>2. AllocatedFor(id, <<q, n>>)'
    BY <1>t, <2>1, Zenon
  <2>3. SyncID(m) = id => op.wp = q /\ m = n
    BY <1>s, <2>1, Zenon
  <2> QED
    BY <2>1, <2>2, <2>3, Zenon
<1>8. ASSUME NEW m \in ContainerNames, UpsertValuesFails(m) PROVE Frame
  <2>1. /\ op.kind = "reconcile" /\ AllocPolicyID(m) /\ UNCHANGED policySettings
        /\ SyncID(m) # id => policyValues'[id] = policyValues[id]
    BY <1>8, ValuesFailsEffect, Zenon DEF OnlyAt
  <2>2. AllocatedFor(id, <<q, n>>)'
    BY <1>t, <2>1, Zenon
  <2>3. CASE SyncID(m) = id
    <3>1. op.wp = q /\ m = n
      BY <1>s, <2>1, <2>3, Zenon
    <3>2. PICK i \in 0 .. 10 : policyValues'[id] =
            WrittenUpTo(policyValues[id], op.spec.rules[n].allowed, i)
      BY <1>8, <2>3, <3>1, ValuesFailsEffect, Zenon
    <3>3. \A e \in Executables :
            \/ e \in policyValues'[id] <=> e \in policyValues[id]
            \/ e \in policyValues'[id] <=> e \in op.spec.rules[n].allowed
      <4> SUFFICES ASSUME NEW e \in Executables
                   PROVE  \/ e \in policyValues'[id] <=> e \in policyValues[id]
                          \/ e \in policyValues'[id] <=> e \in op.spec.rules[n].allowed
        BY Zenon
      <4>1. BucketOf[e] \in Nat /\ i \in Nat
        BY ConstantsAssumption
      <4>2. CASE BucketOf[e] < i
        BY <3>2, <4>1, <4>2, Zenon DEF WrittenUpTo
      <4>3. CASE BucketOf[e] >= i
        BY <3>2, <4>1, <4>3, Zenon DEF WrittenUpTo
      <4> QED
        BY <4>1, <4>2, <4>3
    <3> QED
      BY <2>1, <2>2, <3>1, <3>3, Zenon
  <2> QED
    BY <2>1, <2>2, <2>3, Zenon
<1>9. ASSUME NEW m \in ContainerNames, RemovePolicyStep(m) PROVE Frame
  BY <1>9, <1>b, RemovePolicyEffect, Zenon
<1>10. ASSUME NEW m \in ContainerNames, RemovePolicyStepFails(m) PROVE Frame
  BY <1>10, <1>b, RemovePolicyFailsEffect, Zenon
<1>11. ASSUME NEW p \in Pods, VisitPod(p) PROVE Frame
  BY <1>11, <1>b, VisitEffect, Zenon
<1>12. CASE ApplyPolicyToPodIfPresent
  BY <1>12, <1>b, ApplyEffect, Zenon
<1>13. CASE PodBound
  BY <1>13, <1>b, PodBoundEffect, Zenon
<1>14. CASE UpsertSettings
  <2>1. /\ op.kind = "reconcile" /\ op.name \in ContainerNames
        /\ UNCHANGED <<nextPolicyID, owner, policyValues>>
        /\ CurrentID = id => policySettings'[id] = SettingsOf(op.spec, op.name)
        /\ CurrentID # id => policySettings'[id] = policySettings[id]
    BY <1>14, SettingsEffect, Zenon DEF OnlyAt
  <2>2. op.wp \in Policies
    BY <2>1, Zenon DEF IndInv, OpOK
  <2>3. CurrentID = id => op.wp = q /\ op.name = n
    BY <1>c, <1>d, <2>1, <2>2, Zenon DEF CurrentID
  <2> QED
    BY <1>a, <2>1, <2>3, Zenon
<1>15. CASE UpsertSettingsFails
  BY <1>15, <1>b, SettingsFailsEffect, Zenon
<1>16. CASE SplitAppliedRemoved
  BY <1>16, <1>b, SplitEffect, Zenon
<1>17. CASE PodUnbound
  BY <1>17, <1>b, PodUnboundEffect, Zenon
<1>18. CASE ReconcileDone
  BY <1>18, <1>b, ReconcileDoneEffect, Zenon
<1>19. CASE DeleteDone
  BY <1>19, <1>b, DeleteDoneEffect, Zenon
<1>20. CASE ClearValues
  <2>1. /\ UNCHANGED <<nextPolicyID, owner, policySettings>>
        /\ op.ids[op.name] # id => policyValues'[id] = policyValues[id]
    BY <1>20, ClearValuesEffect, Zenon DEF OnlyAt
  <2>2. op.ids[op.name] # id
    BY <1>20, <1>e, ClearValuesEffect, Zenon
  <2> QED
    BY <1>a, <2>1, <2>2, Zenon
<1>21. CASE ClearValuesFails
  <2>1. /\ UNCHANGED <<nextPolicyID, owner, policySettings>>
        /\ op.ids[op.name] # id => policyValues'[id] = policyValues[id]
    BY <1>21, ClearValuesFailsEffect, Zenon DEF OnlyAt
  <2>2. op.ids[op.name] # id
    BY <1>21, <1>e, ClearValuesFailsEffect, Zenon
  <2> QED
    BY <1>a, <2>1, <2>2
<1>22. CASE ClearSettings
  <2>1. /\ UNCHANGED <<nextPolicyID, owner, policyValues>>
        /\ op.ids[op.name] # id => policySettings'[id] = policySettings[id]
    BY <1>22, ClearSettingsEffect, Zenon DEF OnlyAt
  <2>2. op.ids[op.name] # id
    BY <1>22, <1>e, ClearSettingsEffect, Zenon
  <2> QED
    BY <1>a, <2>1, <2>2, Zenon
<1>23. CASE ClearSettingsFails
  BY <1>23, <1>b, ClearSettingsFailsEffect, Zenon
<1> QED
  BY <1>1, <1>2, <1>3, <1>4, <1>5, <1>6, <1>7, <1>8, <1>9, <1>10, <1>11, <1>12, <1>13, <1>14, <1>15,
     <1>16, <1>17, <1>18, <1>19, <1>20, <1>21, <1>22, <1>23, Zenon DEF OpStep

-----------------------------------------------------------------------------
(* The exec in progress.                                                   *)

\* An exec keeps its shape, whatever reconciles go on meanwhile.
LEMMA ExecStep == IndInv /\ CallsOK /\ ExecOK /\ [AgentNext]_agentVars => ExecOK'
<1> SUFFICES ASSUME IndInv, CallsOK, ExecOK, [AgentNext]_agentVars PROVE ExecOK'
  BY Zenon
<1> USE DEF ExecPolicy
<1>0. exec \in Execs
  BY Zenon DEF ExecOK
<1>1. ASSUME NEW c \in ContainerIDs, NEW e \in Executables, NEW f \in Foreign, ExecBegin(c, e, f)
      PROVE  ExecOK'
  <2>1. InForce(c) \subseteq Specs \cup {NoSpec}
    <3>1. PolicyOf[PodOf[c]] \in Policies
      BY <1>1, ConstantsAssumption, Zenon DEF ExecBegin
    <3>2. applied[PolicyOf[PodOf[c]]] \in Specs \cup {NoSpec} /\ op.spec \in Specs \cup {NoSpec}
      BY <3>1, Zenon DEF IndInv, TypeOK, HistoryTypeOK, Ops
    <3> QED
      BY <3>2, Zenon DEF InForce
  <2>2. /\ exec'.pc \in {"path", "done"} /\ exec'.c = c /\ exec'.verdict # "deny"
        /\ exec'.exe = {e}
        /\ PolicyOf[PodOf[c]] \in Policies
    BY <1>1, ConstantsAssumption, Zenon DEF ExecBegin
  <2>3. f \in BOOLEAN /\ Claimed(c) \in BOOLEAN /\ cgToPolicy[c] \in 0 .. MaxPolicyID
    BY AgentAssumption, Zenon DEF Claimed, IndInv, TypeOK, MapsTypeOK
  <2>4. exec' \in Execs
    BY <1>1, <2>1, <2>3, Zenon DEF ExecBegin, Execs
  <2> QED
    BY <2>2, <2>4, Zenon DEF ExecOK
<1>2. CASE ExecUnresolved
  BY <1>0, <1>2, Zenon DEF ExecUnresolved, ExecOK, Execs
<1>3. CASE ExecLookup
  BY <1>0, <1>3, Zenon DEF ExecLookup, ExecOK, Execs
<1>4. CASE ExecSettings
  <2>1. /\ exec.pc = "settings"
        /\ \E v \in {"noSettings", "allow", "monitor", "deny"} :
             exec' = [exec EXCEPT !.pc = "done", !.verdict = v]
    BY <1>4, Zenon DEF ExecSettings
  <2> QED
    BY <1>0, <2>1, Zenon DEF ExecOK, Execs
<1>5. CASE ExecEnd \/ AgentRestart
  <2>1. exec' = NoExec
    BY <1>5, Zenon DEF ExecEnd, AgentRestart
  <2> QED
    BY <2>1, NoExecOK, Zenon DEF ExecOK
<1>6. CASE HandlerCall
  <2>1. handler.spec \in Specs \cup {NoSpec}
    BY Zenon DEF CallsOK
  <2>2. exec' = exec \/ exec' = [exec EXCEPT !.window = @ \cup {handler.spec}]
    BY <1>6, Zenon DEF HandlerCall
  <2> QED
    BY <1>0, <2>1, <2>2 DEF ExecOK, Execs
<1>7. CASE UNCHANGED exec
  BY <1>7, Zenon DEF ExecOK
<1> QED
  BY <1>1, <1>2, <1>3, <1>4, <1>5, <1>6, <1>7, Zenon DEF AgentNext, NriNext, HandlerNext, ExecNext,
     agentVars, handlerVars, nriVars, Connect, SyncReturn, SyncDone, Disconnect, StartReturn,
     SyncPod, StartContainer, RemoveContainer, Unattended, Exit, ReleaseCgroup, ChangePolicy,
     HandlerGet, HandlerReturn, ProbeList, ProbeStatuses, ResolverStep

\* Only these steps change the exec, its window or what the maps hold under an ID.
LEMMA ExecCases ==
  ASSUME CallsOK, [AgentNext]_agentVars
  PROVE  \/ \E c \in ContainerIDs, e \in Executables, f \in Foreign : ExecBegin(c, e, f)
         \/ ExecUnresolved \/ ExecLookup \/ ExecSettings \/ ExecEnd
         \/ HandlerCall
         \/ AgentRestart
         \/ exec' = exec /\ OpStep
         \/ /\ UNCHANGED <<exec, nextPolicyID, owner, policyValues, policySettings>>
            /\ op' \in {op, Idle} \/ op'.kind = "add"
<1> DEFINE Other == /\ UNCHANGED <<exec, nextPolicyID, owner, policyValues, policySettings>>
                    /\ op' \in {op, Idle} \/ op'.kind = "add"
<1> USE DEF resolverVars, cacheVars, bpfVars, history, nriVars, handlerVars
<1>1. CASE Connect \/ SyncDone \/ Disconnect
  BY <1>1, Zenon DEF Connect, SyncDone, Disconnect
<1>2. CASE SyncReturn \/ StartReturn \/ HandlerReturn
  BY <1>2, Zenon DEF SyncReturn, StartReturn, HandlerReturn, Return
<1>3. ASSUME NEW p \in Pods, SyncPod(p) PROVE Other
  <2>1. PICK cs : AddPodContainerFromNri(p, cs) /\ exec' = exec
    BY <1>3, Zenon DEF SyncPod
  <2> QED
    BY <2>1, AddEffect, Zenon DEF Started
<1>4. ASSUME NEW c \in ContainerIDs, StartContainer(c) PROVE Other
  <2>1. AddPodContainerFromNri(PodOf[c], {c}) /\ exec' = exec
    BY <1>4, Zenon DEF StartContainer
  <2> QED
    BY <2>1, AddEffect, ConstantsAssumption, Zenon DEF Started
<1>5. ASSUME NEW c \in ContainerIDs, RemoveContainer(c) \/ ReleaseCgroup(c) PROVE Other
  BY <1>5, Zenon DEF RemoveContainer, ReleaseCgroup, RemovePodContainerFromNri, CgroupRelease
<1>6. ASSUME NEW c \in ContainerIDs, Unattended(c) \/ Exit(c) PROVE Other
  BY <1>6, Zenon DEF Unattended, Exit
<1>7. ASSUME NEW wp \in Policies, NEW spec \in Specs \cup {NoSpec},
             ChangePolicy(wp, spec) \/ HandlerGet(wp)
      PROVE  Other
  BY <1>7, Zenon DEF ChangePolicy, HandlerGet
<1>8. CASE ProbeList \/ ProbeStatuses \/ UNCHANGED agentVars
  BY <1>8, Zenon DEF ProbeList, ProbeStatuses, agentVars
<1>9. CASE ResolverStep
  BY <1>9, Zenon DEF ResolverStep
<1> QED
  BY <1>1, <1>2, <1>3, <1>4, <1>5, <1>6, <1>7, <1>8, <1>9, Zenon DEF AgentNext, NriNext,
     HandlerNext, ExecNext


\* A window in which no spec drops the container starts from a READY policy.
LEMMA InForceSettled ==
  ASSUME NEW c \in ContainerIDs, NEW wp \in Policies, PolicyOf[PodOf[c]] = wp,
         \A s \in InForce(c) : s # NoSpec /\ NameOf[c] \in s.containers
  PROVE  /\ wpState[wp].state = "ready" /\ InPlace(wp) \subseteq InForce(c)
         /\ NameOf[c] \in Kept(wp)
         /\ op.kind = "reconcile" /\ op.wp = wp => op.spec \in InForce(c)
  BY Zenon DEF InForce, InPlace, Kept, Busy

\* The lookups of an exec find the rules of specs in force, also while reconciles
\* rewrite them and after map calls that failed.
LEMMA ExecFoundStep ==
  /\ IndInv /\ ReadyInv /\ CallsOK /\ ExecOK /\ StaysBound /\ ExecFound /\ [AgentNext]_agentVars
  => ExecFound'
<1> SUFFICES ASSUME IndInv, ReadyInv, CallsOK, ExecOK, StaysBound, ExecFound,
                    [AgentNext]_agentVars, exec'.pc \in {"path", "settings"}, KeptInForce'
             PROVE  ExecFound'
  BY Zenon DEF ExecFound
\* The looked up ID and the window stay, and the maps under the ID too.
<1>w. ASSUME exec.pc \in {"path", "settings"}, KeptInForce
      PROVE  /\ ExecPolicy \in Policies /\ ExecName \in ContainerNames /\ exec.id \in PolicyIDs
             /\ exec.id # 0 /\ AllocatedFor(exec.id, <<ExecPolicy, ExecName>>)
             /\ op.wp = ExecPolicy =>
                  op.kind # "delete" /\ (op.kind = "reconcile" => op.spec \in exec.window)
             /\ \A e \in Executables : \E s \in exec.window :
                  e \in policyValues[exec.id] <=> e \in s.rules[ExecName].allowed
             /\ \E s \in exec.window : policySettings[exec.id] = SettingsOf(s, ExecName)
  <2>1. ExecPolicy \in Policies /\ ExecName \in ContainerNames
    BY <1>w, ConstantsAssumption, Zenon DEF ExecOK, ExecName
  <2>2. exec.id # 0 => exec.id \in PolicyIDs
    BY ConstantsAssumption DEF ExecOK, Execs, PolicyIDs
  <2> QED
    BY <1>w, <2>1, <2>2, Zenon DEF ExecFound
<1>s. ASSUME exec'.pc \in {exec.pc, "settings"}, exec.pc \in {"path", "settings"},
             exec'.c = exec.c, exec'.id = exec.id, exec.window \subseteq exec'.window,
             UNCHANGED <<nextPolicyID, owner, policyValues, policySettings>>,
             op'.wp = ExecPolicy =>
               op'.kind # "delete" /\ (op'.kind = "reconcile" => op'.spec \in exec'.window)
      PROVE  ExecFound'
  <2>1. KeptInForce
    BY <1>s, Zenon DEF KeptInForce, Drops
  <2>2. ExecPolicy' = ExecPolicy /\ ExecName' = ExecName
    BY <1>s, Zenon DEF ExecPolicy, ExecName
  <2>3. exec'.id # 0 /\ AllocatedFor(exec.id, <<ExecPolicy, ExecName>>)'
    BY <1>s, <1>w, <2>1, <2>2, Zenon DEF AllocatedFor
  <2>4. \A e \in Executables : \E s \in exec'.window :
          e \in policyValues'[exec'.id] <=> e \in s.rules[ExecName'].allowed
    BY <1>s, <1>w, <2>1, <2>2, Zenon
  <2>5. \E s \in exec'.window : policySettings'[exec'.id] = SettingsOf(s, ExecName')
    BY <1>s, <1>w, <2>1, <2>2, Zenon
  <2> QED
    BY <1>s, <2>2, <2>3, <2>4, <2>5, Zenon DEF ExecFound, SettingsOf
<1>1. ASSUME NEW c \in ContainerIDs, NEW e \in Executables, NEW f \in Foreign, ExecBegin(c, e, f)
      PROVE  ExecFound'
  <2>1. /\ exec'.c = c /\ exec'.window = InForce(c) /\ exec'.id = cgToPolicy[c]
        /\ cgToPolicy[c] # 0 /\ phase[c] = "running" /\ PolicyOf[PodOf[c]] \in Policies
        /\ UNCHANGED <<nextPolicyID, owner, policyValues, policySettings, op>>
    BY <1>1, ConstantsAssumption, Zenon DEF ExecBegin, resolverVars, cacheVars, bpfVars
  <2>2. PICK wp \in Policies : wp = PolicyOf[PodOf[c]] /\ ExecPolicy' = wp /\ ExecName' = NameOf[c]
    BY <2>1, Zenon DEF ExecPolicy, ExecName
  <2>3. \A s \in InForce(c) : s # NoSpec /\ NameOf[c] \in s.containers
    BY <2>1, Zenon DEF KeptInForce, Drops
  <2>4. /\ wpState[wp].state = "ready" /\ InPlace(wp) \subseteq InForce(c)
        /\ NameOf[c] \in Kept(wp)
        /\ op.kind = "reconcile" /\ op.wp = wp => op.spec \in InForce(c)
    BY <2>2, <2>3, InForceSettled, Zenon
  <2>5. c \in podCache[PodOf[c]] /\ Stays(c)
    BY <2>1, Zenon DEF StaysBound, Stays
  <2>6. Bound(c)
    <3>1. Covers(wp, c)
      BY <2>2, <2>4, <2>5, Zenon DEF Covers
    <3> QED
      BY <2>1, <2>5, <3>1, Zenon DEF StaysBound
  <2>7. /\ \E s \in InPlace(wp) : policyValues[cgToPolicy[c]] = s.rules[NameOf[c]].allowed
        /\ \E s \in InPlace(wp) : policySettings[cgToPolicy[c]] = SettingsOf(s, NameOf[c])
    <3>1. RulesInMaps(wp)
      BY <2>4, Zenon DEF ReadyInv, ReadyRules
    <3>2. cgToPolicy[c] = wpState[wp].pol[NameOf[c]]
      BY <2>2, <2>6, Zenon DEF Bound
    <3> QED
      BY <2>4, <3>1, <3>2 DEF RulesInMaps
  <2>8. op.wp = wp => op.kind # "delete"
    <3>1. op.wp = wp /\ op.kind = "delete" => wpState[wp] = NilInfo
      BY Zenon DEF ReadyInv, ProgressOK
    <3> QED
      BY <2>4, <3>1 DEF NilInfo
  <2>9. AllocatedFor(cgToPolicy[c], <<wp, NameOf[c]>>)
    BY <2>2, Zenon DEF IndInv, IDsOwned
  <2>10. exec'.id # 0 /\ AllocatedFor(exec.id, <<ExecPolicy, ExecName>>)'
    BY <2>1, <2>2, <2>9, Zenon DEF AllocatedFor
  <2>11. \A x \in Executables : \E s \in exec'.window :
           x \in policyValues'[exec'.id] <=> x \in s.rules[ExecName'].allowed
    BY <2>1, <2>2, <2>4, <2>7, Zenon
  <2>12. \E s \in exec'.window : policySettings'[exec'.id] = SettingsOf(s, ExecName')
    BY <2>1, <2>2, <2>4, <2>7, Zenon
  <2> QED
    BY <2>1, <2>2, <2>4, <2>8, <2>10, <2>11, <2>12, Zenon DEF ExecFound, SettingsOf
<1>2. CASE ExecUnresolved \/ ExecSettings
  <2>1. exec'.pc = "done"
    BY <1>2, Zenon DEF ExecUnresolved, ExecSettings, ExecOK, Execs
  <2> QED
    BY <2>1, Zenon
<1>3. CASE ExecLookup
  <2>1. /\ exec.pc = "path" /\ exec'.pc = "settings" /\ exec'.c = exec.c
        /\ exec'.window = exec.window /\ exec'.id = exec.id
        /\ UNCHANGED <<nextPolicyID, owner, policyValues, policySettings, op>>
    BY <1>3, Zenon DEF ExecLookup, ExecOK, Execs, resolverVars, cacheVars, bpfVars
  <2>2. KeptInForce
    BY <2>1, Zenon DEF KeptInForce, Drops
  <2> QED
    BY <1>s, <1>w, <2>1, <2>2, Zenon
<1>4. CASE ExecEnd \/ AgentRestart
  <2>1. exec'.pc = "idle"
    BY <1>4, NoExecOK, Zenon DEF ExecEnd, AgentRestart
  <2> QED
    BY <2>1, Zenon
<1>5. CASE HandlerCall
  <2>1. /\ exec'.pc = exec.pc /\ exec'.c = exec.c /\ exec'.id = exec.id
        /\ exec.window \subseteq exec'.window
    BY <1>5, Zenon DEF HandlerCall, ExecOK, Execs
  <2>2. handler.wp \in Policies /\ (handler.spec # NoSpec => handler.spec \in Specs)
    BY <1>5, Zenon DEF HandlerCall, CallsOK
  <2>3. handler.wp = ExecPolicy => handler.spec \in exec'.window /\ handler.spec # NoSpec
    <3>1. exec.c # NoContainer
      BY <2>1, NullsAssumption, Zenon DEF ExecOK
    <3>2. handler.wp = ExecPolicy => handler.spec \in exec'.window
      BY <1>5, <3>1, Zenon DEF HandlerCall, ExecPolicy, ExecOK, Execs
    <3> QED
      BY <3>2, Zenon DEF KeptInForce, Drops
  <2>4. /\ op'.wp = handler.wp /\ op'.spec = handler.spec
        /\ handler.spec # NoSpec => op'.kind = "reconcile"
        /\ UNCHANGED <<nextPolicyID, owner, policyValues, policySettings>>
    <3>1. CASE handler.spec = NoSpec
      BY <1>5, <2>2, <3>1, DeleteEffect, Zenon DEF HandlerCall, Started, bpfVars
    <3>2. CASE handler.spec # NoSpec
      BY <1>5, <2>2, <3>2, ReconcileEffect, Zenon DEF HandlerCall, Started, bpfVars
    <3> QED
      BY <3>1, <3>2, Zenon
  <2> QED
    BY <1>s, <2>1, <2>3, <2>4, Zenon
<1>6. CASE exec' = exec /\ OpStep
  <2>1. KeptInForce /\ exec.pc \in {"path", "settings"}
    BY <1>6, Zenon DEF KeptInForce, Drops
  <2>2. PICK q \in Policies, n \in ContainerNames :
          q = ExecPolicy /\ ExecPolicy' = q /\ n = ExecName /\ ExecName' = n
    BY <1>6, <1>w, <2>1, Zenon DEF ExecPolicy, ExecName
  <2>3. PICK id \in PolicyIDs : id = exec.id /\ exec'.id = id /\ AllocatedFor(id, <<q, n>>)
    BY <1>6, <1>w, <2>1, <2>2, Zenon
  <2>4. op.wp = q => op.kind # "delete" /\ (op.kind = "reconcile" => op.spec \in exec.window)
    BY <1>w, <2>1, <2>2, Zenon
  <2>5. op.wp = q => op.kind # "delete" /\ (op.kind = "reconcile" => n \in op.spec.containers)
    BY <2>1, <2>2, <2>4, Zenon DEF KeptInForce, Drops, ExecName
  <2>6. IDsCarried /\ ProgressOK
    BY Zenon DEF ReadyInv
  <2>7. /\ AllocatedFor(id, <<q, n>>)'
        /\ \A e \in Executables :
             \/ e \in policyValues'[id] <=> e \in policyValues[id]
             \/ /\ op.kind = "reconcile" /\ op.wp = q
                /\ e \in policyValues'[id] <=> e \in op.spec.rules[n].allowed
        /\ \/ policySettings'[id] = policySettings[id]
           \/ /\ op.kind = "reconcile" /\ op.wp = q
              /\ policySettings'[id] = SettingsOf(op.spec, n)
    BY <1>6, <2>3, <2>5, <2>6, WritesFrame, Zenon
  <2>8. op'.kind = op.kind /\ (op.kind # "add" => op'.wp = op.wp /\ op'.spec = op.spec)
    BY <1>6, <2>6, OpFrame, Zenon
  <2>9. \A e \in Executables : \E s \in exec'.window :
          e \in policyValues'[id] <=> e \in s.rules[n].allowed
    BY <1>6, <1>w, <2>1, <2>2, <2>3, <2>4, <2>7, Zenon
  <2>10. \E s \in exec'.window : policySettings'[id] = SettingsOf(s, n)
    BY <1>6, <1>w, <2>1, <2>2, <2>3, <2>4, <2>7, Zenon
  <2>11. id # 0
    BY <1>w, <2>1, <2>3, Zenon
  <2>12. AllocatedFor(exec.id, <<ExecPolicy, ExecName>>)'
    BY <2>2, <2>3, <2>7, Zenon DEF AllocatedFor
  <2> QED
    BY <1>6, <2>2, <2>3, <2>4, <2>8, <2>9, <2>10, <2>11, <2>12, Zenon DEF ExecFound, SettingsOf
<1>7. CASE /\ UNCHANGED <<exec, nextPolicyID, owner, policyValues, policySettings>>
           /\ op' \in {op, Idle} \/ op'.kind = "add"
  <2>1. KeptInForce /\ exec.pc \in {"path", "settings"}
    BY <1>7, Zenon DEF KeptInForce, Drops
  <2>2. op'.wp = ExecPolicy =>
          op'.kind # "delete" /\ (op'.kind = "reconcile" => op'.spec \in exec'.window)
    BY <1>7, <1>w, <2>1, IdleFields, Zenon
  <2> QED
    BY <1>7, <1>s, <2>1, <2>2, Zenon
<1> QED
  BY <1>1, <1>2, <1>3, <1>4, <1>5, <1>6, <1>7, ExecCases, Zenon

\* An exec that goes on to the settings was not listed by a spec in force.
LEMMA NotListedStep ==
  CallsOK /\ ExecOK /\ ExecFound /\ NotListed /\ [AgentNext]_agentVars
  => NotListed'
<1> SUFFICES ASSUME CallsOK, ExecOK, ExecFound, NotListed,
                    [AgentNext]_agentVars, exec'.pc = "settings", KeptInForce',
                    ~exec'.foreign
             PROVE  \E s \in exec'.window : ~(exec'.exe \subseteq s.rules[ExecName'].allowed)
  BY Zenon DEF NotListed
<1>1. CASE ExecLookup
  <2>1. /\ exec.pc = "path" /\ exec'.window = exec.window /\ exec'.c = exec.c
        /\ exec'.exe = exec.exe /\ exec'.foreign = exec.foreign
    BY <1>1, Zenon DEF ExecLookup, ExecOK, Execs
  <2>2. ~(exec.exe \subseteq policyValues[exec.id])
    BY <1>1, <2>1, Zenon DEF ExecLookup, ExecOK, Execs
  <2>3. KeptInForce
    BY <2>1, Zenon DEF KeptInForce, Drops
  <2>4. PICK e \in Executables : exec.exe = {e}
    BY <2>1, Zenon DEF ExecOK
  <2>5. \E s \in exec.window : e \in policyValues[exec.id] <=> e \in s.rules[ExecName].allowed
    BY <2>1, <2>3, Zenon DEF ExecFound
  <2> QED
    BY <2>1, <2>2, <2>4, <2>5, Zenon DEF ExecName
<1>2. ASSUME /\ exec'.pc = exec.pc /\ exec'.c = exec.c /\ exec'.exe = exec.exe
             /\ exec'.foreign = exec.foreign /\ exec.window \subseteq exec'.window
      PROVE  \E s \in exec'.window : ~(exec'.exe \subseteq s.rules[ExecName'].allowed)
  <2>1. KeptInForce
    BY <1>2, Zenon DEF KeptInForce, Drops
  <2> QED
    BY <1>2, <2>1, Zenon DEF NotListed, ExecName
<1>3. CASE HandlerCall
  BY <1>2, <1>3, Zenon DEF HandlerCall, ExecOK, Execs
<1>4. ASSUME NEW c \in ContainerIDs, NEW e \in Executables, NEW f \in Foreign, ExecBegin(c, e, f)
      PROVE  FALSE
  BY <1>4, Zenon DEF ExecBegin
<1>5. CASE ExecUnresolved \/ ExecSettings
  BY <1>5, Zenon DEF ExecUnresolved, ExecSettings, ExecOK, Execs
<1>6. CASE ExecEnd \/ AgentRestart
  BY <1>6, NoExecOK, Zenon DEF ExecEnd, AgentRestart
<1>7. CASE exec' = exec
  BY <1>2, <1>7, Zenon
<1> QED
  BY <1>1, <1>3, <1>4, <1>5, <1>6, <1>7, ExecCases, Zenon

\* A container that runs while the plugin is connected is bound to the rules of its
\* READY policy and tracked, unless the spec that is being reconciled drops it.
LEMMA RunningEnforced ==
  ASSUME IndInv, ReadyInv, CallersOK, RunningKnown, nri = "up", nriCall = "none", ~FailOpen,
         NEW c \in ContainerIDs, NEW wp \in Policies, phase[c] = "running",
         PolicyOf[PodOf[c]] = wp, wpState[wp].state = "ready", NameOf[c] \in Kept(wp)
  PROVE  c \in podCache[PodOf[c]] /\ Bound(c) /\ cgToPolicy[c] # 0
<1>1. Known(c) /\ op.kind # "add"
  BY Zenon DEF RunningKnown, CallersOK
<1>2. Covers(wp, c) /\ ~Excused(c)
  BY <1>1, Zenon DEF Known, Covers, Excused
<1>3. Bound(c)
  BY <1>2, Zenon DEF ReadyInv, ReadyBound
<1>4. wpState[wp].pol[NameOf[c]] # 0
  BY Zenon DEF ReadyInv, ReadyRules, RulesInMaps
<1> QED
  BY <1>1, <1>3, <1>4, Zenon DEF Known, Bound

\* The lookups of enforce_cgroup_policy let no forbidden exec through.
LEMMA EnforcementStep ==
  /\ IndInv /\ ReadyInv /\ CallsOK /\ CallersOK /\ RunningKnown /\ CachedTracked
  /\ ExecOK /\ ExecFound /\ EnforcementComplete /\ [AgentNext]_agentVars
  => EnforcementComplete'
<1> SUFFICES ASSUME IndInv, ReadyInv, CallsOK, CallersOK, RunningKnown, CachedTracked,
                    ExecOK, ExecFound, EnforcementComplete, [AgentNext]_agentVars,
                    exec'.pc = "done", exec'.claimed, faults' = 0,
                    \A s \in exec'.window : ForbiddenBy(s)'
             PROVE  exec'.verdict \in {"deny", "unresolved"}
  BY Zenon DEF EnforcementComplete
<1>0. faults = 0
  BY FaultsGrow, Zenon DEF ReadyInv
<1>1. ASSUME NEW c \in ContainerIDs, NEW e \in Executables, NEW f \in Foreign, ExecBegin(c, e, f)
      PROVE  FALSE
  <2>1. /\ exec'.c = c /\ exec'.window = InForce(c) /\ exec'.claimed = Claimed(c)
        /\ c \notin cgTracker \/ cgToPolicy[c] = 0
        /\ phase[c] = "running" /\ PolicyOf[PodOf[c]] # NoPolicy
    BY <1>1, Zenon DEF ExecBegin
  <2>2. PICK wp \in Policies : wp = PolicyOf[PodOf[c]]
    BY <2>1, ConstantsAssumption, Zenon
  <2>3. \A s \in InForce(c) : s # NoSpec /\ NameOf[c] \in s.containers
    BY <2>1, Zenon DEF ForbiddenBy
  <2>4. wpState[wp].state = "ready" /\ NameOf[c] \in Kept(wp)
    BY <2>2, <2>3, InForceSettled, Zenon
  <2>5. nri = "up" /\ nriCall = "none" /\ ~FailOpen
    BY <2>1, Zenon DEF Claimed
  <2>6. c \in podCache[PodOf[c]] /\ cgToPolicy[c] # 0
    BY <2>1, <2>2, <2>4, <2>5, RunningEnforced, Zenon
  <2>7. c \in cgTracker
    BY <1>0, <2>1, <2>6, Zenon DEF CachedTracked
  <2> QED
    BY <2>1, <2>6, <2>7, Zenon
<1>2. CASE ExecUnresolved
  BY <1>2, Zenon DEF ExecUnresolved, ExecOK, Execs
<1>3. ASSUME exec'.window = exec.window, exec'.c = exec.c
      PROVE  KeptInForce
  BY <1>3, Zenon DEF ForbiddenBy, KeptInForce, Drops
<1>4. CASE ExecLookup
  <2>1. /\ exec.pc = "path" /\ exec'.window = exec.window /\ exec'.c = exec.c
        /\ exec'.exe = exec.exe /\ exec'.foreign = exec.foreign
        /\ ~exec.foreign /\ exec.exe \subseteq policyValues[exec.id]
    BY <1>4, Zenon DEF ExecLookup, ExecOK, Execs
  <2>2. PICK e \in Executables : exec.exe = {e}
    BY <2>1, Zenon DEF ExecOK
  <2>3. PICK s \in exec.window :
          e \in policyValues[exec.id] <=> e \in s.rules[ExecName].allowed
    BY <1>3, <2>1, Zenon DEF ExecFound
  <2> QED
    BY <2>1, <2>2, <2>3, Zenon DEF ForbiddenBy, ExecName
<1>5. CASE ExecSettings
  <2>1. /\ exec.pc = "settings" /\ exec'.window = exec.window /\ exec'.c = exec.c
        /\ exec'.exe = exec.exe /\ exec'.foreign = exec.foreign
    BY <1>5, Zenon DEF ExecSettings, ExecOK, Execs
  <2>2. PICK s \in exec.window : policySettings[exec.id] = SettingsOf(s, ExecName)
    BY <1>3, <2>1, Zenon DEF ExecFound
  <2>3. s \in Specs /\ exec.c \in ContainerIDs
    BY <2>1, <2>2, Zenon DEF ExecOK, Execs, ForbiddenBy
  <2>4. s.mode = "protect" /\ (exec.foreign => ~s.rules[ExecName].foreign)
    BY <2>1, <2>2, Zenon DEF ForbiddenBy, ExecName
  <2>5. SettingsOf(s, ExecName) # NoSettings
    BY <2>3, ConstantsAssumption, NullsAssumption
    DEF SettingsOf, Settings, IsSpec, Rules, ExecName
  <2>6. /\ SettingsOf(s, ExecName).mode = "protect"
        /\ exec.foreign => ~SettingsOf(s, ExecName).foreign
    BY <2>4, Zenon DEF SettingsOf
  <2>7. exec'.verdict = "deny"
    BY <1>5, <2>2, <2>5, <2>6, Zenon DEF ExecSettings, ExecOK, Execs
  <2> QED
    BY <2>7, Zenon
<1>6. CASE ExecEnd \/ AgentRestart
  BY <1>6, NoExecOK, Zenon DEF ExecEnd, AgentRestart
<1>7. ASSUME /\ exec'.pc = exec.pc /\ exec'.c = exec.c /\ exec'.exe = exec.exe
             /\ exec'.foreign = exec.foreign /\ exec'.claimed = exec.claimed
             /\ exec'.verdict = exec.verdict /\ exec.window \subseteq exec'.window
      PROVE  exec'.verdict \in {"deny", "unresolved"}
  BY <1>0, <1>7, Zenon DEF EnforcementComplete, ForbiddenBy
<1>8. CASE HandlerCall
  BY <1>7, <1>8, Zenon DEF HandlerCall, ExecOK, Execs
<1>9. CASE exec' = exec
  BY <1>7, <1>9, Zenon
<1> QED
  BY <1>1, <1>2, <1>4, <1>5, <1>6, <1>8, <1>9, ExecCases, Zenon

\* A verdict is explained by the specs in force, which only get more.
LEMMA DenialStep ==
  CallsOK /\ ExecOK /\ ExecFound /\ NotListed /\ DenialExplained /\ [AgentNext]_agentVars
  => DenialExplained'
<1> SUFFICES ASSUME CallsOK, ExecOK, ExecFound, NotListed, DenialExplained,
                    [AgentNext]_agentVars, exec'.verdict = "deny"
             PROVE  DenialExplained'
  BY Zenon DEF DenialExplained
<1>1. ASSUME /\ exec'.c = exec.c /\ exec'.exe = exec.exe /\ exec'.foreign = exec.foreign
             /\ exec.verdict = "deny" /\ exec.window \subseteq exec'.window
      PROVE  DenialExplained'
  BY <1>1, Zenon DEF DenialExplained, Drops
<1>2. CASE ExecSettings
  <2>1. /\ exec.pc = "settings" /\ exec'.window = exec.window /\ exec'.c = exec.c
        /\ exec'.exe = exec.exe /\ exec'.foreign = exec.foreign
    BY <1>2, Zenon DEF ExecSettings, ExecOK, Execs
  <2>2. CASE ~KeptInForce
    BY <2>1, <2>2, Zenon DEF KeptInForce, DenialExplained, Drops
  <2>3. CASE KeptInForce
    <3>1. PICK s \in exec.window : policySettings[exec.id] = SettingsOf(s, ExecName)
      BY <2>1, <2>3, Zenon DEF ExecFound
    <3>2. s \in Specs
      BY <2>3, Zenon DEF ExecOK, Execs, KeptInForce, Drops
    <3>3. /\ SettingsOf(s, ExecName).mode # "monitor"
          /\ exec.foreign => ~SettingsOf(s, ExecName).foreign
      BY <1>2, <3>1, Zenon DEF ExecSettings, ExecOK, Execs
    <3>4. s.mode = "protect" /\ (exec.foreign => ~s.rules[ExecName].foreign)
      BY <3>2, <3>3, ConstantsAssumption, Zenon DEF SettingsOf, IsSpec, Modes
    <3>5. CASE exec.foreign
      BY <2>1, <3>4, <3>5, Zenon DEF DenialExplained, ExecName
    <3>6. CASE ~exec.foreign
      <4>1. \E t \in exec.window : ~(exec.exe \subseteq t.rules[ExecName].allowed)
        BY <2>1, <2>3, <3>6, Zenon DEF NotListed
      <4> QED
        BY <2>1, <3>4, <3>6, <4>1, Zenon DEF DenialExplained, ExecName
    <3> QED
      BY <3>5, <3>6, Zenon
  <2> QED
    BY <2>2, <2>3, Zenon
<1>3. ASSUME NEW c \in ContainerIDs, NEW e \in Executables, NEW f \in Foreign, ExecBegin(c, e, f)
      PROVE  FALSE
  BY <1>3, Zenon DEF ExecBegin
<1>4. CASE ExecUnresolved \/ ExecLookup
  BY <1>4, Zenon DEF ExecUnresolved, ExecLookup, ExecOK, Execs
<1>5. CASE ExecEnd \/ AgentRestart
  BY <1>5, NoExecOK, Zenon DEF ExecEnd, AgentRestart
<1>6. CASE HandlerCall
  BY <1>1, <1>6, Zenon DEF HandlerCall, ExecOK, Execs
<1>7. CASE exec' = exec
  BY <1>1, <1>7, Zenon
<1> QED
  BY <1>2, <1>3, <1>4, <1>5, <1>6, <1>7, ExecCases, Zenon

-----------------------------------------------------------------------------
(* The invariant, and what it gives of the whole agent.                    *)

\* The inductive invariant of the agent.
AgentInv ==
  /\ IndInv /\ ReadyInv
  /\ CallsOK /\ PartiesOK /\ CallersOK /\ RunningKnown /\ CachedTracked /\ StaysBound
  /\ ExecOK /\ ExecFound /\ NotListed /\ EnforcementComplete /\ DenialExplained

\* The agent starts disconnected, with nothing cached and no exec in progress.
LEMMA AgentInvInit == AgentInit => AgentInv
<1> SUFFICES ASSUME AgentInit PROVE AgentInv
  BY Zenon
<1>1. Init /\ IndInv /\ ReadyInv
  BY InitInv, ReadyInvInit, Zenon DEF AgentInit
<1>2. CallsOK
  BY CallsInit, Zenon
<1>3. PartiesOK
  BY Zenon DEF AgentInit, PartiesOK, NoProbe
<1>4. /\ op.kind = "none"
      /\ \A c \in ContainerIDs : c \notin podCache[PodOf[c]] /\ cgToPolicy[c] = 0
  BY <1>1, ConstantsAssumption, Zenon DEF Init, FreshAgent, Idle
<1>5. CallersOK /\ RunningKnown
  BY <1>4, Zenon DEF AgentInit, CallersOK, RunningKnown, NoHandler
<1>6. CachedTracked /\ StaysBound
  BY <1>4, Zenon DEF CachedTracked, StaysBound
<1>7. exec = NoExec
  BY Zenon DEF AgentInit
<1>8. ExecOK
  BY <1>7, NoExecOK, Zenon DEF ExecOK
<1>9. ExecFound /\ NotListed /\ EnforcementComplete /\ DenialExplained
  BY <1>7, NoExecOK, Zenon DEF ExecFound, NotListed, EnforcementComplete, DenialExplained
<1> QED
  BY <1>1, <1>2, <1>3, <1>5, <1>6, <1>8, <1>9, Zenon DEF AgentInv

\* Every step of the runtime, the API server, the agent and the kernel keeps it.
LEMMA AgentInvStep == AgentInv /\ [AgentNext]_agentVars => AgentInv'
<1> SUFFICES ASSUME AgentInv, [AgentNext]_agentVars PROVE AgentInv'
  OBVIOUS
<1>1. /\ IndInv /\ ReadyInv /\ ProgressOK
      /\ CallsOK /\ PartiesOK /\ CallersOK /\ RunningKnown /\ CachedTracked /\ StaysBound
      /\ ExecOK /\ ExecFound /\ NotListed /\ EnforcementComplete /\ DenialExplained
  BY Zenon DEF AgentInv, ReadyInv
<1>2. [Next]_resolverVars
  BY <1>1, StepRefines, Zenon
<1>3. IndInv' /\ ReadyInv'
  BY <1>1, <1>2, NextInv, ReadyInvStep, Zenon
<1>4. CallsOK' /\ PartiesOK' /\ CallersOK'
  BY <1>1, CallsStep, PartiesStep, CallersStep, Zenon
<1>5. RunningKnown' /\ CachedTracked' /\ StaysBound'
  BY <1>1, RunningKnownStep, CachedTrackedStep, StaysBoundStep, Zenon
<1>6. ExecOK' /\ ExecFound' /\ NotListed'
  BY <1>1, ExecStep, ExecFoundStep, NotListedStep, Zenon
<1>7. EnforcementComplete' /\ DenialExplained'
  BY <1>1, EnforcementStep, DenialStep, Zenon
<1> QED
  BY <1>3, <1>4, <1>5, <1>6, <1>7, Zenon DEF AgentInv

\* The invariant holds throughout, for every set of containers, policies, specs and
\* executables and for every bound.
THEOREM AgentInvariance == AgentSpec => []AgentInv
  BY AgentInvInit, AgentInvStep, PTL DEF AgentSpec

\* The variables of the runtime, the plugin, the handler, the probe and the kernel
\* keep their types.
THEOREM AgentTypes == AgentSpec => []AgentTypeOK
<1>1. AgentInv => AgentTypeOK
  BY Zenon DEF AgentInv, CallsOK, PartiesOK, ExecOK, Execs, AgentTypeOK
<1> QED
  BY <1>1, AgentInvariance, PTL

\* With the lock free, what covers a running container is enforced on it.
LEMMA CoveredEnforced ==
  ASSUME AgentInv, nri = "up", nriCall = "none", Unlocked, ~FailOpen
  PROVE  \A c \in ContainerIDs, wp \in Policies : Covered(c, wp) => Enforced(c, applied[wp])
<1> SUFFICES ASSUME NEW c \in ContainerIDs, NEW wp \in Policies, Covered(c, wp)
             PROVE  Enforced(c, applied[wp])
  BY Zenon
<1>1. IndInv /\ ReadyInv /\ CallersOK /\ RunningKnown
  BY Zenon DEF AgentInv
<1>2. op.kind = "none"
  BY <1>1, Zenon DEF Unlocked, ReadyInv, ProgressOK
<1>3. /\ phase[c] = "running" /\ PolicyOf[PodOf[c]] = wp /\ wpState[wp].state = "ready"
      /\ NameOf[c] \in Kept(wp)
  BY <1>2, Zenon DEF Covered, Kept, Busy
<1>4. InPlace(wp) = {applied[wp]}
  BY <1>2, Zenon DEF InPlace, Busy
<1>5. Bound(c) /\ cgToPolicy[c] # 0
  BY <1>1, <1>3, RunningEnforced, Zenon
<1>6. RulesInMaps(wp)
  BY <1>1, <1>3, Zenon DEF ReadyInv, ReadyRules
<1>7. /\ policyValues[cgToPolicy[c]] = applied[wp].rules[NameOf[c]].allowed
      /\ policySettings[cgToPolicy[c]] = SettingsOf(applied[wp], NameOf[c])
  <2>1. cgToPolicy[c] = wpState[wp].pol[NameOf[c]]
    BY <1>3, <1>5, Zenon DEF Bound
  <2>2. /\ \E s \in InPlace(wp) :
             policyValues[wpState[wp].pol[NameOf[c]]] = s.rules[NameOf[c]].allowed
        /\ \E s \in InPlace(wp) :
             policySettings[wpState[wp].pol[NameOf[c]]] = SettingsOf(s, NameOf[c])
    BY <1>3, <1>6, Zenon DEF RulesInMaps
  <2> QED
    BY <1>4, <2>1, <2>2, Zenon
<1> QED
  BY <1>5, <1>7, Zenon DEF Enforced, SettingsOf

\* While the plugin is connected and failOpen is off, a READY policy is enforced on
\* every running container it covers: a StartContainer or Synchronize that fails,
\* a lost connection and a restart of the agent open no gap.
THEOREM ConnectedBound == AgentSpec => []ConnectedMeansBound
<1>1. AgentInv => ConnectedMeansBound
  BY CoveredEnforced, Zenon DEF ConnectedMeansBound
<1> QED
  BY <1>1, AgentInvariance, PTL

\* While no map call failed, these containers are in cgtracker_map as well.  After
\* a failed write of that map the retry of Synchronize skips the container, which
\* is cached by then, so the property without the condition does not hold.
THEOREM ConnectedTracked == AgentSpec => [](faults = 0 => ConnectedMeansTracked)
<1>1. AgentInv => (faults = 0 => ConnectedMeansTracked)
  <2> SUFFICES ASSUME AgentInv, faults = 0, nri = "up", ~FailOpen,
                      NEW c \in ContainerIDs, phase[c] = "running"
               PROVE  c \in cgTracker
    BY Zenon DEF ConnectedMeansTracked, Covered
  <2>1. RunningKnown /\ CallersOK /\ CachedTracked
    BY Zenon DEF AgentInv
  <2>2. Known(c)
    BY <2>1, Zenon DEF RunningKnown, CallersOK
  <2> QED
    BY <2>1, <2>2, Zenon DEF CachedTracked, Known
<1> QED
  BY <1>1, AgentInvariance, PTL

\* No interleaving of the lookups of enforce_cgroup_policy with a reconcile, an NRI
\* event or a resynchronization lets an exec through that every spec in force
\* meanwhile forbids in protect mode.
THEOREM ForbiddenDenied == AgentSpec => []EnforcementComplete
<1>1. AgentInv => EnforcementComplete
  BY Zenon DEF AgentInv
<1> QED
  BY <1>1, AgentInvariance, PTL

\* Every denial is explained by the specs in force during the exec, also when map
\* calls fail half way through a reconcile.
THEOREM DenialsExplained == AgentSpec => []DenialExplained
<1>1. AgentInv => DenialExplained
  BY Zenon DEF AgentInv
<1> QED
  BY <1>1, AgentInvariance, PTL

\* HasSynced succeeds only when every listed policy is enforced in its listed mode on
\* all the running containers it covers, so that the old agent may stop.
THEOREM ProbeTruthful == AgentSpec => ProbeMeansEnforced
<1> DEFINE Probe ==
      ~hasSynced /\ hasSynced' /\ nri = "up" /\ nriCall = "none" /\ ~FailOpen =>
        \A wp \in Policies : probe.list[wp] # NoSpec =>
          /\ applied[wp] # NoSpec /\ applied[wp].mode = probe.list[wp].mode
          /\ \A c \in ContainerIDs : Covered(c, wp) => Enforced(c, applied[wp])
<1>1. AgentInv /\ [AgentNext]_agentVars => [Probe]_agentVars
  <2> SUFFICES ASSUME AgentInv, [AgentNext]_agentVars, ~hasSynced, hasSynced', nri = "up",
                      nriCall = "none", ~FailOpen, NEW wp \in Policies, probe.list[wp] # NoSpec
               PROVE  /\ applied[wp] # NoSpec /\ applied[wp].mode = probe.list[wp].mode
                      /\ \A c \in ContainerIDs : Covered(c, wp) => Enforced(c, applied[wp])
    BY Zenon
  <2>1. ProbeStatuses
    BY Zenon DEF AgentNext, NriNext, HandlerNext, ExecNext, ResolverStep, AgentRestart, agentVars,
       handlerVars, Connect, SyncReturn, SyncDone, Disconnect, StartReturn, SyncPod, StartContainer,
       RemoveContainer, Unattended, Exit, ReleaseCgroup, ChangePolicy, HandlerGet, HandlerCall,
       HandlerReturn, ProbeList, ExecBegin, ExecUnresolved, ExecLookup, ExecSettings, ExecEnd
  <2>2. Unlocked /\ PoliciesReady
    BY <2>1, Zenon DEF ProbeStatuses
  <2>3. wpState[wp].state = "ready" /\ wpState[wp].mode = probe.list[wp].mode
    BY <2>2, Zenon DEF PoliciesReady
  <2>4. RulesInMaps(wp)
    BY <2>3, Zenon DEF AgentInv, ReadyInv, ReadyRules
  <2>5. applied[wp] # NoSpec /\ applied[wp].mode = probe.list[wp].mode
    BY <2>3, <2>4, NullsAssumption, Zenon DEF RulesInMaps
  <2> QED
    BY <2>2, <2>5, CoveredEnforced, Zenon
<1> QED
  BY <1>1, AgentInvariance, PTL DEF AgentSpec, ProbeMeansEnforced

\* What is proved of the resolver alone holds in the whole agent.
THEOREM AgentReadyTruthful ==
  AgentSpec => [](ReadyMeansEnforced /\ NoOrphanIDs /\ BoundIsResolvable)
  BY AgentRefinesResolver, ReadyTruthful, NothingLeftBehind, BoundResolvable, PTL
=============================================================================
