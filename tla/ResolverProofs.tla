--------------------------- MODULE ResolverProofs ---------------------------
(***************************************************************************)
(* For any pods, containers, policies and specs, and any number of failed  *)
(* map calls: the resolver is type correct, and no cgroup is ever bound to *)
(* the rules of another policy or of another container.                    *)
(***************************************************************************)
EXTENDS Resolver, TLAPS

-----------------------------------------------------------------------------
(* The inductive invariant. *)

\* The operation is at work on the pod op.pod.
AtPod == \/ op.pc \in {"track", "unbind", "bind"}
         \/ op.kind = "reconcile" /\ op.pc \in {"clearValues", "clearSettings"}

\* What the operation that holds the lock has read so far.
OpOK ==
  /\ op.pc \in {"values", "settings", "pods", "unbind"} => op.kind = "reconcile"
  /\ op.pc \in {"clearValues", "clearSettings"} => op.kind \in {"reconcile", "delete"}
  /\ op.pc = "rmPolicy" => op.kind = "delete"
  /\ op.pc = "track" => op.kind = "add"
  /\ op.pc = "bind" => op.kind \in {"add", "reconcile"} /\ op.wp \in Policies
  /\ op.kind = "reconcile" => op.wp \in Policies /\ op.spec \in Specs
  /\ op.kind = "delete" => op.wp \in Policies
  /\ op.pc \in {"settings", "clearValues", "clearSettings"} => op.name \in ContainerNames
  /\ op.kind \in {"none", "add"} => op.ids = NoIDs /\ op.pods = {}
  /\ AtPod => op.pod \in Pods

\* Pods hold only their own containers, and the operation visits only pods of
\* its policy and containers of its pod.
PodsOK ==
  /\ \A p \in Pods : \A c \in podCache[p] : PodOf[c] = p
  /\ AtPod => \A c \in op.cs : PodOf[c] = op.pod
  /\ \A p \in op.pods : PolicyOf[p] = op.wp
  /\ AtPod /\ op.pc # "track" => PolicyOf[op.pod] = op.wp

\* An ID is in use for o: it was allocated for o.
AllocatedFor(id, o) == id # 0 => id < nextPolicyID /\ owner[id] = o

\* Every place that holds an ID holds one that was allocated for that place.
IDsOwned ==
  /\ \A wp \in Policies, n \in ContainerNames : AllocatedFor(wpState[wp].pol[n], <<wp, n>>)
  /\ \A n \in ContainerNames : AllocatedFor(op.ids[n], <<op.wp, n>>)
  /\ \A c \in ContainerIDs : AllocatedFor(cgToPolicy[c], <<PolicyOf[PodOf[c]], NameOf[c]>>)

IndInv == TypeOK /\ OpOK /\ PodsOK /\ IDsOwned

\* NewResolver establishes the invariant: nothing is cached and no ID allocated.
LEMMA InitInv == Init => IndInv
<1> SUFFICES ASSUME Init PROVE IndInv
  OBVIOUS
<1> USE DEF Init, FreshAgent, Idle, NilInfo, NoIDs
<1>1. TypeOK
  BY ConstantsAssumption DEF TypeOK, CacheTypeOK, MapsTypeOK, HistoryTypeOK, WPInfos, Ops, OpKinds,
     OpPcs, PolicyIDs
<1>2. OpOK /\ PodsOK
  BY DEF OpOK, PodsOK, AtPod
<1>3. IDsOwned
  BY DEF IDsOwned, AllocatedFor
<1> QED
  BY <1>1, <1>2, <1>3 DEF IndInv

\* Recording an error changes the status of the policy and nothing else.
LEMMA StatusOnErrorLemma ==
  ASSUME TypeOK, OpOK, StatusOnError
  PROVE  /\ wpState' \in [Policies -> WPInfos]
         /\ \A wp \in Policies : wpState'[wp].pol = wpState[wp].pol
<1>1. CASE op.kind = "reconcile"
  <2>1. op.wp \in Policies /\ op.spec.mode \in Modes
    BY <1>1, ConstantsAssumption DEF OpOK, IsSpec
  <2>2. wpState' = [wpState EXCEPT ![op.wp] =
                      [wpState[op.wp] EXCEPT !.state = "error", !.mode = op.spec.mode]]
    BY <1>1 DEF StatusOnError, TypeOK, CacheTypeOK
  <2> QED
    BY <2>1, <2>2 DEF TypeOK, CacheTypeOK, WPInfos
<1>2. CASE op.kind # "reconcile"
  BY <1>2 DEF StatusOnError, TypeOK, CacheTypeOK
<1> QED
  BY <1>1, <1>2

\* The record that stands for an unlocked resolver is well formed.
LEMMA IdleType == Idle \in Ops
  BY ConstantsAssumption DEF Idle, Ops, OpKinds, OpPcs, NoIDs

\* A values call that fails leaves a set of executables behind.
LEMMA WrittenUpToLemma ==
  ASSUME TypeOK, NEW id, NEW new \in SUBSET Executables, PolicyUpdateBinariesFails(id, new)
  PROVE  policyValues' \in [PolicyIDs -> SUBSET Executables]
<1>1. PICK i \in 0 .. 10 : policyValues' = [policyValues EXCEPT ![id] = WrittenUpTo(@, new, i)]
  BY DEF PolicyUpdateBinariesFails
<1> QED
  BY <1>1 DEF TypeOK, MapsTypeOK, WrittenUpTo

\* IDs that are kept, dropped, or copied from the policy they belong to, stay
\* owned as long as none is allocated.
LEMMA FrameLemma ==
  ASSUME IndInv, UNCHANGED <<owner, nextPolicyID>>,
         \A wp \in Policies, n \in ContainerNames :
           wpState'[wp].pol[n] \in {0, wpState[wp].pol[n]},
         \A n \in ContainerNames :
           \/ op'.ids[n] = 0
           \/ op'.wp = op.wp /\ op'.ids[n] = op.ids[n]
           \/ op'.wp \in Policies /\ op'.ids[n] = wpState[op'.wp].pol[n],
         \A c \in ContainerIDs :
           \/ cgToPolicy'[c] \in {0, cgToPolicy[c]}
           \/ /\ PolicyOf[PodOf[c]] \in Policies
              /\ cgToPolicy'[c] = wpState[PolicyOf[PodOf[c]]].pol[NameOf[c]]
  PROVE  IDsOwned'
<1>1. \A id, o : AllocatedFor(id, o)' <=> AllocatedFor(id, o)
  BY DEF AllocatedFor
<1>2. \A o : AllocatedFor(0, o)
  BY DEF AllocatedFor
<1>3. \A wp \in Policies, n \in ContainerNames : AllocatedFor(wpState[wp].pol[n], <<wp, n>>)'
  BY <1>1, <1>2 DEF IndInv, IDsOwned
<1>4. \A n \in ContainerNames : AllocatedFor(op.ids[n], <<op.wp, n>>)'
  BY <1>1, <1>2 DEF IndInv, IDsOwned
<1>5. \A c \in ContainerIDs : AllocatedFor(cgToPolicy[c], <<PolicyOf[PodOf[c]], NameOf[c]>>)'
  BY <1>1, <1>2, ConstantsAssumption DEF IndInv, IDsOwned
<1> QED
  BY <1>3, <1>4, <1>5 DEF IDsOwned

\* allocPolicyID gives an ID to one place and takes none away.
LEMMA AllocationLemma ==
  ASSUME IndInv, NEW n \in ContainerNames, AllocPolicyID(n)
  PROVE  /\ \A id, o : id \in 0 .. MaxPolicyID /\ AllocatedFor(id, o) => AllocatedFor(id, o)'
         /\ wpState[op.wp].pol[n] = 0 =>
              nextPolicyID < nextPolicyID' /\ owner'[nextPolicyID] = <<op.wp, n>>
<1>1. CASE wpState[op.wp].pol[n] # 0
  BY <1>1 DEF AllocPolicyID, AllocatedFor
<1>2. CASE wpState[op.wp].pol[n] = 0
  <2>1. /\ nextPolicyID \in PolicyIDs
        /\ nextPolicyID' = nextPolicyID + 1
        /\ owner' = [owner EXCEPT ![nextPolicyID] = <<op.wp, n>>]
    BY <1>2 DEF AllocPolicyID
  <2>2. DOMAIN owner = PolicyIDs
    BY DEF IndInv, TypeOK, HistoryTypeOK
  <2>3. ASSUME NEW id \in 0 .. MaxPolicyID, id # 0, id < nextPolicyID
        PROVE  id < nextPolicyID' /\ owner'[id] = owner[id]
    BY <2>1, <2>2, <2>3, ConstantsAssumption DEF PolicyIDs
  <2>4. nextPolicyID < nextPolicyID' /\ owner'[nextPolicyID] = <<op.wp, n>>
    BY <2>1, <2>2, ConstantsAssumption DEF PolicyIDs
  <2> QED
    BY <1>2, <2>3, <2>4 DEF AllocatedFor
<1> QED
  BY <1>1, <1>2

\* The caches keep their types.
LEMMA CacheTypeOKStep == IndInv /\ [Next]_resolverVars => CacheTypeOK'
<1> SUFFICES ASSUME IndInv, [Next]_resolverVars PROVE CacheTypeOK'
  OBVIOUS
<1> USE DEF cacheVars, bpfVars, history
<1>1. ASSUME NEW p \in Pods, NEW cs \in SUBSET {c \in ContainerIDs : PodOf[c] = p}, AddPodContainerFromNri(p, cs) PROVE CacheTypeOK'
  BY <1>1, ConstantsAssumption DEF AddPodContainerFromNri, IndInv, TypeOK, CacheTypeOK, OpOK,
     Ops, WPInfos, Idle, NoIDs
<1>2. ASSUME NEW c \in ContainerIDs, TrackContainer(c) PROVE CacheTypeOK'
  BY <1>2, ConstantsAssumption DEF TrackContainer, Ok, IndInv, TypeOK, CacheTypeOK, OpOK, Ops,
     WPInfos
<1>3. ASSUME NEW c \in ContainerIDs, TrackContainerFails(c) PROVE CacheTypeOK'
  BY <1>3, ConstantsAssumption DEF TrackContainerFails, Fault, Finish, IndInv, TypeOK,
     CacheTypeOK, OpOK, Ops, WPInfos
<1>4. CASE ApplyPolicyToPodIfPresent
  BY <1>4, ConstantsAssumption DEF ApplyPolicyToPodIfPresent, Finish, IndInv, TypeOK,
     CacheTypeOK, OpOK, Ops, WPInfos
<1>5. ASSUME NEW c \in ContainerIDs, BindContainer(c) PROVE CacheTypeOK'
  BY <1>5, ConstantsAssumption DEF BindContainer, Ok, AddPolicyToCgroup, Overlapping, IndInv,
     TypeOK, CacheTypeOK, OpOK, Ops, WPInfos
<1>6. ASSUME NEW c \in ContainerIDs, BindContainerFails(c) PROVE CacheTypeOK'
  BY <1>6, StatusOnErrorLemma, ConstantsAssumption DEF BindContainerFails, Ok, Fault, Abort,
     Finish, IndInv, TypeOK, CacheTypeOK, OpOK, Ops, WPInfos
<1>7. CASE PodBound
  BY <1>7, ConstantsAssumption DEF PodBound, Finish, IndInv, TypeOK, CacheTypeOK, OpOK, Ops,
     WPInfos
<1>8. ASSUME NEW c \in ContainerIDs, RemovePodContainerFromNri(c) PROVE CacheTypeOK'
  BY <1>8, ConstantsAssumption DEF RemovePodContainerFromNri, RemoveCgroup, Ok, Fault, IndInv,
     TypeOK, CacheTypeOK, OpOK, Ops, WPInfos
<1>9. ASSUME NEW wp \in Policies, NEW spec \in Specs, ReconcileWP(wp, spec) PROVE CacheTypeOK'
  <2>1. wpState' = [wpState EXCEPT ![wp] = [wpState[wp] EXCEPT !.live = TRUE]]
    BY <1>9 DEF ReconcileWP
  <2>2. wpState' \in [Policies -> WPInfos]
    BY <2>1 DEF IndInv, TypeOK, CacheTypeOK, WPInfos
  <2> QED
    BY <1>9, <2>2 DEF ReconcileWP, IndInv, TypeOK, CacheTypeOK
<1>10. ASSUME NEW n \in ContainerNames, UpsertValues(n) PROVE CacheTypeOK'
  <2>1. nextPolicyID' \in 1 .. MaxPolicyID + 1
    BY <1>10, ConstantsAssumption DEF UpsertValues, AllocPolicyID, PolicyIDs, IndInv, TypeOK, CacheTypeOK
  <2> QED
    BY <1>10, <2>1 DEF UpsertValues, IndInv, TypeOK, CacheTypeOK
<1>11. ASSUME NEW n \in ContainerNames, UpsertValuesFails(n) PROVE CacheTypeOK'
  <2>1. nextPolicyID' \in 1 .. MaxPolicyID + 1
    BY <1>11, ConstantsAssumption DEF UpsertValuesFails, AllocPolicyID, PolicyIDs, IndInv, TypeOK, CacheTypeOK
  <2>2. wpState' \in [Policies -> WPInfos]
    BY <1>11, StatusOnErrorLemma DEF UpsertValuesFails, Abort, IndInv
  <2> QED
    BY <1>11, <2>1, <2>2 DEF UpsertValuesFails, IndInv, TypeOK, CacheTypeOK
<1>12. CASE UpsertSettings
  BY <1>12, ConstantsAssumption DEF UpsertSettings, CurrentID, PolicySettingsUpdate, Ok, IndInv,
     TypeOK, CacheTypeOK, OpOK, Ops, WPInfos
<1>13. CASE UpsertSettingsFails
  BY <1>13, StatusOnErrorLemma, ConstantsAssumption DEF UpsertSettingsFails, Fault, Abort,
     Finish, IndInv, TypeOK, CacheTypeOK, OpOK, Ops, WPInfos
<1>14. CASE SplitAppliedRemoved
  <2>1. op.wp \in Policies
    BY <1>14 DEF SplitAppliedRemoved, IndInv, OpOK
  <2>2. MergeNewContainers \in [ContainerNames -> 0 .. MaxPolicyID]
    BY <2>1 DEF MergeNewContainers, IndInv, TypeOK, CacheTypeOK, WPInfos, Ops
  <2>3. wpState' = [wpState EXCEPT ![op.wp] = [wpState[op.wp] EXCEPT !.pol = MergeNewContainers]]
    BY <1>14 DEF SplitAppliedRemoved
  <2>4. wpState' \in [Policies -> WPInfos]
    BY <2>1, <2>2, <2>3 DEF IndInv, TypeOK, CacheTypeOK, WPInfos
  <2> QED
    BY <1>14, <2>4 DEF SplitAppliedRemoved, IndInv, TypeOK, CacheTypeOK
<1>15. ASSUME NEW p \in Pods, VisitPod(p) PROVE CacheTypeOK'
  BY <1>15, ConstantsAssumption DEF VisitPod, IndInv, TypeOK, CacheTypeOK, OpOK, Ops, WPInfos
<1>16. ASSUME NEW c \in ContainerIDs, UnbindContainer(c) PROVE CacheTypeOK'
  BY <1>16, ConstantsAssumption DEF UnbindContainer, RemoveCgroup, Ok, IndInv, TypeOK,
     CacheTypeOK, OpOK, Ops, WPInfos
<1>17. ASSUME NEW c \in ContainerIDs, UnbindContainerFails(c) PROVE CacheTypeOK'
  BY <1>17, StatusOnErrorLemma, ConstantsAssumption DEF UnbindContainerFails, Fault, Abort,
     Finish, IndInv, TypeOK, CacheTypeOK, OpOK, Ops, WPInfos
<1>18. CASE PodUnbound
  BY <1>18, ConstantsAssumption DEF PodUnbound, IndInv, TypeOK, CacheTypeOK, OpOK, Ops, WPInfos
<1>19. CASE ReconcileDone
  <2>1. op.wp \in Policies /\ op.spec.mode \in Modes
    BY <1>19, ConstantsAssumption DEF ReconcileDone, IndInv, OpOK, IsSpec
  <2>2. wpState' = [wpState EXCEPT ![op.wp] =
                      [wpState[op.wp] EXCEPT !.state = "ready", !.mode = op.spec.mode]]
    BY <1>19 DEF ReconcileDone
  <2>3. wpState' \in [Policies -> WPInfos]
    BY <2>1, <2>2 DEF IndInv, TypeOK, CacheTypeOK, WPInfos
  <2> QED
    BY <1>19, <2>3 DEF ReconcileDone, IndInv, TypeOK, CacheTypeOK
<1>20. ASSUME NEW wp \in Policies, HandleWPDelete(wp) PROVE CacheTypeOK'
  BY <1>20, ConstantsAssumption DEF HandleWPDelete, IndInv, TypeOK, CacheTypeOK, OpOK, Ops,
     WPInfos, Idle, NoIDs, NilInfo
<1>21. ASSUME NEW n \in ContainerNames, RemovePolicyStep(n) PROVE CacheTypeOK'
  BY <1>21, ConstantsAssumption DEF RemovePolicyStep, RemovePolicy, Ok, IndInv, TypeOK,
     CacheTypeOK, OpOK, Ops, WPInfos
<1>22. ASSUME NEW n \in ContainerNames, RemovePolicyStepFails(n) PROVE CacheTypeOK'
  BY <1>22, ConstantsAssumption DEF RemovePolicyStepFails, RemovePolicyFails, Fault, Finish,
     IndInv, TypeOK, CacheTypeOK, OpOK, Ops, WPInfos
<1>23. CASE DeleteDone
  BY <1>23, ConstantsAssumption DEF DeleteDone, Finish, IndInv, TypeOK, CacheTypeOK, OpOK, Ops,
     WPInfos
<1>24. CASE ClearValues
  BY <1>24, ConstantsAssumption DEF ClearValues, PolicyUpdateBinaries, Ok, IndInv, TypeOK,
     CacheTypeOK, OpOK, Ops, WPInfos
<1>25. CASE ClearValuesFails
  BY <1>25, StatusOnErrorLemma, ConstantsAssumption DEF ClearValuesFails,
     PolicyUpdateBinariesFails, WrittenUpTo, Fault, Abort, Finish, IndInv, TypeOK, CacheTypeOK,
     OpOK, Ops, WPInfos
<1>26. CASE ClearSettings
  <2>1. CASE op.kind = "reconcile"
    <3>1. wpState' = [wpState EXCEPT ![op.wp] =
                        [wpState[op.wp] EXCEPT !.pol = [wpState[op.wp].pol EXCEPT ![op.name] = 0]]]
      BY <1>26, <2>1 DEF ClearSettings
    <3>2. op.wp \in Policies
      BY <2>1 DEF IndInv, OpOK
    <3>3. [wpState[op.wp].pol EXCEPT ![op.name] = 0] \in [ContainerNames -> 0 .. MaxPolicyID]
      BY <1>26, <3>2, ConstantsAssumption DEF ClearSettings, IndInv, OpOK, TypeOK, CacheTypeOK, WPInfos
    <3>4. wpState' \in [Policies -> WPInfos]
      BY <3>1, <3>2, <3>3 DEF IndInv, TypeOK, CacheTypeOK, WPInfos
    <3> QED
      BY <1>26, <3>4 DEF ClearSettings, IndInv, TypeOK, CacheTypeOK
  <2>2. CASE op.kind # "reconcile"
    BY <1>26, <2>2 DEF ClearSettings, IndInv, TypeOK, CacheTypeOK
  <2> QED
    BY <2>1, <2>2
<1>27. CASE ClearSettingsFails
  BY <1>27, StatusOnErrorLemma, ConstantsAssumption DEF ClearSettingsFails, Fault, Abort,
     Finish, IndInv, TypeOK, CacheTypeOK, OpOK, Ops, WPInfos
<1>28. CASE Return
  BY <1>28, ConstantsAssumption DEF Return, IndInv, TypeOK, CacheTypeOK, OpOK, Ops, WPInfos,
     Idle, NoIDs
<1>29. ASSUME NEW c \in ContainerIDs, CgroupRelease(c) PROVE CacheTypeOK'
  BY <1>29, ConstantsAssumption DEF CgroupRelease, IndInv, TypeOK, CacheTypeOK, OpOK, Ops,
     WPInfos
<1>30. CASE Restart
  BY <1>30, ConstantsAssumption DEF Restart, IndInv, TypeOK, CacheTypeOK, OpOK, Ops, WPInfos,
     Idle, NoIDs, NilInfo
<1>31. CASE UNCHANGED resolverVars
  BY <1>31 DEF resolverVars, IndInv, TypeOK, CacheTypeOK, OpOK, Ops, WPInfos
<1> QED
  BY <1>1, <1>2, <1>3, <1>4, <1>5, <1>6, <1>7, <1>8, <1>9, <1>10, <1>11, <1>12, <1>13, <1>14,
     <1>15, <1>16, <1>17, <1>18, <1>19, <1>20, <1>21, <1>22, <1>23, <1>24, <1>25, <1>26, <1>27,
     <1>28, <1>29, <1>30, <1>31 DEF Next, OpStep

\* The kernel maps keep their types.
LEMMA MapsTypeOKStep == IndInv /\ [Next]_resolverVars => MapsTypeOK'
<1> SUFFICES ASSUME IndInv, [Next]_resolverVars PROVE MapsTypeOK'
  OBVIOUS
<1> USE DEF cacheVars, bpfVars, history
<1>1. ASSUME NEW p \in Pods, NEW cs \in SUBSET {c \in ContainerIDs : PodOf[c] = p}, AddPodContainerFromNri(p, cs) PROVE MapsTypeOK'
  BY <1>1, ConstantsAssumption DEF AddPodContainerFromNri, IndInv, TypeOK, CacheTypeOK,
     MapsTypeOK, OpOK, Ops, WPInfos, Idle, NoIDs
<1>2. ASSUME NEW c \in ContainerIDs, TrackContainer(c) PROVE MapsTypeOK'
  BY <1>2, ConstantsAssumption DEF TrackContainer, Ok, IndInv, TypeOK, CacheTypeOK, MapsTypeOK,
     OpOK, Ops, WPInfos
<1>3. ASSUME NEW c \in ContainerIDs, TrackContainerFails(c) PROVE MapsTypeOK'
  BY <1>3, ConstantsAssumption DEF TrackContainerFails, Fault, Finish, IndInv, TypeOK,
     CacheTypeOK, MapsTypeOK, OpOK, Ops, WPInfos
<1>4. CASE ApplyPolicyToPodIfPresent
  BY <1>4, ConstantsAssumption DEF ApplyPolicyToPodIfPresent, Finish, IndInv, TypeOK,
     CacheTypeOK, MapsTypeOK, OpOK, Ops, WPInfos
<1>5. ASSUME NEW c \in ContainerIDs, BindContainer(c) PROVE MapsTypeOK'
  <2>1. wpState[op.wp].pol[NameOf[c]] \in 0 .. MaxPolicyID
    BY <1>5, ConstantsAssumption DEF BindContainer, IndInv, OpOK, TypeOK, CacheTypeOK, WPInfos
  <2> QED
    BY <1>5, <2>1 DEF BindContainer, AddPolicyToCgroup, IndInv, TypeOK, MapsTypeOK
<1>6. ASSUME NEW c \in ContainerIDs, BindContainerFails(c) PROVE MapsTypeOK'
  BY <1>6, ConstantsAssumption DEF BindContainerFails, Ok, Fault, Abort, Finish, IndInv, TypeOK,
     CacheTypeOK, MapsTypeOK, OpOK, Ops, WPInfos
<1>7. CASE PodBound
  BY <1>7, ConstantsAssumption DEF PodBound, Finish, IndInv, TypeOK, CacheTypeOK, MapsTypeOK,
     OpOK, Ops, WPInfos
<1>8. ASSUME NEW c \in ContainerIDs, RemovePodContainerFromNri(c) PROVE MapsTypeOK'
  BY <1>8, ConstantsAssumption DEF RemovePodContainerFromNri, RemoveCgroup, Ok, Fault, IndInv,
     TypeOK, CacheTypeOK, MapsTypeOK, OpOK, Ops, WPInfos
<1>9. ASSUME NEW wp \in Policies, NEW spec \in Specs, ReconcileWP(wp, spec) PROVE MapsTypeOK'
  BY <1>9, ConstantsAssumption DEF ReconcileWP, IndInv, TypeOK, CacheTypeOK, MapsTypeOK, OpOK,
     Ops, WPInfos, Idle, NoIDs
<1>10. ASSUME NEW n \in ContainerNames, UpsertValues(n) PROVE MapsTypeOK'
  <2>1. op.spec.rules[n].allowed \in SUBSET Executables
    BY <1>10, ConstantsAssumption DEF UpsertValues, IndInv, OpOK, IsSpec, Rules
  <2> QED
    BY <1>10, <2>1 DEF UpsertValues, PolicyUpdateBinaries, IndInv, TypeOK, MapsTypeOK
<1>11. ASSUME NEW n \in ContainerNames, UpsertValuesFails(n) PROVE MapsTypeOK'
  <2>1. op.spec.rules[n].allowed \in SUBSET Executables
    BY <1>11, ConstantsAssumption DEF UpsertValuesFails, IndInv, OpOK, IsSpec, Rules
  <2>2. policyValues' \in [PolicyIDs -> SUBSET Executables]
    BY <1>11, <2>1, WrittenUpToLemma DEF UpsertValuesFails, IndInv, TypeOK
  <2> QED
    BY <1>11, <2>2 DEF UpsertValuesFails, IndInv, TypeOK, MapsTypeOK
<1>12. CASE UpsertSettings
  <2>1. op.name \in ContainerNames /\ op.spec \in Specs
    BY <1>12 DEF UpsertSettings, IndInv, OpOK
  <2>2. [mode |-> op.spec.mode, foreign |-> op.spec.rules[op.name].foreign] \in Settings
    BY <2>1, ConstantsAssumption DEF IsSpec, Rules, Settings
  <2> QED
    BY <1>12, <2>2 DEF UpsertSettings, PolicySettingsUpdate, IndInv, TypeOK, MapsTypeOK
<1>13. CASE UpsertSettingsFails
  BY <1>13, ConstantsAssumption DEF UpsertSettingsFails, Fault, Abort, Finish, IndInv, TypeOK,
     CacheTypeOK, MapsTypeOK, OpOK, Ops, WPInfos
<1>14. CASE SplitAppliedRemoved
  BY <1>14, ConstantsAssumption DEF SplitAppliedRemoved, MergeNewContainers, IndInv, TypeOK,
     CacheTypeOK, MapsTypeOK, OpOK, Ops, WPInfos
<1>15. ASSUME NEW p \in Pods, VisitPod(p) PROVE MapsTypeOK'
  BY <1>15, ConstantsAssumption DEF VisitPod, IndInv, TypeOK, CacheTypeOK, MapsTypeOK, OpOK,
     Ops, WPInfos
<1>16. ASSUME NEW c \in ContainerIDs, UnbindContainer(c) PROVE MapsTypeOK'
  BY <1>16, ConstantsAssumption DEF UnbindContainer, RemoveCgroup, Ok, IndInv, TypeOK,
     CacheTypeOK, MapsTypeOK, OpOK, Ops, WPInfos
<1>17. ASSUME NEW c \in ContainerIDs, UnbindContainerFails(c) PROVE MapsTypeOK'
  BY <1>17, ConstantsAssumption DEF UnbindContainerFails, Fault, Abort, Finish, IndInv, TypeOK,
     CacheTypeOK, MapsTypeOK, OpOK, Ops, WPInfos
<1>18. CASE PodUnbound
  BY <1>18, ConstantsAssumption DEF PodUnbound, IndInv, TypeOK, CacheTypeOK, MapsTypeOK, OpOK,
     Ops, WPInfos
<1>19. CASE ReconcileDone
  BY <1>19, ConstantsAssumption DEF ReconcileDone, Finish, IndInv, TypeOK, CacheTypeOK,
     MapsTypeOK, OpOK, Ops, WPInfos
<1>20. ASSUME NEW wp \in Policies, HandleWPDelete(wp) PROVE MapsTypeOK'
  BY <1>20, ConstantsAssumption DEF HandleWPDelete, IndInv, TypeOK, CacheTypeOK, MapsTypeOK,
     OpOK, Ops, WPInfos, Idle, NoIDs, NilInfo
<1>21. ASSUME NEW n \in ContainerNames, RemovePolicyStep(n) PROVE MapsTypeOK'
  BY <1>21, ConstantsAssumption DEF RemovePolicyStep, RemovePolicy, Ok, IndInv, TypeOK,
     CacheTypeOK, MapsTypeOK, OpOK, Ops, WPInfos
<1>22. ASSUME NEW n \in ContainerNames, RemovePolicyStepFails(n) PROVE MapsTypeOK'
  BY <1>22, ConstantsAssumption DEF RemovePolicyStepFails, RemovePolicyFails, Fault, Finish,
     IndInv, TypeOK, CacheTypeOK, MapsTypeOK, OpOK, Ops, WPInfos
<1>23. CASE DeleteDone
  BY <1>23, ConstantsAssumption DEF DeleteDone, Finish, IndInv, TypeOK, CacheTypeOK, MapsTypeOK,
     OpOK, Ops, WPInfos
<1>24. CASE ClearValues
  BY <1>24, ConstantsAssumption DEF ClearValues, PolicyUpdateBinaries, Ok, IndInv, TypeOK,
     CacheTypeOK, MapsTypeOK, OpOK, Ops, WPInfos
<1>25. CASE ClearValuesFails
  <2>1. policyValues' \in [PolicyIDs -> SUBSET Executables]
    BY <1>25, WrittenUpToLemma DEF ClearValuesFails, IndInv, TypeOK
  <2> QED
    BY <1>25, <2>1 DEF ClearValuesFails, IndInv, TypeOK, MapsTypeOK
<1>26. CASE ClearSettings
  BY <1>26, ConstantsAssumption DEF ClearSettings, PolicySettingsUpdate, Ok, IndInv, TypeOK,
     CacheTypeOK, MapsTypeOK, OpOK, Ops, WPInfos
<1>27. CASE ClearSettingsFails
  BY <1>27, ConstantsAssumption DEF ClearSettingsFails, Fault, Abort, Finish, IndInv, TypeOK,
     CacheTypeOK, MapsTypeOK, OpOK, Ops, WPInfos
<1>28. CASE Return
  BY <1>28, ConstantsAssumption DEF Return, IndInv, TypeOK, CacheTypeOK, MapsTypeOK, OpOK, Ops,
     WPInfos, Idle, NoIDs
<1>29. ASSUME NEW c \in ContainerIDs, CgroupRelease(c) PROVE MapsTypeOK'
  BY <1>29, ConstantsAssumption DEF CgroupRelease, IndInv, TypeOK, CacheTypeOK, MapsTypeOK,
     OpOK, Ops, WPInfos
<1>30. CASE Restart
  BY <1>30, ConstantsAssumption DEF Restart, IndInv, TypeOK, CacheTypeOK, MapsTypeOK, OpOK, Ops,
     WPInfos, Idle, NoIDs, NilInfo
<1>31. CASE UNCHANGED resolverVars
  BY <1>31 DEF resolverVars, IndInv, TypeOK, CacheTypeOK, MapsTypeOK, OpOK, Ops, WPInfos
<1> QED
  BY <1>1, <1>2, <1>3, <1>4, <1>5, <1>6, <1>7, <1>8, <1>9, <1>10, <1>11, <1>12, <1>13, <1>14,
     <1>15, <1>16, <1>17, <1>18, <1>19, <1>20, <1>21, <1>22, <1>23, <1>24, <1>25, <1>26, <1>27,
     <1>28, <1>29, <1>30, <1>31 DEF Next, OpStep

\* The operation record keeps its type.
LEMMA OpTypeStep == IndInv /\ [Next]_resolverVars => (op \in Ops)'
<1> SUFFICES ASSUME IndInv, [Next]_resolverVars PROVE (op \in Ops)'
  OBVIOUS
<1> USE DEF cacheVars, bpfVars, history
<1>1. ASSUME NEW p \in Pods, NEW cs \in SUBSET {c \in ContainerIDs : PodOf[c] = p}, AddPodContainerFromNri(p, cs) PROVE (op \in Ops)'
  BY <1>1, IdleType DEF AddPodContainerFromNri, Ops, OpKinds, OpPcs
<1>2. ASSUME NEW c \in ContainerIDs, TrackContainer(c) PROVE (op \in Ops)'
  BY <1>2, ConstantsAssumption DEF TrackContainer, Ok, IndInv, TypeOK, CacheTypeOK, OpOK, Ops,
     OpKinds, OpPcs, WPInfos, PolicyIDs, AtPod
<1>3. ASSUME NEW c \in ContainerIDs, TrackContainerFails(c) PROVE (op \in Ops)'
  BY <1>3, ConstantsAssumption DEF TrackContainerFails, Fault, Finish, IndInv, TypeOK,
     CacheTypeOK, OpOK, Ops, OpKinds, OpPcs, WPInfos, PolicyIDs, AtPod
<1>4. CASE ApplyPolicyToPodIfPresent
  <2> DEFINE wp == PolicyOf[op.pod]
  <2>1. ASSUME NEW failed \in BOOLEAN, Finish(failed) PROVE op' \in Ops
    BY <2>1 DEF Finish, IndInv, TypeOK, Ops, OpPcs
  <2>2. CASE wp # NoPolicy /\ op' = [op EXCEPT !.pc = "bind", !.wp = wp, !.names = ContainerNames,
                  !.cs = {c \in podCache[op.pod] : wpState[wp].pol[NameOf[c]] # 0}]
    <3>1. op.pod \in Pods
      BY <1>4 DEF ApplyPolicyToPodIfPresent, IndInv, OpOK, AtPod
    <3>2. wp \in Policies /\ podCache[op.pod] \subseteq ContainerIDs
      BY <2>2, <3>1, ConstantsAssumption DEF IndInv, TypeOK, CacheTypeOK
    <3> QED
      BY <2>2, <3>2 DEF IndInv, TypeOK, Ops, OpPcs
  <2> QED
    BY <1>4, <2>1, <2>2 DEF ApplyPolicyToPodIfPresent
<1>5. ASSUME NEW c \in ContainerIDs, BindContainer(c) PROVE (op \in Ops)'
  BY <1>5, ConstantsAssumption DEF BindContainer, Ok, AddPolicyToCgroup, Overlapping, IndInv,
     TypeOK, CacheTypeOK, OpOK, Ops, OpKinds, OpPcs, WPInfos, PolicyIDs, AtPod
<1>6. ASSUME NEW c \in ContainerIDs, BindContainerFails(c) PROVE (op \in Ops)'
  BY <1>6, ConstantsAssumption DEF BindContainerFails, Ok, Fault, Abort, Finish, IndInv, TypeOK,
     CacheTypeOK, OpOK, Ops, OpKinds, OpPcs, WPInfos, PolicyIDs, AtPod
<1>7. CASE PodBound
  <2>1. CASE Finish(FALSE)
    BY <2>1 DEF Finish, IndInv, TypeOK, Ops, OpPcs
  <2>2. CASE op' = [op EXCEPT !.pc = "pods"]
    BY <2>2 DEF IndInv, TypeOK, Ops, OpPcs
  <2> QED
    BY <1>7, <2>1, <2>2 DEF PodBound
<1>8. ASSUME NEW c \in ContainerIDs, RemovePodContainerFromNri(c) PROVE (op \in Ops)'
  BY <1>8, ConstantsAssumption DEF RemovePodContainerFromNri, RemoveCgroup, Ok, Fault, IndInv,
     TypeOK, CacheTypeOK, OpOK, Ops, OpKinds, OpPcs, WPInfos, PolicyIDs, AtPod
<1>9. ASSUME NEW wp \in Policies, NEW spec \in Specs, ReconcileWP(wp, spec) PROVE (op \in Ops)'
  BY <1>9, IdleType, ConstantsAssumption DEF ReconcileWP, Ops, OpKinds, OpPcs, IsSpec
<1>10. ASSUME NEW n \in ContainerNames, UpsertValues(n) PROVE (op \in Ops)'
  <2> DEFINE ids == [op.ids EXCEPT ![n] = IF wpState[op.wp].pol[n] = 0 THEN nextPolicyID ELSE 0]
  <2>1. ids \in [ContainerNames -> 0 .. MaxPolicyID]
    BY <1>10, ConstantsAssumption DEF UpsertValues, AllocPolicyID, PolicyIDs, IndInv, TypeOK, CacheTypeOK, Ops
  <2>2. op' = [op EXCEPT !.pc = "settings", !.names = op.names \ {n}, !.name = n, !.ids = ids]
    BY <1>10 DEF UpsertValues, IndInv, TypeOK, Ops
  <2> QED
    BY <2>1, <2>2 DEF IndInv, TypeOK, Ops, OpPcs
<1>11. ASSUME NEW n \in ContainerNames, UpsertValuesFails(n) PROVE (op \in Ops)'
  BY <1>11, ConstantsAssumption DEF UpsertValuesFails, AllocPolicyID, SyncID,
     PolicyUpdateBinariesFails, WrittenUpTo, Fault, Abort, Finish, IndInv, TypeOK, CacheTypeOK,
     OpOK, Ops, OpKinds, OpPcs, WPInfos, PolicyIDs, AtPod
<1>12. CASE UpsertSettings
  BY <1>12, ConstantsAssumption DEF UpsertSettings, CurrentID, PolicySettingsUpdate, Ok, IndInv,
     TypeOK, CacheTypeOK, OpOK, Ops, OpKinds, OpPcs, WPInfos, PolicyIDs, AtPod
<1>13. CASE UpsertSettingsFails
  BY <1>13, ConstantsAssumption DEF UpsertSettingsFails, Fault, Abort, Finish, IndInv, TypeOK,
     CacheTypeOK, OpOK, Ops, OpKinds, OpPcs, WPInfos, PolicyIDs, AtPod
<1>14. CASE SplitAppliedRemoved
  <2> DEFINE removed == [n \in ContainerNames |->
                         IF n \in op.spec.containers THEN 0 ELSE wpState[op.wp].pol[n]]
  <2>1. op.wp \in Policies
    BY <1>14 DEF SplitAppliedRemoved, IndInv, OpOK
  <2>2. removed \in [ContainerNames -> 0 .. MaxPolicyID]
    BY <2>1, ConstantsAssumption DEF IndInv, TypeOK, CacheTypeOK, WPInfos
  <2> QED
    BY <1>14, <2>2 DEF SplitAppliedRemoved, IndInv, TypeOK, Ops, OpPcs
<1>15. ASSUME NEW p \in Pods, VisitPod(p) PROVE (op \in Ops)'
  BY <1>15, ConstantsAssumption DEF VisitPod, IndInv, TypeOK, CacheTypeOK, OpOK, Ops, OpKinds,
     OpPcs, WPInfos, PolicyIDs, AtPod
<1>16. ASSUME NEW c \in ContainerIDs, UnbindContainer(c) PROVE (op \in Ops)'
  BY <1>16, ConstantsAssumption DEF UnbindContainer, RemoveCgroup, Ok, IndInv, TypeOK,
     CacheTypeOK, OpOK, Ops, OpKinds, OpPcs, WPInfos, PolicyIDs, AtPod
<1>17. ASSUME NEW c \in ContainerIDs, UnbindContainerFails(c) PROVE (op \in Ops)'
  BY <1>17, ConstantsAssumption DEF UnbindContainerFails, Fault, Abort, Finish, IndInv, TypeOK,
     CacheTypeOK, OpOK, Ops, OpKinds, OpPcs, WPInfos, PolicyIDs, AtPod
<1>18. CASE PodUnbound
  BY <1>18, ConstantsAssumption DEF PodUnbound, IndInv, TypeOK, CacheTypeOK, OpOK, Ops, OpKinds,
     OpPcs, WPInfos, PolicyIDs, AtPod
<1>19. CASE ReconcileDone
  BY <1>19, ConstantsAssumption DEF ReconcileDone, Finish, IndInv, TypeOK, CacheTypeOK, OpOK,
     Ops, OpKinds, OpPcs, WPInfos, PolicyIDs, AtPod
<1>20. ASSUME NEW wp \in Policies, HandleWPDelete(wp) PROVE (op \in Ops)'
  <2>1. wpState[wp].pol \in [ContainerNames -> 0 .. MaxPolicyID]
    BY DEF IndInv, TypeOK, CacheTypeOK, WPInfos
  <2> QED
    BY <1>20, <2>1, IdleType DEF HandleWPDelete, Ops, OpKinds, OpPcs
<1>21. ASSUME NEW n \in ContainerNames, RemovePolicyStep(n) PROVE (op \in Ops)'
  BY <1>21, ConstantsAssumption DEF RemovePolicyStep, RemovePolicy, Ok, IndInv, TypeOK,
     CacheTypeOK, OpOK, Ops, OpKinds, OpPcs, WPInfos, PolicyIDs, AtPod
<1>22. ASSUME NEW n \in ContainerNames, RemovePolicyStepFails(n) PROVE (op \in Ops)'
  BY <1>22, ConstantsAssumption DEF RemovePolicyStepFails, RemovePolicyFails, Fault, Finish,
     IndInv, TypeOK, CacheTypeOK, OpOK, Ops, OpKinds, OpPcs, WPInfos, PolicyIDs, AtPod
<1>23. CASE DeleteDone
  BY <1>23, ConstantsAssumption DEF DeleteDone, Finish, IndInv, TypeOK, CacheTypeOK, OpOK, Ops,
     OpKinds, OpPcs, WPInfos, PolicyIDs, AtPod
<1>24. CASE ClearValues
  BY <1>24, ConstantsAssumption DEF ClearValues, PolicyUpdateBinaries, Ok, IndInv, TypeOK,
     CacheTypeOK, OpOK, Ops, OpKinds, OpPcs, WPInfos, PolicyIDs, AtPod
<1>25. CASE ClearValuesFails
  BY <1>25, ConstantsAssumption DEF ClearValuesFails, PolicyUpdateBinariesFails, WrittenUpTo,
     Fault, Abort, Finish, IndInv, TypeOK, CacheTypeOK, OpOK, Ops, OpKinds, OpPcs, WPInfos,
     PolicyIDs, AtPod
<1>26. CASE ClearSettings
  <2>1. op' = [op EXCEPT !.pc = "unbind", !.name = NoName] \/ op' = [op EXCEPT !.pc = "rmPolicy", !.name = NoName]
    BY <1>26 DEF ClearSettings
  <2>2. CASE op' = [op EXCEPT !.pc = "unbind", !.name = NoName]
    BY <2>2 DEF IndInv, TypeOK, Ops, OpPcs
  <2>3. CASE op' = [op EXCEPT !.pc = "rmPolicy", !.name = NoName]
    BY <2>3 DEF IndInv, TypeOK, Ops, OpPcs
  <2> QED
    BY <2>1, <2>2, <2>3
<1>27. CASE ClearSettingsFails
  BY <1>27, ConstantsAssumption DEF ClearSettingsFails, Fault, Abort, Finish, IndInv, TypeOK,
     CacheTypeOK, OpOK, Ops, OpKinds, OpPcs, WPInfos, PolicyIDs, AtPod
<1>28. CASE Return
  BY <1>28, ConstantsAssumption DEF Return, IndInv, TypeOK, CacheTypeOK, OpOK, Ops, OpKinds,
     OpPcs, WPInfos, PolicyIDs, AtPod, Idle, NoIDs
<1>29. ASSUME NEW c \in ContainerIDs, CgroupRelease(c) PROVE (op \in Ops)'
  BY <1>29, ConstantsAssumption DEF CgroupRelease, IndInv, TypeOK, CacheTypeOK, OpOK, Ops,
     OpKinds, OpPcs, WPInfos, PolicyIDs, AtPod
<1>30. CASE Restart
  BY <1>30, ConstantsAssumption DEF Restart, IndInv, TypeOK, CacheTypeOK, OpOK, Ops, OpKinds,
     OpPcs, WPInfos, PolicyIDs, AtPod, Idle, NoIDs, NilInfo
<1>31. CASE UNCHANGED resolverVars
  BY <1>31 DEF resolverVars, IndInv, TypeOK, CacheTypeOK, OpOK, Ops, OpKinds, OpPcs, WPInfos,
     PolicyIDs, AtPod
<1> QED
  BY <1>1, <1>2, <1>3, <1>4, <1>5, <1>6, <1>7, <1>8, <1>9, <1>10, <1>11, <1>12, <1>13, <1>14,
     <1>15, <1>16, <1>17, <1>18, <1>19, <1>20, <1>21, <1>22, <1>23, <1>24, <1>25, <1>26, <1>27,
     <1>28, <1>29, <1>30, <1>31 DEF Next, OpStep

\* The history variables keep their types.
LEMMA HistoryTypeOKStep == IndInv /\ [Next]_resolverVars => HistoryTypeOK'
<1> SUFFICES ASSUME IndInv, [Next]_resolverVars PROVE HistoryTypeOK'
  OBVIOUS
<1> USE DEF cacheVars, bpfVars, history
<1>1. ASSUME NEW p \in Pods, NEW cs \in SUBSET {c \in ContainerIDs : PodOf[c] = p}, AddPodContainerFromNri(p, cs) PROVE HistoryTypeOK'
  BY <1>1, ConstantsAssumption DEF AddPodContainerFromNri, IndInv, TypeOK, HistoryTypeOK,
     CacheTypeOK, OpOK, Ops, Idle, NoIDs
<1>2. ASSUME NEW c \in ContainerIDs, TrackContainer(c) PROVE HistoryTypeOK'
  BY <1>2, ConstantsAssumption DEF TrackContainer, Ok, IndInv, TypeOK, HistoryTypeOK,
     CacheTypeOK, OpOK, Ops
<1>3. ASSUME NEW c \in ContainerIDs, TrackContainerFails(c) PROVE HistoryTypeOK'
  BY <1>3, ConstantsAssumption DEF TrackContainerFails, Fault, Finish, IndInv, TypeOK,
     HistoryTypeOK, CacheTypeOK, OpOK, Ops
<1>4. CASE ApplyPolicyToPodIfPresent
  BY <1>4, ConstantsAssumption DEF ApplyPolicyToPodIfPresent, Finish, IndInv, TypeOK,
     HistoryTypeOK, CacheTypeOK, OpOK, Ops
<1>5. ASSUME NEW c \in ContainerIDs, BindContainer(c) PROVE HistoryTypeOK'
  BY <1>5, ConstantsAssumption DEF BindContainer, Ok, AddPolicyToCgroup, Overlapping, IndInv,
     TypeOK, HistoryTypeOK, CacheTypeOK, OpOK, Ops
<1>6. ASSUME NEW c \in ContainerIDs, BindContainerFails(c) PROVE HistoryTypeOK'
  BY <1>6, ConstantsAssumption DEF BindContainerFails, Ok, Fault, Abort, Finish, IndInv, TypeOK,
     HistoryTypeOK, CacheTypeOK, OpOK, Ops
<1>7. CASE PodBound
  BY <1>7, ConstantsAssumption DEF PodBound, Finish, IndInv, TypeOK, HistoryTypeOK, CacheTypeOK,
     OpOK, Ops
<1>8. ASSUME NEW c \in ContainerIDs, RemovePodContainerFromNri(c) PROVE HistoryTypeOK'
  BY <1>8, ConstantsAssumption DEF RemovePodContainerFromNri, RemoveCgroup, Ok, Fault, IndInv,
     TypeOK, HistoryTypeOK, CacheTypeOK, OpOK, Ops
<1>9. ASSUME NEW wp \in Policies, NEW spec \in Specs, ReconcileWP(wp, spec) PROVE HistoryTypeOK'
  BY <1>9, ConstantsAssumption DEF ReconcileWP, IndInv, TypeOK, HistoryTypeOK, CacheTypeOK,
     OpOK, Ops, Idle, NoIDs
<1>10. ASSUME NEW n \in ContainerNames, UpsertValues(n) PROVE HistoryTypeOK'
  <2>1. op.wp \in Policies
    BY <1>10 DEF UpsertValues, IndInv, OpOK
  <2>2. owner' \in [PolicyIDs -> Owners \cup {NoOwner}]
    BY <1>10, <2>1 DEF UpsertValues, AllocPolicyID, Owners, IndInv, TypeOK, HistoryTypeOK
  <2> QED
    BY <1>10, <2>2, ConstantsAssumption DEF UpsertValues, AllocPolicyID, SyncID, PolicyUpdateBinaries, Ok, IndInv, TypeOK, HistoryTypeOK
<1>11. ASSUME NEW n \in ContainerNames, UpsertValuesFails(n) PROVE HistoryTypeOK'
  <2>1. op.wp \in Policies
    BY <1>11 DEF UpsertValuesFails, IndInv, OpOK
  <2>2. owner' \in [PolicyIDs -> Owners \cup {NoOwner}]
    BY <1>11, <2>1 DEF UpsertValuesFails, AllocPolicyID, Owners, IndInv, TypeOK, HistoryTypeOK
  <2> QED
    BY <1>11, <2>2, ConstantsAssumption DEF UpsertValuesFails, AllocPolicyID, SyncID, PolicyUpdateBinariesFails, WrittenUpTo, Fault, Abort, Finish, IndInv, TypeOK, HistoryTypeOK
<1>12. CASE UpsertSettings
  BY <1>12, ConstantsAssumption DEF UpsertSettings, CurrentID, PolicySettingsUpdate, Ok, IndInv,
     TypeOK, HistoryTypeOK, CacheTypeOK, OpOK, Ops
<1>13. CASE UpsertSettingsFails
  BY <1>13, ConstantsAssumption DEF UpsertSettingsFails, Fault, Abort, Finish, IndInv, TypeOK,
     HistoryTypeOK, CacheTypeOK, OpOK, Ops
<1>14. CASE SplitAppliedRemoved
  BY <1>14, ConstantsAssumption DEF SplitAppliedRemoved, MergeNewContainers, IndInv, TypeOK,
     HistoryTypeOK, CacheTypeOK, OpOK, Ops
<1>15. ASSUME NEW p \in Pods, VisitPod(p) PROVE HistoryTypeOK'
  BY <1>15, ConstantsAssumption DEF VisitPod, IndInv, TypeOK, HistoryTypeOK, CacheTypeOK, OpOK,
     Ops
<1>16. ASSUME NEW c \in ContainerIDs, UnbindContainer(c) PROVE HistoryTypeOK'
  BY <1>16, ConstantsAssumption DEF UnbindContainer, RemoveCgroup, Ok, IndInv, TypeOK,
     HistoryTypeOK, CacheTypeOK, OpOK, Ops
<1>17. ASSUME NEW c \in ContainerIDs, UnbindContainerFails(c) PROVE HistoryTypeOK'
  BY <1>17, ConstantsAssumption DEF UnbindContainerFails, Fault, Abort, Finish, IndInv, TypeOK,
     HistoryTypeOK, CacheTypeOK, OpOK, Ops
<1>18. CASE PodUnbound
  BY <1>18, ConstantsAssumption DEF PodUnbound, IndInv, TypeOK, HistoryTypeOK, CacheTypeOK,
     OpOK, Ops
<1>19. CASE ReconcileDone
  BY <1>19, ConstantsAssumption DEF ReconcileDone, Finish, IndInv, TypeOK, HistoryTypeOK,
     CacheTypeOK, OpOK, Ops
<1>20. ASSUME NEW wp \in Policies, HandleWPDelete(wp) PROVE HistoryTypeOK'
  BY <1>20, ConstantsAssumption DEF HandleWPDelete, IndInv, TypeOK, HistoryTypeOK, CacheTypeOK,
     OpOK, Ops, Idle, NoIDs, NilInfo
<1>21. ASSUME NEW n \in ContainerNames, RemovePolicyStep(n) PROVE HistoryTypeOK'
  BY <1>21, ConstantsAssumption DEF RemovePolicyStep, RemovePolicy, Ok, IndInv, TypeOK,
     HistoryTypeOK, CacheTypeOK, OpOK, Ops
<1>22. ASSUME NEW n \in ContainerNames, RemovePolicyStepFails(n) PROVE HistoryTypeOK'
  BY <1>22, ConstantsAssumption DEF RemovePolicyStepFails, RemovePolicyFails, Fault, Finish,
     IndInv, TypeOK, HistoryTypeOK, CacheTypeOK, OpOK, Ops
<1>23. CASE DeleteDone
  BY <1>23, ConstantsAssumption DEF DeleteDone, Finish, IndInv, TypeOK, HistoryTypeOK,
     CacheTypeOK, OpOK, Ops
<1>24. CASE ClearValues
  BY <1>24, ConstantsAssumption DEF ClearValues, PolicyUpdateBinaries, Ok, IndInv, TypeOK,
     HistoryTypeOK, CacheTypeOK, OpOK, Ops
<1>25. CASE ClearValuesFails
  BY <1>25, ConstantsAssumption DEF ClearValuesFails, PolicyUpdateBinariesFails, WrittenUpTo,
     Fault, Abort, Finish, IndInv, TypeOK, HistoryTypeOK, CacheTypeOK, OpOK, Ops
<1>26. CASE ClearSettings
  BY <1>26, ConstantsAssumption DEF ClearSettings, PolicySettingsUpdate, Ok, IndInv, TypeOK,
     HistoryTypeOK, CacheTypeOK, OpOK, Ops
<1>27. CASE ClearSettingsFails
  BY <1>27, ConstantsAssumption DEF ClearSettingsFails, Fault, Abort, Finish, IndInv, TypeOK,
     HistoryTypeOK, CacheTypeOK, OpOK, Ops
<1>28. CASE Return
  BY <1>28, ConstantsAssumption DEF Return, IndInv, TypeOK, HistoryTypeOK, CacheTypeOK, OpOK,
     Ops, Idle, NoIDs
<1>29. ASSUME NEW c \in ContainerIDs, CgroupRelease(c) PROVE HistoryTypeOK'
  BY <1>29, ConstantsAssumption DEF CgroupRelease, IndInv, TypeOK, HistoryTypeOK, CacheTypeOK,
     OpOK, Ops
<1>30. CASE Restart
  BY <1>30, ConstantsAssumption DEF Restart, IndInv, TypeOK, HistoryTypeOK, CacheTypeOK, OpOK,
     Ops, Idle, NoIDs, NilInfo
<1>31. CASE UNCHANGED resolverVars
  BY <1>31 DEF resolverVars, IndInv, TypeOK, HistoryTypeOK, CacheTypeOK, OpOK, Ops
<1> QED
  BY <1>1, <1>2, <1>3, <1>4, <1>5, <1>6, <1>7, <1>8, <1>9, <1>10, <1>11, <1>12, <1>13, <1>14,
     <1>15, <1>16, <1>17, <1>18, <1>19, <1>20, <1>21, <1>22, <1>23, <1>24, <1>25, <1>26, <1>27,
     <1>28, <1>29, <1>30, <1>31 DEF Next, OpStep

\* What the operation has read stays what it needs.
LEMMA OpOKStep == IndInv /\ [Next]_resolverVars => OpOK'
<1> SUFFICES ASSUME IndInv, [Next]_resolverVars PROVE OpOK'
  OBVIOUS
<1> USE DEF cacheVars, bpfVars, history
<1>1. ASSUME NEW p \in Pods, NEW cs \in SUBSET {c \in ContainerIDs : PodOf[c] = p}, AddPodContainerFromNri(p, cs) PROVE OpOK'
  BY <1>1, ConstantsAssumption DEF AddPodContainerFromNri, IndInv, TypeOK, OpOK, AtPod, Ops,
     Idle, NoIDs
<1>2. ASSUME NEW c \in ContainerIDs, TrackContainer(c) PROVE OpOK'
  BY <1>2, ConstantsAssumption DEF TrackContainer, Ok, IndInv, TypeOK, OpOK, AtPod, Ops
<1>3. ASSUME NEW c \in ContainerIDs, TrackContainerFails(c) PROVE OpOK'
  BY <1>3, ConstantsAssumption DEF TrackContainerFails, Fault, Finish, IndInv, TypeOK, OpOK,
     AtPod, Ops
<1>4. CASE ApplyPolicyToPodIfPresent
  <2> DEFINE wp == PolicyOf[op.pod]
  <2>1. ASSUME NEW failed \in BOOLEAN, Finish(failed) PROVE OpOK'
    BY <1>4, <2>1 DEF ApplyPolicyToPodIfPresent, Finish, IndInv, TypeOK, OpOK, Ops, AtPod
  <2>2. CASE wp # NoPolicy /\ op' = [op EXCEPT !.pc = "bind", !.wp = wp, !.names = ContainerNames,
                  !.cs = {c \in podCache[op.pod] : wpState[wp].pol[NameOf[c]] # 0}]
    <3>1. op.pod \in Pods /\ op.kind = "add" /\ op.pods = {}
      BY <1>4 DEF ApplyPolicyToPodIfPresent, IndInv, OpOK, AtPod
    <3>2. wp \in Policies
      BY <2>2, <3>1, ConstantsAssumption
    <3> QED
      BY <1>4, <2>2, <3>1, <3>2 DEF ApplyPolicyToPodIfPresent, IndInv, TypeOK, OpOK, Ops, AtPod
  <2> QED
    BY <1>4, <2>1, <2>2 DEF ApplyPolicyToPodIfPresent
<1>5. ASSUME NEW c \in ContainerIDs, BindContainer(c) PROVE OpOK'
  BY <1>5, ConstantsAssumption DEF BindContainer, Ok, AddPolicyToCgroup, Overlapping, IndInv,
     TypeOK, OpOK, AtPod, Ops
<1>6. ASSUME NEW c \in ContainerIDs, BindContainerFails(c) PROVE OpOK'
  BY <1>6, ConstantsAssumption DEF BindContainerFails, Ok, Fault, Abort, Finish, IndInv, TypeOK,
     OpOK, AtPod, Ops
<1>7. CASE PodBound
  <2>1. CASE Finish(FALSE)
    BY <1>7, <2>1 DEF PodBound, Finish, IndInv, TypeOK, OpOK, Ops, AtPod
  <2>2. CASE op.kind = "reconcile" /\ op' = [op EXCEPT !.pc = "pods"]
    BY <1>7, <2>2 DEF PodBound, IndInv, TypeOK, OpOK, Ops, AtPod
  <2> QED
    BY <1>7, <2>1, <2>2 DEF PodBound
<1>8. ASSUME NEW c \in ContainerIDs, RemovePodContainerFromNri(c) PROVE OpOK'
  BY <1>8, ConstantsAssumption DEF RemovePodContainerFromNri, RemoveCgroup, Ok, Fault, IndInv,
     TypeOK, OpOK, AtPod, Ops
<1>9. ASSUME NEW wp \in Policies, NEW spec \in Specs, ReconcileWP(wp, spec) PROVE OpOK'
  BY <1>9, ConstantsAssumption DEF ReconcileWP, IndInv, TypeOK, OpOK, AtPod, Ops, Idle, NoIDs
<1>10. ASSUME NEW n \in ContainerNames, UpsertValues(n) PROVE OpOK'
  BY <1>10, ConstantsAssumption DEF UpsertValues, AllocPolicyID, SyncID, PolicyUpdateBinaries,
     Ok, IndInv, TypeOK, OpOK, AtPod, Ops
<1>11. ASSUME NEW n \in ContainerNames, UpsertValuesFails(n) PROVE OpOK'
  BY <1>11, ConstantsAssumption DEF UpsertValuesFails, AllocPolicyID, SyncID,
     PolicyUpdateBinariesFails, WrittenUpTo, Fault, Abort, Finish, IndInv, TypeOK, OpOK, AtPod,
     Ops
<1>12. CASE UpsertSettings
  BY <1>12, ConstantsAssumption DEF UpsertSettings, CurrentID, PolicySettingsUpdate, Ok, IndInv,
     TypeOK, OpOK, AtPod, Ops
<1>13. CASE UpsertSettingsFails
  BY <1>13, ConstantsAssumption DEF UpsertSettingsFails, Fault, Abort, Finish, IndInv, TypeOK,
     OpOK, AtPod, Ops
<1>14. CASE SplitAppliedRemoved
  BY <1>14, ConstantsAssumption DEF SplitAppliedRemoved, MergeNewContainers, IndInv, TypeOK,
     OpOK, AtPod, Ops
<1>15. ASSUME NEW p \in Pods, VisitPod(p) PROVE OpOK'
  BY <1>15, ConstantsAssumption DEF VisitPod, IndInv, TypeOK, OpOK, AtPod, Ops
<1>16. ASSUME NEW c \in ContainerIDs, UnbindContainer(c) PROVE OpOK'
  BY <1>16, ConstantsAssumption DEF UnbindContainer, RemoveCgroup, Ok, IndInv, TypeOK, OpOK,
     AtPod, Ops
<1>17. ASSUME NEW c \in ContainerIDs, UnbindContainerFails(c) PROVE OpOK'
  BY <1>17, ConstantsAssumption DEF UnbindContainerFails, Fault, Abort, Finish, IndInv, TypeOK,
     OpOK, AtPod, Ops
<1>18. CASE PodUnbound
  BY <1>18, ConstantsAssumption DEF PodUnbound, IndInv, TypeOK, OpOK, AtPod, Ops
<1>19. CASE ReconcileDone
  BY <1>19, ConstantsAssumption DEF ReconcileDone, Finish, IndInv, TypeOK, OpOK, AtPod, Ops
<1>20. ASSUME NEW wp \in Policies, HandleWPDelete(wp) PROVE OpOK'
  BY <1>20, ConstantsAssumption DEF HandleWPDelete, IndInv, TypeOK, OpOK, AtPod, Ops, Idle,
     NoIDs, NilInfo
<1>21. ASSUME NEW n \in ContainerNames, RemovePolicyStep(n) PROVE OpOK'
  BY <1>21, ConstantsAssumption DEF RemovePolicyStep, RemovePolicy, Ok, IndInv, TypeOK, OpOK,
     AtPod, Ops
<1>22. ASSUME NEW n \in ContainerNames, RemovePolicyStepFails(n) PROVE OpOK'
  BY <1>22, ConstantsAssumption DEF RemovePolicyStepFails, RemovePolicyFails, Fault, Finish,
     IndInv, TypeOK, OpOK, AtPod, Ops
<1>23. CASE DeleteDone
  BY <1>23, ConstantsAssumption DEF DeleteDone, Finish, IndInv, TypeOK, OpOK, AtPod, Ops
<1>24. CASE ClearValues
  BY <1>24, ConstantsAssumption DEF ClearValues, PolicyUpdateBinaries, Ok, IndInv, TypeOK, OpOK,
     AtPod, Ops
<1>25. CASE ClearValuesFails
  BY <1>25, ConstantsAssumption DEF ClearValuesFails, PolicyUpdateBinariesFails, WrittenUpTo,
     Fault, Abort, Finish, IndInv, TypeOK, OpOK, AtPod, Ops
<1>26. CASE ClearSettings
  <2>1. CASE op.kind = "reconcile" /\ op' = [op EXCEPT !.pc = "unbind", !.name = NoName]
    BY <1>26, <2>1 DEF ClearSettings, IndInv, TypeOK, OpOK, Ops, AtPod
  <2>2. CASE op.kind # "reconcile" /\ op' = [op EXCEPT !.pc = "rmPolicy", !.name = NoName]
    BY <1>26, <2>2 DEF ClearSettings, IndInv, TypeOK, OpOK, Ops, AtPod
  <2> QED
    BY <1>26, <2>1, <2>2 DEF ClearSettings
<1>27. CASE ClearSettingsFails
  BY <1>27, ConstantsAssumption DEF ClearSettingsFails, Fault, Abort, Finish, IndInv, TypeOK,
     OpOK, AtPod, Ops
<1>28. CASE Return
  BY <1>28, ConstantsAssumption DEF Return, IndInv, TypeOK, OpOK, AtPod, Ops, Idle, NoIDs
<1>29. ASSUME NEW c \in ContainerIDs, CgroupRelease(c) PROVE OpOK'
  BY <1>29, ConstantsAssumption DEF CgroupRelease, IndInv, TypeOK, OpOK, AtPod, Ops
<1>30. CASE Restart
  BY <1>30, ConstantsAssumption DEF Restart, IndInv, TypeOK, OpOK, AtPod, Ops, Idle, NoIDs,
     NilInfo
<1>31. CASE UNCHANGED resolverVars
  BY <1>31 DEF resolverVars, IndInv, TypeOK, OpOK, AtPod, Ops
<1> QED
  BY <1>1, <1>2, <1>3, <1>4, <1>5, <1>6, <1>7, <1>8, <1>9, <1>10, <1>11, <1>12, <1>13, <1>14,
     <1>15, <1>16, <1>17, <1>18, <1>19, <1>20, <1>21, <1>22, <1>23, <1>24, <1>25, <1>26, <1>27,
     <1>28, <1>29, <1>30, <1>31 DEF Next, OpStep

\* Operations stay within the pods of their policy.
LEMMA PodsOKStep == IndInv /\ [Next]_resolverVars => PodsOK'
<1> SUFFICES ASSUME IndInv, [Next]_resolverVars PROVE PodsOK'
  OBVIOUS
<1> USE DEF cacheVars, bpfVars, history
<1>1. ASSUME NEW p \in Pods, NEW cs \in SUBSET {c \in ContainerIDs : PodOf[c] = p}, AddPodContainerFromNri(p, cs) PROVE PodsOK'
  BY <1>1 DEF AddPodContainerFromNri, IndInv, TypeOK, CacheTypeOK, OpOK, AtPod, PodsOK, Ops,
     Idle, NoIDs
<1>2. ASSUME NEW c \in ContainerIDs, TrackContainer(c) PROVE PodsOK'
  BY <1>2 DEF TrackContainer, Ok, IndInv, TypeOK, CacheTypeOK, OpOK, AtPod, PodsOK, Ops
<1>3. ASSUME NEW c \in ContainerIDs, TrackContainerFails(c) PROVE PodsOK'
  BY <1>3 DEF TrackContainerFails, Fault, Finish, IndInv, TypeOK, CacheTypeOK, OpOK, AtPod,
     PodsOK, Ops
<1>4. CASE ApplyPolicyToPodIfPresent
  <2> DEFINE wp == PolicyOf[op.pod]
  <2>1. ASSUME NEW failed \in BOOLEAN, Finish(failed) PROVE PodsOK'
    BY <1>4, <2>1 DEF ApplyPolicyToPodIfPresent, Finish, IndInv, TypeOK, OpOK, Ops, AtPod, PodsOK, CacheTypeOK
  <2>2. CASE wp # NoPolicy /\ op' = [op EXCEPT !.pc = "bind", !.wp = wp, !.names = ContainerNames,
                  !.cs = {c \in podCache[op.pod] : wpState[wp].pol[NameOf[c]] # 0}]
    <3>1. op.pod \in Pods /\ op.kind = "add" /\ op.pods = {}
      BY <1>4 DEF ApplyPolicyToPodIfPresent, IndInv, OpOK, AtPod
    <3>2. wp \in Policies
      BY <2>2, <3>1, ConstantsAssumption
    <3> QED
      BY <1>4, <2>2, <3>1, <3>2 DEF ApplyPolicyToPodIfPresent, IndInv, TypeOK, OpOK, Ops, AtPod, PodsOK, CacheTypeOK
  <2> QED
    BY <1>4, <2>1, <2>2 DEF ApplyPolicyToPodIfPresent
<1>5. ASSUME NEW c \in ContainerIDs, BindContainer(c) PROVE PodsOK'
  BY <1>5 DEF BindContainer, Ok, AddPolicyToCgroup, Overlapping, IndInv, TypeOK, CacheTypeOK,
     OpOK, AtPod, PodsOK, Ops
<1>6. ASSUME NEW c \in ContainerIDs, BindContainerFails(c) PROVE PodsOK'
  BY <1>6 DEF BindContainerFails, Ok, Fault, Abort, Finish, IndInv, TypeOK, CacheTypeOK, OpOK,
     AtPod, PodsOK, Ops
<1>7. CASE PodBound
  <2>1. CASE Finish(FALSE)
    BY <1>7, <2>1 DEF PodBound, Finish, IndInv, TypeOK, OpOK, Ops, AtPod, PodsOK, CacheTypeOK
  <2>2. CASE op.kind = "reconcile" /\ op' = [op EXCEPT !.pc = "pods"]
    BY <1>7, <2>2 DEF PodBound, IndInv, TypeOK, OpOK, Ops, AtPod, PodsOK, CacheTypeOK
  <2> QED
    BY <1>7, <2>1, <2>2 DEF PodBound
<1>8. ASSUME NEW c \in ContainerIDs, RemovePodContainerFromNri(c) PROVE PodsOK'
  BY <1>8 DEF RemovePodContainerFromNri, RemoveCgroup, Ok, Fault, IndInv, TypeOK, CacheTypeOK,
     OpOK, AtPod, PodsOK, Ops
<1>9. ASSUME NEW wp \in Policies, NEW spec \in Specs, ReconcileWP(wp, spec) PROVE PodsOK'
  BY <1>9 DEF ReconcileWP, IndInv, TypeOK, CacheTypeOK, OpOK, AtPod, PodsOK, Ops, Idle, NoIDs
<1>10. ASSUME NEW n \in ContainerNames, UpsertValues(n) PROVE PodsOK'
  BY <1>10 DEF UpsertValues, AllocPolicyID, SyncID, PolicyUpdateBinaries, Ok, IndInv, TypeOK,
     CacheTypeOK, OpOK, AtPod, PodsOK, Ops
<1>11. ASSUME NEW n \in ContainerNames, UpsertValuesFails(n) PROVE PodsOK'
  BY <1>11 DEF UpsertValuesFails, AllocPolicyID, SyncID, PolicyUpdateBinariesFails, WrittenUpTo,
     Fault, Abort, Finish, IndInv, TypeOK, CacheTypeOK, OpOK, AtPod, PodsOK, Ops
<1>12. CASE UpsertSettings
  BY <1>12 DEF UpsertSettings, CurrentID, PolicySettingsUpdate, Ok, IndInv, TypeOK, CacheTypeOK,
     OpOK, AtPod, PodsOK, Ops
<1>13. CASE UpsertSettingsFails
  BY <1>13 DEF UpsertSettingsFails, Fault, Abort, Finish, IndInv, TypeOK, CacheTypeOK, OpOK,
     AtPod, PodsOK, Ops
<1>14. CASE SplitAppliedRemoved
  BY <1>14 DEF SplitAppliedRemoved, MergeNewContainers, IndInv, TypeOK, CacheTypeOK, OpOK,
     AtPod, PodsOK, Ops
<1>15. ASSUME NEW p \in Pods, VisitPod(p) PROVE PodsOK'
  BY <1>15 DEF VisitPod, IndInv, TypeOK, CacheTypeOK, OpOK, AtPod, PodsOK, Ops
<1>16. ASSUME NEW c \in ContainerIDs, UnbindContainer(c) PROVE PodsOK'
  BY <1>16 DEF UnbindContainer, RemoveCgroup, Ok, IndInv, TypeOK, CacheTypeOK, OpOK, AtPod,
     PodsOK, Ops
<1>17. ASSUME NEW c \in ContainerIDs, UnbindContainerFails(c) PROVE PodsOK'
  BY <1>17 DEF UnbindContainerFails, Fault, Abort, Finish, IndInv, TypeOK, CacheTypeOK, OpOK,
     AtPod, PodsOK, Ops
<1>18. CASE PodUnbound
  BY <1>18 DEF PodUnbound, IndInv, TypeOK, CacheTypeOK, OpOK, AtPod, PodsOK, Ops
<1>19. CASE ReconcileDone
  BY <1>19 DEF ReconcileDone, Finish, IndInv, TypeOK, CacheTypeOK, OpOK, AtPod, PodsOK, Ops
<1>20. ASSUME NEW wp \in Policies, HandleWPDelete(wp) PROVE PodsOK'
  BY <1>20 DEF HandleWPDelete, IndInv, TypeOK, CacheTypeOK, OpOK, AtPod, PodsOK, Ops, Idle,
     NoIDs, NilInfo
<1>21. ASSUME NEW n \in ContainerNames, RemovePolicyStep(n) PROVE PodsOK'
  BY <1>21 DEF RemovePolicyStep, RemovePolicy, Ok, IndInv, TypeOK, CacheTypeOK, OpOK, AtPod,
     PodsOK, Ops
<1>22. ASSUME NEW n \in ContainerNames, RemovePolicyStepFails(n) PROVE PodsOK'
  BY <1>22 DEF RemovePolicyStepFails, RemovePolicyFails, Fault, Finish, IndInv, TypeOK,
     CacheTypeOK, OpOK, AtPod, PodsOK, Ops
<1>23. CASE DeleteDone
  BY <1>23 DEF DeleteDone, Finish, IndInv, TypeOK, CacheTypeOK, OpOK, AtPod, PodsOK, Ops
<1>24. CASE ClearValues
  BY <1>24 DEF ClearValues, PolicyUpdateBinaries, Ok, IndInv, TypeOK, CacheTypeOK, OpOK, AtPod,
     PodsOK, Ops
<1>25. CASE ClearValuesFails
  BY <1>25 DEF ClearValuesFails, PolicyUpdateBinariesFails, WrittenUpTo, Fault, Abort, Finish,
     IndInv, TypeOK, CacheTypeOK, OpOK, AtPod, PodsOK, Ops
<1>26. CASE ClearSettings
  <2>1. CASE op.kind = "reconcile" /\ op' = [op EXCEPT !.pc = "unbind", !.name = NoName]
    BY <1>26, <2>1 DEF ClearSettings, IndInv, TypeOK, OpOK, Ops, AtPod, PodsOK, CacheTypeOK
  <2>2. CASE op.kind # "reconcile" /\ op' = [op EXCEPT !.pc = "rmPolicy", !.name = NoName]
    BY <1>26, <2>2 DEF ClearSettings, IndInv, TypeOK, OpOK, Ops, AtPod, PodsOK, CacheTypeOK
  <2> QED
    BY <1>26, <2>1, <2>2 DEF ClearSettings
<1>27. CASE ClearSettingsFails
  BY <1>27 DEF ClearSettingsFails, Fault, Abort, Finish, IndInv, TypeOK, CacheTypeOK, OpOK,
     AtPod, PodsOK, Ops
<1>28. CASE Return
  BY <1>28 DEF Return, IndInv, TypeOK, CacheTypeOK, OpOK, AtPod, PodsOK, Ops, Idle, NoIDs
<1>29. ASSUME NEW c \in ContainerIDs, CgroupRelease(c) PROVE PodsOK'
  BY <1>29 DEF CgroupRelease, IndInv, TypeOK, CacheTypeOK, OpOK, AtPod, PodsOK, Ops
<1>30. CASE Restart
  BY <1>30 DEF Restart, IndInv, TypeOK, CacheTypeOK, OpOK, AtPod, PodsOK, Ops, Idle, NoIDs,
     NilInfo
<1>31. CASE UNCHANGED resolverVars
  BY <1>31 DEF resolverVars, IndInv, TypeOK, CacheTypeOK, OpOK, AtPod, PodsOK, Ops
<1> QED
  BY <1>1, <1>2, <1>3, <1>4, <1>5, <1>6, <1>7, <1>8, <1>9, <1>10, <1>11, <1>12, <1>13, <1>14,
     <1>15, <1>16, <1>17, <1>18, <1>19, <1>20, <1>21, <1>22, <1>23, <1>24, <1>25, <1>26, <1>27,
     <1>28, <1>29, <1>30, <1>31 DEF Next, OpStep

\* IDs are only copied to places they were allocated for.
LEMMA IDsOwnedStep == IndInv /\ [Next]_resolverVars => IDsOwned'
<1> SUFFICES ASSUME IndInv, [Next]_resolverVars PROVE IDsOwned'
  OBVIOUS
<1> USE DEF cacheVars, bpfVars, history
<1>1. ASSUME NEW p \in Pods, NEW cs \in SUBSET {c \in ContainerIDs : PodOf[c] = p}, AddPodContainerFromNri(p, cs) PROVE IDsOwned'
  <2>1. op'.ids = NoIDs
    BY <1>1 DEF AddPodContainerFromNri, Idle
  <2> QED
    BY <1>1, <2>1, FrameLemma DEF AddPodContainerFromNri, NoIDs
<1>2. ASSUME NEW c \in ContainerIDs, TrackContainer(c) PROVE IDsOwned'
  <2>1. op'.ids = op.ids /\ op'.wp = op.wp
    BY <1>2 DEF TrackContainer, IndInv, TypeOK, Ops
  <2> QED
    BY <1>2, <2>1, FrameLemma DEF TrackContainer
<1>3. ASSUME NEW c \in ContainerIDs, TrackContainerFails(c) PROVE IDsOwned'
  <2>1. op'.ids = op.ids /\ op'.wp = op.wp
    BY <1>3 DEF TrackContainerFails, Finish, IndInv, TypeOK, Ops
  <2> QED
    BY <1>3, <2>1, FrameLemma DEF TrackContainerFails
<1>4. CASE ApplyPolicyToPodIfPresent
  <2>1. op.ids = NoIDs
    BY <1>4 DEF ApplyPolicyToPodIfPresent, IndInv, OpOK
  <2>2. op'.ids = op.ids
    <3>1. ASSUME NEW failed \in BOOLEAN, Finish(failed) PROVE op'.ids = op.ids
      BY <3>1 DEF Finish, IndInv, TypeOK, Ops
    <3>2. ASSUME NEW wp, NEW cs, op' = [op EXCEPT !.pc = "bind", !.wp = wp,
                                          !.names = ContainerNames, !.cs = cs]
          PROVE  op'.ids = op.ids
      BY <3>2 DEF IndInv, TypeOK, Ops
    <3> QED
      BY <1>4, <3>1, <3>2 DEF ApplyPolicyToPodIfPresent
  <2> QED
    BY <1>4, <2>1, <2>2, FrameLemma DEF ApplyPolicyToPodIfPresent, NoIDs
<1>5. ASSUME NEW c \in ContainerIDs, BindContainer(c) PROVE IDsOwned'
  <2>1. op'.ids = op.ids /\ op'.wp = op.wp
    BY <1>5 DEF BindContainer, IndInv, TypeOK, Ops
  <2>2. PolicyOf[PodOf[c]] = op.wp /\ op.wp \in Policies
    BY <1>5 DEF BindContainer, IndInv, OpOK, PodsOK, AtPod
  <2>3. cgToPolicy' = [cgToPolicy EXCEPT ![c] = wpState[op.wp].pol[NameOf[c]]]
    BY <1>5 DEF BindContainer, AddPolicyToCgroup
  <2> QED
    BY <1>5, <2>1, <2>2, <2>3, FrameLemma DEF BindContainer, IndInv, TypeOK, MapsTypeOK
<1>6. ASSUME NEW c \in ContainerIDs, BindContainerFails(c) PROVE IDsOwned'
  <2>1. op'.ids = op.ids /\ op'.wp = op.wp
    BY <1>6 DEF BindContainerFails, Finish, Abort, IndInv, TypeOK, Ops
  <2>2. \A wp \in Policies : wpState'[wp].pol = wpState[wp].pol
    BY <1>6, StatusOnErrorLemma DEF BindContainerFails, Abort, IndInv
  <2> QED
    BY <1>6, <2>1, <2>2, FrameLemma DEF BindContainerFails
<1>7. CASE PodBound
  <2>1. op'.ids = op.ids /\ op'.wp = op.wp
    <3>1. CASE op' = [op EXCEPT !.pc = "pods"]
      BY <3>1 DEF IndInv, TypeOK, Ops
    <3>2. CASE Finish(FALSE)
      BY <3>2 DEF Finish, IndInv, TypeOK, Ops
    <3> QED
      BY <1>7, <3>1, <3>2 DEF PodBound
  <2> QED
    BY <1>7, <2>1, FrameLemma DEF PodBound
<1>8. ASSUME NEW c \in ContainerIDs, RemovePodContainerFromNri(c) PROVE IDsOwned'
  <2>1. op'.ids = op.ids /\ op'.wp = op.wp
    BY <1>8 DEF RemovePodContainerFromNri, IndInv, TypeOK, Ops
  <2> QED
    BY <1>8, <2>1, FrameLemma DEF RemovePodContainerFromNri, RemoveCgroup, IndInv, TypeOK, MapsTypeOK
<1>9. ASSUME NEW wp \in Policies, NEW spec \in Specs, ReconcileWP(wp, spec) PROVE IDsOwned'
  <2>1. op'.ids = NoIDs
    BY <1>9 DEF ReconcileWP, Idle
  <2>2. \A q \in Policies : wpState'[q].pol = wpState[q].pol
    BY <1>9 DEF ReconcileWP, IndInv, TypeOK, CacheTypeOK, WPInfos
  <2> QED
    BY <1>9, <2>1, <2>2, FrameLemma DEF ReconcileWP, NoIDs
<1>10. ASSUME NEW n \in ContainerNames, UpsertValues(n) PROVE IDsOwned'
  <2>1. op.wp \in Policies /\ op'.wp = op.wp
    BY <1>10 DEF UpsertValues, IndInv, TypeOK, OpOK, Ops
  <2>2. \A q \in Policies : wpState'[q].pol = wpState[q].pol
    BY <1>10 DEF UpsertValues
  <2>3. \A id, o : id \in 0 .. MaxPolicyID /\ AllocatedFor(id, o) => AllocatedFor(id, o)'
    BY <1>10, AllocationLemma DEF UpsertValues
  <2>4. \A m \in ContainerNames : AllocatedFor(op.ids[m], <<op.wp, m>>)'
    <3>1. op'.ids = [op.ids EXCEPT ![n] = IF wpState[op.wp].pol[n] = 0 THEN nextPolicyID ELSE 0]
      BY <1>10 DEF UpsertValues, IndInv, TypeOK, Ops
    <3>2. ASSUME NEW m \in ContainerNames, m # n PROVE AllocatedFor(op.ids[m], <<op.wp, m>>)'
      <4>1. op'.ids[m] = op.ids[m] /\ op.ids[m] \in 0 .. MaxPolicyID
        BY <3>1, <3>2 DEF IndInv, TypeOK, Ops
      <4> QED
        BY <2>1, <2>3, <4>1 DEF IndInv, IDsOwned
    <3>3. op'.ids[n] = IF wpState[op.wp].pol[n] = 0 THEN nextPolicyID ELSE 0
      BY <3>1 DEF IndInv, TypeOK, Ops
    <3>4. ASSUME wpState[op.wp].pol[n] = 0 PROVE AllocatedFor(op.ids[n], <<op.wp, n>>)'
      BY <1>10, <2>1, <3>3, <3>4, AllocationLemma DEF UpsertValues, AllocatedFor
    <3>5. ASSUME wpState[op.wp].pol[n] # 0 PROVE AllocatedFor(op.ids[n], <<op.wp, n>>)'
      BY <3>3, <3>5 DEF AllocatedFor
    <3> QED
      BY <3>2, <3>4, <3>5
  <2>5. \A q \in Policies, m \in ContainerNames : AllocatedFor(wpState[q].pol[m], <<q, m>>)'
    BY <2>2, <2>3 DEF IndInv, IDsOwned, TypeOK, CacheTypeOK, WPInfos
  <2>6. \A c \in ContainerIDs : AllocatedFor(cgToPolicy[c], <<PolicyOf[PodOf[c]], NameOf[c]>>)'
    BY <1>10, <2>3 DEF UpsertValues, IndInv, IDsOwned, TypeOK, MapsTypeOK
  <2> QED
    BY <2>4, <2>5, <2>6 DEF IDsOwned
<1>11. ASSUME NEW n \in ContainerNames, UpsertValuesFails(n) PROVE IDsOwned'
  <2>1. op.wp \in Policies /\ op'.wp = op.wp
    BY <1>11 DEF UpsertValuesFails, Abort, Finish, IndInv, TypeOK, OpOK, Ops
  <2>2. \A q \in Policies : wpState'[q].pol = wpState[q].pol
    BY <1>11, StatusOnErrorLemma DEF UpsertValuesFails, Abort, IndInv
  <2>3. \A id, o : id \in 0 .. MaxPolicyID /\ AllocatedFor(id, o) => AllocatedFor(id, o)'
    BY <1>11, AllocationLemma DEF UpsertValuesFails
  <2>4. \A m \in ContainerNames : AllocatedFor(op.ids[m], <<op.wp, m>>)'
    BY <1>11, <2>1, <2>3 DEF UpsertValuesFails, Abort, Finish, IndInv, TypeOK, Ops, IDsOwned
  <2>5. \A q \in Policies, m \in ContainerNames : AllocatedFor(wpState[q].pol[m], <<q, m>>)'
    BY <2>2, <2>3 DEF IndInv, IDsOwned, TypeOK, CacheTypeOK, WPInfos
  <2>6. \A c \in ContainerIDs : AllocatedFor(cgToPolicy[c], <<PolicyOf[PodOf[c]], NameOf[c]>>)'
    BY <1>11, <2>3 DEF UpsertValuesFails, IndInv, IDsOwned, TypeOK, MapsTypeOK
  <2> QED
    BY <2>4, <2>5, <2>6 DEF IDsOwned
<1>12. CASE UpsertSettings
  <2>1. op'.ids = op.ids /\ op'.wp = op.wp
    BY <1>12 DEF UpsertSettings, IndInv, TypeOK, Ops
  <2> QED
    BY <1>12, <2>1, FrameLemma DEF UpsertSettings
<1>13. CASE UpsertSettingsFails
  <2>1. op'.ids = op.ids /\ op'.wp = op.wp
    BY <1>13 DEF UpsertSettingsFails, Finish, Abort, IndInv, TypeOK, Ops
  <2>2. \A wp \in Policies : wpState'[wp].pol = wpState[wp].pol
    BY <1>13, StatusOnErrorLemma DEF UpsertSettingsFails, Abort, IndInv
  <2> QED
    BY <1>13, <2>1, <2>2, FrameLemma DEF UpsertSettingsFails
<1>14. CASE SplitAppliedRemoved
  <2>1. op.wp \in Policies
    BY <1>14 DEF SplitAppliedRemoved, IndInv, OpOK
  <2>2. /\ op'.wp = op.wp
        /\ \A n \in ContainerNames : op'.ids[n] \in {0, wpState[op.wp].pol[n]}
    BY <1>14 DEF SplitAppliedRemoved, IndInv, TypeOK, Ops
  <2>3. \A n \in ContainerNames : wpState'[op.wp].pol[n] \in {op.ids[n], wpState[op.wp].pol[n]}
    BY <1>14, <2>1 DEF SplitAppliedRemoved, MergeNewContainers, IndInv, TypeOK, CacheTypeOK, WPInfos
  <2>4. \A q \in Policies : q # op.wp => wpState'[q] = wpState[q]
    BY <1>14 DEF SplitAppliedRemoved, IndInv, TypeOK, CacheTypeOK
  <2>5. \A id, o : AllocatedFor(id, o)' <=> AllocatedFor(id, o)
    BY <1>14 DEF SplitAppliedRemoved, AllocatedFor
  <2>6. \A o : AllocatedFor(0, o)
    BY DEF AllocatedFor
  <2>7. \A q \in Policies, n \in ContainerNames : AllocatedFor(wpState[q].pol[n], <<q, n>>)'
    BY <2>1, <2>3, <2>4, <2>5 DEF IndInv, IDsOwned
  <2>8. \A n \in ContainerNames : AllocatedFor(op.ids[n], <<op.wp, n>>)'
    BY <2>1, <2>2, <2>5, <2>6 DEF IndInv, IDsOwned
  <2> QED
    BY <1>14, <2>5, <2>7, <2>8 DEF SplitAppliedRemoved, IndInv, IDsOwned
<1>15. ASSUME NEW p \in Pods, VisitPod(p) PROVE IDsOwned'
  <2>1. op'.ids = op.ids /\ op'.wp = op.wp
    BY <1>15 DEF VisitPod, IndInv, TypeOK, Ops
  <2> QED
    BY <1>15, <2>1, FrameLemma DEF VisitPod
<1>16. ASSUME NEW c \in ContainerIDs, UnbindContainer(c) PROVE IDsOwned'
  <2>1. op'.ids = op.ids /\ op'.wp = op.wp
    BY <1>16 DEF UnbindContainer, IndInv, TypeOK, Ops
  <2> QED
    BY <1>16, <2>1, FrameLemma DEF UnbindContainer, RemoveCgroup, IndInv, TypeOK, MapsTypeOK
<1>17. ASSUME NEW c \in ContainerIDs, UnbindContainerFails(c) PROVE IDsOwned'
  <2>1. op'.ids = op.ids /\ op'.wp = op.wp
    BY <1>17 DEF UnbindContainerFails, Finish, Abort, IndInv, TypeOK, Ops
  <2>2. \A wp \in Policies : wpState'[wp].pol = wpState[wp].pol
    BY <1>17, StatusOnErrorLemma DEF UnbindContainerFails, Abort, IndInv
  <2> QED
    BY <1>17, <2>1, <2>2, FrameLemma DEF UnbindContainerFails
<1>18. CASE PodUnbound
  <2>1. op'.ids = op.ids /\ op'.wp = op.wp
    BY <1>18 DEF PodUnbound, IndInv, TypeOK, Ops
  <2> QED
    BY <1>18, <2>1, FrameLemma DEF PodUnbound
<1>19. CASE ReconcileDone
  <2>1. op'.ids = op.ids /\ op'.wp = op.wp
    BY <1>19 DEF ReconcileDone, Finish, IndInv, TypeOK, Ops
  <2>2. \A q \in Policies : wpState'[q].pol = wpState[q].pol
    BY <1>19 DEF ReconcileDone, IndInv, TypeOK, CacheTypeOK, WPInfos
  <2> QED
    BY <1>19, <2>1, <2>2, FrameLemma DEF ReconcileDone
<1>20. ASSUME NEW wp \in Policies, HandleWPDelete(wp) PROVE IDsOwned'
  <2>1. op'.ids = wpState[wp].pol /\ op'.wp = wp
    BY <1>20 DEF HandleWPDelete, Idle
  <2>2. \A q \in Policies, n \in ContainerNames : wpState'[q].pol[n] \in {0, wpState[q].pol[n]}
    BY <1>20 DEF HandleWPDelete, NilInfo, NoIDs, IndInv, TypeOK, CacheTypeOK
  <2> QED
    BY <1>20, <2>1, <2>2, FrameLemma DEF HandleWPDelete
<1>21. ASSUME NEW n \in ContainerNames, RemovePolicyStep(n) PROVE IDsOwned'
  <2>1. op'.ids = op.ids /\ op'.wp = op.wp
    BY <1>21 DEF RemovePolicyStep, IndInv, TypeOK, Ops
  <2> QED
    BY <1>21, <2>1, FrameLemma DEF RemovePolicyStep, RemovePolicy, IndInv, TypeOK, MapsTypeOK
<1>22. ASSUME NEW n \in ContainerNames, RemovePolicyStepFails(n) PROVE IDsOwned'
  <2>1. op'.ids = op.ids /\ op'.wp = op.wp
    BY <1>22 DEF RemovePolicyStepFails, Finish, IndInv, TypeOK, Ops
  <2> QED
    BY <1>22, <2>1, FrameLemma DEF RemovePolicyStepFails, RemovePolicyFails, IndInv, TypeOK, MapsTypeOK
<1>23. CASE DeleteDone
  <2>1. op'.ids = op.ids /\ op'.wp = op.wp
    BY <1>23 DEF DeleteDone, Finish, IndInv, TypeOK, Ops
  <2> QED
    BY <1>23, <2>1, FrameLemma DEF DeleteDone
<1>24. CASE ClearValues
  <2>1. op'.ids = op.ids /\ op'.wp = op.wp
    BY <1>24 DEF ClearValues, IndInv, TypeOK, Ops
  <2> QED
    BY <1>24, <2>1, FrameLemma DEF ClearValues
<1>25. CASE ClearValuesFails
  <2>1. op'.ids = op.ids /\ op'.wp = op.wp
    BY <1>25 DEF ClearValuesFails, Finish, Abort, IndInv, TypeOK, Ops
  <2>2. \A wp \in Policies : wpState'[wp].pol = wpState[wp].pol
    BY <1>25, StatusOnErrorLemma DEF ClearValuesFails, Abort, IndInv
  <2> QED
    BY <1>25, <2>1, <2>2, FrameLemma DEF ClearValuesFails
<1>26. CASE ClearSettings
  <2>1. op'.ids = op.ids /\ op'.wp = op.wp
    <3>1. CASE op' = [op EXCEPT !.pc = "unbind", !.name = NoName]
      BY <3>1 DEF IndInv, TypeOK, Ops
    <3>2. CASE op' = [op EXCEPT !.pc = "rmPolicy", !.name = NoName]
      BY <3>2 DEF IndInv, TypeOK, Ops
    <3> QED
      BY <1>26, <3>1, <3>2 DEF ClearSettings
  <2>2. \A q \in Policies, n \in ContainerNames : wpState'[q].pol[n] \in {0, wpState[q].pol[n]}
    <3>1. CASE wpState' = [wpState EXCEPT ![op.wp].pol[op.name] = 0]
      BY <3>1 DEF IndInv, TypeOK, CacheTypeOK, WPInfos
    <3> QED
      BY <1>26, <3>1 DEF ClearSettings
  <2> QED
    BY <1>26, <2>1, <2>2, FrameLemma DEF ClearSettings
<1>27. CASE ClearSettingsFails
  <2>1. op'.ids = op.ids /\ op'.wp = op.wp
    BY <1>27 DEF ClearSettingsFails, Finish, Abort, IndInv, TypeOK, Ops
  <2>2. \A wp \in Policies : wpState'[wp].pol = wpState[wp].pol
    BY <1>27, StatusOnErrorLemma DEF ClearSettingsFails, Abort, IndInv
  <2> QED
    BY <1>27, <2>1, <2>2, FrameLemma DEF ClearSettingsFails
<1>28. CASE Return
  <2>1. op'.ids = NoIDs
    BY <1>28 DEF Return, Idle
  <2> QED
    BY <1>28, <2>1, FrameLemma DEF Return, NoIDs
<1>29. ASSUME NEW c \in ContainerIDs, CgroupRelease(c) PROVE IDsOwned'
  <2>1. op'.ids = op.ids /\ op'.wp = op.wp
    BY <1>29 DEF CgroupRelease, IndInv, TypeOK, Ops
  <2> QED
    BY <1>29, <2>1, FrameLemma DEF CgroupRelease
<1>30. CASE Restart
  BY <1>30 DEF Restart, IDsOwned, AllocatedFor, Idle, NilInfo, NoIDs
<1>31. CASE UNCHANGED resolverVars
  BY <1>31 DEF resolverVars, IndInv, TypeOK, CacheTypeOK, MapsTypeOK, OpOK, PodsOK, IDsOwned,
     AllocatedFor, Ops, WPInfos, PolicyIDs
<1> QED
  BY <1>1, <1>2, <1>3, <1>4, <1>5, <1>6, <1>7, <1>8, <1>9, <1>10, <1>11, <1>12, <1>13, <1>14,
     <1>15, <1>16, <1>17, <1>18, <1>19, <1>20, <1>21, <1>22, <1>23, <1>24, <1>25, <1>26, <1>27,
     <1>28, <1>29, <1>30, <1>31 DEF Next, OpStep

\* Every step keeps the inductive invariant.
LEMMA NextInv == IndInv /\ [Next]_resolverVars => IndInv'
  BY CacheTypeOKStep, MapsTypeOKStep, OpTypeStep, HistoryTypeOKStep, OpOKStep, PodsOKStep,
     IDsOwnedStep
  DEF IndInv, TypeOK

\* The inductive invariant holds in every state of the resolver.
THEOREM Invariance == Spec => []IndInv
  BY InitInv, NextInv, PTL DEF Spec

\* The caches of the resolver, the kernel maps and the operation that holds the
\* resolver's lock are well formed in every state.
THEOREM TypeCorrect == Spec => []TypeOK
<1>1. IndInv => TypeOK
  BY DEF IndInv
<1> QED
  BY <1>1, Invariance, PTL

\* A cgroup is never bound to an ID that allocPolicyID gave to another policy or
\* to another container, whatever NRI, the API server and the map calls do.
THEOREM OwnBindings == Spec => []BindingsAreOwn
<1>1. IndInv => BindingsAreOwn
  BY DEF IndInv, IDsOwned, AllocatedFor, BindingsAreOwn
<1> QED
  BY <1>1, Invariance, PTL

=============================================================================
