---------------------------- MODULE ResolverSteps ----------------------------
(***************************************************************************)
(* What every step of the resolver does, field by field, and the part of   *)
(* the inductive invariant that says how far the operation that holds the  *)
(* lock has got: the containers it has cached, the IDs it carries, the     *)
(* rules it has written and the containers it has bound.  ReadyProofs      *)
(* builds on it.                                                           *)
(***************************************************************************)
EXTENDS ResolverProofs

-----------------------------------------------------------------------------
(* What the operation in progress has done so far.                         *)

\* A reconcile of wp is in progress.
Busy(wp) == op.kind = "reconcile" /\ op.pc # "done" /\ op.wp = wp

\* It has synchronized the rules and visits the pods of the policy.
Visiting ==
  op.kind = "reconcile" /\ op.pc \in {"pods", "unbind", "bind", "clearValues", "clearSettings"}
Unbinding == op.kind = "reconcile" /\ op.pc \in {"unbind", "clearValues", "clearSettings"}

\* What the operation has done so far to the caches.
ProgressOK ==
  /\ op.pc = "idle" => op.kind = "none"
  /\ \A p \in Pods : podCache[p] \subseteq cgroupIDToPodID
  /\ \A wp \in Policies : ~wpState[wp].live => wpState[wp] = NilInfo
  /\ op.pc = "bind" \/ (op.kind = "reconcile" /\ op.pc # "done") => wpState[op.wp].live
  /\ op.kind = "delete" => wpState[op.wp] = NilInfo
  /\ op.pc = "bind" => op.cs \subseteq podCache[op.pod]
  /\ op.kind = "add" => op.pod \in Pods
  /\ op.kind = "add" /\ op.pc = "track" =>
       /\ op.cs \subseteq op.added
       /\ op.added \ op.cs \subseteq podCache[op.pod]
       /\ op.fresh => podCache[op.pod] \subseteq op.added
  /\ op.kind = "add" /\ (op.pc = "bind" \/ (op.pc = "done" /\ ~op.failed)) =>
       op.added \subseteq podCache[op.pod]

\* newContainers and removedMap: the IDs the operation carries.
IDsCarried ==
  /\ op.pc \in {"values", "settings"} =>
       /\ op.names \subseteq op.spec.containers
       /\ \A n \in ContainerNames : op.ids[n] # 0 =>
            n \in op.spec.containers \ op.names /\ wpState[op.wp].pol[n] = 0
  /\ op.pc = "settings" => op.name \in op.spec.containers \ op.names
  /\ Visiting => \A n \in ContainerNames : op.ids[n] # 0 =>
       n \notin op.spec.containers /\ wpState[op.wp].pol[n] \in {0, op.ids[n]}
  /\ Visiting /\ op.pc = "bind" => \A c \in op.cs : NameOf[c] \in op.spec.containers
  /\ Unbinding => \A c \in op.cs : op.ids[NameOf[c]] # 0
  /\ op.pc \in {"clearValues", "clearSettings"} => op.ids[op.name] # 0
  /\ op.kind = "delete" => \A n \in op.names : op.ids[n] # 0

\* The maps hold the rules and the settings that s gives to container n.
SettingsOf(s, n) == [mode |-> s.mode, foreign |-> s.rules[n].foreign]
Written(id, s, n) ==
  /\ policyValues[id] = s.rules[n].allowed
  /\ policySettings[id] = SettingsOf(s, n)

\* The ID of container n, allocated or not by this reconcile.
IDOf(n) == IF op.ids[n] # 0 THEN op.ids[n] ELSE wpState[op.wp].pol[n]

\* The rules that the reconcile in progress has written.
RulesWritten ==
  /\ op.pc = "values" => \A n \in op.spec.containers \ op.names :
       IDOf(n) # 0 /\ Written(IDOf(n), op.spec, n)
  /\ op.pc = "settings" => \A n \in op.spec.containers \ op.names :
       /\ IDOf(n) # 0
       /\ policyValues[IDOf(n)] = op.spec.rules[n].allowed
       /\ n # op.name => Written(IDOf(n), op.spec, n)
  /\ Visiting => \A n \in op.spec.containers :
       wpState[op.wp].pol[n] # 0 /\ Written(wpState[op.wp].pol[n], op.spec, n)

Bound(c) == cgToPolicy[c] = wpState[PolicyOf[PodOf[c]]].pol[NameOf[c]]

\* The containers that the reconcile in progress has bound.
VisitedBound ==
  Visiting => \A c \in ContainerIDs :
    /\ c \in podCache[PodOf[c]] /\ PolicyOf[PodOf[c]] = op.wp
    /\ NameOf[c] \in op.spec.containers
    => \/ Bound(c)
       \/ PodOf[c] \in op.pods
       \/ PodOf[c] = op.pod /\ (Unbinding \/ (op.pc = "bind" /\ c \in op.cs))

-----------------------------------------------------------------------------
(* What each step does, field by field: the proofs below use these instead *)
(* of the definitions of the actions.                                      *)

\* The operation goes on with the same arguments, at the same place.
SameCall == /\ op'.kind = op.kind /\ op'.wp = op.wp /\ op'.spec = op.spec
            /\ op'.added = op.added /\ op'.fresh = op.fresh
SamePlace == /\ op'.pod = op.pod /\ op'.names = op.names /\ op'.name = op.name
             /\ op'.ids = op.ids /\ op'.pods = op.pods

\* A record that an operation starts with.
Started(kind, pc, wp, spec) ==
  /\ op.pc = "idle"
  /\ op'.kind = kind /\ op'.pc = pc /\ op'.wp = wp /\ op'.spec = spec
  /\ op'.pods = {} /\ ~op'.failed

\* An operation that ends; one that ends with an error records it.
Finished(failed) ==
  /\ SameCall /\ SamePlace
  /\ op'.pc = "done" /\ op'.failed = failed /\ op'.cs = op.cs

Aborted ==
  /\ Finished(TRUE)
  /\ op.kind = "reconcile" => wpState'[op.wp].state = "error"
  /\ \A wp \in Policies :
       /\ wpState'[wp].pol = wpState[wp].pol /\ wpState'[wp].live = wpState[wp].live
       /\ (op.kind = "reconcile" /\ op.wp = wp) \/ wpState'[wp] = wpState[wp]

\* Only the entry of i changes in f.
OnlyAt(f, g, S, i) == \A j \in S : j # i => g[j] = f[j]

\* Finish ends the operation and keeps everything it has read.
LEMMA FinishEffect ==
  ASSUME IndInv, NEW failed \in BOOLEAN, Finish(failed)
  PROVE  Finished(failed)
  BY Zenon DEF Finish, Finished, SameCall, SamePlace, IndInv, TypeOK, Ops

\* The deferred function of ReconcileWP marks the policy of the reconcile.
LEMMA AbortEffect ==
  ASSUME IndInv, Abort
  PROVE  Aborted
<1>1. Finished(TRUE)
  BY FinishEffect, Zenon DEF Abort
<1>2. CASE op.kind = "reconcile"
  <2>1. op.wp \in Policies
    BY <1>2, Zenon DEF IndInv, OpOK
  <2>2. wpState' = [wpState EXCEPT ![op.wp] =
                      [wpState[op.wp] EXCEPT !.state = "error", !.mode = op.spec.mode]]
    BY <1>2, Zenon DEF Abort, StatusOnError, IndInv, TypeOK, CacheTypeOK
  <2> QED
    BY <1>1, <1>2, <2>1, <2>2, Zenon DEF Aborted, IndInv, TypeOK, CacheTypeOK, WPInfos
<1>3. CASE op.kind # "reconcile"
  BY <1>1, <1>3, Zenon DEF Aborted, Abort, StatusOnError
<1> QED
  BY <1>2, <1>3, Zenon

\* AddPodContainerFromNri takes the lock and reads the cached pod.
LEMMA AddEffect ==
  ASSUME NEW p \in Pods, NEW cs, AddPodContainerFromNri(p, cs)
  PROVE  /\ Started("add", "track", NoPolicy, NoSpec)
         /\ op'.pod = p /\ op'.cs = cs \ podCache[p] /\ op'.added = cs
         /\ (op'.fresh <=> podCache[p] = {}) /\ op'.ids = NoIDs
         /\ UNCHANGED <<cacheVars, bpfVars, faults, owner, history>>
  BY Zenon DEF AddPodContainerFromNri, Unlocked, Idle, Started

\* One container is cached.
LEMMA TrackEffect ==
  ASSUME IndInv, NEW c \in ContainerIDs, TrackContainer(c)
  PROVE  /\ op.pc = "track" /\ c \in op.cs
         /\ podCache'[op.pod] = podCache[op.pod] \cup {c}
         /\ OnlyAt(podCache, podCache', Pods, op.pod)
         /\ cgroupIDToPodID' = cgroupIDToPodID \cup {c}
         /\ SameCall /\ SamePlace /\ op'.pc = op.pc /\ op'.cs = op.cs \ {c}
         /\ op'.failed = op.failed
         /\ UNCHANGED <<wpState, nextPolicyID, cgToPolicy, policyValues, policySettings, faults,
                        owner, history>>
  BY Zenon DEF TrackContainer, Ok, OnlyAt, SameCall, SamePlace, IndInv, TypeOK, CacheTypeOK, OpOK,
     AtPod, Ops

\* The container that cannot be tracked leaves a new pod uncached.
LEMMA TrackFailsEffect ==
  ASSUME IndInv, NEW c \in ContainerIDs, TrackContainerFails(c)
  PROVE  /\ op.pc = "track" /\ c \in op.cs
         /\ podCache'[op.pod] = IF op.fresh THEN {} ELSE podCache[op.pod] \cup {c}
         /\ OnlyAt(podCache, podCache', Pods, op.pod)
         /\ cgroupIDToPodID' = cgroupIDToPodID \cup {c}
         /\ Finished(TRUE)
         /\ faults' = faults + 1
         /\ UNCHANGED <<wpState, nextPolicyID, bpfVars, owner, history>>
<1>1. op.pc = "track" /\ op.pod \in Pods
  BY Zenon DEF TrackContainerFails, IndInv, OpOK, AtPod
<1> QED
  BY <1>1, FinishEffect, Zenon DEF TrackContainerFails, Fault, OnlyAt, IndInv, TypeOK, CacheTypeOK

\* applyPolicyToPodIfPresent finds no policy label, no policy, or its policy.
LEMMA ApplyEffect ==
  ASSUME IndInv, ApplyPolicyToPodIfPresent
  PROVE  LET wp == PolicyOf[op.pod] IN
         /\ op.pc = "track" /\ op.cs = {}
         /\ \/ wp \notin Policies /\ Finished(FALSE)
            \/ wp \in Policies /\ ~wpState[wp].live /\ Finished(TRUE)
            \/ /\ wp \in Policies /\ wpState[wp].live
               /\ op'.kind = op.kind /\ op'.added = op.added /\ op'.pod = op.pod
               /\ op'.pods = op.pods /\ op'.ids = op.ids /\ op'.wp = wp /\ op'.pc = "bind"
               /\ op'.cs = {c \in podCache[op.pod] : wpState[wp].pol[NameOf[c]] # 0}
         /\ UNCHANGED <<cacheVars, bpfVars, faults, owner, history>>
<1> DEFINE wp == PolicyOf[op.pod]
<1>1. op.pc = "track" /\ op.cs = {} /\ op.pod \in Pods
  BY Zenon DEF ApplyPolicyToPodIfPresent, IndInv, OpOK, AtPod
<1>2. wp # NoPolicy <=> wp \in Policies
  BY <1>1, ConstantsAssumption, NullsAssumption, Zenon
<1>3. UNCHANGED <<cacheVars, bpfVars, faults, owner, history>>
  BY Zenon DEF ApplyPolicyToPodIfPresent
<1>4. CASE wp = NoPolicy /\ Finish(FALSE)
  BY <1>1, <1>2, <1>3, <1>4, FinishEffect, Zenon
<1>5. CASE wp # NoPolicy /\ ~wpState[wp].live /\ Finish(TRUE)
  BY <1>1, <1>2, <1>3, <1>5, FinishEffect, Zenon
<1>6. CASE /\ wp # NoPolicy /\ wpState[wp].live
           /\ op' = [op EXCEPT !.pc = "bind", !.wp = wp, !.names = ContainerNames,
                       !.cs = {c \in podCache[op.pod] : wpState[wp].pol[NameOf[c]] # 0}]
  BY <1>1, <1>2, <1>3, <1>6, Zenon DEF IndInv, TypeOK, Ops
<1> QED
  BY <1>4, <1>5, <1>6, Zenon DEF ApplyPolicyToPodIfPresent

\* One container is bound to the ID of its name.
LEMMA BindEffect ==
  ASSUME IndInv, NEW c \in ContainerIDs, BindContainer(c)
  PROVE  /\ op.pc = "bind" /\ c \in op.cs /\ PolicyOf[PodOf[c]] = op.wp /\ op.wp \in Policies
         /\ PodOf[c] = op.pod
         /\ cgToPolicy[c] \in {0, wpState[op.wp].pol[NameOf[c]]}
         /\ cgToPolicy'[c] = wpState[op.wp].pol[NameOf[c]]
         /\ OnlyAt(cgToPolicy, cgToPolicy', ContainerIDs, c)
         /\ SameCall /\ SamePlace /\ op'.pc = op.pc /\ op'.cs = op.cs \ {c}
         /\ op'.failed = op.failed
         /\ UNCHANGED <<cacheVars, policyValues, policySettings, faults, owner, history>>
<1>1. /\ op.pc = "bind" /\ c \in op.cs /\ PolicyOf[PodOf[c]] = op.wp /\ op.wp \in Policies
      /\ PodOf[c] = op.pod
  BY Zenon DEF BindContainer, IndInv, OpOK, PodsOK, AtPod
<1>2. SameCall /\ SamePlace /\ op'.pc = op.pc /\ op'.cs = op.cs \ {c} /\ op'.failed = op.failed
  BY Zenon DEF BindContainer, SameCall, SamePlace, IndInv, TypeOK, Ops
<1> QED
  BY <1>1, <1>2, Zenon DEF BindContainer, Ok, AddPolicyToCgroup, Overlapping, OnlyAt, IndInv,
     TypeOK, MapsTypeOK

\* A binding fails when another ID is in the way, or when the map call fails.
LEMMA BindFailsEffect ==
  ASSUME IndInv, NEW c \in ContainerIDs, BindContainerFails(c)
  PROVE  /\ op.pc = "bind" /\ c \in op.cs /\ PolicyOf[PodOf[c]] = op.wp /\ op.wp \in Policies
         /\ \/ faults' = faults /\ cgToPolicy[c] \notin {0, wpState[op.wp].pol[NameOf[c]]}
            \/ faults' = faults + 1
         /\ Aborted
         /\ UNCHANGED <<podCache, cgroupIDToPodID, nextPolicyID, bpfVars, owner, history>>
<1>1. op.pc = "bind" /\ c \in op.cs /\ PolicyOf[PodOf[c]] = op.wp /\ op.wp \in Policies
  BY Zenon DEF BindContainerFails, IndInv, OpOK, PodsOK, AtPod
<1> QED
  BY <1>1, AbortEffect, Zenon DEF BindContainerFails, Ok, Fault, Overlapping

\* The containers of the pod are bound.
LEMMA PodBoundEffect ==
  ASSUME IndInv, PodBound
  PROVE  /\ op.pc = "bind" /\ op.cs = {}
         /\ \/ op.kind = "add" /\ Finished(FALSE)
            \/ /\ op.kind = "reconcile" /\ SameCall /\ SamePlace
               /\ op'.pc = "pods" /\ op'.cs = op.cs /\ op'.failed = op.failed
         /\ UNCHANGED <<cacheVars, bpfVars, faults, owner, history>>
<1>1. CASE op.kind = "add" /\ Finish(FALSE)
  BY <1>1, FinishEffect, Zenon DEF PodBound
<1>2. CASE op.kind = "reconcile" /\ op' = [op EXCEPT !.pc = "pods"]
  BY <1>2, Zenon DEF PodBound, SameCall, SamePlace, IndInv, TypeOK, Ops
<1> QED
  BY <1>1, <1>2, Zenon DEF PodBound

\* A removed container leaves the caches, and its cgroup the map if the call succeeds.
LEMMA RemoveEffect ==
  ASSUME IndInv, NEW c \in ContainerIDs, RemovePodContainerFromNri(c)
  PROVE  /\ op.pc = "idle" /\ op' = op
         /\ podCache'[PodOf[c]] = podCache[PodOf[c]] \ {c}
         /\ OnlyAt(podCache, podCache', Pods, PodOf[c])
         /\ c \in podCache[PodOf[c]] => cgroupIDToPodID' = cgroupIDToPodID \ {c}
         /\ c \notin podCache[PodOf[c]] => UNCHANGED <<cgroupIDToPodID, cgToPolicy>>
         /\ OnlyAt(cgToPolicy, cgToPolicy', ContainerIDs, c)
         /\ cgToPolicy'[c] \in {0, cgToPolicy[c]}
         /\ faults' = faults /\ c \in podCache[PodOf[c]] => cgToPolicy'[c] = 0
         /\ faults' \in {faults, faults + 1}
         /\ reported' = reported \ {c}
         /\ UNCHANGED <<wpState, nextPolicyID, policyValues, policySettings, owner, applied>>
<1>1. PodOf[c] \in Pods
  BY ConstantsAssumption, Zenon
<1>2. faults \in Int
  BY DEF IndInv, TypeOK, HistoryTypeOK
<1> QED
  BY <1>1, <1>2 DEF RemovePodContainerFromNri, Unlocked, RemoveCgroup, Ok, Fault, OnlyAt, IndInv,
     TypeOK,
     CacheTypeOK, MapsTypeOK

\* ReconcileWP takes the lock; the policy exists from now on.
LEMMA ReconcileEffect ==
  ASSUME IndInv, NEW wp \in Policies, NEW spec \in Specs, ReconcileWP(wp, spec)
  PROVE  /\ Started("reconcile", "values", wp, spec)
         /\ op'.names = spec.containers /\ op'.ids = NoIDs
         /\ wpState'[wp].live
         /\ \A q \in Policies : /\ wpState'[q].pol = wpState[q].pol
                                /\ wpState'[q].state = wpState[q].state
                                /\ wpState'[q].mode = wpState[q].mode
         /\ OnlyAt(wpState, wpState', Policies, wp)
         /\ UNCHANGED <<podCache, cgroupIDToPodID, nextPolicyID, bpfVars, faults, owner, history>>
<1>1. wpState' = [wpState EXCEPT ![wp] = [wpState[wp] EXCEPT !.live = TRUE]]
  BY Zenon DEF ReconcileWP
<1>2. Started("reconcile", "values", wp, spec) /\ op'.names = spec.containers /\ op'.ids = NoIDs
  BY Zenon DEF ReconcileWP, Unlocked, Idle, Started
<1> QED
  BY <1>1, <1>2 DEF ReconcileWP, OnlyAt, IndInv, TypeOK, CacheTypeOK, WPInfos

\* The ID under which syncWorkloadPolicy writes the rules of a container belongs
\* to that container, and is not in use for anything else.
LEMMA SyncIDLemma ==
  ASSUME IndInv, NEW n \in ContainerNames, op.kind = "reconcile", AllocPolicyID(n)
  PROVE  /\ SyncID(n) \in PolicyIDs
         /\ wpState[op.wp].pol[n] # 0 => SyncID(n) = wpState[op.wp].pol[n]
         /\ \A q \in Policies, m \in ContainerNames :
              wpState[q].pol[m] = SyncID(n) => q = op.wp /\ m = n
         /\ \A m \in ContainerNames : op.ids[m] = SyncID(n) => m = n
         /\ owner'[SyncID(n)] = <<op.wp, n>>
         /\ OnlyAt(owner, owner', PolicyIDs, SyncID(n))
<1>1. op.wp \in Policies
  BY Zenon DEF IndInv, OpOK
<1>2. \A q \in Policies, m \in ContainerNames : AllocatedFor(wpState[q].pol[m], <<q, m>>)
  BY Zenon DEF IndInv, IDsOwned
<1>3. \A m \in ContainerNames : AllocatedFor(op.ids[m], <<op.wp, m>>)
  BY Zenon DEF IndInv, IDsOwned
<1>4. \A q \in Policies, m \in ContainerNames : wpState[q].pol[m] \in 0 .. MaxPolicyID
  BY Zenon DEF IndInv, TypeOK, CacheTypeOK, WPInfos
<1>5. nextPolicyID \in Int /\ MaxPolicyID \in Int
  BY ConstantsAssumption DEF IndInv, TypeOK, CacheTypeOK
<1>6. DOMAIN owner = PolicyIDs
  BY Zenon DEF IndInv, TypeOK, HistoryTypeOK
<1>7. CASE wpState[op.wp].pol[n] # 0
  <2>1. SyncID(n) = wpState[op.wp].pol[n] /\ owner' = owner
    BY <1>7, Zenon DEF SyncID, AllocPolicyID
  <2>2. SyncID(n) \in PolicyIDs /\ owner[SyncID(n)] = <<op.wp, n>> /\ SyncID(n) # 0
    BY <1>1, <1>2, <1>4, <1>5, <1>7, <2>1 DEF AllocatedFor, PolicyIDs
  <2> QED
    BY <1>1, <1>2, <1>3, <2>1, <2>2 DEF AllocatedFor, OnlyAt
<1>8. CASE wpState[op.wp].pol[n] = 0
  <2>1. /\ SyncID(n) = nextPolicyID /\ nextPolicyID \in PolicyIDs
        /\ owner' = [owner EXCEPT ![nextPolicyID] = <<op.wp, n>>]
    BY <1>8, Zenon DEF SyncID, AllocPolicyID
  <2>2. SyncID(n) # 0 /\ ~(SyncID(n) < nextPolicyID)
    BY <1>5, <2>1 DEF PolicyIDs
  <2> QED
    BY <1>2, <1>3, <1>6, <1>8, <2>1, <2>2, Zenon DEF AllocatedFor, OnlyAt
<1> QED
  BY <1>7, <1>8, Zenon

\* The rules of one container are written under its ID.
LEMMA ValuesEffect ==
  ASSUME IndInv, NEW n \in ContainerNames, UpsertValues(n)
  PROVE  /\ op.pc = "values" /\ op.kind = "reconcile" /\ n \in op.names /\ AllocPolicyID(n)
         /\ policyValues'[SyncID(n)] = op.spec.rules[n].allowed
         /\ OnlyAt(policyValues, policyValues', PolicyIDs, SyncID(n))
         /\ SameCall /\ op'.pod = op.pod /\ op'.pods = op.pods /\ op'.cs = op.cs
         /\ op'.pc = "settings" /\ op'.names = op.names \ {n} /\ op'.name = n
         /\ op'.failed = op.failed
         /\ op'.ids[n] = IF wpState[op.wp].pol[n] = 0 THEN SyncID(n) ELSE 0
         /\ OnlyAt(op.ids, op'.ids, ContainerNames, n)
         /\ UNCHANGED <<podCache, cgroupIDToPodID, wpState, cgToPolicy, policySettings, faults,
                        history>>
<1>1. op.pc = "values" /\ op.kind = "reconcile" /\ n \in op.names /\ AllocPolicyID(n)
  BY Zenon DEF UpsertValues, IndInv, OpOK
<1>2. /\ SameCall /\ op'.pod = op.pod /\ op'.pods = op.pods /\ op'.cs = op.cs
      /\ op'.pc = "settings" /\ op'.names = op.names \ {n} /\ op'.name = n
      /\ op'.failed = op.failed
      /\ op'.ids = [op.ids EXCEPT ![n] = IF wpState[op.wp].pol[n] = 0 THEN nextPolicyID ELSE 0]
  BY Zenon DEF UpsertValues, SameCall, IndInv, TypeOK, Ops
<1>3. op.ids \in [ContainerNames -> 0 .. MaxPolicyID]
  BY Zenon DEF IndInv, TypeOK, Ops
<1>4. /\ op'.ids[n] = IF wpState[op.wp].pol[n] = 0 THEN SyncID(n) ELSE 0
      /\ OnlyAt(op.ids, op'.ids, ContainerNames, n)
  BY <1>2, <1>3, Zenon DEF SyncID, OnlyAt
<1>5. SyncID(n) \in PolicyIDs
  BY <1>1, SyncIDLemma, Zenon
<1>6. /\ policyValues'[SyncID(n)] = op.spec.rules[n].allowed
      /\ OnlyAt(policyValues, policyValues', PolicyIDs, SyncID(n))
  BY <1>5, Zenon DEF UpsertValues, PolicyUpdateBinaries, OnlyAt, IndInv, TypeOK, MapsTypeOK
<1> QED
  BY <1>1, <1>2, <1>4, <1>6, Zenon DEF UpsertValues, Ok

\* A failed write of the rules leaves some of the string maps rewritten.
LEMMA ValuesFailsEffect ==
  ASSUME IndInv, NEW n \in ContainerNames, UpsertValuesFails(n)
  PROVE  /\ op.pc = "values" /\ op.kind = "reconcile" /\ n \in op.names /\ AllocPolicyID(n)
         /\ \E i \in 0 .. 10 : policyValues'[SyncID(n)] =
              WrittenUpTo(policyValues[SyncID(n)], op.spec.rules[n].allowed, i)
         /\ OnlyAt(policyValues, policyValues', PolicyIDs, SyncID(n))
         /\ Aborted
         /\ faults' = faults + 1
         /\ UNCHANGED <<podCache, cgroupIDToPodID, cgToPolicy, policySettings, history>>
<1>1. op.pc = "values" /\ op.kind = "reconcile" /\ n \in op.names /\ AllocPolicyID(n)
  BY Zenon DEF UpsertValuesFails, IndInv, OpOK
<1>2. SyncID(n) \in PolicyIDs
  BY <1>1, SyncIDLemma
<1>3. PICK i \in 0 .. 10 : policyValues' = [policyValues EXCEPT ![SyncID(n)] =
                             WrittenUpTo(@, op.spec.rules[n].allowed, i)]
  BY Zenon DEF UpsertValuesFails, PolicyUpdateBinariesFails
<1>4. /\ policyValues'[SyncID(n)] =
           WrittenUpTo(policyValues[SyncID(n)], op.spec.rules[n].allowed, i)
      /\ OnlyAt(policyValues, policyValues', PolicyIDs, SyncID(n))
  BY <1>2, <1>3, Zenon DEF OnlyAt, IndInv, TypeOK, MapsTypeOK
<1> QED
  BY <1>1, <1>4, AbortEffect, Zenon DEF UpsertValuesFails, Fault

\* The settings of the container are written under the same ID.
LEMMA SettingsEffect ==
  ASSUME IndInv, UpsertSettings
  PROVE  /\ op.pc = "settings" /\ op.kind = "reconcile" /\ op.name \in ContainerNames
         /\ CurrentID \in PolicyIDs => policySettings'[CurrentID] = SettingsOf(op.spec, op.name)
         /\ OnlyAt(policySettings, policySettings', PolicyIDs, CurrentID)
         /\ SameCall /\ op'.pod = op.pod /\ op'.pods = op.pods /\ op'.cs = op.cs
         /\ op'.pc = "values" /\ op'.names = op.names /\ op'.ids = op.ids /\ op'.failed = op.failed
         /\ UNCHANGED <<cacheVars, cgToPolicy, policyValues, faults, owner, history>>
<1>1. /\ SameCall /\ op'.pod = op.pod /\ op'.pods = op.pods /\ op'.cs = op.cs
      /\ op'.pc = "values" /\ op'.names = op.names /\ op'.ids = op.ids /\ op'.failed = op.failed
  BY Zenon DEF UpsertSettings, SameCall, IndInv, TypeOK, Ops
<1>2. op.pc = "settings" /\ op.kind = "reconcile" /\ op.name \in ContainerNames
  BY Zenon DEF UpsertSettings, IndInv, OpOK
<1> QED
  BY <1>1, <1>2, Zenon DEF UpsertSettings, PolicySettingsUpdate, SettingsOf, Ok, OnlyAt, IndInv,
     TypeOK, MapsTypeOK

\* A failed write of the settings ends the reconcile.
LEMMA SettingsFailsEffect ==
  ASSUME IndInv, UpsertSettingsFails
  PROVE  /\ op.pc = "settings" /\ op.kind = "reconcile"
         /\ Aborted
         /\ faults' = faults + 1
         /\ UNCHANGED <<podCache, cgroupIDToPodID, nextPolicyID, bpfVars, owner, history>>
  BY AbortEffect, Zenon DEF UpsertSettingsFails, Fault, IndInv, OpOK

\* The new IDs join the others, those of removed containers are set aside.
LEMMA SplitEffect ==
  ASSUME IndInv, SplitAppliedRemoved
  PROVE  /\ op.pc = "values" /\ op.kind = "reconcile" /\ op.names = {} /\ op.wp \in Policies
         /\ \A n \in ContainerNames :
              /\ wpState'[op.wp].pol[n] =
                   IF op.ids[n] # 0 THEN op.ids[n] ELSE wpState[op.wp].pol[n]
              /\ op'.ids[n] = IF n \in op.spec.containers THEN 0 ELSE wpState[op.wp].pol[n]
         /\ wpState'[op.wp].live = wpState[op.wp].live
         /\ wpState'[op.wp].state = wpState[op.wp].state
         /\ wpState'[op.wp].mode = wpState[op.wp].mode
         /\ OnlyAt(wpState, wpState', Policies, op.wp)
         /\ SameCall /\ op'.pc = "pods" /\ op'.cs = op.cs /\ op'.failed = op.failed
         /\ op'.pods = {p \in Pods : podCache[p] # {} /\ PolicyOf[p] = op.wp}
         /\ UNCHANGED <<podCache, cgroupIDToPodID, nextPolicyID, bpfVars, faults, owner, history>>
<1>1. op.pc = "values" /\ op.kind = "reconcile" /\ op.names = {} /\ op.wp \in Policies
  BY Zenon DEF SplitAppliedRemoved, IndInv, OpOK
<1>2. /\ SameCall /\ op'.pc = "pods" /\ op'.cs = op.cs /\ op'.failed = op.failed
      /\ op'.pods = {p \in Pods : podCache[p] # {} /\ PolicyOf[p] = op.wp}
      /\ op'.ids = [n \in ContainerNames |->
                      IF n \in op.spec.containers THEN 0 ELSE wpState[op.wp].pol[n]]
  BY Zenon DEF SplitAppliedRemoved, SameCall, IndInv, TypeOK, Ops
<1>3. wpState' = [wpState EXCEPT ![op.wp] = [wpState[op.wp] EXCEPT !.pol = MergeNewContainers]]
  BY Zenon DEF SplitAppliedRemoved
<1>4. /\ wpState'[op.wp].pol = MergeNewContainers
      /\ wpState'[op.wp].live = wpState[op.wp].live
      /\ wpState'[op.wp].state = wpState[op.wp].state
      /\ wpState'[op.wp].mode = wpState[op.wp].mode
      /\ OnlyAt(wpState, wpState', Policies, op.wp)
  BY <1>1, <1>3 DEF OnlyAt, IndInv, TypeOK, CacheTypeOK, WPInfos
<1> QED
  BY <1>1, <1>2, <1>4 DEF SplitAppliedRemoved, MergeNewContainers

\* A pod is visited: first its containers that left the spec.
LEMMA VisitEffect ==
  ASSUME IndInv, NEW p \in Pods, VisitPod(p)
  PROVE  /\ op.pc = "pods" /\ op.kind = "reconcile" /\ p \in op.pods
         /\ SameCall /\ op'.pc = "unbind" /\ op'.pods = op.pods \ {p} /\ op'.pod = p
         /\ op'.cs = {c \in podCache[p] : op.ids[NameOf[c]] # 0}
         /\ op'.ids = op.ids /\ op'.names = op.names /\ op'.failed = op.failed
         /\ UNCHANGED <<cacheVars, bpfVars, faults, owner, history>>
  BY Zenon DEF VisitPod, SameCall, IndInv, TypeOK, OpOK, Ops

\* A container that left the spec loses its binding, then its ID is cleared.
LEMMA UnbindEffect ==
  ASSUME IndInv, NEW c \in ContainerIDs, UnbindContainer(c)
  PROVE  /\ op.pc = "unbind" /\ op.kind = "reconcile" /\ c \in op.cs
         /\ cgToPolicy'[c] = 0
         /\ OnlyAt(cgToPolicy, cgToPolicy', ContainerIDs, c)
         /\ SameCall /\ op'.pc = "clearValues" /\ op'.cs = op.cs \ {c} /\ op'.name = NameOf[c]
         /\ op'.pod = op.pod /\ op'.pods = op.pods /\ op'.ids = op.ids /\ op'.names = op.names
         /\ op'.failed = op.failed
         /\ UNCHANGED <<cacheVars, policyValues, policySettings, faults, owner, history>>
<1>1. /\ SameCall /\ op'.pc = "clearValues" /\ op'.cs = op.cs \ {c} /\ op'.name = NameOf[c]
      /\ op'.pod = op.pod /\ op'.pods = op.pods /\ op'.ids = op.ids /\ op'.names = op.names
      /\ op'.failed = op.failed
  BY Zenon DEF UnbindContainer, SameCall, IndInv, TypeOK, Ops
<1> QED
  BY <1>1, Zenon DEF UnbindContainer, RemoveCgroup, Ok, OnlyAt, IndInv, TypeOK, MapsTypeOK, OpOK

\* A failed removal of a binding ends the reconcile.
LEMMA UnbindFailsEffect ==
  ASSUME IndInv, NEW c \in ContainerIDs, UnbindContainerFails(c)
  PROVE  /\ op.pc = "unbind" /\ op.kind = "reconcile"
         /\ Aborted
         /\ faults' = faults + 1
         /\ UNCHANGED <<podCache, cgroupIDToPodID, nextPolicyID, bpfVars, owner, history>>
  BY AbortEffect, Zenon DEF UnbindContainerFails, Fault, IndInv, OpOK

\* Then the containers of the spec.
LEMMA PodUnboundEffect ==
  ASSUME IndInv, PodUnbound
  PROVE  /\ op.pc = "unbind" /\ op.kind = "reconcile" /\ op.cs = {}
         /\ SameCall /\ SamePlace /\ op'.pc = "bind" /\ op'.failed = op.failed
         /\ op'.cs = {c \in podCache[op.pod] : NameOf[c] \in op.spec.containers}
         /\ UNCHANGED <<cacheVars, bpfVars, faults, owner, history>>
  BY Zenon DEF PodUnbound, SameCall, SamePlace, IndInv, TypeOK, OpOK, Ops

\* A reconcile that has visited every pod reports READY.
LEMMA ReconcileDoneEffect ==
  ASSUME IndInv, ReconcileDone
  PROVE  /\ op.pc = "pods" /\ op.kind = "reconcile" /\ op.pods = {} /\ op.wp \in Policies
         /\ op.spec \in Specs
         /\ wpState'[op.wp].state = "ready" /\ wpState'[op.wp].mode = op.spec.mode
         /\ wpState'[op.wp].live = wpState[op.wp].live
         /\ wpState'[op.wp].pol = wpState[op.wp].pol
         /\ OnlyAt(wpState, wpState', Policies, op.wp)
         /\ applied'[op.wp] = op.spec
         /\ OnlyAt(applied, applied', Policies, op.wp)
         /\ Finished(FALSE)
         /\ UNCHANGED <<podCache, cgroupIDToPodID, nextPolicyID, bpfVars, faults, owner, reported>>
<1>1. /\ op.pc = "pods" /\ op.kind = "reconcile" /\ op.pods = {} /\ op.wp \in Policies
      /\ op.spec \in Specs
  BY Zenon DEF ReconcileDone, IndInv, OpOK
<1>2. wpState' = [wpState EXCEPT ![op.wp] =
                    [wpState[op.wp] EXCEPT !.state = "ready", !.mode = op.spec.mode]]
  BY Zenon DEF ReconcileDone
<1>3. /\ wpState'[op.wp].state = "ready" /\ wpState'[op.wp].mode = op.spec.mode
      /\ wpState'[op.wp].live = wpState[op.wp].live
      /\ wpState'[op.wp].pol = wpState[op.wp].pol
      /\ OnlyAt(wpState, wpState', Policies, op.wp)
  BY <1>1, <1>2, Zenon DEF OnlyAt, IndInv, TypeOK, CacheTypeOK, WPInfos
<1>4. applied'[op.wp] = op.spec /\ OnlyAt(applied, applied', Policies, op.wp)
  BY <1>1, Zenon DEF ReconcileDone, OnlyAt, IndInv, TypeOK, HistoryTypeOK
<1> QED
  BY <1>1, <1>3, <1>4, FinishEffect, Zenon DEF ReconcileDone

\* HandleWPDelete forgets the policy first.
LEMMA DeleteEffect ==
  ASSUME IndInv, NEW wp \in Policies, HandleWPDelete(wp)
  PROVE  /\ Started("delete", IF wpState[wp].live THEN "rmPolicy" ELSE "done", wp, NoSpec)
         /\ op'.ids = wpState[wp].pol
         /\ op'.names = {n \in ContainerNames : wpState[wp].pol[n] # 0}
         /\ wpState'[wp] = NilInfo /\ OnlyAt(wpState, wpState', Policies, wp)
         /\ applied'[wp] = NoSpec /\ OnlyAt(applied, applied', Policies, wp)
         /\ UNCHANGED <<podCache, cgroupIDToPodID, nextPolicyID, bpfVars, faults, owner, reported>>
<1>1. /\ Started("delete", IF wpState[wp].live THEN "rmPolicy" ELSE "done", wp, NoSpec)
      /\ op'.ids = wpState[wp].pol
      /\ op'.names = {n \in ContainerNames : wpState[wp].pol[n] # 0}
  BY Zenon DEF HandleWPDelete, Unlocked, Idle, Started
<1> QED
  BY <1>1, Zenon DEF HandleWPDelete, OnlyAt, IndInv, TypeOK, CacheTypeOK, HistoryTypeOK

\* The bindings of one ID go; or some of them, when the call fails.
LEMMA RemovePolicyEffect ==
  ASSUME IndInv, NEW n \in ContainerNames, RemovePolicyStep(n)
  PROVE  /\ op.pc = "rmPolicy" /\ op.kind = "delete" /\ n \in op.names
         /\ \A c \in ContainerIDs :
              cgToPolicy'[c] = IF cgToPolicy[c] = op.ids[n] THEN 0 ELSE cgToPolicy[c]
         /\ SameCall /\ op'.pc = "clearValues" /\ op'.names = op.names \ {n} /\ op'.name = n
         /\ op'.pod = op.pod /\ op'.pods = op.pods /\ op'.ids = op.ids /\ op'.cs = op.cs
         /\ UNCHANGED <<cacheVars, policyValues, policySettings, faults, owner, history>>
<1>1. /\ SameCall /\ op'.pc = "clearValues" /\ op'.names = op.names \ {n} /\ op'.name = n
      /\ op'.pod = op.pod /\ op'.pods = op.pods /\ op'.ids = op.ids /\ op'.cs = op.cs
  BY Zenon DEF RemovePolicyStep, SameCall, IndInv, TypeOK, Ops
<1> QED
  BY <1>1, Zenon DEF RemovePolicyStep, RemovePolicy, Ok, IndInv, OpOK

\* A failed removal of the bindings of an ID ends the deletion.
LEMMA RemovePolicyFailsEffect ==
  ASSUME IndInv, NEW n \in ContainerNames, RemovePolicyStepFails(n)
  PROVE  /\ op.pc = "rmPolicy" /\ op.kind = "delete"
         /\ \A c \in ContainerIDs :
              \/ cgToPolicy'[c] = cgToPolicy[c]
              \/ cgToPolicy'[c] = 0 /\ cgToPolicy[c] = op.ids[n]
         /\ Finished(TRUE)
         /\ faults' = faults + 1
         /\ UNCHANGED <<cacheVars, policyValues, policySettings, owner, history>>
  BY FinishEffect, Zenon DEF RemovePolicyStepFails, RemovePolicyFails, Fault, IndInv, OpOK

\* HandleWPDelete ends when no ID is left.
LEMMA DeleteDoneEffect ==
  ASSUME IndInv, DeleteDone
  PROVE  /\ op.pc = "rmPolicy" /\ op.kind = "delete" /\ op.names = {}
         /\ Finished(FALSE)
         /\ UNCHANGED <<cacheVars, bpfVars, faults, owner, history>>
  BY FinishEffect, Zenon DEF DeleteDone, IndInv, OpOK

\* clearPolicyIDFromBPF: the values of the ID, then its settings.
LEMMA ClearValuesEffect ==
  ASSUME IndInv, ClearValues
  PROVE  /\ op.pc = "clearValues" /\ op.kind \in {"reconcile", "delete"}
         /\ op.name \in ContainerNames
         /\ op.ids[op.name] \in PolicyIDs => policyValues'[op.ids[op.name]] = {}
         /\ OnlyAt(policyValues, policyValues', PolicyIDs, op.ids[op.name])
         /\ SameCall /\ SamePlace /\ op'.pc = "clearSettings" /\ op'.cs = op.cs
         /\ op'.failed = op.failed
         /\ UNCHANGED <<cacheVars, cgToPolicy, policySettings, faults, owner, history>>
<1>1. /\ SameCall /\ SamePlace /\ op'.pc = "clearSettings" /\ op'.cs = op.cs
      /\ op'.failed = op.failed
  BY Zenon DEF ClearValues, SameCall, SamePlace, IndInv, TypeOK, Ops
<1> QED
  BY <1>1, Zenon DEF ClearValues, PolicyUpdateBinaries, Ok, OnlyAt, IndInv, TypeOK, MapsTypeOK, OpOK

\* A failed removal of the values touches this ID only.
LEMMA ClearValuesFailsEffect ==
  ASSUME IndInv, ClearValuesFails
  PROVE  /\ op.pc = "clearValues" /\ op.kind \in {"reconcile", "delete"}
         /\ op.name \in ContainerNames
         /\ OnlyAt(policyValues, policyValues', PolicyIDs, op.ids[op.name])
         /\ Aborted
         /\ faults' = faults + 1
         /\ UNCHANGED <<podCache, cgroupIDToPodID, nextPolicyID, cgToPolicy, policySettings, owner,
                        history>>
<1>1. PICK i \in 0 .. 10 : policyValues' = [policyValues EXCEPT ![op.ids[op.name]] =
                             WrittenUpTo(@, {}, i)]
  BY Zenon DEF ClearValuesFails, PolicyUpdateBinariesFails
<1>2. OnlyAt(policyValues, policyValues', PolicyIDs, op.ids[op.name])
  BY <1>1, Zenon DEF OnlyAt, IndInv, TypeOK, MapsTypeOK
<1> QED
  BY <1>2, AbortEffect, Zenon DEF ClearValuesFails, Fault, IndInv, OpOK

\* A reconcile forgets the ID that it has cleared; a deletion has already.
LEMMA ClearSettingsEffect ==
  ASSUME IndInv, ClearSettings
  PROVE  /\ op.pc = "clearSettings" /\ op.kind \in {"reconcile", "delete"}
         /\ op.name \in ContainerNames /\ op.wp \in Policies
         /\ op.ids[op.name] \in PolicyIDs => policySettings'[op.ids[op.name]] = NoSettings
         /\ OnlyAt(policySettings, policySettings', PolicyIDs, op.ids[op.name])
         /\ op.kind = "delete" => wpState' = wpState
         /\ op.kind = "reconcile" =>
              /\ wpState'[op.wp].pol[op.name] = 0
              /\ OnlyAt(wpState[op.wp].pol, wpState'[op.wp].pol, ContainerNames, op.name)
              /\ wpState'[op.wp].live = wpState[op.wp].live
              /\ wpState'[op.wp].state = wpState[op.wp].state
              /\ wpState'[op.wp].mode = wpState[op.wp].mode
              /\ OnlyAt(wpState, wpState', Policies, op.wp)
         /\ SameCall /\ op'.pc = IF op.kind = "reconcile" THEN "unbind" ELSE "rmPolicy"
         /\ op'.pod = op.pod /\ op'.pods = op.pods /\ op'.ids = op.ids /\ op'.names = op.names
         /\ op'.cs = op.cs /\ op'.failed = op.failed
         /\ UNCHANGED <<podCache, cgroupIDToPodID, nextPolicyID, cgToPolicy, policyValues, faults,
                        owner, history>>
<1>1. /\ op.pc = "clearSettings" /\ op.kind \in {"reconcile", "delete"}
      /\ op.name \in ContainerNames /\ op.wp \in Policies
  BY Zenon DEF ClearSettings, IndInv, OpOK
<1>2. /\ op.ids[op.name] \in PolicyIDs => policySettings'[op.ids[op.name]] = NoSettings
      /\ OnlyAt(policySettings, policySettings', PolicyIDs, op.ids[op.name])
  BY Zenon DEF ClearSettings, PolicySettingsUpdate, OnlyAt, IndInv, TypeOK, MapsTypeOK
<1>3. UNCHANGED <<podCache, cgroupIDToPodID, nextPolicyID, cgToPolicy, policyValues, faults,
                  owner, history>>
  BY Zenon DEF ClearSettings, Ok
<1>4. CASE op.kind = "reconcile"
  <2>1. op' = [op EXCEPT !.pc = "unbind", !.name = NoName]
    BY <1>4, Zenon DEF ClearSettings
  <2>2. wpState' = [wpState EXCEPT ![op.wp] =
                      [wpState[op.wp] EXCEPT !.pol = [wpState[op.wp].pol EXCEPT ![op.name] = 0]]]
    BY <1>4, Zenon DEF ClearSettings
  <2>3. wpState[op.wp] \in WPInfos /\ DOMAIN wpState = Policies
    BY <1>1, Zenon DEF IndInv, TypeOK, CacheTypeOK
  <2>4. /\ wpState'[op.wp].pol = [wpState[op.wp].pol EXCEPT ![op.name] = 0]
        /\ wpState'[op.wp].live = wpState[op.wp].live
        /\ wpState'[op.wp].state = wpState[op.wp].state
        /\ wpState'[op.wp].mode = wpState[op.wp].mode
        /\ OnlyAt(wpState, wpState', Policies, op.wp)
    BY <1>1, <2>2, <2>3, Zenon DEF OnlyAt, WPInfos
  <2>5. /\ wpState'[op.wp].pol[op.name] = 0
        /\ OnlyAt(wpState[op.wp].pol, wpState'[op.wp].pol, ContainerNames, op.name)
    BY <1>1, <2>3, <2>4, Zenon DEF OnlyAt, WPInfos
  <2>6. /\ SameCall /\ op'.pc = "unbind"
        /\ op'.pod = op.pod /\ op'.pods = op.pods /\ op'.ids = op.ids /\ op'.names = op.names
        /\ op'.cs = op.cs /\ op'.failed = op.failed
    BY <2>1, Zenon DEF SameCall, IndInv, TypeOK, Ops
  <2> QED
    BY <1>1, <1>2, <1>3, <1>4, <2>4, <2>5, <2>6, Zenon
<1>5. CASE op.kind # "reconcile"
  <2>1. op' = [op EXCEPT !.pc = "rmPolicy", !.name = NoName] /\ wpState' = wpState
    BY <1>5, Zenon DEF ClearSettings
  <2>2. /\ SameCall /\ op'.pc = "rmPolicy"
        /\ op'.pod = op.pod /\ op'.pods = op.pods /\ op'.ids = op.ids /\ op'.names = op.names
        /\ op'.cs = op.cs /\ op'.failed = op.failed
    BY <2>1, Zenon DEF SameCall, IndInv, TypeOK, Ops
  <2> QED
    BY <1>1, <1>2, <1>3, <1>5, <2>1, <2>2, Zenon
<1> QED
  BY <1>4, <1>5, Zenon

\* A failed removal of the settings ends the operation.
LEMMA ClearSettingsFailsEffect ==
  ASSUME IndInv, ClearSettingsFails
  PROVE  /\ op.pc = "clearSettings" /\ op.kind \in {"reconcile", "delete"}
         /\ Aborted
         /\ faults' = faults + 1
         /\ UNCHANGED <<podCache, cgroupIDToPodID, nextPolicyID, bpfVars, owner, history>>
  BY AbortEffect, Zenon DEF ClearSettingsFails, Fault, IndInv, OpOK

\* The record of no operation.
LEMMA IdleFields ==
  Idle.pc = "idle" /\ Idle.kind = "none" /\ Idle.ids = NoIDs /\ Idle.names = {}
  BY DEF Idle

\* The call returns to its caller, which learns whether it failed.
LEMMA ReturnEffect ==
  ASSUME Return
  PROVE  /\ op.pc = "done" /\ op' = Idle
         /\ op'.pc = "idle" /\ op'.kind = "none" /\ op'.ids = NoIDs /\ op'.names = {}
         /\ op.kind = "add" /\ op.failed => reported' = reported \cup op.added
         /\ op.kind = "add" /\ ~op.failed => reported' = reported \ podCache[op.pod]
         /\ op.kind = "reconcile" /\ ~op.failed =>
              reported' = {c \in reported : PolicyOf[PodOf[c]] # op.wp}
         /\ op.kind = "reconcile" /\ op.failed => reported' = reported
         /\ op.kind \notin {"add", "reconcile"} => reported' = reported
         /\ UNCHANGED <<cacheVars, bpfVars, faults, owner, applied>>
  BY IdleFields, Zenon DEF Return

-----------------------------------------------------------------------------
(* The invariant is kept by every step. *)

\* allocPolicyID never gives out an ID twice: two places that hold the same ID
\* are places of the same container of the same policy.
LEMMA OwnIDs ==
  ASSUME IndInv
  PROVE  /\ \A q, r \in Policies, m, n \in ContainerNames :
              wpState[q].pol[m] = wpState[r].pol[n] /\ wpState[q].pol[m] # 0 => q = r /\ m = n
         /\ \A q \in Policies, m, n \in ContainerNames :
              wpState[q].pol[m] = op.ids[n] /\ op.ids[n] # 0 => q = op.wp /\ m = n
         /\ \A m, n \in ContainerNames : op.ids[m] = op.ids[n] /\ op.ids[m] # 0 => m = n
         /\ \A q \in Policies, n \in ContainerNames :
              wpState[q].pol[n] # 0 => wpState[q].pol[n] \in PolicyIDs
         /\ \A n \in ContainerNames : op.ids[n] # 0 => op.ids[n] \in PolicyIDs
<1>1. \A q \in Policies, n \in ContainerNames :
        wpState[q].pol[n] # 0 => owner[wpState[q].pol[n]] = <<q, n>>
  BY Zenon DEF IndInv, IDsOwned, AllocatedFor
<1>2. \A n \in ContainerNames : op.ids[n] # 0 => owner[op.ids[n]] = <<op.wp, n>>
  BY Zenon DEF IndInv, IDsOwned, AllocatedFor
<1>3. /\ \A q \in Policies, n \in ContainerNames : wpState[q].pol[n] \in 0 .. MaxPolicyID
      /\ \A n \in ContainerNames : op.ids[n] \in 0 .. MaxPolicyID
  BY DEF IndInv, TypeOK, CacheTypeOK, WPInfos, Ops
<1>4. \A id \in 0 .. MaxPolicyID : id # 0 => id \in PolicyIDs
  BY ConstantsAssumption DEF PolicyIDs
<1> QED
  BY <1>1, <1>2, <1>3, <1>4

\* An operation that ends with an error keeps what it has done to the caches.
LEMMA ProgressFailed ==
  ASSUME IndInv, ProgressOK, Finished(TRUE), op.pc # "done",
         \A wp \in Policies : ~wpState'[wp].live => wpState'[wp] = NilInfo,
         op.kind = "delete" => wpState'[op.wp] = wpState[op.wp],
         \A p \in Pods : podCache'[p] \subseteq cgroupIDToPodID'
  PROVE  ProgressOK'
<1>1. OpOK
  BY Zenon DEF IndInv
<1>2. /\ op'.pc = "done" /\ op'.failed /\ op'.kind = op.kind /\ op'.pod = op.pod
      /\ op'.wp = op.wp
  BY Zenon DEF Finished, SameCall, SamePlace
<1> QED
  BY <1>1, <1>2, Zenon DEF ProgressOK, OpOK, AtPod

\* An operation that aborts leaves the caches consistent.
LEMMA ProgressAborted ==
  ASSUME IndInv, ProgressOK, Aborted, UNCHANGED <<podCache, cgroupIDToPodID>>, op.pc # "done"
  PROVE  ProgressOK'
<1>1. \A wp \in Policies : ~wpState'[wp].live => wpState'[wp] = NilInfo
  BY Zenon DEF ProgressOK, Aborted
<1>2. Finished(TRUE)
  BY Zenon DEF Aborted
<1>3. op.kind = "delete" => wpState'[op.wp] = wpState[op.wp]
  BY Zenon DEF Aborted, IndInv, OpOK
<1> QED
  BY <1>1, <1>2, <1>3, ProgressFailed, Zenon DEF ProgressOK

\* The caches agree with each other and with the progress of the operation.
LEMMA ProgressOKStep == IndInv /\ ProgressOK /\ [Next]_resolverVars => ProgressOK'
<1> SUFFICES ASSUME IndInv, ProgressOK, [Next]_resolverVars PROVE ProgressOK'
  BY Zenon
<1> USE DEF cacheVars, bpfVars, history
<1>0. OpOK /\ PodsOK
  BY Zenon DEF IndInv
<1>1. ASSUME NEW p \in Pods, NEW cs \in SUBSET {c \in ContainerIDs : PodOf[c] = p},
             AddPodContainerFromNri(p, cs)
      PROVE  ProgressOK'
  <2>1. /\ op'.pc = "track" /\ op'.kind = "add" /\ op'.pod = p /\ op'.cs = cs \ podCache[p]
        /\ op'.added = cs /\ (op'.fresh <=> podCache[p] = {})
    BY <1>1, AddEffect, Zenon DEF Started
  <2>2. UNCHANGED <<podCache, cgroupIDToPodID, wpState>>
    BY <1>1, AddEffect, Zenon
  <2> QED
    BY <2>1, <2>2, Zenon DEF ProgressOK
<1>2. ASSUME NEW c \in ContainerIDs, TrackContainer(c) PROVE ProgressOK'
  BY <1>2, TrackEffect DEF OnlyAt, SameCall, SamePlace, ProgressOK
<1>3. ASSUME NEW c \in ContainerIDs, TrackContainerFails(c) PROVE ProgressOK'
  <2>1. /\ op.pc = "track" /\ Finished(TRUE) /\ wpState' = wpState
        /\ podCache'[op.pod] = IF op.fresh THEN {} ELSE podCache[op.pod] \cup {c}
        /\ OnlyAt(podCache, podCache', Pods, op.pod)
        /\ cgroupIDToPodID' = cgroupIDToPodID \cup {c}
    BY <1>3, TrackFailsEffect, Zenon
  <2>2. \A q \in Pods : podCache'[q] \subseteq cgroupIDToPodID'
    BY <2>1, Zenon DEF ProgressOK, OnlyAt
  <2>3. \A wp \in Policies : ~wpState'[wp].live => wpState'[wp] = NilInfo
    BY <2>1, Zenon DEF ProgressOK
  <2> QED
    BY <2>1, <2>2, <2>3, ProgressFailed, Zenon
<1>4. CASE ApplyPolicyToPodIfPresent
  <2>1. /\ op.pc = "track" /\ op.kind = "add" /\ op.pod \in Pods /\ op.cs = {}
        /\ UNCHANGED <<podCache, cgroupIDToPodID, wpState>>
    BY <1>4, <1>0, ApplyEffect, Zenon DEF OpOK, AtPod
  <2>2. CASE Finished(FALSE)
    BY <2>1, <2>2, Zenon DEF ProgressOK, Finished, SameCall, SamePlace
  <2>3. CASE Finished(TRUE)
    BY <2>1, <2>3, ProgressFailed, Zenon DEF ProgressOK
  <2>4. CASE /\ wpState[PolicyOf[op.pod]].live /\ op'.wp = PolicyOf[op.pod]
             /\ op'.kind = op.kind /\ op'.pc = "bind" /\ op'.pod = op.pod /\ op'.added = op.added
             /\ op'.cs = {c \in podCache[op.pod] : wpState[PolicyOf[op.pod]].pol[NameOf[c]] # 0}
    BY <2>1, <2>4, Zenon DEF ProgressOK
  <2> QED
    BY <1>4, <2>2, <2>3, <2>4, ApplyEffect, Zenon
<1>5. ASSUME NEW c \in ContainerIDs, BindContainer(c) PROVE ProgressOK'
  BY <1>5, BindEffect DEF OnlyAt, SameCall, SamePlace, OpOK, PodsOK, ProgressOK
<1>6. ASSUME NEW c \in ContainerIDs, BindContainerFails(c) PROVE ProgressOK'
  BY <1>6, BindFailsEffect, ProgressAborted, Zenon
<1>7. CASE PodBound
  <2>1. op.pc = "bind" /\ UNCHANGED <<podCache, cgroupIDToPodID, wpState>>
    BY <1>7, PodBoundEffect, Zenon
  <2>2. CASE op.kind = "add" /\ Finished(FALSE)
    BY <2>1, <2>2, Zenon DEF ProgressOK, Finished, SameCall, SamePlace
  <2>3. CASE op.kind = "reconcile" /\ SameCall /\ op'.pc = "pods"
    BY <2>1, <2>3, Zenon DEF ProgressOK, SameCall
  <2> QED
    BY <1>7, <2>2, <2>3, PodBoundEffect, Zenon
<1>8. ASSUME NEW c \in ContainerIDs, RemovePodContainerFromNri(c) PROVE ProgressOK'
  BY <1>8, <1>0, RemoveEffect, ConstantsAssumption DEF OnlyAt, OpOK, AtPod, PodsOK, ProgressOK
<1>9. ASSUME NEW wp \in Policies, NEW spec \in Specs, ReconcileWP(wp, spec) PROVE ProgressOK'
  BY <1>9, ReconcileEffect DEF Started, OnlyAt, ProgressOK
<1>10. ASSUME NEW n \in ContainerNames, UpsertValues(n) PROVE ProgressOK'
  BY <1>10, ValuesEffect DEF SameCall, ProgressOK
<1>11. ASSUME NEW n \in ContainerNames, UpsertValuesFails(n) PROVE ProgressOK'
  BY <1>11, ValuesFailsEffect, ProgressAborted, Zenon
<1>12. CASE UpsertSettings
  BY <1>12, SettingsEffect, Zenon DEF SameCall, ProgressOK
<1>13. CASE UpsertSettingsFails
  BY <1>13, SettingsFailsEffect, ProgressAborted, Zenon
<1>14. CASE SplitAppliedRemoved
  BY <1>14, SplitEffect DEF OnlyAt, SameCall, ProgressOK
<1>15. ASSUME NEW p \in Pods, VisitPod(p) PROVE ProgressOK'
  BY <1>15, VisitEffect DEF SameCall, ProgressOK
<1>16. ASSUME NEW c \in ContainerIDs, UnbindContainer(c) PROVE ProgressOK'
  BY <1>16, UnbindEffect DEF SameCall, ProgressOK
<1>17. ASSUME NEW c \in ContainerIDs, UnbindContainerFails(c) PROVE ProgressOK'
  BY <1>17, UnbindFailsEffect, ProgressAborted, Zenon
<1>18. CASE PodUnbound
  BY <1>18, PodUnboundEffect, Zenon DEF SameCall, SamePlace, PodsOK, ProgressOK
<1>19. CASE ReconcileDone
  BY <1>19, ReconcileDoneEffect DEF OnlyAt, Finished, SameCall, ProgressOK
<1>20. ASSUME NEW wp \in Policies, HandleWPDelete(wp) PROVE ProgressOK'
  <2>1. /\ op'.kind = "delete" /\ op'.pc \in {"rmPolicy", "done"} /\ op'.wp = wp
        /\ UNCHANGED <<podCache, cgroupIDToPodID>>
        /\ wpState'[wp] = NilInfo /\ OnlyAt(wpState, wpState', Policies, wp)
    BY <1>20, DeleteEffect, Zenon DEF Started
  <2> QED
    BY <2>1, Zenon DEF ProgressOK, OnlyAt
<1>21. ASSUME NEW n \in ContainerNames, RemovePolicyStep(n) PROVE ProgressOK'
  BY <1>21, RemovePolicyEffect DEF SameCall, ProgressOK
<1>22. ASSUME NEW n \in ContainerNames, RemovePolicyStepFails(n) PROVE ProgressOK'
  BY <1>22, RemovePolicyFailsEffect, ProgressFailed, Zenon DEF ProgressOK
<1>23. CASE DeleteDone
  BY <1>23, DeleteDoneEffect, Zenon DEF Finished, SameCall, ProgressOK
<1>24. CASE ClearValues
  BY <1>24, ClearValuesEffect, Zenon DEF OnlyAt, SameCall, ProgressOK
<1>25. CASE ClearValuesFails
  BY <1>25, ClearValuesFailsEffect, ProgressAborted, Zenon
<1>26. CASE ClearSettings
  BY <1>26, ClearSettingsEffect DEF OnlyAt, SameCall, ProgressOK
<1>27. CASE ClearSettingsFails
  BY <1>27, ClearSettingsFailsEffect, ProgressAborted, Zenon
<1>28. CASE Return
  BY <1>28, ReturnEffect DEF ProgressOK
<1>29. ASSUME NEW c \in ContainerIDs, CgroupRelease(c) PROVE ProgressOK'
  BY <1>29, Zenon DEF CgroupRelease, ProgressOK
<1>30. CASE Restart
  BY <1>30, Zenon DEF Restart, ProgressOK, Idle
<1>31. CASE UNCHANGED resolverVars
  BY <1>31, Zenon DEF resolverVars, ProgressOK
<1> QED
  BY <1>1, <1>2, <1>3, <1>4, <1>5, <1>6, <1>7, <1>8, <1>9, <1>10, <1>11, <1>12, <1>13, <1>14,
     <1>15, <1>16, <1>17, <1>18, <1>19, <1>20, <1>21, <1>22, <1>23, <1>24, <1>25, <1>26, <1>27,
     <1>28, <1>29, <1>30, <1>31 DEF Next, OpStep

\* The IDs that an operation carries are those of newContainers, of removedMap or of
\* the deleted policy.
LEMMA IDsCarriedStep == IndInv /\ IDsCarried /\ [Next]_resolverVars => IDsCarried'
<1> SUFFICES ASSUME IndInv, IDsCarried, [Next]_resolverVars PROVE IDsCarried'
  OBVIOUS
<1> USE DEF cacheVars, bpfVars, history
<1>0. OpOK
  BY Zenon DEF IndInv
<1>d. ASSUME op'.pc = "done", op'.kind = op.kind, op'.names = op.names, op'.ids = op.ids
      PROVE  IDsCarried'
  BY <1>d DEF IDsCarried, Visiting, Unbinding
<1>1. ASSUME NEW p \in Pods, NEW cs \in SUBSET {c \in ContainerIDs : PodOf[c] = p},
             AddPodContainerFromNri(p, cs)
      PROVE  IDsCarried'
  BY <1>1, AddEffect DEF Started, Unbinding, IDsCarried, NoIDs
<1>2. ASSUME NEW c \in ContainerIDs, TrackContainer(c) PROVE IDsCarried'
  BY <1>2, <1>0, TrackEffect, Zenon DEF SameCall, OpOK, Visiting, Unbinding, IDsCarried
<1>3. ASSUME NEW c \in ContainerIDs, TrackContainerFails(c) PROVE IDsCarried'
  BY <1>3, <1>0, TrackFailsEffect, Zenon DEF Finished, SameCall, OpOK, Visiting, Unbinding,
     IDsCarried
<1>4. CASE ApplyPolicyToPodIfPresent
  BY <1>4, <1>0, ApplyEffect, Zenon DEF Finished, SameCall, OpOK, Visiting, Unbinding, IDsCarried
<1>5. ASSUME NEW c \in ContainerIDs, BindContainer(c) PROVE IDsCarried'
  BY <1>5, BindEffect DEF SameCall, SamePlace, Visiting, Unbinding, IDsCarried
<1>6. ASSUME NEW c \in ContainerIDs, BindContainerFails(c) PROVE IDsCarried'
  BY <1>6, <1>0, BindFailsEffect, Zenon DEF Aborted, Finished, SameCall, OpOK, Visiting,
     Unbinding, IDsCarried
<1>7. CASE PodBound
  BY <1>7, PodBoundEffect, Zenon DEF Finished, SameCall, SamePlace, Visiting, IDsCarried
<1>8. ASSUME NEW c \in ContainerIDs, RemovePodContainerFromNri(c) PROVE IDsCarried'
  BY <1>8, RemoveEffect, Zenon DEF Visiting, Unbinding, IDsCarried
<1>9. ASSUME NEW wp \in Policies, NEW spec \in Specs, ReconcileWP(wp, spec) PROVE IDsCarried'
  BY <1>9, ReconcileEffect DEF Started, Unbinding, IDsCarried, NoIDs
<1>10. ASSUME NEW n \in ContainerNames, UpsertValues(n) PROVE IDsCarried'
  BY <1>10, ValuesEffect DEF OnlyAt, SameCall, Visiting, Unbinding, IDsCarried
<1>11. ASSUME NEW n \in ContainerNames, UpsertValuesFails(n) PROVE IDsCarried'
  BY <1>11, ValuesFailsEffect, Zenon DEF Aborted, Finished, SameCall, Visiting, Unbinding,
     IDsCarried
<1>12. CASE UpsertSettings
  BY <1>12, SettingsEffect DEF OnlyAt, SameCall, Visiting, Unbinding, IDsCarried
<1>13. CASE UpsertSettingsFails
  BY <1>13, SettingsFailsEffect, Zenon DEF Aborted, Finished, SameCall, Visiting, Unbinding,
     IDsCarried
<1>14. CASE SplitAppliedRemoved
  BY <1>14, SplitEffect DEF OnlyAt, SameCall, Unbinding, IDsCarried
<1>15. ASSUME NEW p \in Pods, VisitPod(p) PROVE IDsCarried'
  BY <1>15, VisitEffect DEF SameCall, Visiting, IDsCarried
<1>16. ASSUME NEW c \in ContainerIDs, UnbindContainer(c) PROVE IDsCarried'
  BY <1>16, UnbindEffect DEF SameCall, Visiting, Unbinding, IDsCarried
<1>17. ASSUME NEW c \in ContainerIDs, UnbindContainerFails(c) PROVE IDsCarried'
  BY <1>17, UnbindFailsEffect, Zenon DEF Aborted, Finished, SameCall, Visiting, Unbinding,
     IDsCarried
<1>18. CASE PodUnbound
  BY <1>18, PodUnboundEffect DEF SameCall, SamePlace, Visiting, Unbinding, IDsCarried
<1>19. CASE ReconcileDone
  BY <1>19, ReconcileDoneEffect, Zenon DEF Finished, SameCall, Visiting, Unbinding, IDsCarried
<1>20. ASSUME NEW wp \in Policies, HandleWPDelete(wp) PROVE IDsCarried'
  BY <1>20, DeleteEffect DEF Started, Visiting, Unbinding, IDsCarried
<1>21. ASSUME NEW n \in ContainerNames, RemovePolicyStep(n) PROVE IDsCarried'
  BY <1>21, RemovePolicyEffect DEF SameCall, Visiting, Unbinding, IDsCarried
<1>22. ASSUME NEW n \in ContainerNames, RemovePolicyStepFails(n) PROVE IDsCarried'
  <2>1. /\ op'.pc = "done" /\ op'.kind = op.kind /\ op'.names = op.names /\ op'.ids = op.ids
        /\ op.kind = "delete"
    BY <1>22, RemovePolicyFailsEffect, Zenon DEF Finished, SameCall, SamePlace
  <2> QED
    BY <2>1, Zenon DEF IDsCarried, Visiting, Unbinding
<1>23. CASE DeleteDone
  BY <1>23, DeleteDoneEffect, Zenon DEF Finished, SamePlace, Visiting, Unbinding, IDsCarried
<1>24. CASE ClearValues
  <2>1. /\ op.pc = "clearValues" /\ op'.pc = "clearSettings" /\ SameCall /\ SamePlace
        /\ op'.cs = op.cs /\ UNCHANGED wpState
    BY <1>24, ClearValuesEffect, Zenon
  <2> QED
    BY <2>1 DEF IDsCarried, Visiting, Unbinding, SameCall, SamePlace
<1>25. CASE ClearValuesFails
  BY <1>25, <1>d, ClearValuesFailsEffect, Zenon DEF Aborted, Finished, SameCall, SamePlace
<1>26. CASE ClearSettings
  <2>1. /\ op.pc = "clearSettings" /\ SameCall /\ op'.ids = op.ids /\ op'.names = op.names
        /\ op'.cs = op.cs
    BY <1>26, ClearSettingsEffect, Zenon
  <2>2. CASE op.kind = "reconcile"
    <3>1. /\ op'.pc = "unbind" /\ wpState'[op.wp].pol[op.name] = 0
          /\ OnlyAt(wpState[op.wp].pol, wpState'[op.wp].pol, ContainerNames, op.name)
      BY <1>26, <2>2, ClearSettingsEffect, Zenon
    <3> QED
      BY <2>1, <2>2, <3>1 DEF IDsCarried, Visiting, Unbinding, SameCall, OnlyAt
  <2>3. CASE op.kind = "delete"
    <3>1. op'.pc = "rmPolicy"
      BY <1>26, <2>3, ClearSettingsEffect
    <3> QED
      BY <2>1, <2>3, <3>1 DEF IDsCarried, Visiting, Unbinding, SameCall
  <2> QED
    BY <1>26, <2>2, <2>3, ClearSettingsEffect, Zenon
<1>27. CASE ClearSettingsFails
  BY <1>27, <1>d, ClearSettingsFailsEffect, Zenon DEF Aborted, Finished, SameCall, SamePlace
<1>28. CASE Return
  <2>1. op'.pc = "idle" /\ op'.kind = "none" /\ op'.names = {}
    BY <1>28, ReturnEffect, Zenon
  <2> QED
    BY <2>1 DEF IDsCarried, Visiting, Unbinding
<1>29. ASSUME NEW c \in ContainerIDs, CgroupRelease(c) PROVE IDsCarried'
  BY <1>29, Zenon DEF CgroupRelease, Visiting, Unbinding, IDsCarried
<1>30. CASE Restart
  BY <1>30, Zenon DEF Restart, IDsCarried, NoIDs, Idle
<1>31. CASE UNCHANGED resolverVars
  BY <1>31, Zenon DEF resolverVars, Visiting, Unbinding, IDsCarried
<1> QED
  BY <1>1, <1>2, <1>3, <1>4, <1>5, <1>6, <1>7, <1>8, <1>9, <1>10, <1>11, <1>12, <1>13, <1>14,
     <1>15, <1>16, <1>17, <1>18, <1>19, <1>20, <1>21, <1>22, <1>23, <1>24, <1>25, <1>26, <1>27,
     <1>28, <1>29, <1>30, <1>31 DEF Next, OpStep

\* A reconcile writes the rules of one container after the other, and overwrites none.
LEMMA RulesWrittenStep == IndInv /\ IDsCarried /\ RulesWritten /\ [Next]_resolverVars =>
   RulesWritten'
<1> SUFFICES ASSUME IndInv, IDsCarried, RulesWritten, [Next]_resolverVars PROVE RulesWritten'
  BY Zenon
<1> USE DEF cacheVars, bpfVars, history
<1>0. OpOK
  BY Zenon DEF IndInv
\* A step that goes on with the visits and leaves the rules alone.
<1>v. ASSUME op'.pc \notin {"values", "settings"}, Visiting' => Visiting, SameCall,
             UNCHANGED <<wpState, policyValues, policySettings>>
      PROVE  RulesWritten'
  BY <1>v DEF RulesWritten, Written, SameCall
<1>1. ASSUME NEW p \in Pods, NEW cs \in SUBSET {c \in ContainerIDs : PodOf[c] = p},
             AddPodContainerFromNri(p, cs)
      PROVE  RulesWritten'
  BY <1>1, AddEffect, Zenon DEF Started, Visiting, RulesWritten
<1>2. ASSUME NEW c \in ContainerIDs, TrackContainer(c) PROVE RulesWritten'
  BY <1>2, TrackEffect, Zenon DEF Visiting, RulesWritten
<1>3. ASSUME NEW c \in ContainerIDs, TrackContainerFails(c) PROVE RulesWritten'
  BY <1>3, TrackFailsEffect, Zenon DEF Finished, Visiting, RulesWritten
<1>4. CASE ApplyPolicyToPodIfPresent
  BY <1>4, <1>0, ApplyEffect, Zenon DEF Finished, OpOK, Visiting, RulesWritten
<1>5. ASSUME NEW c \in ContainerIDs, BindContainer(c) PROVE RulesWritten'
  <2>1. /\ op'.pc = op.pc /\ op.pc = "bind" /\ SameCall
        /\ UNCHANGED <<wpState, policyValues, policySettings>>
    BY <1>5, BindEffect, Zenon
  <2>2. Visiting' => Visiting
    BY <2>1, Zenon DEF Visiting, SameCall
  <2> QED
    BY <1>v, <2>1, <2>2, Zenon
<1>6. ASSUME NEW c \in ContainerIDs, BindContainerFails(c) PROVE RulesWritten'
  BY <1>6, BindFailsEffect, Zenon DEF Aborted, Finished, Visiting, RulesWritten
<1>7. CASE PodBound
  <2>1. /\ op'.pc \in {"done", "pods"} /\ op.pc = "bind" /\ SameCall
        /\ UNCHANGED <<wpState, policyValues, policySettings>>
    BY <1>7, PodBoundEffect, Zenon DEF Finished
  <2>2. Visiting' => Visiting
    BY <2>1, Zenon DEF Visiting, SameCall
  <2> QED
    BY <1>v, <2>1, <2>2, Zenon
<1>8. ASSUME NEW c \in ContainerIDs, RemovePodContainerFromNri(c) PROVE RulesWritten'
  BY <1>8, RemoveEffect, Zenon DEF Visiting, RulesWritten
<1>9. ASSUME NEW wp \in Policies, NEW spec \in Specs, ReconcileWP(wp, spec) PROVE RulesWritten'
  BY <1>9, <1>0, ReconcileEffect, Zenon DEF Started, OnlyAt, OpOK, Visiting, RulesWritten, IDOf,
     NoIDs
<1>10. ASSUME NEW n \in ContainerNames, UpsertValues(n) PROVE RulesWritten'
  <2>1. /\ op.pc = "values" /\ op.kind = "reconcile" /\ n \in op.names /\ AllocPolicyID(n)
        /\ op.wp \in Policies /\ op.spec \in Specs
    BY <1>10, <1>0, ValuesEffect, Zenon DEF OpOK
  <2>2. IDOf(n)' = SyncID(n) /\ SyncID(n) \in PolicyIDs /\ SyncID(n) # 0
    <3>1. SyncID(n) \in PolicyIDs
      BY <2>1, SyncIDLemma, Zenon
    <3> QED
      BY <1>10, <2>1, <3>1, ValuesEffect DEF IDOf, SyncID, SameCall, PolicyIDs
  <2>3. \A m \in ContainerNames : m # n => IDOf(m)' = IDOf(m) /\ IDOf(m) # SyncID(n)
    BY <1>10, <2>1, ValuesEffect, SyncIDLemma DEF IDOf, SameCall, OnlyAt
  <2>4. \A m \in ContainerNames : m \in op.spec.containers \ op.names /\ m # n =>
          IDOf(m) # 0 /\ Written(IDOf(m), op.spec, m) /\ IDOf(m) \in PolicyIDs
    BY <2>1, OwnIDs, Zenon DEF RulesWritten, IDOf
  <2>5. op.spec.containers \subseteq ContainerNames
    BY <2>1, ConstantsAssumption, Zenon DEF IsSpec
  <2> QED
    BY <1>10, <2>1, <2>2, <2>3, <2>4, <2>5, ValuesEffect DEF RulesWritten, Written, Visiting,
       SameCall, OnlyAt
<1>11. ASSUME NEW n \in ContainerNames, UpsertValuesFails(n) PROVE RulesWritten'
  BY <1>11, ValuesFailsEffect, Zenon DEF Aborted, Finished, Visiting, RulesWritten
<1>12. CASE UpsertSettings
  <2>1. /\ op.pc = "settings" /\ op.kind = "reconcile" /\ op.wp \in Policies /\ op.spec \in Specs
        /\ op.name \in ContainerNames
    BY <1>12, <1>0, SettingsEffect, Zenon DEF OpOK
  <2>2. op.spec.containers \subseteq ContainerNames
    BY <2>1, ConstantsAssumption, Zenon DEF IsSpec
  <2>3. /\ CurrentID = IDOf(op.name)
        /\ \A m \in ContainerNames : m # op.name /\ IDOf(m) # 0 => IDOf(m) # CurrentID
        /\ \A m \in ContainerNames : IDOf(m) # 0 => IDOf(m) \in PolicyIDs
    BY <2>1, OwnIDs DEF CurrentID, IDOf
  <2>4. \A m \in ContainerNames : IDOf(m)' = IDOf(m)
    BY <1>12, SettingsEffect, Zenon DEF IDOf, SameCall
  <2> QED
    BY <1>12, <2>1, <2>2, <2>3, <2>4, SettingsEffect DEF RulesWritten, Written, Visiting,
       SameCall, OnlyAt
<1>13. CASE UpsertSettingsFails
  BY <1>13, SettingsFailsEffect, Zenon DEF Aborted, Finished, Visiting, RulesWritten
<1>14. CASE SplitAppliedRemoved
  <2>1. op.spec \in Specs /\ op.spec.containers \subseteq ContainerNames
    BY <1>14, <1>0, SplitEffect, ConstantsAssumption, Zenon DEF OpOK, IsSpec
  <2>2. \A m \in ContainerNames : wpState'[op.wp].pol[m] = IDOf(m)
    BY <1>14, SplitEffect, Zenon DEF IDOf
  <2>3. /\ op.pc = "values" /\ op.names = {} /\ op'.pc = "pods" /\ SameCall
        /\ UNCHANGED <<policyValues, policySettings>>
    BY <1>14, SplitEffect, Zenon
  <2>4. \A n \in op.spec.containers :
          wpState'[op.wp].pol[n] # 0 /\ Written(wpState[op.wp].pol[n], op.spec, n)'
    BY <2>1, <2>2, <2>3 DEF RulesWritten, Written, SameCall
  <2> QED
    BY <2>3, <2>4, Zenon DEF RulesWritten, SameCall
<1>15. ASSUME NEW p \in Pods, VisitPod(p) PROVE RulesWritten'
  <2>1. /\ op.pc = "pods" /\ op.kind = "reconcile" /\ op'.pc = "unbind" /\ SameCall
        /\ UNCHANGED <<wpState, policyValues, policySettings>>
    BY <1>15, VisitEffect, Zenon
  <2> QED
    BY <2>1, Zenon DEF RulesWritten, Written, Visiting, SameCall
<1>16. ASSUME NEW c \in ContainerIDs, UnbindContainer(c) PROVE RulesWritten'
  <2>1. /\ op'.pc = "clearValues" /\ op.pc = "unbind" /\ SameCall
        /\ UNCHANGED <<wpState, policyValues, policySettings>>
    BY <1>16, UnbindEffect, Zenon
  <2>2. Visiting' => Visiting
    BY <2>1, Zenon DEF Visiting, SameCall
  <2> QED
    BY <1>v, <2>1, <2>2, Zenon
<1>17. ASSUME NEW c \in ContainerIDs, UnbindContainerFails(c) PROVE RulesWritten'
  BY <1>17, UnbindFailsEffect, Zenon DEF Aborted, Finished, Visiting, RulesWritten
<1>18. CASE PodUnbound
  <2>1. /\ op.pc = "unbind" /\ op.kind = "reconcile" /\ op'.pc = "bind" /\ SameCall
        /\ UNCHANGED <<wpState, policyValues, policySettings>>
    BY <1>18, PodUnboundEffect, Zenon
  <2> QED
    BY <2>1 DEF RulesWritten, Written, Visiting, SameCall
<1>19. CASE ReconcileDone
  BY <1>19, ReconcileDoneEffect, Zenon DEF Finished, Visiting, RulesWritten
<1>20. ASSUME NEW wp \in Policies, HandleWPDelete(wp) PROVE RulesWritten'
  BY <1>20, DeleteEffect, Zenon DEF Started, Visiting, RulesWritten
<1>21. ASSUME NEW n \in ContainerNames, RemovePolicyStep(n) PROVE RulesWritten'
  BY <1>21, RemovePolicyEffect, Zenon DEF SameCall, Visiting, RulesWritten
<1>22. ASSUME NEW n \in ContainerNames, RemovePolicyStepFails(n) PROVE RulesWritten'
  BY <1>22, RemovePolicyFailsEffect, Zenon DEF Finished, Visiting, RulesWritten
<1>23. CASE DeleteDone
  BY <1>23, DeleteDoneEffect, Zenon DEF Finished, Visiting, RulesWritten
<1>24. CASE ClearValues
  <2>1. CASE op.kind = "delete"
    BY <1>24, <2>1, ClearValuesEffect, Zenon DEF RulesWritten, Visiting, SameCall
  <2>2. CASE op.kind = "reconcile"
    <3>1. op.wp \in Policies /\ op.spec.containers \subseteq ContainerNames
      BY <1>0, <2>2, ConstantsAssumption, Zenon DEF OpOK, IsSpec
    <3>3. op.ids[op.name] # 0 /\ op.name \notin op.spec.containers /\ op.name \in ContainerNames
      BY <1>24, <2>2, ClearValuesEffect, Zenon DEF IDsCarried, Visiting
    <3>2. \A n \in op.spec.containers : wpState[op.wp].pol[n] # 0 =>
            wpState[op.wp].pol[n] # op.ids[op.name] /\ wpState[op.wp].pol[n] \in PolicyIDs
      BY <3>1, <3>3, OwnIDs
    <3>4. /\ op.pc = "clearValues" /\ op'.pc = "clearSettings" /\ SameCall
          /\ UNCHANGED <<wpState, policySettings>>
          /\ OnlyAt(policyValues, policyValues', PolicyIDs, op.ids[op.name])
      BY <1>24, ClearValuesEffect, Zenon
    <3>5. \A n \in op.spec.containers :
            wpState[op.wp].pol[n] # 0 /\ Written(wpState[op.wp].pol[n], op.spec, n)
      BY <2>2, <3>4, Zenon DEF RulesWritten, Visiting
    <3>6. \A n \in op.spec.containers : Written(wpState[op.wp].pol[n], op.spec, n)'
      BY <3>2, <3>4, <3>5 DEF Written, OnlyAt, SameCall
    <3> QED
      BY <3>4, <3>5, <3>6, Zenon DEF RulesWritten, SameCall
  <2> QED
    BY <1>24, <2>1, <2>2, ClearValuesEffect, Zenon
<1>25. CASE ClearValuesFails
  BY <1>25, ClearValuesFailsEffect, Zenon DEF Aborted, Finished, Visiting, RulesWritten
<1>26. CASE ClearSettings
  <2>1. CASE op.kind = "delete"
    BY <1>26, <2>1, ClearSettingsEffect, Zenon DEF RulesWritten, Visiting
  <2>2. CASE op.kind = "reconcile"
    <3>1. op.wp \in Policies /\ op.spec.containers \subseteq ContainerNames
      BY <1>0, <2>2, ConstantsAssumption DEF OpOK, IsSpec
    <3>3. op.ids[op.name] # 0 /\ op.name \notin op.spec.containers /\ op.name \in ContainerNames
      BY <1>26, <2>2, ClearSettingsEffect, Zenon DEF IDsCarried, Visiting
    <3>2. \A n \in op.spec.containers : wpState[op.wp].pol[n] # 0 =>
            /\ wpState[op.wp].pol[n] # op.ids[op.name] /\ wpState[op.wp].pol[n] \in PolicyIDs
            /\ n # op.name
      BY <3>1, <3>3, OwnIDs
    <3>4. /\ op.pc = "clearSettings" /\ op'.pc = "unbind" /\ SameCall
          /\ policyValues' = policyValues
          /\ OnlyAt(policySettings, policySettings', PolicyIDs, op.ids[op.name])
          /\ OnlyAt(wpState[op.wp].pol, wpState'[op.wp].pol, ContainerNames, op.name)
      BY <1>26, <2>2, ClearSettingsEffect, Zenon
    <3>5. \A n \in op.spec.containers :
            wpState[op.wp].pol[n] # 0 /\ Written(wpState[op.wp].pol[n], op.spec, n)
      BY <2>2, <3>4, Zenon DEF RulesWritten, Visiting
    <3>6. \A n \in op.spec.containers : /\ wpState'[op.wp].pol[n] = wpState[op.wp].pol[n]
                                        /\ Written(wpState[op.wp].pol[n], op.spec, n)'
      BY <3>1, <3>2, <3>4, <3>5 DEF Written, OnlyAt, SameCall
    <3> QED
      BY <3>4, <3>5, <3>6 DEF RulesWritten, SameCall
  <2> QED
    BY <1>26, <2>1, <2>2, ClearSettingsEffect, Zenon
<1>27. CASE ClearSettingsFails
  BY <1>27, ClearSettingsFailsEffect, Zenon DEF Aborted, Finished, Visiting, RulesWritten
<1>28. CASE Return
  <2>1. op'.pc = "idle"
    BY <1>28, ReturnEffect, Zenon
  <2> QED
    BY <2>1, Zenon DEF RulesWritten, Visiting
<1>29. ASSUME NEW c \in ContainerIDs, CgroupRelease(c) PROVE RulesWritten'
  <2>1. UNCHANGED <<op, wpState, policyValues, policySettings>>
    BY <1>29, Zenon DEF CgroupRelease
  <2> QED
    BY <2>1 DEF RulesWritten, Written, Visiting, IDOf
<1>30. CASE Restart
  BY <1>30, Zenon DEF Restart, Visiting, RulesWritten, Idle
<1>31. CASE UNCHANGED resolverVars
  <2>1. UNCHANGED <<op, wpState, policyValues, policySettings>>
    BY <1>31, Zenon DEF resolverVars
  <2> QED
    BY <2>1 DEF RulesWritten, Written, Visiting, IDOf
<1> QED
  BY <1>1, <1>2, <1>3, <1>4, <1>5, <1>6, <1>7, <1>8, <1>9, <1>10, <1>11, <1>12, <1>13, <1>14, <1>15,
     <1>16, <1>17, <1>18, <1>19, <1>20, <1>21, <1>22, <1>23, <1>24, <1>25, <1>26, <1>27, <1>28,
     <1>29, <1>30, <1>31, Zenon DEF Next, OpStep

\* A container is bound when its pod has been visited.
LEMMA VisitedBoundStep == IndInv /\ ProgressOK /\ IDsCarried /\ VisitedBound /\
   [Next]_resolverVars => VisitedBound'
<1> SUFFICES ASSUME IndInv, ProgressOK, IDsCarried, VisitedBound, [Next]_resolverVars PROVE
   VisitedBound'
  BY Zenon
<1> USE DEF cacheVars, bpfVars, history
<1>0. OpOK /\ PodsOK
  BY Zenon DEF IndInv
<1>1. ASSUME NEW p \in Pods, NEW cs \in SUBSET {c \in ContainerIDs : PodOf[c] = p},
             AddPodContainerFromNri(p, cs)
      PROVE  VisitedBound'
  BY <1>1, AddEffect, Zenon DEF Started, Visiting, Unbinding, VisitedBound
<1>2. ASSUME NEW c \in ContainerIDs, TrackContainer(c) PROVE VisitedBound'
  BY <1>2, TrackEffect, Zenon DEF OnlyAt, SameCall, Visiting, Unbinding, VisitedBound
<1>3. ASSUME NEW c \in ContainerIDs, TrackContainerFails(c) PROVE VisitedBound'
  BY <1>3, TrackFailsEffect, Zenon DEF Finished, Visiting, VisitedBound
<1>4. CASE ApplyPolicyToPodIfPresent
  BY <1>4, <1>0, ApplyEffect, Zenon DEF Finished, OpOK, Visiting, VisitedBound
<1>5. ASSUME NEW c \in ContainerIDs, BindContainer(c) PROVE VisitedBound'
  <2>1. /\ op.pc = "bind" /\ op'.pc = "bind" /\ SameCall /\ SamePlace /\ op'.cs = op.cs \ {c}
        /\ UNCHANGED podCache
    BY <1>5, BindEffect, Zenon
  <2>2. \A d \in ContainerIDs : Bound(d) \/ d = c => Bound(d)'
    BY <1>5, BindEffect DEF OnlyAt, Bound
  <2> QED
    BY <2>1, <2>2, Zenon DEF VisitedBound, Visiting, Unbinding, SameCall, SamePlace
<1>6. ASSUME NEW c \in ContainerIDs, BindContainerFails(c) PROVE VisitedBound'
  BY <1>6, BindFailsEffect, Zenon DEF Aborted, Finished, Visiting, VisitedBound
<1>7. CASE PodBound
  <2>1. op.pc = "bind" /\ op.cs = {} /\ UNCHANGED <<podCache, wpState, cgToPolicy>>
    BY <1>7, PodBoundEffect, Zenon
  <2>2. CASE op.kind = "add" /\ Finished(FALSE)
    BY <2>2, Zenon DEF VisitedBound, Visiting, Finished
  <2>3. CASE op.kind = "reconcile" /\ SameCall /\ SamePlace /\ op'.pc = "pods"
    BY <2>1, <2>3, Zenon DEF VisitedBound, Visiting, Unbinding, Bound, SameCall, SamePlace
  <2> QED
    BY <1>7, <2>2, <2>3, PodBoundEffect, Zenon
<1>8. ASSUME NEW c \in ContainerIDs, RemovePodContainerFromNri(c) PROVE VisitedBound'
  BY <1>8, RemoveEffect, Zenon DEF OnlyAt, Visiting, Unbinding, VisitedBound, Bound
<1>9. ASSUME NEW wp \in Policies, NEW spec \in Specs, ReconcileWP(wp, spec) PROVE VisitedBound'
  BY <1>9, ReconcileEffect, Zenon DEF Started, OnlyAt, Visiting, Unbinding, VisitedBound, Bound
<1>10. ASSUME NEW n \in ContainerNames, UpsertValues(n) PROVE VisitedBound'
  BY <1>10, ValuesEffect, Zenon DEF OnlyAt, SameCall, Visiting, Unbinding, VisitedBound, Bound,
     IDsCarried
<1>11. ASSUME NEW n \in ContainerNames, UpsertValuesFails(n) PROVE VisitedBound'
  BY <1>11, ValuesFailsEffect, Zenon DEF Aborted, Finished, Visiting, VisitedBound
<1>12. CASE UpsertSettings
  BY <1>12, SettingsEffect, Zenon DEF OnlyAt, SameCall, Visiting, Unbinding, VisitedBound, Bound,
     IDsCarried
<1>13. CASE UpsertSettingsFails
  BY <1>13, SettingsFailsEffect, Zenon DEF Aborted, Finished, SameCall, Visiting, Unbinding,
     VisitedBound, Bound
<1>14. CASE SplitAppliedRemoved
  BY <1>14, SplitEffect, ConstantsAssumption DEF SameCall, VisitedBound, Visiting
<1>15. ASSUME NEW p \in Pods, VisitPod(p) PROVE VisitedBound'
  BY <1>15, VisitEffect DEF SameCall, Visiting, Unbinding, VisitedBound, Bound
<1>16. ASSUME NEW c \in ContainerIDs, UnbindContainer(c) PROVE VisitedBound'
  <2>1. /\ op.pc = "unbind" /\ op.kind = "reconcile" /\ op'.pc = "clearValues" /\ SameCall
        /\ op'.pod = op.pod /\ op'.pods = op.pods /\ c \in op.cs /\ UNCHANGED podCache
    BY <1>16, UnbindEffect, Zenon
  <2>2. NameOf[c] \notin op.spec.containers
    BY <2>1, ConstantsAssumption, Zenon DEF IDsCarried, Visiting, Unbinding
  <2>3. \A d \in ContainerIDs : Bound(d) /\ d # c => Bound(d)'
    BY <1>16, UnbindEffect, Zenon DEF OnlyAt, Bound
  <2> QED
    BY <2>1, <2>2, <2>3, Zenon DEF VisitedBound, Visiting, Unbinding, SameCall
<1>17. ASSUME NEW c \in ContainerIDs, UnbindContainerFails(c) PROVE VisitedBound'
  BY <1>17, UnbindFailsEffect, Zenon DEF Aborted, Finished, Visiting, VisitedBound
<1>18. CASE PodUnbound
  BY <1>18, <1>0, PodUnboundEffect, ConstantsAssumption DEF SameCall, SamePlace, OpOK, AtPod,
     PodsOK, Visiting, Unbinding, VisitedBound, Bound, IDsCarried
<1>19. CASE ReconcileDone
  BY <1>19, ReconcileDoneEffect, Zenon DEF Finished, Visiting, VisitedBound
<1>20. ASSUME NEW wp \in Policies, HandleWPDelete(wp) PROVE VisitedBound'
  BY <1>20, DeleteEffect, Zenon DEF Started, OnlyAt, Visiting, Unbinding, VisitedBound
<1>21. ASSUME NEW n \in ContainerNames, RemovePolicyStep(n) PROVE VisitedBound'
  BY <1>21, RemovePolicyEffect, Zenon DEF SameCall, Visiting, VisitedBound, Bound
<1>22. ASSUME NEW n \in ContainerNames, RemovePolicyStepFails(n) PROVE VisitedBound'
  BY <1>22, RemovePolicyFailsEffect, Zenon DEF Finished, Visiting, VisitedBound
<1>23. CASE DeleteDone
  BY <1>23, DeleteDoneEffect, Zenon DEF Finished, SameCall, Visiting, Unbinding, VisitedBound
<1>24. CASE ClearValues
  <2>1. /\ op.pc = "clearValues" /\ op'.pc = "clearSettings" /\ SameCall /\ SamePlace
        /\ UNCHANGED <<podCache, wpState, cgToPolicy>>
    BY <1>24, ClearValuesEffect, Zenon
  <2>2. \A d \in ContainerIDs : Bound(d)' <=> Bound(d)
    BY <2>1, Zenon DEF Bound
  <2> QED
    BY <2>1, <2>2, Zenon DEF VisitedBound, Visiting, Unbinding, SameCall, SamePlace
<1>25. CASE ClearValuesFails
  BY <1>25, ClearValuesFailsEffect, Zenon DEF Aborted, Finished, Visiting, VisitedBound
<1>26. CASE ClearSettings
  <2>1. CASE op.kind = "delete"
    BY <1>26, <2>1, ClearSettingsEffect, Zenon DEF VisitedBound, Visiting, SameCall
  <2>2. CASE op.kind = "reconcile"
    <3>1. /\ op.pc = "clearSettings" /\ op'.pc = "unbind" /\ SameCall
          /\ op'.pod = op.pod /\ op'.pods = op.pods /\ UNCHANGED <<podCache, cgToPolicy>>
          /\ op.name \in ContainerNames
          /\ OnlyAt(wpState[op.wp].pol, wpState'[op.wp].pol, ContainerNames, op.name)
      BY <1>26, <2>2, ClearSettingsEffect, Zenon
    <3>2. op.name \notin op.spec.containers
      BY <2>2, <3>1, Zenon DEF IDsCarried, Visiting
    <3>3. \A d \in ContainerIDs :
            Bound(d) /\ PolicyOf[PodOf[d]] = op.wp /\ NameOf[d] \in op.spec.containers => Bound(d)'
      BY <3>1, <3>2, ConstantsAssumption DEF OnlyAt, Bound
    <3> QED
      BY <2>2, <3>1, <3>3, Zenon DEF VisitedBound, Visiting, Unbinding, SameCall
  <2> QED
    BY <1>26, <2>1, <2>2, ClearSettingsEffect, Zenon
<1>27. CASE ClearSettingsFails
  BY <1>27, ClearSettingsFailsEffect, Zenon DEF Aborted, Finished, Visiting, VisitedBound
<1>28. CASE Return
  <2>1. op'.pc = "idle"
    BY <1>28, ReturnEffect, Zenon
  <2> QED
    BY <2>1, Zenon DEF VisitedBound, Visiting
<1>29. ASSUME NEW c \in ContainerIDs, CgroupRelease(c) PROVE VisitedBound'
  BY <1>29, Zenon DEF CgroupRelease, Visiting, Unbinding, VisitedBound, Bound
<1>30. CASE Restart
  BY <1>30, Zenon DEF Restart, Visiting, VisitedBound, Idle
<1>31. CASE UNCHANGED resolverVars
  BY <1>31, Zenon DEF resolverVars, Visiting, Unbinding, VisitedBound, Bound
<1> QED
  BY <1>1, <1>2, <1>3, <1>4, <1>5, <1>6, <1>7, <1>8, <1>9, <1>10, <1>11, <1>12, <1>13, <1>14, <1>15,
     <1>16, <1>17, <1>18, <1>19, <1>20, <1>21, <1>22, <1>23, <1>24, <1>25, <1>26, <1>27, <1>28,
     <1>29, <1>30, <1>31, Zenon DEF Next, OpStep

=============================================================================
