----------------------------- MODULE ReadyProofs -----------------------------
(***************************************************************************)
(* The status READY is truthful, and the kernel maps hold nothing that is  *)
(* not accounted for: the proofs of ReadyMeansEnforced, NoOrphanIDs and    *)
(* BoundIsResolvable for every set of pods, policies and specs.            *)
(***************************************************************************)
EXTENDS ResolverSteps

\* The specs that a READY policy may have in the maps, and the containers that
\* all of them cover: those of the last reconcile and of the one in progress.
InPlace(wp) == {applied[wp]} \cup {s \in {op.spec} : Busy(wp)}
Kept(wp) == {n \in applied[wp].containers : Busy(wp) => n \in op.spec.containers}

\* A READY policy has the rules of these containers in the maps.
RulesInMaps(wp) ==
  /\ applied[wp] \in Specs
  /\ wpState[wp].live /\ wpState[wp].mode = applied[wp].mode
  /\ \A n \in Kept(wp) :
       LET id == wpState[wp].pol[n] IN
       /\ id # 0
       /\ \E s \in InPlace(wp) : policyValues[id] = s.rules[n].allowed
       /\ \E s \in InPlace(wp) : policySettings[id] = SettingsOf(s, n)
ReadyRules == \A wp \in Policies : wpState[wp].state = "ready" => RulesInMaps(wp)

\* Container c is not bound, and the runtime was told or will be told so.
Excused(c) ==
  \/ c \in reported
  \/ /\ op.kind = "add" /\ c \in op.added
     /\ \/ op.pc = "track"
        \/ op.pc = "bind" /\ c \in op.cs
        \/ op.pc = "done" /\ op.failed

Covers(wp, c) ==
  /\ c \in podCache[PodOf[c]] /\ PolicyOf[PodOf[c]] = wp
  /\ wpState[wp].state = "ready" /\ NameOf[c] \in Kept(wp)

ReadyBound ==
  \A wp \in Policies, c \in ContainerIDs : Covers(wp, c) => Bound(c) \/ Excused(c)

\* An operation that succeeds leaves no covered container unbound.
SuccessBound ==
  \A wp \in Policies, c \in ContainerIDs : Covers(wp, c) =>
    /\ op.kind = "add" /\ PodOf[c] = op.pod =>
         /\ op.pc = "bind" => c \in op.cs \/ Bound(c)
         /\ op.pc = "done" /\ ~op.failed => Bound(c)
    /\ op.kind = "reconcile" /\ op.pc = "done" /\ ~op.failed /\ op.wp = wp => Bound(c)

ReadyInv ==
  /\ ProgressOK /\ IDsCarried /\ RulesWritten /\ VisitedBound
  /\ ReadyRules /\ ReadyBound /\ SuccessBound

-----------------------------------------------------------------------------
(* The rules of a READY policy. *)

\* The rules of a READY policy stay in place when its IDs, their entries in the
\* maps and the reconcile in progress stay the same.
LEMMA RulesFrame ==
  ASSUME NEW q \in Policies, RulesInMaps(q), applied'[q] = applied[q],
         wpState'[q].live, wpState'[q].mode = wpState[q].mode,
         Busy(q)' <=> Busy(q), Busy(q) => op'.spec = op.spec,
         \A n \in Kept(q) :
           LET id == wpState[q].pol[n] IN
           /\ wpState'[q].pol[n] = id
           /\ policyValues'[id] = policyValues[id] /\ policySettings'[id] = policySettings[id]
  PROVE  RulesInMaps(q)'
<1>1. Kept(q)' = Kept(q) /\ InPlace(q)' = InPlace(q)
  <2>1. CASE Busy(q)
    BY <2>1, Zenon DEF Kept, InPlace
  <2>2. CASE ~Busy(q)
    BY <2>2, Zenon DEF Kept, InPlace
  <2> QED
    BY <2>1, <2>2, Zenon
<1> QED
  BY <1>1 DEF RulesInMaps

\* A step that writes neither rules nor statuses.
LEMMA RulesUntouched ==
  ASSUME ReadyRules, UNCHANGED <<wpState, applied, policyValues, policySettings>>,
         \A q \in Policies : (Busy(q)' <=> Busy(q)) /\ (Busy(q) => op'.spec = op.spec)
  PROVE  ReadyRules'
<1> SUFFICES ASSUME NEW q \in Policies, wpState'[q].state = "ready" PROVE RulesInMaps(q)'
  BY Zenon DEF ReadyRules
<1>1. RulesInMaps(q)
  BY Zenon DEF ReadyRules
<1>2. wpState'[q].live
  BY <1>1, Zenon DEF RulesInMaps
<1> QED
  BY <1>1, <1>2, RulesFrame, Zenon

\* A reconcile that aborts is not READY, and has not touched the rules of others.
LEMMA RulesAborted ==
  ASSUME IndInv, ReadyRules, Aborted, op.pc # "done", UNCHANGED <<applied, policySettings>>,
         \A q \in Policies, n \in ContainerNames :
           wpState[q].pol[n] # 0 /\ ~(op.kind = "reconcile" /\ q = op.wp) =>
            policyValues'[wpState[q].pol[n]] = policyValues[wpState[q].pol[n]]
  PROVE  ReadyRules'
<1> SUFFICES ASSUME NEW q \in Policies, wpState'[q].state = "ready" PROVE RulesInMaps(q)'
  BY Zenon DEF ReadyRules
<1>1. ~(op.kind = "reconcile" /\ q = op.wp)
  BY Zenon DEF Aborted
<1>2. wpState'[q] = wpState[q]
  BY <1>1, Zenon DEF Aborted
<1>3. RulesInMaps(q)
  BY <1>2, Zenon DEF ReadyRules
<1>4. ~Busy(q) /\ ~Busy(q)'
  BY <1>1, Zenon DEF Busy, Aborted, Finished, SameCall
<1>5. applied[q] \in Specs /\ wpState[q].live /\ \A n \in Kept(q) : wpState[q].pol[n] # 0
  BY <1>3, Zenon DEF RulesInMaps
<1>6. Kept(q) \subseteq ContainerNames
  BY <1>5, ConstantsAssumption, Zenon DEF Kept, IsSpec
<1> QED
  BY <1>1, <1>2, <1>3, <1>4, <1>5, <1>6, RulesFrame, Zenon

\* The rules of a READY policy stay in the maps until the next reconcile replaces them.
LEMMA ReadyRulesStep == IndInv /\ ProgressOK /\ IDsCarried /\ RulesWritten /\ ReadyRules /\
   [Next]_resolverVars => ReadyRules'
<1> SUFFICES ASSUME IndInv, ProgressOK, IDsCarried, RulesWritten, ReadyRules, [Next]_resolverVars
   PROVE ReadyRules'
  BY Zenon
<1> USE DEF cacheVars, bpfVars, history
<1>0. OpOK
  BY Zenon DEF IndInv
<1>1. ASSUME NEW p \in Pods, NEW cs \in SUBSET {c \in ContainerIDs : PodOf[c] = p},
             AddPodContainerFromNri(p, cs)
      PROVE  ReadyRules'
  BY <1>1, AddEffect, RulesUntouched, Zenon DEF Busy, Started, ProgressOK
<1>2. ASSUME NEW c \in ContainerIDs, TrackContainer(c) PROVE ReadyRules'
  BY <1>2, TrackEffect, RulesUntouched, Zenon DEF Busy, SameCall
<1>3. ASSUME NEW c \in ContainerIDs, TrackContainerFails(c) PROVE ReadyRules'
  BY <1>3, <1>0, TrackFailsEffect, RulesUntouched, Zenon DEF Busy, Finished, OpOK
<1>4. CASE ApplyPolicyToPodIfPresent
  BY <1>4, <1>0, ApplyEffect, RulesUntouched, Zenon DEF Busy, Finished, OpOK
<1>5. ASSUME NEW c \in ContainerIDs, BindContainer(c) PROVE ReadyRules'
  BY <1>5, BindEffect, RulesUntouched, Zenon DEF Busy, SameCall
<1>6. ASSUME NEW c \in ContainerIDs, BindContainerFails(c) PROVE ReadyRules'
  BY <1>6, BindFailsEffect, RulesAborted, Zenon
<1>7. CASE PodBound
  BY <1>7, PodBoundEffect, RulesUntouched, Zenon DEF Busy, Finished, SameCall
<1>8. ASSUME NEW c \in ContainerIDs, RemovePodContainerFromNri(c) PROVE ReadyRules'
  BY <1>8, RemoveEffect, RulesUntouched, Zenon DEF Busy
<1>9. ASSUME NEW wp \in Policies, NEW spec \in Specs, ReconcileWP(wp, spec) PROVE ReadyRules'
  <2> SUFFICES ASSUME NEW q \in Policies, wpState'[q].state = "ready" PROVE RulesInMaps(q)'
    BY Zenon DEF ReadyRules
  <2>1. /\ wpState'[q].pol = wpState[q].pol /\ wpState[q].state = "ready"
        /\ wpState'[q].mode = wpState[q].mode
        /\ UNCHANGED <<policyValues, policySettings, applied>>
    BY <1>9, ReconcileEffect, Zenon
  <2>2. RulesInMaps(q)
    BY <2>1, Zenon DEF ReadyRules
  <2>3. wpState'[q].live
    BY <1>9, <2>2, ReconcileEffect, Zenon DEF OnlyAt, RulesInMaps
  <2>4. ~Busy(q)
    BY <1>9, ReconcileEffect, Zenon DEF Busy, Started, ProgressOK
  <2>5. Kept(q)' \subseteq Kept(q) /\ InPlace(q) \subseteq InPlace(q)'
    BY <2>1, <2>4, Zenon DEF Kept, InPlace
  <2> QED
    BY <2>1, <2>2, <2>3, <2>5 DEF RulesInMaps
<1>10. ASSUME NEW n \in ContainerNames, UpsertValues(n) PROVE ReadyRules'
  <2> SUFFICES ASSUME NEW q \in Policies, wpState'[q].state = "ready" PROVE RulesInMaps(q)'
    BY Zenon DEF ReadyRules
  <2>1. /\ op.pc = "values" /\ op.kind = "reconcile" /\ AllocPolicyID(n) /\ op.wp \in Policies
        /\ op'.pc = "settings" /\ SameCall
        /\ UNCHANGED <<wpState, policySettings, applied>>
    BY <1>10, <1>0, ValuesEffect, Zenon DEF OpOK
  <2>2. RulesInMaps(q)
    BY <2>1, Zenon DEF ReadyRules
  <2>3. Kept(q)' = Kept(q) /\ InPlace(q)' = InPlace(q) /\ Kept(q) \subseteq ContainerNames
    BY <2>1, <2>2, ConstantsAssumption DEF Kept, InPlace, Busy, SameCall, RulesInMaps, IsSpec
  <2>4. ASSUME NEW m \in Kept(q)
        PROVE  \E s \in InPlace(q) : policyValues'[wpState[q].pol[m]] = s.rules[m].allowed
    <3>1. CASE wpState[q].pol[m] = SyncID(n)
      <4>1. q = op.wp /\ m = n
        BY <2>1, <2>3, <3>1, SyncIDLemma, Zenon
      <4>2. op.spec \in InPlace(q)
        BY <2>1, <4>1, Zenon DEF InPlace, Busy
      <4> QED
        BY <1>10, <3>1, <4>1, <4>2, ValuesEffect
    <3>2. CASE wpState[q].pol[m] # SyncID(n)
      <4>1. wpState[q].pol[m] \in PolicyIDs
        BY <2>2, <2>3, OwnIDs, Zenon DEF RulesInMaps
      <4>2. policyValues'[wpState[q].pol[m]] = policyValues[wpState[q].pol[m]]
        BY <1>10, <3>2, <4>1, ValuesEffect, Zenon DEF OnlyAt
      <4> QED
        BY <2>2, <4>2, Zenon DEF RulesInMaps
    <3> QED
      BY <3>1, <3>2, Zenon
  <2> QED
    BY <2>1, <2>2, <2>3, <2>4 DEF RulesInMaps
<1>11. ASSUME NEW n \in ContainerNames, UpsertValuesFails(n) PROVE ReadyRules'
  <2>1. \A q \in Policies, m \in ContainerNames :
          wpState[q].pol[m] # 0 /\ ~(op.kind = "reconcile" /\ q = op.wp) =>
            policyValues'[wpState[q].pol[m]] = policyValues[wpState[q].pol[m]]
    <3>1. op.kind = "reconcile" /\ AllocPolicyID(n)
          /\ OnlyAt(policyValues, policyValues', PolicyIDs, SyncID(n))
      BY <1>11, ValuesFailsEffect, Zenon
    <3>2. \A q \in Policies, m \in ContainerNames : wpState[q].pol[m] = SyncID(n) => q = op.wp
      BY <3>1, SyncIDLemma, Zenon
    <3> QED
      BY <3>1, <3>2, OwnIDs, Zenon DEF OnlyAt
  <2> QED
    BY <1>11, <2>1, ValuesFailsEffect, RulesAborted, Zenon
<1>12. CASE UpsertSettings
  <2> SUFFICES ASSUME NEW q \in Policies, wpState'[q].state = "ready" PROVE RulesInMaps(q)'
    BY Zenon DEF ReadyRules
  <2>1. /\ op.pc = "settings" /\ op.kind = "reconcile" /\ op.wp \in Policies
        /\ op.name \in ContainerNames /\ op'.pc = "values" /\ SameCall
        /\ UNCHANGED <<wpState, policyValues, applied>>
    BY <1>12, <1>0, SettingsEffect, Zenon DEF OpOK
  <2>2. RulesInMaps(q)
    BY <2>1, Zenon DEF ReadyRules
  <2>3. Kept(q)' = Kept(q) /\ InPlace(q)' = InPlace(q) /\ Kept(q) \subseteq ContainerNames
    BY <2>1, <2>2, ConstantsAssumption DEF Kept, InPlace, Busy, SameCall, RulesInMaps, IsSpec
  <2>4. ASSUME NEW m \in Kept(q)
        PROVE  \E s \in InPlace(q) : policySettings'[wpState[q].pol[m]] = SettingsOf(s, m)
    <3>0. wpState[q].pol[m] # 0 /\ wpState[q].pol[m] \in PolicyIDs
      BY <2>2, <2>3, OwnIDs, Zenon DEF RulesInMaps
    <3>1. CASE wpState[q].pol[m] = CurrentID
      <4>1. q = op.wp /\ m = op.name
        BY <2>1, <2>3, <3>0, <3>1, OwnIDs DEF CurrentID
      <4>2. op.spec \in InPlace(q)
        BY <2>1, <4>1, Zenon DEF InPlace, Busy
      <4> QED
        BY <1>12, <3>0, <3>1, <4>1, <4>2, SettingsEffect, Zenon
    <3>2. CASE wpState[q].pol[m] # CurrentID
      <4>1. policySettings'[wpState[q].pol[m]] = policySettings[wpState[q].pol[m]]
        BY <1>12, <3>0, <3>2, SettingsEffect, Zenon DEF OnlyAt
      <4> QED
        BY <2>2, <4>1 DEF RulesInMaps
    <3> QED
      BY <3>1, <3>2, Zenon
  <2> QED
    BY <2>1, <2>2, <2>3, <2>4 DEF RulesInMaps
<1>13. CASE UpsertSettingsFails
  BY <1>13, SettingsFailsEffect, RulesAborted, Zenon
<1>14. CASE SplitAppliedRemoved
  <2> SUFFICES ASSUME NEW q \in Policies, wpState'[q].state = "ready" PROVE RulesInMaps(q)'
    BY DEF ReadyRules
  <2>1. /\ op.pc = "values" /\ op.kind = "reconcile" /\ op'.pc = "pods" /\ SameCall
        /\ UNCHANGED <<policyValues, policySettings, applied>>
        /\ wpState[q].state = "ready" /\ wpState'[q].mode = wpState[q].mode
        /\ wpState'[q].live = wpState[q].live
    BY <1>14, SplitEffect DEF OnlyAt
  <2>2. RulesInMaps(q)
    BY <2>1, Zenon DEF ReadyRules
  <2>3. Kept(q) \subseteq ContainerNames /\ wpState[q].live
    BY <2>2, ConstantsAssumption, Zenon DEF Kept, RulesInMaps, IsSpec
  <2>4. \A m \in Kept(q) : wpState'[q].pol[m] = wpState[q].pol[m]
    BY <1>14, <2>1, <2>2, <2>3, SplitEffect DEF OnlyAt, RulesInMaps, IDsCarried
  <2>5. (Busy(q)' <=> Busy(q)) /\ op'.spec = op.spec
    BY <2>1, Zenon DEF Busy, SameCall
  <2> QED
    BY <2>1, <2>2, <2>3, <2>4, <2>5, RulesFrame, Zenon
<1>15. ASSUME NEW p \in Pods, VisitPod(p) PROVE ReadyRules'
  BY <1>15, VisitEffect, RulesUntouched, Zenon DEF Busy, SameCall
<1>16. ASSUME NEW c \in ContainerIDs, UnbindContainer(c) PROVE ReadyRules'
  BY <1>16, UnbindEffect, RulesUntouched, Zenon DEF Busy, SameCall
<1>17. ASSUME NEW c \in ContainerIDs, UnbindContainerFails(c) PROVE ReadyRules'
  BY <1>17, UnbindFailsEffect, RulesAborted, Zenon
<1>18. CASE PodUnbound
  BY <1>18, PodUnboundEffect, RulesUntouched, Zenon DEF Busy, SameCall
<1>19. CASE ReconcileDone
  <2> SUFFICES ASSUME NEW q \in Policies, wpState'[q].state = "ready" PROVE RulesInMaps(q)'
    BY DEF ReadyRules
  <2>1. /\ op.pc = "pods" /\ op.kind = "reconcile" /\ op'.pc = "done" /\ SameCall
        /\ op.wp \in Policies /\ op.spec \in Specs
        /\ UNCHANGED <<policyValues, policySettings>>
    BY <1>19, ReconcileDoneEffect, Zenon DEF Finished
  <2>2. CASE q = op.wp
    <3>1. /\ wpState'[q].pol = wpState[q].pol /\ wpState'[q].mode = op.spec.mode
          /\ wpState'[q].live /\ applied'[q] = op.spec
      BY <1>19, <2>1, <2>2, ReconcileDoneEffect, Zenon DEF ProgressOK
    <3>2. Kept(q)' = op.spec.containers /\ InPlace(q)' = {op.spec}
      BY <2>1, <3>1, Zenon DEF Kept, InPlace, Busy
    <3>3. \A n \in op.spec.containers :
            wpState[op.wp].pol[n] # 0 /\ Written(wpState[op.wp].pol[n], op.spec, n)
      BY <2>1, Zenon DEF RulesWritten, Visiting
    <3> QED
      BY <2>1, <2>2, <3>1, <3>2, <3>3 DEF RulesInMaps, Written
  <2>3. CASE q # op.wp
    <3>1. wpState'[q] = wpState[q] /\ applied'[q] = applied[q]
      BY <1>19, <2>3, ReconcileDoneEffect, Zenon DEF OnlyAt
    <3>2. RulesInMaps(q) /\ wpState[q].live
      BY <3>1, Zenon DEF ReadyRules, RulesInMaps
    <3>3. ~Busy(q) /\ ~Busy(q)'
      BY <2>1, <2>3, Zenon DEF Busy
    <3> QED
      BY <2>1, <3>1, <3>2, <3>3, RulesFrame, Zenon
  <2> QED
    BY <2>2, <2>3, Zenon
<1>20. ASSUME NEW wp \in Policies, HandleWPDelete(wp) PROVE ReadyRules'
  <2> SUFFICES ASSUME NEW q \in Policies, wpState'[q].state = "ready" PROVE RulesInMaps(q)'
    BY Zenon DEF ReadyRules
  <2>1. q # wp
    BY <1>20, DeleteEffect DEF NilInfo
  <2>2. /\ wpState'[q] = wpState[q] /\ applied'[q] = applied[q]
        /\ UNCHANGED <<policyValues, policySettings>>
    BY <1>20, <2>1, DeleteEffect, Zenon DEF OnlyAt
  <2>3. RulesInMaps(q) /\ wpState[q].live
    BY <2>2, Zenon DEF ReadyRules, RulesInMaps
  <2>4. ~Busy(q) /\ ~Busy(q)'
    BY <1>20, DeleteEffect, Zenon DEF Busy, Started, ProgressOK
  <2> QED
    BY <2>2, <2>3, <2>4, RulesFrame, Zenon
<1>21. ASSUME NEW n \in ContainerNames, RemovePolicyStep(n) PROVE ReadyRules'
  BY <1>21, RemovePolicyEffect, RulesUntouched, Zenon DEF Busy, SameCall
<1>22. ASSUME NEW n \in ContainerNames, RemovePolicyStepFails(n) PROVE ReadyRules'
  BY <1>22, RemovePolicyFailsEffect, RulesUntouched, Zenon DEF Busy, Finished
<1>23. CASE DeleteDone
  BY <1>23, DeleteDoneEffect, RulesUntouched, Zenon DEF Busy, Finished
<1>24. CASE ClearValues
  <2> SUFFICES ASSUME NEW q \in Policies, wpState'[q].state = "ready" PROVE RulesInMaps(q)'
    BY DEF ReadyRules
  <2>1. /\ op.pc = "clearValues" /\ op.kind \in {"reconcile", "delete"}
        /\ op.name \in ContainerNames /\ op.wp \in Policies /\ op'.pc # "done" /\ SameCall
        /\ UNCHANGED <<applied, policySettings>>
        /\ wpState[q].state = "ready" /\ wpState'[q].mode = wpState[q].mode
        /\ wpState'[q].live = wpState[q].live
    BY <1>24, <1>0, ClearValuesEffect, Zenon DEF OpOK
  <2>2. RulesInMaps(q)
    BY <2>1, Zenon DEF ReadyRules
  <2>3. Kept(q) \subseteq ContainerNames /\ wpState[q].live
    BY <2>2, ConstantsAssumption DEF Kept, RulesInMaps, IsSpec
  <2>4. (Busy(q)' <=> Busy(q)) /\ op'.spec = op.spec
    BY <2>1, Zenon DEF Busy, SameCall
  <2>5. op.ids[op.name] # 0
    BY <2>1, Zenon DEF IDsCarried
  <2>6. ASSUME NEW m \in Kept(q)
        PROVE  /\ wpState[q].pol[m] # op.ids[op.name] /\ wpState[q].pol[m] \in PolicyIDs
               /\ ~(op.kind = "reconcile" /\ q = op.wp /\ m = op.name)
    <3>1. wpState[q].pol[m] # 0 /\ wpState[q].pol[m] \in PolicyIDs
      BY <2>2, <2>3, OwnIDs, Zenon DEF RulesInMaps
    <3>2. CASE op.kind = "delete"
      <4>1. wpState[op.wp] = NilInfo
        BY <3>2, Zenon DEF ProgressOK
      <4>2. q # op.wp
        BY <2>1, <4>1 DEF NilInfo
      <4> QED
        BY <2>1, <2>3, <2>5, <3>1, <3>2, <4>2, OwnIDs
    <3>3. CASE op.kind = "reconcile"
      <4>1. op.name \notin op.spec.containers
        BY <2>1, <2>5, <3>3, Zenon DEF IDsCarried, Visiting
      <4>2. q = op.wp => m # op.name
        BY <2>1, <3>3, <4>1, Zenon DEF Kept, Busy
      <4> QED
        BY <2>1, <2>3, <2>5, <3>1, <4>2, OwnIDs
    <3> QED
      BY <2>1, <3>2, <3>3, Zenon
  <2>7. \A m \in Kept(q) : LET id == wpState[q].pol[m] IN
          /\ wpState'[q].pol[m] = id
          /\ policyValues'[id] = policyValues[id] /\ policySettings'[id] = policySettings[id]
    BY <1>24, <2>1, <2>3, <2>6, ClearValuesEffect, Zenon DEF OnlyAt
  <2> QED
    BY <2>1, <2>2, <2>3, <2>4, <2>7, RulesFrame, Zenon
<1>25. CASE ClearValuesFails
  <2>1. \A q \in Policies, m \in ContainerNames :
          wpState[q].pol[m] # 0 /\ ~(op.kind = "reconcile" /\ q = op.wp) =>
            policyValues'[wpState[q].pol[m]] = policyValues[wpState[q].pol[m]]
    <3>1. op.kind = "delete" => wpState[op.wp].pol = NoIDs
      BY DEF ProgressOK, NilInfo
    <3> QED
      <4>1. /\ OnlyAt(policyValues, policyValues', PolicyIDs, op.ids[op.name])
            /\ op.kind \in {"reconcile", "delete"} /\ op.name \in ContainerNames
            /\ op.pc = "clearValues"
        BY <1>25, ClearValuesFailsEffect, Zenon
      <4>2. op.ids[op.name] # 0
        BY <4>1, Zenon DEF IDsCarried
      <4>3. \A q \in Policies, m \in ContainerNames :
              wpState[q].pol[m] = op.ids[op.name] => q = op.wp
        BY <4>1, <4>2, OwnIDs
      <4>4. op.kind = "delete" => \A m \in ContainerNames : wpState[op.wp].pol[m] = 0
        BY <3>1, Zenon DEF NoIDs
      <4> QED
        BY <4>1, <4>2, <4>3, <4>4, OwnIDs DEF OnlyAt
  <2> QED
    BY <1>25, <2>1, ClearValuesFailsEffect, RulesAborted, Zenon
<1>26. CASE ClearSettings
  <2> SUFFICES ASSUME NEW q \in Policies, wpState'[q].state = "ready" PROVE RulesInMaps(q)'
    BY DEF ReadyRules
  <2>1. /\ op.pc = "clearSettings" /\ op.kind \in {"reconcile", "delete"}
        /\ op.name \in ContainerNames /\ op.wp \in Policies /\ op'.pc # "done" /\ SameCall
        /\ UNCHANGED <<applied, policyValues>>
        /\ wpState[q].state = "ready" /\ wpState'[q].mode = wpState[q].mode
        /\ wpState'[q].live = wpState[q].live
    BY <1>26, ClearSettingsEffect DEF OnlyAt
  <2>2. RulesInMaps(q)
    BY <2>1, Zenon DEF ReadyRules
  <2>3. Kept(q) \subseteq ContainerNames /\ wpState[q].live
    BY <2>2, ConstantsAssumption DEF Kept, RulesInMaps, IsSpec
  <2>4. (Busy(q)' <=> Busy(q)) /\ op'.spec = op.spec
    BY <2>1, Zenon DEF Busy, SameCall
  <2>5. op.ids[op.name] # 0
    BY <2>1, Zenon DEF IDsCarried
  <2>6. ASSUME NEW m \in Kept(q)
        PROVE  /\ wpState[q].pol[m] # op.ids[op.name] /\ wpState[q].pol[m] \in PolicyIDs
               /\ ~(op.kind = "reconcile" /\ q = op.wp /\ m = op.name)
    <3>1. wpState[q].pol[m] # 0 /\ wpState[q].pol[m] \in PolicyIDs
      BY <2>2, <2>3, OwnIDs DEF RulesInMaps
    <3>2. CASE op.kind = "delete"
      <4>1. wpState[op.wp] = NilInfo
        BY <3>2 DEF ProgressOK
      <4>2. q # op.wp
        BY <2>1, <4>1 DEF NilInfo
      <4> QED
        BY <2>1, <2>3, <2>5, <3>1, <3>2, <4>2, OwnIDs
    <3>3. CASE op.kind = "reconcile"
      <4>1. op.name \notin op.spec.containers
        BY <2>1, <2>5, <3>3, Zenon DEF IDsCarried, Visiting
      <4>2. q = op.wp => m # op.name
        BY <2>1, <3>3, <4>1, Zenon DEF Kept, Busy
      <4> QED
        BY <2>1, <2>3, <2>5, <3>1, <4>2, OwnIDs
    <3> QED
      BY <2>1, <3>2, <3>3
  <2>7. \A m \in Kept(q) : LET id == wpState[q].pol[m] IN
          /\ wpState'[q].pol[m] = id
          /\ policyValues'[id] = policyValues[id] /\ policySettings'[id] = policySettings[id]
    BY <1>26, <2>1, <2>3, <2>6, ClearSettingsEffect DEF OnlyAt
  <2> QED
    BY <2>1, <2>2, <2>3, <2>4, <2>7, RulesFrame, Zenon
<1>27. CASE ClearSettingsFails
  BY <1>27, ClearSettingsFailsEffect, RulesAborted, Zenon
<1>28. CASE Return
  BY <1>28, ReturnEffect, RulesUntouched DEF Busy, Idle
<1>29. ASSUME NEW c \in ContainerIDs, CgroupRelease(c) PROVE ReadyRules'
  BY <1>29, RulesUntouched, Zenon DEF CgroupRelease, Busy
<1>30. CASE Restart
  BY <1>30, Zenon DEF Restart, ReadyRules, NilInfo
<1>31. CASE UNCHANGED resolverVars
  BY <1>31, RulesUntouched, Zenon DEF resolverVars, Busy
<1> QED
  BY <1>1, <1>2, <1>3, <1>4, <1>5, <1>6, <1>7, <1>8, <1>9, <1>10, <1>11, <1>12, <1>13, <1>14, <1>15,
     <1>16, <1>17, <1>18, <1>19, <1>20, <1>21, <1>22, <1>23, <1>24, <1>25, <1>26, <1>27, <1>28,
     <1>29, <1>30, <1>31, Zenon DEF Next, OpStep

-----------------------------------------------------------------------------
(* The bindings of a READY policy. *)

\* Container c was cached by the AddPodContainerFromNri in progress, which has
\* not bound it yet or failed.
JustTracked(c) ==
  op.kind = "add" /\ c \in op.added /\ (op.pc = "track" \/ (op.pc = "done" /\ op.failed))

\* A step leaves a covered container covered, and bound if it was.
CoverageKept ==
  \A wp \in Policies, c \in ContainerIDs : Covers(wp, c)' =>
    \/ Covers(wp, c) /\ (Bound(c) => Bound(c)')
    \/ Bound(c)'
    \/ JustTracked(c)'

\* A covered container was covered before a step that neither caches it nor
\* makes its policy READY.
LEMMA CoversFrame ==
  ASSUME NEW wp \in Policies, NEW c \in ContainerIDs, Covers(wp, c)',
         podCache'[PodOf[c]] \subseteq podCache[PodOf[c]],
         wpState'[wp].state = wpState[wp].state, applied'[wp] = applied[wp],
         Busy(wp)' <=> Busy(wp), Busy(wp) => op'.spec = op.spec
  PROVE  Covers(wp, c)
<1>1. Kept(wp)' = Kept(wp)
  <2>1. CASE Busy(wp)
    BY <2>1, Zenon DEF Kept
  <2>2. CASE ~Busy(wp)
    BY <2>2, Zenon DEF Kept
  <2> QED
    BY <2>1, <2>2, Zenon
<1> QED
  BY <1>1, Zenon DEF Covers

\* A step that changes neither the caches nor the bindings.
LEMMA CoverageUntouched ==
  ASSUME UNCHANGED <<podCache, wpState, applied, cgToPolicy>>,
         \A q \in Policies : (Busy(q)' <=> Busy(q)) /\ (Busy(q) => op'.spec = op.spec)
  PROVE  CoverageKept
<1> SUFFICES ASSUME NEW wp \in Policies, NEW c \in ContainerIDs, Covers(wp, c)'
             PROVE  Covers(wp, c) /\ (Bound(c) => Bound(c)')
  BY Zenon DEF CoverageKept
<1> QED
  BY CoversFrame, Zenon DEF Bound

\* A reconcile that aborts is not READY.
LEMMA CoverageAborted ==
  ASSUME IndInv, Aborted, op.pc # "done", UNCHANGED <<podCache, applied, cgToPolicy>>
  PROVE  CoverageKept
<1> SUFFICES ASSUME NEW wp \in Policies, NEW c \in ContainerIDs, Covers(wp, c)'
             PROVE  Covers(wp, c) /\ (Bound(c) => Bound(c)')
  BY Zenon DEF CoverageKept
<1>1. wpState'[wp].state = "ready" /\ PolicyOf[PodOf[c]] = wp
  BY Zenon DEF Covers
<1>2. ~(op.kind = "reconcile" /\ wp = op.wp)
  BY <1>1, Zenon DEF Aborted
<1>3. wpState'[wp] = wpState[wp]
  BY <1>2, Zenon DEF Aborted
<1>4. ~Busy(wp) /\ ~Busy(wp)'
  BY <1>2, Zenon DEF Busy, Aborted, Finished, SameCall
<1> QED
  BY <1>1, <1>3, <1>4, CoversFrame, Zenon DEF Bound

\* No step takes a covered container out of enforcement.
LEMMA CoverageStep == IndInv /\ ProgressOK /\ IDsCarried /\ VisitedBound /\ ReadyRules /\
   [Next]_resolverVars => CoverageKept
<1> SUFFICES ASSUME IndInv, ProgressOK, IDsCarried, VisitedBound, ReadyRules, [Next]_resolverVars
   PROVE CoverageKept
  BY Zenon
<1> USE DEF cacheVars, bpfVars, history
<1>0. OpOK /\ PodsOK
  BY Zenon DEF IndInv
<1>1. ASSUME NEW p \in Pods, NEW cs \in SUBSET {c \in ContainerIDs : PodOf[c] = p},
             AddPodContainerFromNri(p, cs)
      PROVE  CoverageKept
  BY <1>1, AddEffect, CoverageUntouched, Zenon DEF Busy, Started, ProgressOK
<1>2. ASSUME NEW c \in ContainerIDs, TrackContainer(c) PROVE CoverageKept
  <2> SUFFICES ASSUME NEW wp \in Policies, NEW d \in ContainerIDs, Covers(wp, d)'
               PROVE  \/ Covers(wp, d) /\ (Bound(d) => Bound(d)')
                      \/ Bound(d)' \/ JustTracked(d)'
    BY Zenon DEF CoverageKept
  <2>0. /\ d \in podCache'[PodOf[d]] /\ PolicyOf[PodOf[d]] = wp
        /\ wpState'[wp].state = "ready" /\ NameOf[d] \in Kept(wp)'
        /\ PodOf[d] \in Pods /\ NameOf[d] \in ContainerNames
    BY ConstantsAssumption, Zenon DEF Covers
  <2>1. /\ op.pc = "track" /\ op.kind = "add" /\ op'.kind = op.kind /\ op'.pc = op.pc
        /\ op'.added = op.added /\ c \in op.added
        /\ UNCHANGED <<wpState, applied, cgToPolicy>>
    BY <1>2, <1>0, TrackEffect, Zenon DEF SameCall, ProgressOK, OpOK
  <2>2. \A p \in Pods : podCache'[p] \subseteq podCache[p] \cup {c}
    BY <1>2, TrackEffect, Zenon DEF OnlyAt
  <2>3. CASE d = c
    BY <2>1, <2>3, Zenon DEF JustTracked
  <2>4. CASE d # c
    <3>1. d \in podCache[PodOf[d]]
      BY <2>0, <2>2, <2>4, Zenon
    <3>2. ~Busy(wp) /\ ~Busy(wp)'
      BY <2>1, Zenon DEF Busy
    <3>3. Kept(wp)' = Kept(wp)
      BY <2>1, <3>2, Zenon DEF Kept
    <3> QED
      BY <2>0, <2>1, <3>1, <3>3, Zenon DEF Covers, Bound
  <2> QED
    BY <2>3, <2>4, Zenon
<1>3. ASSUME NEW c \in ContainerIDs, TrackContainerFails(c) PROVE CoverageKept
  <2> SUFFICES ASSUME NEW wp \in Policies, NEW d \in ContainerIDs, Covers(wp, d)'
               PROVE  \/ Covers(wp, d) /\ (Bound(d) => Bound(d)')
                      \/ Bound(d)' \/ JustTracked(d)'
    BY DEF CoverageKept
  <2>0. /\ d \in podCache'[PodOf[d]] /\ PolicyOf[PodOf[d]] = wp
        /\ wpState'[wp].state = "ready" /\ NameOf[d] \in Kept(wp)'
        /\ PodOf[d] \in Pods /\ NameOf[d] \in ContainerNames
    BY ConstantsAssumption DEF Covers
  <2>1. /\ op.pc = "track" /\ op.kind = "add" /\ op'.kind = op.kind /\ op'.pc = "done" /\ op'.failed
        /\ op'.added = op.added /\ c \in op.added
        /\ UNCHANGED <<wpState, applied, cgToPolicy>>
    BY <1>3, <1>0, TrackFailsEffect, Zenon DEF Finished, SameCall, ProgressOK, OpOK
  <2>2. \A p \in Pods : podCache'[p] \subseteq podCache[p] \cup {c}
    BY <1>3, TrackFailsEffect, Zenon DEF OnlyAt
  <2>3. CASE d = c
    BY <2>1, <2>3, Zenon DEF JustTracked
  <2>4. CASE d # c
    <3>1. d \in podCache[PodOf[d]]
      BY <2>0, <2>2, <2>4
    <3>2. ~Busy(wp) /\ ~Busy(wp)'
      BY <2>1, Zenon DEF Busy
    <3>3. Kept(wp)' = Kept(wp)
      BY <2>1, <3>2, Zenon DEF Kept
    <3> QED
      BY <2>0, <2>1, <3>1, <3>3 DEF Covers, Bound
  <2> QED
    BY <2>3, <2>4
<1>4. CASE ApplyPolicyToPodIfPresent
  BY <1>4, <1>0, ApplyEffect, CoverageUntouched, Zenon DEF Busy, Finished, OpOK
<1>5. ASSUME NEW c \in ContainerIDs, BindContainer(c) PROVE CoverageKept
  <2> SUFFICES ASSUME NEW wp \in Policies, NEW d \in ContainerIDs, Covers(wp, d)'
               PROVE  \/ Covers(wp, d) /\ (Bound(d) => Bound(d)')
                      \/ Bound(d)' \/ JustTracked(d)'
    BY DEF CoverageKept
  <2>0. /\ d \in podCache'[PodOf[d]] /\ PolicyOf[PodOf[d]] = wp
        /\ wpState'[wp].state = "ready" /\ NameOf[d] \in Kept(wp)'
        /\ PodOf[d] \in Pods /\ NameOf[d] \in ContainerNames
    BY ConstantsAssumption DEF Covers
  <2>1. /\ op'.kind = op.kind /\ op'.pc = op.pc /\ op'.wp = op.wp /\ op'.spec = op.spec
        /\ UNCHANGED <<podCache, wpState, applied>>
    BY <1>5, BindEffect, Zenon DEF SameCall
  <2>2. Covers(wp, d)
    BY <2>1, CoversFrame, Zenon DEF Busy
  <2>3. Bound(d) => Bound(d)'
    BY <1>5, <2>1, BindEffect, Zenon DEF Bound, OnlyAt
  <2> QED
    BY <2>2, <2>3, Zenon
<1>6. ASSUME NEW c \in ContainerIDs, BindContainerFails(c) PROVE CoverageKept
  BY <1>6, BindFailsEffect, CoverageAborted, Zenon
<1>7. CASE PodBound
  BY <1>7, PodBoundEffect, CoverageUntouched, Zenon DEF Busy, Finished, SameCall
<1>8. ASSUME NEW c \in ContainerIDs, RemovePodContainerFromNri(c) PROVE CoverageKept
  <2> SUFFICES ASSUME NEW wp \in Policies, NEW d \in ContainerIDs, Covers(wp, d)'
               PROVE  \/ Covers(wp, d) /\ (Bound(d) => Bound(d)')
                      \/ Bound(d)' \/ JustTracked(d)'
    BY DEF CoverageKept
  <2>0. /\ d \in podCache'[PodOf[d]] /\ PolicyOf[PodOf[d]] = wp
        /\ wpState'[wp].state = "ready" /\ NameOf[d] \in Kept(wp)'
        /\ PodOf[d] \in Pods /\ NameOf[d] \in ContainerNames
    BY ConstantsAssumption DEF Covers
  <2>1. op' = op /\ UNCHANGED <<wpState, applied>>
    BY <1>8, RemoveEffect, Zenon
  <2>2. \A p \in Pods : podCache'[p] \subseteq podCache[p]
    BY <1>8, RemoveEffect, Zenon DEF OnlyAt
  <2>3. Covers(wp, d)
    BY <2>0, <2>1, <2>2, CoversFrame, Zenon DEF Busy
  <2>4. d # c
    BY <1>8, <2>0, RemoveEffect
  <2>5. cgToPolicy'[d] = cgToPolicy[d]
    BY <1>8, <2>4, RemoveEffect, Zenon DEF OnlyAt
  <2> QED
    BY <2>1, <2>3, <2>5, Zenon DEF Bound
<1>9. ASSUME NEW wp \in Policies, NEW spec \in Specs, ReconcileWP(wp, spec) PROVE CoverageKept
  <2> SUFFICES ASSUME NEW q \in Policies, NEW d \in ContainerIDs, Covers(q, d)'
               PROVE  \/ Covers(q, d) /\ (Bound(d) => Bound(d)')
                      \/ Bound(d)' \/ JustTracked(d)'
    BY Zenon DEF CoverageKept
  <2>0. /\ d \in podCache'[PodOf[d]] /\ PolicyOf[PodOf[d]] = q
        /\ wpState'[q].state = "ready" /\ NameOf[d] \in Kept(q)'
        /\ PodOf[d] \in Pods /\ NameOf[d] \in ContainerNames
    BY ConstantsAssumption, Zenon DEF Covers
  <2>1. /\ wpState'[q].pol = wpState[q].pol /\ wpState[q].state = "ready"
        /\ UNCHANGED <<podCache, cgToPolicy, applied>>
    BY <1>9, <2>0, ReconcileEffect, Zenon
  <2>2. ~Busy(q)
    BY <1>9, ReconcileEffect, Zenon DEF Busy, Started, ProgressOK
  <2>3. NameOf[d] \in Kept(q)
    BY <2>0, <2>1, <2>2, Zenon DEF Kept
  <2> QED
    BY <2>0, <2>1, <2>3, Zenon DEF Covers, Bound
<1>10. ASSUME NEW n \in ContainerNames, UpsertValues(n) PROVE CoverageKept
  BY <1>10, ValuesEffect, CoverageUntouched, Zenon DEF Busy, SameCall
<1>11. ASSUME NEW n \in ContainerNames, UpsertValuesFails(n) PROVE CoverageKept
  BY <1>11, ValuesFailsEffect, CoverageAborted, Zenon
<1>12. CASE UpsertSettings
  BY <1>12, SettingsEffect, CoverageUntouched, Zenon DEF Busy, SameCall
<1>13. CASE UpsertSettingsFails
  BY <1>13, SettingsFailsEffect, CoverageAborted, Zenon
<1>14. CASE SplitAppliedRemoved
  <2> SUFFICES ASSUME NEW wp \in Policies, NEW d \in ContainerIDs, Covers(wp, d)'
               PROVE  \/ Covers(wp, d) /\ (Bound(d) => Bound(d)')
                      \/ Bound(d)' \/ JustTracked(d)'
    BY Zenon DEF CoverageKept
  <2>0. /\ d \in podCache'[PodOf[d]] /\ PolicyOf[PodOf[d]] = wp
        /\ wpState'[wp].state = "ready" /\ NameOf[d] \in Kept(wp)'
        /\ PodOf[d] \in Pods /\ NameOf[d] \in ContainerNames
    BY ConstantsAssumption, Zenon DEF Covers
  <2>1. /\ op.pc = "values" /\ op.kind = "reconcile" /\ op'.pc = "pods" /\ SameCall
        /\ op.wp \in Policies /\ UNCHANGED <<podCache, cgToPolicy, applied>>
        /\ wpState'[wp].state = wpState[wp].state
    BY <1>14, SplitEffect, Zenon DEF OnlyAt
  <2>2. Covers(wp, d)
    BY <2>1, CoversFrame, Zenon DEF Busy, SameCall
  <2>3. wpState[wp].pol[NameOf[d]] # 0
    BY <2>2 DEF Covers, ReadyRules, RulesInMaps
  <2>4. wpState'[wp].pol[NameOf[d]] = wpState[wp].pol[NameOf[d]]
    <3>1. CASE wp = op.wp
      <4>1. op.ids[NameOf[d]] = 0
        BY <2>0, <2>1, <2>3, <3>1, Zenon DEF IDsCarried
      <4> QED
        BY <1>14, <2>0, <3>1, <4>1, SplitEffect
    <3>2. CASE wp # op.wp
      BY <1>14, <3>2, SplitEffect, Zenon DEF OnlyAt
    <3> QED
      BY <3>1, <3>2, Zenon
  <2> QED
    BY <2>0, <2>1, <2>2, <2>4, Zenon DEF Bound
<1>15. ASSUME NEW p \in Pods, VisitPod(p) PROVE CoverageKept
  BY <1>15, VisitEffect, CoverageUntouched, Zenon DEF Busy, SameCall
<1>16. ASSUME NEW c \in ContainerIDs, UnbindContainer(c) PROVE CoverageKept
  <2> SUFFICES ASSUME NEW wp \in Policies, NEW d \in ContainerIDs, Covers(wp, d)'
               PROVE  \/ Covers(wp, d) /\ (Bound(d) => Bound(d)')
                      \/ Bound(d)' \/ JustTracked(d)'
    BY DEF CoverageKept
  <2>0. /\ d \in podCache'[PodOf[d]] /\ PolicyOf[PodOf[d]] = wp
        /\ wpState'[wp].state = "ready" /\ NameOf[d] \in Kept(wp)'
        /\ PodOf[d] \in Pods /\ NameOf[d] \in ContainerNames
    BY ConstantsAssumption DEF Covers
  <2>1. /\ op.pc = "unbind" /\ op.kind = "reconcile" /\ op'.pc = "clearValues" /\ SameCall
        /\ c \in op.cs /\ UNCHANGED <<podCache, wpState, applied>>
        /\ NameOf[c] \in ContainerNames
    BY <1>16, UnbindEffect, ConstantsAssumption, Zenon
  <2>2. Covers(wp, d)
    BY <2>1, CoversFrame, Zenon DEF Busy, SameCall
  <2>3. op.ids[NameOf[c]] # 0 /\ NameOf[c] \notin op.spec.containers
    BY <2>1, Zenon DEF IDsCarried, Unbinding, Visiting
  <2>4. PolicyOf[PodOf[c]] = op.wp
    BY <1>0, <2>1, Zenon DEF PodsOK, AtPod
  <2>5. d # c
    BY <2>1, <2>0, <2>3, <2>4, <2>2, Zenon DEF Covers, Kept, Busy
  <2>6. cgToPolicy'[d] = cgToPolicy[d]
    BY <1>16, <2>5, UnbindEffect, Zenon DEF OnlyAt
  <2> QED
    BY <2>1, <2>2, <2>6, Zenon DEF Bound
<1>17. ASSUME NEW c \in ContainerIDs, UnbindContainerFails(c) PROVE CoverageKept
  BY <1>17, UnbindFailsEffect, CoverageAborted, Zenon
<1>18. CASE PodUnbound
  BY <1>18, PodUnboundEffect, CoverageUntouched, Zenon DEF Busy, SameCall
<1>19. CASE ReconcileDone
  <2> SUFFICES ASSUME NEW wp \in Policies, NEW d \in ContainerIDs, Covers(wp, d)'
               PROVE  \/ Covers(wp, d) /\ (Bound(d) => Bound(d)')
                      \/ Bound(d)' \/ JustTracked(d)'
    BY DEF CoverageKept
  <2>0. /\ d \in podCache'[PodOf[d]] /\ PolicyOf[PodOf[d]] = wp
        /\ wpState'[wp].state = "ready" /\ NameOf[d] \in Kept(wp)'
        /\ PodOf[d] \in Pods /\ NameOf[d] \in ContainerNames
    BY ConstantsAssumption DEF Covers
  <2>1. /\ op.pc = "pods" /\ op.kind = "reconcile" /\ op.pods = {} /\ op'.pc = "done" /\ SameCall
        /\ op.wp \in Policies /\ UNCHANGED <<podCache, cgToPolicy>>
        /\ wpState'[wp].pol = wpState[wp].pol
    BY <1>19, ReconcileDoneEffect, Zenon DEF Finished, OnlyAt
  <2>2. CASE wp = op.wp
    <3>1. Kept(wp)' = op.spec.containers
      BY <1>19, <2>1, <2>2, ReconcileDoneEffect, Zenon DEF Kept, Busy
    <3>2. Bound(d)
      BY <2>0, <2>1, <2>2, <3>1, Zenon DEF VisitedBound, Visiting, Unbinding
    <3> QED
      BY <2>0, <2>1, <3>2, Zenon DEF Bound
  <2>3. CASE wp # op.wp
    <3>1. wpState'[wp] = wpState[wp] /\ applied'[wp] = applied[wp]
      BY <1>19, <2>3, ReconcileDoneEffect, Zenon DEF OnlyAt
    <3>2. ~Busy(wp) /\ ~Busy(wp)'
      BY <2>1, <2>3, Zenon DEF Busy
    <3> QED
      BY <2>0, <2>1, <3>1, <3>2, CoversFrame, Zenon DEF Bound
  <2> QED
    BY <2>2, <2>3, Zenon
<1>20. ASSUME NEW wp \in Policies, HandleWPDelete(wp) PROVE CoverageKept
  <2> SUFFICES ASSUME NEW q \in Policies, NEW d \in ContainerIDs, Covers(q, d)'
               PROVE  \/ Covers(q, d) /\ (Bound(d) => Bound(d)')
                      \/ Bound(d)' \/ JustTracked(d)'
    BY Zenon DEF CoverageKept
  <2>0. /\ d \in podCache'[PodOf[d]] /\ PolicyOf[PodOf[d]] = q
        /\ wpState'[q].state = "ready" /\ NameOf[d] \in Kept(q)'
        /\ PodOf[d] \in Pods /\ NameOf[d] \in ContainerNames
    BY ConstantsAssumption, Zenon DEF Covers
  <2>1. q # wp
    BY <1>20, <2>0, DeleteEffect DEF NilInfo
  <2>2. /\ wpState'[q] = wpState[q] /\ applied'[q] = applied[q]
        /\ UNCHANGED <<podCache, cgToPolicy>>
    BY <1>20, <2>1, DeleteEffect, Zenon DEF OnlyAt
  <2>3. ~Busy(q) /\ ~Busy(q)'
    BY <1>20, DeleteEffect, Zenon DEF Busy, Started, ProgressOK
  <2> QED
    BY <2>0, <2>2, <2>3, CoversFrame, Zenon DEF Bound
<1>21. ASSUME NEW n \in ContainerNames, RemovePolicyStep(n) PROVE CoverageKept
  <2> SUFFICES ASSUME NEW wp \in Policies, NEW d \in ContainerIDs, Covers(wp, d)'
               PROVE  \/ Covers(wp, d) /\ (Bound(d) => Bound(d)')
                      \/ Bound(d)' \/ JustTracked(d)'
    BY Zenon DEF CoverageKept
  <2>0. /\ d \in podCache'[PodOf[d]] /\ PolicyOf[PodOf[d]] = wp
        /\ wpState'[wp].state = "ready" /\ NameOf[d] \in Kept(wp)'
        /\ PodOf[d] \in Pods /\ NameOf[d] \in ContainerNames
    BY ConstantsAssumption, Zenon DEF Covers
  <2>1. /\ op.kind = "delete" /\ op'.kind = "delete" /\ op.wp \in Policies
        /\ UNCHANGED <<podCache, wpState, applied>> /\ n \in op.names
        /\ \A e \in ContainerIDs : cgToPolicy'[e] # cgToPolicy[e] => cgToPolicy[e] = op.ids[n]
    BY <1>21, <1>0, RemovePolicyEffect DEF SameCall, OpOK
  <2>2. Covers(wp, d)
    BY <2>1, CoversFrame, Zenon DEF Busy
  <2>3. wpState[wp].pol[NameOf[d]] # 0
    BY <2>2 DEF Covers, ReadyRules, RulesInMaps
  <2>4. wp # op.wp
    BY <2>0, <2>1 DEF ProgressOK, NilInfo
  <2>5. Bound(d) => cgToPolicy[d] # op.ids[n]
    BY <2>0, <2>1, <2>3, <2>4, OwnIDs DEF Bound
  <2> QED
    BY <2>1, <2>2, <2>5, Zenon DEF Bound
<1>22. ASSUME NEW n \in ContainerNames, RemovePolicyStepFails(n) PROVE CoverageKept
  <2> SUFFICES ASSUME NEW wp \in Policies, NEW d \in ContainerIDs, Covers(wp, d)'
               PROVE  \/ Covers(wp, d) /\ (Bound(d) => Bound(d)')
                      \/ Bound(d)' \/ JustTracked(d)'
    BY DEF CoverageKept
  <2>0. /\ d \in podCache'[PodOf[d]] /\ PolicyOf[PodOf[d]] = wp
        /\ wpState'[wp].state = "ready" /\ NameOf[d] \in Kept(wp)'
        /\ PodOf[d] \in Pods /\ NameOf[d] \in ContainerNames
    BY ConstantsAssumption DEF Covers
  <2>1. /\ op.kind = "delete" /\ op'.kind = "delete" /\ op.wp \in Policies
        /\ UNCHANGED <<podCache, wpState, applied>>
        /\ \A e \in ContainerIDs : cgToPolicy'[e] # cgToPolicy[e] => cgToPolicy[e] = op.ids[n]
    BY <1>22, <1>0, RemovePolicyFailsEffect, Zenon DEF Finished, SameCall, OpOK
  <2>2. Covers(wp, d)
    BY <2>1, CoversFrame, Zenon DEF Busy
  <2>3. wpState[wp].pol[NameOf[d]] # 0
    BY <2>2 DEF Covers, ReadyRules, RulesInMaps
  <2>4. wp # op.wp
    BY <2>0, <2>1 DEF ProgressOK, NilInfo
  <2>5. Bound(d) => cgToPolicy[d] # op.ids[n]
    BY <2>0, <2>1, <2>3, <2>4, OwnIDs DEF Bound
  <2> QED
    BY <2>1, <2>2, <2>5, Zenon DEF Bound
<1>23. CASE DeleteDone
  BY <1>23, DeleteDoneEffect, CoverageUntouched, Zenon DEF Busy, Finished
<1>24. CASE ClearValues
  BY <1>24, ClearValuesEffect, CoverageUntouched, Zenon DEF Busy, SameCall
<1>25. CASE ClearValuesFails
  BY <1>25, ClearValuesFailsEffect, CoverageAborted, Zenon
<1>26. CASE ClearSettings
  <2> SUFFICES ASSUME NEW wp \in Policies, NEW d \in ContainerIDs, Covers(wp, d)'
               PROVE  \/ Covers(wp, d) /\ (Bound(d) => Bound(d)')
                      \/ Bound(d)' \/ JustTracked(d)'
    BY DEF CoverageKept
  <2>0. /\ d \in podCache'[PodOf[d]] /\ PolicyOf[PodOf[d]] = wp
        /\ wpState'[wp].state = "ready" /\ NameOf[d] \in Kept(wp)'
        /\ PodOf[d] \in Pods /\ NameOf[d] \in ContainerNames
    BY ConstantsAssumption DEF Covers
  <2>1. /\ op.pc = "clearSettings" /\ op.kind \in {"reconcile", "delete"}
        /\ op.name \in ContainerNames /\ op.wp \in Policies /\ op'.pc # "done" /\ SameCall
        /\ UNCHANGED <<podCache, cgToPolicy, applied>>
        /\ wpState'[wp].state = wpState[wp].state
    BY <1>26, ClearSettingsEffect, Zenon DEF OnlyAt
  <2>2. Covers(wp, d)
    BY <2>1, CoversFrame, Zenon DEF Busy, SameCall
  <2>3. wpState'[wp].pol[NameOf[d]] = wpState[wp].pol[NameOf[d]]
    <3>1. CASE op.kind = "delete" \/ wp # op.wp
      BY <1>26, <2>1, <3>1, ClearSettingsEffect, Zenon DEF OnlyAt
    <3>2. CASE op.kind = "reconcile" /\ wp = op.wp
      <4>1. op.ids[op.name] # 0 /\ op.name \notin op.spec.containers
        BY <2>1, <3>2, Zenon DEF IDsCarried, Visiting
      <4>2. NameOf[d] # op.name
        BY <2>1, <2>2, <3>2, <4>1, Zenon DEF Covers, Kept, Busy
      <4> QED
        BY <1>26, <2>0, <3>2, <4>2, ClearSettingsEffect DEF OnlyAt
    <3> QED
      BY <2>1, <3>1, <3>2, Zenon
  <2> QED
    BY <2>0, <2>1, <2>2, <2>3, Zenon DEF Bound
<1>27. CASE ClearSettingsFails
  BY <1>27, ClearSettingsFailsEffect, CoverageAborted, Zenon
<1>28. CASE Return
  BY <1>28, ReturnEffect, CoverageUntouched DEF Busy, Idle
<1>29. ASSUME NEW c \in ContainerIDs, CgroupRelease(c) PROVE CoverageKept
  BY <1>29, CoverageUntouched, Zenon DEF CgroupRelease, Busy
<1>30. CASE Restart
  BY <1>30, ConstantsAssumption, Zenon DEF Restart, CoverageKept, Covers
<1>31. CASE UNCHANGED resolverVars
  BY <1>31, CoverageUntouched, Zenon DEF resolverVars, Busy
<1> QED
  BY <1>1, <1>2, <1>3, <1>4, <1>5, <1>6, <1>7, <1>8, <1>9, <1>10, <1>11, <1>12, <1>13, <1>14,
     <1>15, <1>16, <1>17, <1>18, <1>19, <1>20, <1>21, <1>22, <1>23, <1>24, <1>25, <1>26, <1>27,
     <1>28, <1>29, <1>30, <1>31 DEF Next, OpStep

\* SuccessBound says nothing of an operation that is not at its end.
LEMMA SuccessOpen ==
  ASSUME ~(op'.kind = "add" /\ (op'.pc = "bind" \/ (op'.pc = "done" /\ ~op'.failed))),
         ~(op'.kind = "reconcile" /\ op'.pc = "done" /\ ~op'.failed)
  PROVE  SuccessBound'
  BY Zenon DEF SuccessBound

\* A step that changes nothing but cgtracker_map.
LEMMA SuccessUntouched ==
  ASSUME SuccessBound, UNCHANGED <<op, podCache, wpState, applied, cgToPolicy>>
  PROVE  SuccessBound'
<1>1. \A wp \in Policies, c \in ContainerIDs :
        (Covers(wp, c)' <=> Covers(wp, c)) /\ (Bound(c)' <=> Bound(c))
  BY DEF Covers, Bound, Kept, Busy
<1> QED
  BY <1>1, Zenon DEF SuccessBound

\* An excuse outlives the steps of operations other than AddPodContainerFromNri.
LEMMA ExcuseKept ==
  ASSUME NEW c \in ContainerIDs, Excused(c), op.kind # "add", UNCHANGED reported
  PROVE  Excused(c)'
  BY Zenon DEF Excused

\* AddPodContainerFromNri and ReconcileWP succeed only when nothing is left unbound.
LEMMA SuccessBoundStep == IndInv /\ ProgressOK /\ IDsCarried /\ VisitedBound /\ ReadyRules /\
   SuccessBound /\ [Next]_resolverVars => SuccessBound'
<1> SUFFICES ASSUME IndInv, ProgressOK, IDsCarried, VisitedBound, ReadyRules, SuccessBound,
   [Next]_resolverVars PROVE SuccessBound'
  BY Zenon
<1> USE DEF cacheVars, bpfVars, history
<1>0. OpOK /\ PodsOK
  BY Zenon DEF IndInv
<1>1. ASSUME NEW p \in Pods, NEW cs \in SUBSET {c \in ContainerIDs : PodOf[c] = p},
             AddPodContainerFromNri(p, cs)
      PROVE  SuccessBound'
  BY <1>1, AddEffect, SuccessOpen, Zenon DEF Started
<1>2. ASSUME NEW c \in ContainerIDs, TrackContainer(c) PROVE SuccessBound'
  BY <1>2, TrackEffect, SuccessOpen, Zenon
<1>3. ASSUME NEW c \in ContainerIDs, TrackContainerFails(c) PROVE SuccessBound'
  BY <1>3, TrackFailsEffect, SuccessOpen, Zenon DEF Finished
<1>4. CASE ApplyPolicyToPodIfPresent
  <2> SUFFICES ASSUME NEW wp \in Policies, NEW d \in ContainerIDs, Covers(wp, d)',
                      PodOf[d] = op'.pod,
                      op'.pc = "bind" \/ (op'.pc = "done" /\ ~op'.failed)
               PROVE  d \in op'.cs /\ op'.pc = "bind"
    BY <1>4, <1>0, ApplyEffect, Zenon DEF Finished, SameCall, OpOK, SuccessBound
  <2>1. /\ op'.pod = op.pod /\ op.kind = "add" /\ op'.kind = op.kind
        /\ UNCHANGED <<podCache, wpState, applied>>
    BY <1>4, <1>0, ApplyEffect, Zenon DEF Finished, SameCall, SamePlace, OpOK
  <2>2. Covers(wp, d)
    BY <2>1, CoversFrame, Zenon DEF Busy
  <2>3. wpState[wp].pol[NameOf[d]] # 0 /\ wpState[wp].live /\ PolicyOf[op.pod] = wp
        /\ d \in podCache[op.pod]
    BY <2>1, <2>2, Zenon DEF Covers, ReadyRules, RulesInMaps
  <2> QED
    BY <1>4, <2>3, ApplyEffect, Zenon
<1>5. ASSUME NEW c \in ContainerIDs, BindContainer(c) PROVE SuccessBound'
  <2>1. /\ op'.pc = "bind" /\ op'.kind = op.kind /\ op'.pod = op.pod /\ op'.cs = op.cs \ {c}
        /\ op.pc = "bind" /\ Bound(c)'
    BY <1>5, BindEffect, Zenon DEF SameCall, SamePlace, Bound
  <2>2. \A wp \in Policies, d \in ContainerIDs : Covers(wp, d)' =>
          Bound(d)' \/ (Covers(wp, d) /\ (Bound(d) => Bound(d)'))
    BY <2>1, CoverageStep, Zenon DEF CoverageKept, JustTracked
  <2>3. \A wp \in Policies, d \in ContainerIDs :
          Covers(wp, d) /\ op.kind = "add" /\ PodOf[d] = op.pod => d \in op.cs \/ Bound(d)
    BY <2>1, Zenon DEF SuccessBound
  <2>4. \A wp \in Policies, d \in ContainerIDs :
          Covers(wp, d)' /\ op'.kind = "add" /\ PodOf[d] = op'.pod => d \in op'.cs \/ Bound(d)'
    BY <2>1, <2>2, <2>3, Zenon
  <2> QED
    BY <2>1, <2>4, Zenon DEF SuccessBound
<1>6. ASSUME NEW c \in ContainerIDs, BindContainerFails(c) PROVE SuccessBound'
  BY <1>6, BindFailsEffect, SuccessOpen, Zenon DEF Aborted, Finished
<1>7. CASE PodBound
  <2>1. /\ op.pc = "bind" /\ op.cs = {} /\ UNCHANGED <<podCache, wpState, applied, cgToPolicy>>
    BY <1>7, PodBoundEffect, Zenon
  <2>2. CASE op.kind = "add" /\ Finished(FALSE)
    <3>1. /\ op'.kind = "add" /\ op'.pod = op.pod /\ op'.pc = "done"
      BY <2>2, Zenon DEF Finished, SameCall, SamePlace
    <3>2. \A wp \in Policies, d \in ContainerIDs :
            (Covers(wp, d)' => Covers(wp, d)) /\ (Bound(d)' <=> Bound(d))
      BY <2>1, <2>2, <3>1, CoversFrame, Zenon DEF Busy, Bound
    <3>3. \A wp \in Policies, d \in ContainerIDs : Covers(wp, d) /\ PodOf[d] = op.pod => Bound(d)
      BY <2>1, <2>2, Zenon DEF SuccessBound
    <3> QED
      BY <3>1, <3>2, <3>3, Zenon DEF SuccessBound
  <2>3. CASE op.kind = "reconcile" /\ SameCall /\ SamePlace /\ op'.pc = "pods"
    BY <2>3, SuccessOpen, Zenon
  <2> QED
    BY <1>7, <2>2, <2>3, PodBoundEffect, Zenon
<1>8. ASSUME NEW c \in ContainerIDs, RemovePodContainerFromNri(c) PROVE SuccessBound'
  BY <1>8, RemoveEffect, SuccessOpen, Zenon
<1>9. ASSUME NEW wp \in Policies, NEW spec \in Specs, ReconcileWP(wp, spec) PROVE SuccessBound'
  BY <1>9, ReconcileEffect, SuccessOpen, Zenon DEF Started
<1>10. ASSUME NEW n \in ContainerNames, UpsertValues(n) PROVE SuccessBound'
  BY <1>10, ValuesEffect, SuccessOpen, Zenon
<1>11. ASSUME NEW n \in ContainerNames, UpsertValuesFails(n) PROVE SuccessBound'
  BY <1>11, ValuesFailsEffect, SuccessOpen, Zenon DEF Aborted, Finished
<1>12. CASE UpsertSettings
  BY <1>12, SettingsEffect, SuccessOpen, Zenon
<1>13. CASE UpsertSettingsFails
  BY <1>13, SettingsFailsEffect, SuccessOpen, Zenon DEF Aborted, Finished
<1>14. CASE SplitAppliedRemoved
  BY <1>14, SplitEffect, SuccessOpen, Zenon
<1>15. ASSUME NEW p \in Pods, VisitPod(p) PROVE SuccessBound'
  BY <1>15, VisitEffect, SuccessOpen, Zenon
<1>16. ASSUME NEW c \in ContainerIDs, UnbindContainer(c) PROVE SuccessBound'
  BY <1>16, UnbindEffect, SuccessOpen, Zenon
<1>17. ASSUME NEW c \in ContainerIDs, UnbindContainerFails(c) PROVE SuccessBound'
  BY <1>17, UnbindFailsEffect, SuccessOpen, Zenon DEF Aborted, Finished
<1>18. CASE PodUnbound
  BY <1>18, PodUnboundEffect, SuccessOpen, Zenon DEF SameCall
<1>19. CASE ReconcileDone
  <2> SUFFICES ASSUME NEW wp \in Policies, NEW d \in ContainerIDs, Covers(wp, d)', op.wp = wp
               PROVE  Bound(d)'
    BY <1>19, ReconcileDoneEffect, Zenon DEF SuccessBound, Finished, SameCall
  <2>1. /\ op.pc = "pods" /\ op.kind = "reconcile" /\ op.pods = {} /\ op'.pc = "done"
        /\ UNCHANGED <<podCache, cgToPolicy>>
        /\ wpState'[wp].pol = wpState[wp].pol /\ applied'[wp] = op.spec
    BY <1>19, ReconcileDoneEffect, Zenon DEF Finished
  <2>2. Kept(wp)' = op.spec.containers
    BY <2>1, Zenon DEF Kept, Busy
  <2>3. d \in podCache[PodOf[d]] /\ PolicyOf[PodOf[d]] = wp /\ NameOf[d] \in op.spec.containers
    BY <2>1, <2>2, Zenon DEF Covers
  <2>4. Bound(d)
    BY <2>1, <2>3, Zenon DEF VisitedBound, Visiting, Unbinding
  <2> QED
    BY <2>1, <2>3, <2>4, Zenon DEF Bound
<1>20. ASSUME NEW wp \in Policies, HandleWPDelete(wp) PROVE SuccessBound'
  BY <1>20, DeleteEffect, SuccessOpen, Zenon DEF Started
<1>21. ASSUME NEW n \in ContainerNames, RemovePolicyStep(n) PROVE SuccessBound'
  BY <1>21, RemovePolicyEffect, SuccessOpen, Zenon
<1>22. ASSUME NEW n \in ContainerNames, RemovePolicyStepFails(n) PROVE SuccessBound'
  BY <1>22, RemovePolicyFailsEffect, SuccessOpen, Zenon DEF Finished
<1>23. CASE DeleteDone
  BY <1>23, DeleteDoneEffect, SuccessOpen, Zenon DEF Finished, SameCall
<1>24. CASE ClearValues
  BY <1>24, ClearValuesEffect, SuccessOpen, Zenon
<1>25. CASE ClearValuesFails
  BY <1>25, ClearValuesFailsEffect, SuccessOpen, Zenon DEF Aborted, Finished
<1>26. CASE ClearSettings
  BY <1>26, ClearSettingsEffect, SuccessOpen, Zenon DEF SameCall, OpOK
<1>27. CASE ClearSettingsFails
  BY <1>27, ClearSettingsFailsEffect, SuccessOpen, Zenon DEF Aborted, Finished
<1>28. CASE Return
  BY <1>28, ReturnEffect, SuccessOpen
<1>29. ASSUME NEW c \in ContainerIDs, CgroupRelease(c) PROVE SuccessBound'
  BY <1>29, SuccessUntouched, Zenon DEF CgroupRelease
<1>30. CASE Restart
  BY <1>30, SuccessOpen, Zenon DEF Restart, Idle
<1>31. CASE UNCHANGED resolverVars
  BY <1>31, SuccessUntouched, Zenon DEF resolverVars
<1> QED
  BY <1>1, <1>2, <1>3, <1>4, <1>5, <1>6, <1>7, <1>8, <1>9, <1>10, <1>11, <1>12, <1>13, <1>14, <1>15,
     <1>16, <1>17, <1>18, <1>19, <1>20, <1>21, <1>22, <1>23, <1>24, <1>25, <1>26, <1>27, <1>28,
     <1>29, <1>30, <1>31, Zenon DEF Next, OpStep

\* A covered container is bound, or the runtime has been or will be told that it is not.
LEMMA ReadyBoundStep ==
  /\ IndInv /\ ProgressOK /\ IDsCarried /\ VisitedBound /\ ReadyRules /\ ReadyBound /\ SuccessBound
  /\ [Next]_resolverVars
  => ReadyBound'
<1> SUFFICES ASSUME IndInv, ProgressOK, IDsCarried, VisitedBound, ReadyRules, ReadyBound,
                    SuccessBound, [Next]_resolverVars, NEW wp \in Policies, NEW d \in ContainerIDs,
                    Covers(wp, d)', Covers(wp, d), Excused(d)
             PROVE  Excused(d)' \/ Bound(d)'
  <2> SUFFICES ASSUME IndInv, ProgressOK, IDsCarried, VisitedBound, ReadyRules, ReadyBound,
                      SuccessBound, [Next]_resolverVars, NEW wp \in Policies,
                      NEW d \in ContainerIDs, Covers(wp, d)', ~Excused(d)', ~Bound(d)'
               PROVE  Covers(wp, d) /\ Excused(d)
    BY Zenon DEF ReadyBound
  <2>1. ~JustTracked(d)'
    BY Zenon DEF JustTracked, Excused
  <2>2. Covers(wp, d) /\ (Bound(d) => Bound(d)')
    BY <2>1, CoverageStep, Zenon DEF CoverageKept
  <2> QED
    BY <2>2, Zenon DEF ReadyBound
<1> USE DEF cacheVars, bpfVars, history
<1>0. OpOK /\ PodsOK
  BY Zenon DEF IndInv
<1>1. ASSUME NEW p \in Pods, NEW cs \in SUBSET {c \in ContainerIDs : PodOf[c] = p},
             AddPodContainerFromNri(p, cs)
      PROVE  (Excused(d)' \/ Bound(d)')
  BY <1>1, AddEffect, ExcuseKept, Zenon DEF Started, ProgressOK
<1>2. ASSUME NEW c \in ContainerIDs, TrackContainer(c) PROVE (Excused(d)' \/ Bound(d)')
  BY <1>2, TrackEffect, Zenon DEF Excused, SameCall
<1>3. ASSUME NEW c \in ContainerIDs, TrackContainerFails(c) PROVE (Excused(d)' \/ Bound(d)')
  BY <1>3, TrackFailsEffect, Zenon DEF Excused, Finished, SameCall
<1>4. CASE ApplyPolicyToPodIfPresent
  <2>1. /\ op.pc = "track" /\ op.cs = {} /\ op.kind = "add"
        /\ UNCHANGED <<podCache, wpState, reported>>
        /\ op'.kind = op.kind /\ op'.added = op.added
    BY <1>4, <1>0, ApplyEffect, Zenon DEF OpOK, Finished, SameCall
  <2>2. CASE d \in reported
    BY <2>1, <2>2, Zenon DEF Excused
  <2>3. CASE d \in op.added
    <3>1. PodOf[d] = op.pod /\ d \in podCache[op.pod]
      BY <1>0, <2>1, <2>3 DEF ProgressOK, PodsOK
    <3>2. wpState[wp].pol[NameOf[d]] # 0 /\ wpState[wp].live /\ PolicyOf[op.pod] = wp
      BY <3>1 DEF Covers, ReadyRules, RulesInMaps
    <3> QED
      BY <1>4, <2>1, <2>3, <3>1, <3>2, ApplyEffect, Zenon DEF Excused
  <2> QED
    BY <2>1, <2>2, <2>3, Zenon DEF Excused
<1>5. ASSUME NEW c \in ContainerIDs, BindContainer(c) PROVE (Excused(d)' \/ Bound(d)')
  <2>1. op'.kind = op.kind /\ op'.added = op.added /\ op'.pc = op.pc /\ op.pc = "bind"
        /\ op'.cs = op.cs \ {c} /\ reported' = reported
    BY <1>5, BindEffect, Zenon DEF SameCall
  <2>2. d = c => Bound(d)'
    BY <1>5, BindEffect, Zenon DEF Bound
  <2> QED
    BY <2>1, <2>2, Zenon DEF Excused
<1>6. ASSUME NEW c \in ContainerIDs, BindContainerFails(c) PROVE (Excused(d)' \/ Bound(d)')
  <2>1. /\ op'.kind = op.kind /\ op'.added = op.added /\ op'.pc = "done" /\ op'.failed
        /\ op.pc = "bind" /\ reported' = reported
    BY <1>6, BindFailsEffect, Zenon DEF SameCall, Aborted, Finished
  <2> QED
    BY <2>1, Zenon DEF Excused
<1>7. CASE PodBound
  <2>1. op.pc = "bind" /\ op.cs = {} /\ reported' = reported
    BY <1>7, PodBoundEffect, Zenon
  <2> QED
    BY <2>1, Zenon DEF Excused
<1>8. ASSUME NEW c \in ContainerIDs, RemovePodContainerFromNri(c) PROVE (Excused(d)' \/ Bound(d)')
  <2>1. op' = op /\ reported' = reported \ {c} /\ podCache'[PodOf[c]] = podCache[PodOf[c]] \ {c}
    BY <1>8, RemoveEffect, Zenon
  <2>2. d # c
    BY <2>1, Zenon DEF Covers
  <2> QED
    BY <2>1, <2>2, Zenon DEF Excused
<1>9. ASSUME NEW q \in Policies, NEW spec \in Specs, ReconcileWP(q, spec)
      PROVE  (Excused(d)' \/ Bound(d)')
  BY <1>9, ReconcileEffect, ExcuseKept, Zenon DEF Started, ProgressOK
<1>10. ASSUME NEW n \in ContainerNames, UpsertValues(n) PROVE (Excused(d)' \/ Bound(d)')
  BY <1>10, ValuesEffect, ExcuseKept, Zenon
<1>11. ASSUME NEW n \in ContainerNames, UpsertValuesFails(n) PROVE (Excused(d)' \/ Bound(d)')
  BY <1>11, ValuesFailsEffect, ExcuseKept, Zenon
<1>12. CASE UpsertSettings
  BY <1>12, SettingsEffect, ExcuseKept, Zenon
<1>13. CASE UpsertSettingsFails
  BY <1>13, SettingsFailsEffect, ExcuseKept, Zenon
<1>14. CASE SplitAppliedRemoved
  BY <1>14, SplitEffect, ExcuseKept, Zenon DEF SameCall
<1>15. ASSUME NEW p \in Pods, VisitPod(p) PROVE (Excused(d)' \/ Bound(d)')
  BY <1>15, VisitEffect, ExcuseKept, Zenon
<1>16. ASSUME NEW c \in ContainerIDs, UnbindContainer(c) PROVE (Excused(d)' \/ Bound(d)')
  BY <1>16, UnbindEffect, ExcuseKept, Zenon
<1>17. ASSUME NEW c \in ContainerIDs, UnbindContainerFails(c) PROVE (Excused(d)' \/ Bound(d)')
  BY <1>17, UnbindFailsEffect, ExcuseKept, Zenon
<1>18. CASE PodUnbound
  BY <1>18, PodUnboundEffect, ExcuseKept, Zenon
<1>19. CASE ReconcileDone
  BY <1>19, ReconcileDoneEffect, ExcuseKept, Zenon
<1>20. ASSUME NEW q \in Policies, HandleWPDelete(q) PROVE (Excused(d)' \/ Bound(d)')
  BY <1>20, DeleteEffect, ExcuseKept, Zenon DEF Started, ProgressOK
<1>21. ASSUME NEW n \in ContainerNames, RemovePolicyStep(n) PROVE (Excused(d)' \/ Bound(d)')
  BY <1>21, RemovePolicyEffect, ExcuseKept, Zenon
<1>22. ASSUME NEW n \in ContainerNames, RemovePolicyStepFails(n) PROVE (Excused(d)' \/ Bound(d)')
  BY <1>22, RemovePolicyFailsEffect, ExcuseKept, Zenon
<1>23. CASE DeleteDone
  BY <1>23, DeleteDoneEffect, ExcuseKept, Zenon
<1>24. CASE ClearValues
  BY <1>24, ClearValuesEffect, ExcuseKept, Zenon
<1>25. CASE ClearValuesFails
  BY <1>25, ClearValuesFailsEffect, ExcuseKept, Zenon
<1>26. CASE ClearSettings
  BY <1>26, ClearSettingsEffect, ExcuseKept, Zenon DEF SameCall
<1>27. CASE ClearSettingsFails
  BY <1>27, ClearSettingsFailsEffect, ExcuseKept, Zenon
<1>28. CASE Return
  <2>1. op.pc = "done" /\ UNCHANGED <<wpState, cgToPolicy>>
    BY <1>28, ReturnEffect, Zenon
  <2>2. Bound(d)' <=> Bound(d)
    BY <2>1, Zenon DEF Bound
  <2>3. CASE d \in reported
    <3>1. op.kind = "add" /\ ~op.failed /\ d \in podCache[op.pod] => Bound(d)
      <4>1. op.kind = "add" /\ d \in podCache[op.pod] => PodOf[d] = op.pod
        BY <1>0, Zenon DEF PodsOK, ProgressOK
      <4> QED
        BY <2>1, <4>1, Zenon DEF SuccessBound
    <3>2. op.kind = "reconcile" /\ ~op.failed /\ PolicyOf[PodOf[d]] = op.wp => Bound(d)
      BY <2>1, Zenon DEF SuccessBound, Covers
    <3>3. Bound(d) \/ d \in reported'
      BY <1>28, <2>3, <3>1, <3>2, ReturnEffect, Zenon
    <3> QED
      BY <2>2, <3>3, Zenon DEF Excused
  <2>4. CASE d \notin reported
    <3>1. op.kind = "add" /\ d \in op.added /\ op.failed
      BY <2>1, <2>4, Zenon DEF Excused
    <3> QED
      BY <1>28, <3>1, ReturnEffect, Zenon DEF Excused
  <2> QED
    BY <2>3, <2>4, Zenon
<1>29. ASSUME NEW c \in ContainerIDs, CgroupRelease(c) PROVE (Excused(d)' \/ Bound(d)')
  BY <1>29, Zenon DEF CgroupRelease, Excused
<1>30. CASE Restart
  BY <1>30, ConstantsAssumption, Zenon DEF Restart, Covers
<1>31. CASE UNCHANGED resolverVars
  BY <1>31, Zenon DEF resolverVars, Excused
<1> QED
  BY <1>1, <1>2, <1>3, <1>4, <1>5, <1>6, <1>7, <1>8, <1>9, <1>10, <1>11, <1>12, <1>13, <1>14,
     <1>15, <1>16, <1>17, <1>18, <1>19, <1>20, <1>21, <1>22, <1>23, <1>24, <1>25, <1>26, <1>27,
     <1>28, <1>29, <1>30, <1>31, Zenon DEF Next, OpStep

\* Every step keeps the invariant of a READY policy.
LEMMA ReadyInvStep == IndInv /\ ReadyInv /\ [Next]_resolverVars => ReadyInv'
  BY ProgressOKStep, IDsCarriedStep, RulesWrittenStep, VisitedBoundStep, ReadyRulesStep,
     ReadyBoundStep, SuccessBoundStep, Zenon
  DEF ReadyInv

\* A fresh agent has no policy that is READY, and no operation in progress.
LEMMA ReadyInvInit == Init => ReadyInv
<1> SUFFICES ASSUME Init PROVE ReadyInv
  BY Zenon
<1>1. /\ op = Idle /\ wpState = [wp \in Policies |-> NilInfo] /\ podCache = [p \in Pods |-> {}]
  BY Zenon DEF Init, FreshAgent
<1>2. op.pc = "idle" /\ op.kind = "none"
  BY <1>1, Zenon DEF Idle
<1>3. ProgressOK /\ IDsCarried /\ RulesWritten
  BY <1>1, <1>2, Zenon DEF ProgressOK, IDsCarried, RulesWritten, Visiting, Unbinding
<1>4. VisitedBound /\ SuccessBound
  BY <1>2, Zenon DEF VisitedBound, SuccessBound, Visiting
<1>5. \A wp \in Policies : wpState[wp].state # "ready"
  BY <1>1, Zenon DEF NilInfo
<1>6. ReadyRules /\ ReadyBound
  BY <1>5, Zenon DEF ReadyRules, ReadyBound, Covers
<1> QED
  BY <1>3, <1>4, <1>6, Zenon DEF ReadyInv

\* The invariant of a READY policy holds in every state of the resolver.
THEOREM ReadyInvariance == Spec => [](IndInv /\ ReadyInv)
  BY InitInv, NextInv, ReadyInvInit, ReadyInvStep, PTL DEF Spec

\* The READY status is truthful, for every set of pods, policies and specs: with
\* no operation in progress, a READY policy enforces the spec of its last
\* reconcile on each cached container that the spec covers, unless the runtime
\* was told otherwise by an error of AddPodContainerFromNri.
THEOREM ReadyTruthful == Spec => []ReadyMeansEnforced
<1>1. IndInv /\ ReadyInv => ReadyMeansEnforced
  <2> SUFFICES ASSUME IndInv, ReadyInv, Unlocked, NEW wp \in Policies, wpState[wp].state = "ready"
               PROVE  /\ applied[wp] # NoSpec /\ wpState[wp].mode = applied[wp].mode
                      /\ \A c \in ContainerIDs :
                           /\ c \in podCache[PodOf[c]] /\ PolicyOf[PodOf[c]] = wp
                           /\ NameOf[c] \in applied[wp].containers
                           => Enforced(c, applied[wp]) \/ c \in reported
    BY Zenon DEF ReadyMeansEnforced
  <2>1. op.pc = "idle" /\ op.kind = "none"
    BY Zenon DEF Unlocked, ReadyInv, ProgressOK
  <2>2. RulesInMaps(wp)
    BY Zenon DEF ReadyInv, ReadyRules
  <2>3. Kept(wp) = applied[wp].containers /\ InPlace(wp) = {applied[wp]}
    BY <2>1, Zenon DEF Kept, InPlace, Busy
  <2>4. applied[wp] # NoSpec /\ wpState[wp].mode = applied[wp].mode
    BY <2>2, NullsAssumption, Zenon DEF RulesInMaps
  <2>5. ASSUME NEW c \in ContainerIDs, c \in podCache[PodOf[c]], PolicyOf[PodOf[c]] = wp,
               NameOf[c] \in applied[wp].containers, c \notin reported
        PROVE  Enforced(c, applied[wp])
    <3>1. Covers(wp, c) /\ ~Excused(c)
      BY <2>1, <2>3, <2>5, Zenon DEF Covers, Excused
    <3>2. cgToPolicy[c] = wpState[wp].pol[NameOf[c]]
      BY <2>5, <3>1, Zenon DEF ReadyInv, ReadyBound, Bound
    <3>3. /\ cgToPolicy[c] # 0
          /\ policyValues[cgToPolicy[c]] = applied[wp].rules[NameOf[c]].allowed
          /\ policySettings[cgToPolicy[c]] = SettingsOf(applied[wp], NameOf[c])
      BY <2>2, <2>3, <2>5, <3>2 DEF RulesInMaps
    <3> QED
      BY <3>3, Zenon DEF Enforced, SettingsOf
  <2> QED
    BY <2>4, <2>5, Zenon
<1> QED
  BY <1>1, ReadyInvariance, PTL

-----------------------------------------------------------------------------
(* The IDs that the kernel maps mention. *)

\* While no call failed.
BoundCached == faults = 0 => \A c \in ContainerIDs : cgToPolicy[c] # 0 => c \in podCache[PodOf[c]]

\* A container that leaves the spec is unbound when its pod is visited.
RemovedUnbound ==
  faults = 0 /\ Visiting => \A c \in ContainerIDs :
    cgToPolicy[c] # 0 /\ cgToPolicy[c] = op.ids[NameOf[c]] =>
      PodOf[c] \in op.pods \/ (Unbinding /\ c \in op.cs)

Empty(id) == policyValues[id] = {} /\ policySettings[id] = NoSettings
Unused(id) == \A c \in ContainerIDs : cgToPolicy[c] # id

ClearedFirst == op.pc = "clearSettings" => policyValues[op.ids[op.name]] = {}

\* ID id of container n of policy wp is no longer, or not yet, in the cache,
\* but the operation in progress still has it.
InHand(wp, n, id) ==
  /\ op.wp = wp /\ op.ids[n] = id
  /\ \/ op.pc \in {"values", "settings"}
     \/ Visiting /\ Empty(id)
     \/ /\ op.kind = "delete" /\ op.pc \in {"rmPolicy", "clearValues", "clearSettings"}
        /\ n \in op.names
     \/ /\ op.kind = "delete" /\ op.pc \in {"clearValues", "clearSettings"}
        /\ n = op.name /\ Unused(id)

\* ID id is the one of container n of policy wp, in the cache or in hand.
Holds(wp, n, id) ==
  /\ owner[id] = <<wp, n>>
  /\ (wpState[wp].live /\ wpState[wp].pol[n] = id) \/ InHand(wp, n, id)

IDsAccounted ==
  faults = 0 => \A id \in PolicyIDs : InUse(id) =>
    \E wp \in Policies, n \in ContainerNames : Holds(wp, n, id)

OrphanInv == BoundCached /\ RemovedUnbound /\ ClearedFirst /\ IDsAccounted

\* While no call failed, only cached containers are bound.
LEMMA BoundCachedStep == IndInv /\ ProgressOK /\ BoundCached /\ [Next]_resolverVars =>
   BoundCached'
<1> SUFFICES ASSUME IndInv, ProgressOK, BoundCached, [Next]_resolverVars PROVE BoundCached'
  BY Zenon
<1> USE DEF cacheVars, bpfVars, history
<1>f. faults \in Nat
  BY ConstantsAssumption DEF IndInv, TypeOK, HistoryTypeOK
<1>1. ASSUME NEW p \in Pods, NEW cs \in SUBSET {c \in ContainerIDs : PodOf[c] = p},
             AddPodContainerFromNri(p, cs)
      PROVE  BoundCached'
  BY <1>1, AddEffect, Zenon DEF BoundCached
<1>2. ASSUME NEW c \in ContainerIDs, TrackContainer(c) PROVE BoundCached'
  <2>1. /\ \A p \in Pods : podCache[p] \subseteq podCache'[p]
        /\ UNCHANGED <<cgToPolicy, faults>>
    BY <1>2, TrackEffect, Zenon DEF OnlyAt
  <2> QED
    BY <2>1, ConstantsAssumption, Zenon DEF BoundCached
<1>3. ASSUME NEW c \in ContainerIDs, TrackContainerFails(c) PROVE BoundCached'
  <2>1. faults' = faults + 1
    BY <1>3, TrackFailsEffect, Zenon
  <2> QED
    BY <1>f, <2>1 DEF BoundCached
<1>4. CASE ApplyPolicyToPodIfPresent
  BY <1>4, ApplyEffect, Zenon DEF BoundCached
<1>5. ASSUME NEW c \in ContainerIDs, BindContainer(c) PROVE BoundCached'
  <2>1. /\ c \in podCache[PodOf[c]] /\ UNCHANGED <<podCache, faults>>
        /\ OnlyAt(cgToPolicy, cgToPolicy', ContainerIDs, c)
    BY <1>5, BindEffect, Zenon DEF ProgressOK
  <2> QED
    BY <2>1, Zenon DEF OnlyAt, BoundCached
<1>6. ASSUME NEW c \in ContainerIDs, BindContainerFails(c) PROVE BoundCached'
  BY <1>6, <1>f, BindFailsEffect DEF BoundCached
<1>7. CASE PodBound
  BY <1>7, PodBoundEffect, Zenon DEF BoundCached
<1>8. ASSUME NEW c \in ContainerIDs, RemovePodContainerFromNri(c) PROVE BoundCached'
  <2> SUFFICES ASSUME faults' = 0, NEW d \in ContainerIDs, cgToPolicy'[d] # 0
               PROVE  d \in podCache'[PodOf[d]]
    BY Zenon DEF BoundCached
  <2>1. faults = 0 /\ faults' = faults
    BY <1>8, <1>f, RemoveEffect
  <2>2. d # c
    BY <1>8, <2>1, RemoveEffect, Zenon DEF BoundCached
  <2>3. d \in podCache[PodOf[d]]
    BY <1>8, <2>1, <2>2, RemoveEffect, Zenon DEF OnlyAt, BoundCached
  <2> QED
    BY <1>8, <2>2, <2>3, RemoveEffect, ConstantsAssumption DEF OnlyAt
<1>9. ASSUME NEW wp \in Policies, NEW spec \in Specs, ReconcileWP(wp, spec) PROVE BoundCached'
  BY <1>9, ReconcileEffect, Zenon DEF BoundCached
<1>10. ASSUME NEW n \in ContainerNames, UpsertValues(n) PROVE BoundCached'
  BY <1>10, ValuesEffect, Zenon DEF BoundCached
<1>11. ASSUME NEW n \in ContainerNames, UpsertValuesFails(n) PROVE BoundCached'
  <2>1. faults' = faults + 1
    BY <1>11, ValuesFailsEffect, Zenon
  <2> QED
    BY <1>f, <2>1 DEF BoundCached
<1>12. CASE UpsertSettings
  BY <1>12, SettingsEffect, Zenon DEF BoundCached
<1>13. CASE UpsertSettingsFails
  <2>1. faults' = faults + 1
    BY <1>13, SettingsFailsEffect, Zenon
  <2> QED
    BY <1>f, <2>1 DEF BoundCached
<1>14. CASE SplitAppliedRemoved
  BY <1>14, SplitEffect, Zenon DEF BoundCached
<1>15. ASSUME NEW p \in Pods, VisitPod(p) PROVE BoundCached'
  BY <1>15, VisitEffect, Zenon DEF BoundCached
<1>16. ASSUME NEW c \in ContainerIDs, UnbindContainer(c) PROVE BoundCached'
  BY <1>16, UnbindEffect, Zenon DEF OnlyAt, BoundCached
<1>17. ASSUME NEW c \in ContainerIDs, UnbindContainerFails(c) PROVE BoundCached'
  <2>1. faults' = faults + 1
    BY <1>17, UnbindFailsEffect, Zenon
  <2> QED
    BY <1>f, <2>1 DEF BoundCached
<1>18. CASE PodUnbound
  BY <1>18, PodUnboundEffect, Zenon DEF BoundCached
<1>19. CASE ReconcileDone
  BY <1>19, ReconcileDoneEffect, Zenon DEF BoundCached
<1>20. ASSUME NEW wp \in Policies, HandleWPDelete(wp) PROVE BoundCached'
  BY <1>20, DeleteEffect, Zenon DEF BoundCached
<1>21. ASSUME NEW n \in ContainerNames, RemovePolicyStep(n) PROVE BoundCached'
  BY <1>21, RemovePolicyEffect DEF BoundCached
<1>22. ASSUME NEW n \in ContainerNames, RemovePolicyStepFails(n) PROVE BoundCached'
  <2>1. faults' = faults + 1
    BY <1>22, RemovePolicyFailsEffect, Zenon
  <2> QED
    BY <1>f, <2>1 DEF BoundCached
<1>23. CASE DeleteDone
  BY <1>23, DeleteDoneEffect, Zenon DEF BoundCached
<1>24. CASE ClearValues
  BY <1>24, ClearValuesEffect, Zenon DEF BoundCached
<1>25. CASE ClearValuesFails
  <2>1. faults' = faults + 1
    BY <1>25, ClearValuesFailsEffect, Zenon
  <2> QED
    BY <1>f, <2>1 DEF BoundCached
<1>26. CASE ClearSettings
  BY <1>26, ClearSettingsEffect, Zenon DEF BoundCached
<1>27. CASE ClearSettingsFails
  <2>1. faults' = faults + 1
    BY <1>27, ClearSettingsFailsEffect, Zenon
  <2> QED
    BY <1>f, <2>1 DEF BoundCached
<1>28. CASE Return
  BY <1>28, ReturnEffect, Zenon DEF BoundCached
<1>29. ASSUME NEW c \in ContainerIDs, CgroupRelease(c) PROVE BoundCached'
  BY <1>29, Zenon DEF CgroupRelease, BoundCached
<1>30. CASE Restart
  BY <1>30, Zenon DEF Restart, BoundCached
<1>31. CASE UNCHANGED resolverVars
  BY <1>31 DEF resolverVars, BoundCached
<1> QED
  BY <1>1, <1>2, <1>3, <1>4, <1>5, <1>6, <1>7, <1>8, <1>9, <1>10, <1>11, <1>12, <1>13, <1>14,
     <1>15, <1>16, <1>17, <1>18, <1>19, <1>20, <1>21, <1>22, <1>23, <1>24, <1>25, <1>26, <1>27,
     <1>28, <1>29, <1>30, <1>31, Zenon DEF Next, OpStep

\* While no call failed, a visited pod has no container bound to a removed ID.
LEMMA RemovedUnboundStep == IndInv /\ ProgressOK /\ IDsCarried /\ BoundCached /\ RemovedUnbound /\
   [Next]_resolverVars => RemovedUnbound'
<1> SUFFICES ASSUME IndInv, ProgressOK, IDsCarried, BoundCached, RemovedUnbound,
   [Next]_resolverVars PROVE RemovedUnbound'
  OBVIOUS
<1> USE DEF cacheVars, bpfVars, history
<1>0. OpOK /\ IDsOwned
  BY Zenon DEF IndInv
<1>f. faults \in Nat
  BY ConstantsAssumption DEF IndInv, TypeOK, HistoryTypeOK
<1>1. ASSUME NEW p \in Pods, NEW cs \in SUBSET {c \in ContainerIDs : PodOf[c] = p},
             AddPodContainerFromNri(p, cs)
      PROVE  RemovedUnbound'
  BY <1>1, AddEffect, Zenon DEF Started, RemovedUnbound, Visiting
<1>2. ASSUME NEW c \in ContainerIDs, TrackContainer(c) PROVE RemovedUnbound'
  BY <1>2, TrackEffect, Zenon DEF RemovedUnbound, Visiting
<1>3. ASSUME NEW c \in ContainerIDs, TrackContainerFails(c) PROVE RemovedUnbound'
  <2>1. faults' = faults + 1
    BY <1>3, TrackFailsEffect, Zenon
  <2> QED
    BY <1>f, <2>1 DEF RemovedUnbound
<1>4. CASE ApplyPolicyToPodIfPresent
  BY <1>4, <1>0, ApplyEffect, Zenon DEF Finished, OpOK, RemovedUnbound, Visiting
<1>5. ASSUME NEW c \in ContainerIDs, BindContainer(c) PROVE RemovedUnbound'
  <2> SUFFICES ASSUME faults' = 0, Visiting', NEW d \in ContainerIDs, cgToPolicy'[d] # 0,
                      cgToPolicy'[d] = op'.ids[NameOf[d]]
               PROVE  PodOf[d] \in op'.pods \/ (Unbinding' /\ d \in op'.cs)
    BY Zenon DEF RemovedUnbound
  <2>0. NameOf[d] \in ContainerNames /\ PodOf[d] \in Pods
    BY ConstantsAssumption, Zenon
  <2>1. /\ op.pc = "bind" /\ op'.pc = "bind" /\ op'.kind = op.kind /\ op'.ids = op.ids
        /\ op'.pods = op.pods /\ c \in op.cs /\ faults' = faults
    BY <1>5, BindEffect, Zenon DEF SameCall, SamePlace
  <2>2. Visiting /\ ~Unbinding
    BY <2>1, Zenon DEF Visiting, Unbinding
  <2>3. NameOf[c] \in ContainerNames /\ op.ids[NameOf[c]] = 0
    BY <2>1, <2>2, ConstantsAssumption, Zenon DEF IDsCarried
  <2>4. d # c
    BY <2>1, <2>3, Zenon
  <2>5. cgToPolicy'[d] = cgToPolicy[d]
    BY <1>5, <2>4, BindEffect, Zenon DEF OnlyAt
  <2> QED
    BY <2>1, <2>2, <2>5, Zenon DEF RemovedUnbound
<1>6. ASSUME NEW c \in ContainerIDs, BindContainerFails(c) PROVE RemovedUnbound'
  BY <1>6, <1>f, BindFailsEffect, Zenon DEF RemovedUnbound, Visiting, Aborted, Finished
<1>7. CASE PodBound
  <2> SUFFICES ASSUME faults' = 0, Visiting', NEW d \in ContainerIDs, cgToPolicy'[d] # 0,
                      cgToPolicy'[d] = op'.ids[NameOf[d]]
               PROVE  PodOf[d] \in op'.pods \/ (Unbinding' /\ d \in op'.cs)
    BY Zenon DEF RemovedUnbound
  <2>0. NameOf[d] \in ContainerNames /\ PodOf[d] \in Pods
    BY ConstantsAssumption, Zenon
  <2>1. /\ op.pc = "bind" /\ op.kind = "reconcile" /\ op'.ids = op.ids /\ op'.pods = op.pods
        /\ UNCHANGED <<cgToPolicy, faults>>
    BY <1>7, PodBoundEffect, Zenon DEF SamePlace, Finished, Visiting
  <2> QED
    BY <2>1, Zenon DEF RemovedUnbound, Visiting, Unbinding
<1>8. ASSUME NEW c \in ContainerIDs, RemovePodContainerFromNri(c) PROVE RemovedUnbound'
  BY <1>8, RemoveEffect, Zenon DEF RemovedUnbound, Visiting
<1>9. ASSUME NEW wp \in Policies, NEW spec \in Specs, ReconcileWP(wp, spec) PROVE RemovedUnbound'
  BY <1>9, ReconcileEffect, Zenon DEF Started, RemovedUnbound, Visiting
<1>10. ASSUME NEW n \in ContainerNames, UpsertValues(n) PROVE RemovedUnbound'
  BY <1>10, ValuesEffect, Zenon DEF RemovedUnbound, Visiting
<1>11. ASSUME NEW n \in ContainerNames, UpsertValuesFails(n) PROVE RemovedUnbound'
  <2>1. faults' = faults + 1
    BY <1>11, ValuesFailsEffect, Zenon
  <2> QED
    BY <1>f, <2>1 DEF RemovedUnbound
<1>12. CASE UpsertSettings
  BY <1>12, SettingsEffect, Zenon DEF RemovedUnbound, Visiting
<1>13. CASE UpsertSettingsFails
  <2>1. faults' = faults + 1
    BY <1>13, SettingsFailsEffect, Zenon
  <2> QED
    BY <1>f, <2>1 DEF RemovedUnbound
<1>14. CASE SplitAppliedRemoved
  <2> SUFFICES ASSUME faults' = 0, Visiting', NEW d \in ContainerIDs, cgToPolicy'[d] # 0,
                      cgToPolicy'[d] = op'.ids[NameOf[d]]
               PROVE  PodOf[d] \in op'.pods \/ (Unbinding' /\ d \in op'.cs)
    BY DEF RemovedUnbound
  <2>0. NameOf[d] \in ContainerNames /\ PodOf[d] \in Pods
    BY ConstantsAssumption
  <2>1. /\ op.wp \in Policies /\ op.kind = "reconcile" /\ cgToPolicy' = cgToPolicy /\ faults = 0
        /\ op'.ids[NameOf[d]] \in {0, wpState[op.wp].pol[NameOf[d]]}
    BY <1>14, <2>0, SplitEffect, Zenon
  <2>2. d \in podCache[PodOf[d]]
    BY <2>1, Zenon DEF BoundCached
  <2>3. <<PolicyOf[PodOf[d]], NameOf[d]>> = <<op.wp, NameOf[d]>>
    BY <1>0, <2>0, <2>1 DEF IDsOwned, AllocatedFor
  <2> QED
    BY <1>14, <2>0, <2>2, <2>3, SplitEffect
<1>15. ASSUME NEW p \in Pods, VisitPod(p) PROVE RemovedUnbound'
  <2> SUFFICES ASSUME faults' = 0, Visiting', NEW d \in ContainerIDs, cgToPolicy'[d] # 0,
                      cgToPolicy'[d] = op'.ids[NameOf[d]]
               PROVE  PodOf[d] \in op'.pods \/ (Unbinding' /\ d \in op'.cs)
    BY Zenon DEF RemovedUnbound
  <2>0. NameOf[d] \in ContainerNames /\ PodOf[d] \in Pods
    BY ConstantsAssumption, Zenon
  <2>1. /\ op.pc = "pods" /\ op.kind = "reconcile" /\ op'.pc = "unbind" /\ op'.kind = op.kind
        /\ op'.ids = op.ids /\ op'.pods = op.pods \ {p} /\ UNCHANGED <<cgToPolicy, faults>>
        /\ op'.cs = {c \in podCache[p] : op.ids[NameOf[c]] # 0}
    BY <1>15, VisitEffect, Zenon DEF SameCall
  <2>2. PodOf[d] \in op.pods
    BY <2>1, Zenon DEF RemovedUnbound, Visiting, Unbinding
  <2>3. d \in podCache[PodOf[d]]
    BY <2>1, Zenon DEF BoundCached
  <2> QED
    BY <2>1, <2>2, <2>3, Zenon DEF Unbinding
<1>16. ASSUME NEW c \in ContainerIDs, UnbindContainer(c) PROVE RemovedUnbound'
  <2> SUFFICES ASSUME faults' = 0, Visiting', NEW d \in ContainerIDs, cgToPolicy'[d] # 0,
                      cgToPolicy'[d] = op'.ids[NameOf[d]]
               PROVE  PodOf[d] \in op'.pods \/ (Unbinding' /\ d \in op'.cs)
    BY DEF RemovedUnbound
  <2>0. NameOf[d] \in ContainerNames /\ PodOf[d] \in Pods
    BY ConstantsAssumption
  <2>1. /\ op.pc = "unbind" /\ op.kind = "reconcile" /\ op'.pc = "clearValues"
        /\ op'.kind = op.kind /\ op'.ids = op.ids /\ op'.pods = op.pods /\ op'.cs = op.cs \ {c}
        /\ faults' = faults
    BY <1>16, UnbindEffect, Zenon DEF SameCall
  <2>2. d # c /\ cgToPolicy'[d] = cgToPolicy[d]
    BY <1>16, UnbindEffect, Zenon DEF OnlyAt
  <2> QED
    BY <2>1, <2>2, Zenon DEF RemovedUnbound, Visiting, Unbinding
<1>17. ASSUME NEW c \in ContainerIDs, UnbindContainerFails(c) PROVE RemovedUnbound'
  <2>1. faults' = faults + 1
    BY <1>17, UnbindFailsEffect, Zenon
  <2> QED
    BY <1>f, <2>1 DEF RemovedUnbound
<1>18. CASE PodUnbound
  <2> SUFFICES ASSUME faults' = 0, Visiting', NEW d \in ContainerIDs, cgToPolicy'[d] # 0,
                      cgToPolicy'[d] = op'.ids[NameOf[d]]
               PROVE  PodOf[d] \in op'.pods \/ (Unbinding' /\ d \in op'.cs)
    BY DEF RemovedUnbound
  <2>0. NameOf[d] \in ContainerNames /\ PodOf[d] \in Pods
    BY ConstantsAssumption
  <2>1. /\ op.pc = "unbind" /\ op.kind = "reconcile" /\ op.cs = {} /\ op'.ids = op.ids
        /\ op'.pods = op.pods /\ UNCHANGED <<cgToPolicy, faults>>
    BY <1>18, PodUnboundEffect, Zenon DEF SamePlace
  <2> QED
    BY <2>1, Zenon DEF RemovedUnbound, Visiting
<1>19. CASE ReconcileDone
  BY <1>19, ReconcileDoneEffect, Zenon DEF Finished, SameCall, RemovedUnbound, Visiting
<1>20. ASSUME NEW wp \in Policies, HandleWPDelete(wp) PROVE RemovedUnbound'
  BY <1>20, DeleteEffect, Zenon DEF Started, RemovedUnbound, Visiting
<1>21. ASSUME NEW n \in ContainerNames, RemovePolicyStep(n) PROVE RemovedUnbound'
  BY <1>21, RemovePolicyEffect, Zenon DEF SameCall, RemovedUnbound, Visiting
<1>22. ASSUME NEW n \in ContainerNames, RemovePolicyStepFails(n) PROVE RemovedUnbound'
  <2>1. faults' = faults + 1
    BY <1>22, RemovePolicyFailsEffect, Zenon
  <2> QED
    BY <1>f, <2>1 DEF RemovedUnbound
<1>23. CASE DeleteDone
  BY <1>23, DeleteDoneEffect, Zenon DEF Finished, RemovedUnbound, Visiting
<1>24. CASE ClearValues
  <2> SUFFICES ASSUME faults' = 0, Visiting', NEW d \in ContainerIDs, cgToPolicy'[d] # 0,
                      cgToPolicy'[d] = op'.ids[NameOf[d]]
               PROVE  PodOf[d] \in op'.pods \/ (Unbinding' /\ d \in op'.cs)
    BY DEF RemovedUnbound
  <2>0. NameOf[d] \in ContainerNames /\ PodOf[d] \in Pods
    BY ConstantsAssumption
  <2>1. /\ op.pc = "clearValues" /\ op'.pc = "clearSettings" /\ op'.kind = op.kind
        /\ op'.ids = op.ids /\ op'.pods = op.pods /\ op'.cs = op.cs
        /\ UNCHANGED <<cgToPolicy, faults>>
    BY <1>24, ClearValuesEffect, Zenon DEF SamePlace, SameCall
  <2> QED
    BY <2>1, Zenon DEF RemovedUnbound, Visiting, Unbinding
<1>25. CASE ClearValuesFails
  <2>1. faults' = faults + 1
    BY <1>25, ClearValuesFailsEffect, Zenon
  <2> QED
    BY <1>f, <2>1 DEF RemovedUnbound
<1>26. CASE ClearSettings
  <2> SUFFICES ASSUME faults' = 0, Visiting', NEW d \in ContainerIDs, cgToPolicy'[d] # 0,
                      cgToPolicy'[d] = op'.ids[NameOf[d]]
               PROVE  PodOf[d] \in op'.pods \/ (Unbinding' /\ d \in op'.cs)
    BY DEF RemovedUnbound
  <2>0. NameOf[d] \in ContainerNames /\ PodOf[d] \in Pods
    BY ConstantsAssumption
  <2>1. /\ op.pc = "clearSettings" /\ op'.pc \in {"unbind", "rmPolicy"} /\ op'.kind = op.kind
        /\ op'.ids = op.ids /\ op'.pods = op.pods /\ op'.cs = op.cs
        /\ UNCHANGED <<cgToPolicy, faults>>
    BY <1>26, ClearSettingsEffect, Zenon DEF SameCall
  <2> QED
    BY <2>1, Zenon DEF RemovedUnbound, Visiting, Unbinding
<1>27. CASE ClearSettingsFails
  <2>1. faults' = faults + 1
    BY <1>27, ClearSettingsFailsEffect, Zenon
  <2> QED
    BY <1>f, <2>1 DEF RemovedUnbound
<1>28. CASE Return
  BY <1>28, ReturnEffect DEF RemovedUnbound, Visiting
<1>29. ASSUME NEW c \in ContainerIDs, CgroupRelease(c) PROVE RemovedUnbound'
  BY <1>29, Zenon DEF CgroupRelease, RemovedUnbound, Visiting, Unbinding
<1>30. CASE Restart
  BY <1>30, Zenon DEF Restart, RemovedUnbound
<1>31. CASE UNCHANGED resolverVars
  BY <1>31, Zenon DEF resolverVars, RemovedUnbound, Visiting, Unbinding
<1> QED
  BY <1>1, <1>2, <1>3, <1>4, <1>5, <1>6, <1>7, <1>8, <1>9, <1>10, <1>11, <1>12, <1>13, <1>14,
     <1>15, <1>16, <1>17, <1>18, <1>19, <1>20, <1>21, <1>22, <1>23, <1>24, <1>25, <1>26, <1>27,
     <1>28, <1>29, <1>30, <1>31, Zenon DEF Next, OpStep

\* clearPolicyIDFromBPF clears the values before the settings.
LEMMA ClearedFirstStep == IndInv /\ IDsCarried /\ ClearedFirst /\ [Next]_resolverVars =>
   ClearedFirst'
<1> SUFFICES ASSUME IndInv, IDsCarried, ClearedFirst, [Next]_resolverVars PROVE ClearedFirst'
  OBVIOUS
<1> USE DEF cacheVars, bpfVars, history
<1>1. ASSUME NEW p \in Pods, NEW cs \in SUBSET {c \in ContainerIDs : PodOf[c] = p},
             AddPodContainerFromNri(p, cs)
      PROVE  ClearedFirst'
  BY <1>1, AddEffect, Zenon DEF Started, ClearedFirst
<1>2. ASSUME NEW c \in ContainerIDs, TrackContainer(c) PROVE ClearedFirst'
  BY <1>2, TrackEffect, Zenon DEF ClearedFirst
<1>3. ASSUME NEW c \in ContainerIDs, TrackContainerFails(c) PROVE ClearedFirst'
  BY <1>3, TrackFailsEffect, Zenon DEF Finished, ClearedFirst
<1>4. CASE ApplyPolicyToPodIfPresent
  BY <1>4, ApplyEffect, Zenon DEF Finished, ClearedFirst
<1>5. ASSUME NEW c \in ContainerIDs, BindContainer(c) PROVE ClearedFirst'
  BY <1>5, BindEffect, Zenon DEF SameCall, ClearedFirst
<1>6. ASSUME NEW c \in ContainerIDs, BindContainerFails(c) PROVE ClearedFirst'
  BY <1>6, BindFailsEffect, Zenon DEF Aborted, Finished, ClearedFirst
<1>7. CASE PodBound
  BY <1>7, PodBoundEffect, Zenon DEF Finished, ClearedFirst
<1>8. ASSUME NEW c \in ContainerIDs, RemovePodContainerFromNri(c) PROVE ClearedFirst'
  BY <1>8, RemoveEffect, Zenon DEF ClearedFirst
<1>9. ASSUME NEW wp \in Policies, NEW spec \in Specs, ReconcileWP(wp, spec) PROVE ClearedFirst'
  BY <1>9, ReconcileEffect, Zenon DEF Started, ClearedFirst
<1>10. ASSUME NEW n \in ContainerNames, UpsertValues(n) PROVE ClearedFirst'
  BY <1>10, ValuesEffect, Zenon DEF ClearedFirst
<1>11. ASSUME NEW n \in ContainerNames, UpsertValuesFails(n) PROVE ClearedFirst'
  BY <1>11, ValuesFailsEffect, Zenon DEF Aborted, Finished, ClearedFirst
<1>12. CASE UpsertSettings
  BY <1>12, SettingsEffect, Zenon DEF ClearedFirst
<1>13. CASE UpsertSettingsFails
  BY <1>13, SettingsFailsEffect, Zenon DEF Aborted, Finished, ClearedFirst
<1>14. CASE SplitAppliedRemoved
  BY <1>14, SplitEffect, Zenon DEF ClearedFirst
<1>15. ASSUME NEW p \in Pods, VisitPod(p) PROVE ClearedFirst'
  BY <1>15, VisitEffect, Zenon DEF ClearedFirst
<1>16. ASSUME NEW c \in ContainerIDs, UnbindContainer(c) PROVE ClearedFirst'
  BY <1>16, UnbindEffect, Zenon DEF ClearedFirst
<1>17. ASSUME NEW c \in ContainerIDs, UnbindContainerFails(c) PROVE ClearedFirst'
  BY <1>17, UnbindFailsEffect, Zenon DEF Aborted, Finished, ClearedFirst
<1>18. CASE PodUnbound
  BY <1>18, PodUnboundEffect, Zenon DEF ClearedFirst
<1>19. CASE ReconcileDone
  BY <1>19, ReconcileDoneEffect, Zenon DEF Finished, ClearedFirst
<1>20. ASSUME NEW wp \in Policies, HandleWPDelete(wp) PROVE ClearedFirst'
  BY <1>20, DeleteEffect, Zenon DEF Started, ClearedFirst
<1>21. ASSUME NEW n \in ContainerNames, RemovePolicyStep(n) PROVE ClearedFirst'
  BY <1>21, RemovePolicyEffect, Zenon DEF ClearedFirst
<1>22. ASSUME NEW n \in ContainerNames, RemovePolicyStepFails(n) PROVE ClearedFirst'
  BY <1>22, RemovePolicyFailsEffect, Zenon DEF Finished, ClearedFirst
<1>23. CASE DeleteDone
  BY <1>23, DeleteDoneEffect, Zenon DEF Finished, ClearedFirst
<1>24. CASE ClearValues
  <2>1. /\ op.pc = "clearValues" /\ op.name \in ContainerNames
        /\ op'.ids = op.ids /\ op'.name = op.name
    BY <1>24, ClearValuesEffect, Zenon DEF SamePlace
  <2>2. op.ids[op.name] \in PolicyIDs
    BY <2>1, OwnIDs, Zenon DEF IDsCarried
  <2> QED
    BY <1>24, <2>1, <2>2, ClearValuesEffect, Zenon DEF ClearedFirst
<1>25. CASE ClearValuesFails
  BY <1>25, ClearValuesFailsEffect, Zenon DEF Aborted, Finished, ClearedFirst
<1>26. CASE ClearSettings
  BY <1>26, ClearSettingsEffect, Zenon DEF ClearedFirst
<1>27. CASE ClearSettingsFails
  BY <1>27, ClearSettingsFailsEffect, Zenon DEF Aborted, Finished, ClearedFirst
<1>28. CASE Return
  BY <1>28, ReturnEffect DEF ClearedFirst
<1>29. ASSUME NEW c \in ContainerIDs, CgroupRelease(c) PROVE ClearedFirst'
  BY <1>29, Zenon DEF CgroupRelease, ClearedFirst
<1>30. CASE Restart
  BY <1>30, Zenon DEF Restart, ClearedFirst, Idle
<1>31. CASE UNCHANGED resolverVars
  BY <1>31, Zenon DEF resolverVars, ClearedFirst
<1> QED
  BY <1>1, <1>2, <1>3, <1>4, <1>5, <1>6, <1>7, <1>8, <1>9, <1>10, <1>11, <1>12, <1>13, <1>14,
     <1>15, <1>16, <1>17, <1>18, <1>19, <1>20, <1>21, <1>22, <1>23, <1>24, <1>25, <1>26, <1>27,
     <1>28, <1>29, <1>30, <1>31 DEF Next, OpStep

\* An ID is accounted for when it was before the step, its owner is the same and
\* the owner keeps it.
LEMMA AccountedFrame ==
  ASSUME IDsAccounted,
         faults' = 0 => faults = 0,
         \A id \in PolicyIDs : InUse(id)' => InUse(id) /\ owner'[id] = owner[id],
         \A id \in PolicyIDs, wp \in Policies, n \in ContainerNames :
           /\ wpState[wp].live /\ wpState[wp].pol[n] = id =>
                wpState'[wp].live /\ wpState'[wp].pol[n] = id
           /\ ~InHand(wp, n, id)
  PROVE  IDsAccounted'
<1> SUFFICES ASSUME faults' = 0, NEW id \in PolicyIDs, InUse(id)'
             PROVE  \E wp \in Policies, n \in ContainerNames : Holds(wp, n, id)'
  BY Zenon DEF IDsAccounted
<1>1. PICK wp \in Policies, n \in ContainerNames : Holds(wp, n, id)
  BY Zenon DEF IDsAccounted
<1>2. Holds(wp, n, id)'
  BY <1>1 DEF Holds
<1> QED
  BY <1>2, Zenon

\* While no call failed, every ID the maps mention is held by a policy or by the operation.
LEMMA IDsAccountedStep == IndInv /\ ProgressOK /\ IDsCarried /\ RemovedUnbound /\ ClearedFirst /\
   IDsAccounted /\ [Next]_resolverVars => IDsAccounted'
<1> SUFFICES ASSUME IndInv, ProgressOK, IDsCarried, RemovedUnbound, ClearedFirst, IDsAccounted,
   [Next]_resolverVars PROVE IDsAccounted'
  OBVIOUS
<1> USE DEF cacheVars, bpfVars, history
<1>0. OpOK /\ IDsOwned
  BY Zenon DEF IndInv
<1>z. 0 \notin PolicyIDs
  BY DEF PolicyIDs
<1>f. faults \in Nat
  BY ConstantsAssumption DEF IndInv, TypeOK, HistoryTypeOK
<1>1. ASSUME NEW p \in Pods, NEW cs \in SUBSET {c \in ContainerIDs : PodOf[c] = p},
             AddPodContainerFromNri(p, cs)
      PROVE  IDsAccounted'
  <2>1. /\ op.pc \in {"idle", "track"}
        /\ UNCHANGED <<wpState, cgToPolicy, policyValues, policySettings, owner, faults>>
    BY <1>1, AddEffect, Zenon DEF Started
  <2>2. \A id \in PolicyIDs, wp \in Policies, n \in ContainerNames : ~InHand(wp, n, id)
    BY <1>0, <2>1, Zenon DEF InHand, Visiting
  <2> QED
    BY <2>1, <2>2, AccountedFrame, Zenon DEF InUse
<1>2. ASSUME NEW c \in ContainerIDs, TrackContainer(c) PROVE IDsAccounted'
  <2>1. /\ op.pc \in {"track"}
        /\ UNCHANGED <<wpState, cgToPolicy, policyValues, policySettings, owner, faults>>
    BY <1>2, TrackEffect, Zenon
  <2>2. \A id \in PolicyIDs, wp \in Policies, n \in ContainerNames : ~InHand(wp, n, id)
    BY <1>0, <2>1, Zenon DEF InHand, Visiting
  <2> QED
    BY <2>1, <2>2, AccountedFrame, Zenon DEF InUse
<1>3. ASSUME NEW c \in ContainerIDs, TrackContainerFails(c) PROVE IDsAccounted'
  <2>1. faults' = faults + 1
    BY <1>3, TrackFailsEffect, Zenon
  <2> QED
    BY <1>f, <2>1 DEF IDsAccounted
<1>4. CASE ApplyPolicyToPodIfPresent
  <2>1. /\ op.pc \in {"idle", "track"}
        /\ UNCHANGED <<wpState, cgToPolicy, policyValues, policySettings, owner, faults>>
    BY <1>4, ApplyEffect, Zenon
  <2>2. \A id \in PolicyIDs, wp \in Policies, n \in ContainerNames : ~InHand(wp, n, id)
    BY <1>0, <2>1, Zenon DEF InHand, Visiting
  <2> QED
    BY <2>1, <2>2, AccountedFrame, Zenon DEF InUse
<1>5. ASSUME NEW c \in ContainerIDs, BindContainer(c) PROVE IDsAccounted'
  <2> SUFFICES ASSUME faults' = 0, NEW id \in PolicyIDs, InUse(id)'
               PROVE  \E wp \in Policies, n \in ContainerNames : Holds(wp, n, id)'
    BY Zenon DEF IDsAccounted
  <2>1. /\ op.pc = "bind" /\ op'.pc = "bind" /\ SameCall /\ op'.ids = op.ids
        /\ PolicyOf[PodOf[c]] = op.wp /\ op.wp \in Policies
        /\ cgToPolicy'[c] = wpState[op.wp].pol[NameOf[c]]
        /\ UNCHANGED <<wpState, policyValues, policySettings, owner, faults>>
    BY <1>5, BindEffect, Zenon DEF SamePlace
  <2>2. NameOf[c] \in ContainerNames
    BY ConstantsAssumption, Zenon
  <2>3. CASE id = cgToPolicy'[c]
    <3>1. PICK wp \in Policies, n \in ContainerNames : wp = op.wp /\ n = NameOf[c]
      BY <2>1, <2>2, Zenon
    <3>2. id = wpState[wp].pol[n] /\ id # 0
      BY <1>z, <2>1, <2>3, <3>1, Zenon
    <3>3. owner[id] = <<wp, n>>
      BY <1>0, <3>2, Zenon DEF IDsOwned, AllocatedFor
    <3>4. wpState[wp].live
      BY <2>1, <3>1, Zenon DEF ProgressOK
    <3>5. Holds(wp, n, id)'
      BY <2>1, <3>2, <3>3, <3>4, Zenon DEF Holds
    <3> QED
      BY <3>5, Zenon
  <2>4. CASE id # cgToPolicy'[c]
    <3>1. InUse(id)
      BY <1>5, <2>1, <2>4, BindEffect, Zenon DEF InUse, OnlyAt
    <3>2. PICK wp \in Policies, n \in ContainerNames : Holds(wp, n, id)
      BY <2>1, <3>1, Zenon DEF IDsAccounted
    <3>3. InHand(wp, n, id) => InHand(wp, n, id)'
      BY <1>0, <2>1, Zenon DEF InHand, Visiting, Empty, SameCall
    <3>4. Holds(wp, n, id)'
      BY <2>1, <3>2, <3>3, Zenon DEF Holds
    <3> QED
      BY <3>4
  <2> QED
    BY <2>3, <2>4, Zenon
<1>6. ASSUME NEW c \in ContainerIDs, BindContainerFails(c) PROVE IDsAccounted'
  <2>1. /\ op.pc = "bind" /\ c \in op.cs /\ PolicyOf[PodOf[c]] = op.wp /\ op.wp \in Policies
        /\ \/ faults' = faults /\ cgToPolicy[c] \notin {0, wpState[op.wp].pol[NameOf[c]]}
           \/ faults' = faults + 1
    BY <1>6, BindFailsEffect, Zenon
  <2>2. ASSUME faults' = 0 PROVE FALSE
    <3>1. faults = 0 /\ cgToPolicy[c] \notin {0, wpState[op.wp].pol[NameOf[c]]}
      BY <1>f, <2>1, <2>2
    <3>2. cgToPolicy[c] \in PolicyIDs /\ NameOf[c] \in ContainerNames
      BY <3>1, ConstantsAssumption DEF IndInv, TypeOK, MapsTypeOK, PolicyIDs
    <3>3. InUse(cgToPolicy[c])
      BY Zenon DEF InUse
    <3>4. PICK wp \in Policies, n \in ContainerNames : Holds(wp, n, cgToPolicy[c])
      BY <3>1, <3>2, <3>3, Zenon DEF IDsAccounted
    <3>5. owner[cgToPolicy[c]] = <<op.wp, NameOf[c]>>
      BY <1>0, <2>1, <3>1, Zenon DEF IDsOwned, AllocatedFor
    <3>6. wp = op.wp /\ n = NameOf[c]
      BY <3>4, <3>5 DEF Holds
    <3>7. InHand(op.wp, NameOf[c], cgToPolicy[c])
      BY <3>1, <3>4, <3>6, Zenon DEF Holds
    <3>8. op.kind = "reconcile" /\ op.ids[NameOf[c]] = cgToPolicy[c] /\ Visiting
      BY <1>0, <2>1, <3>7, Zenon DEF InHand, Visiting
    <3> QED
      BY <2>1, <3>1, <3>2, <3>8, Zenon DEF IDsCarried
  <2> QED
    BY <2>2, Zenon DEF IDsAccounted
<1>7. CASE PodBound
  <2> SUFFICES ASSUME faults' = 0, NEW id \in PolicyIDs, InUse(id)'
               PROVE  \E wp \in Policies, n \in ContainerNames : Holds(wp, n, id)'
    BY Zenon DEF IDsAccounted
  <2>1. /\ op.pc = "bind"
        /\ UNCHANGED <<wpState, cgToPolicy, policyValues, policySettings, owner, faults>>
    BY <1>7, PodBoundEffect, Zenon
  <2>2. PICK wp \in Policies, n \in ContainerNames : Holds(wp, n, id)
    BY <2>1, Zenon DEF IDsAccounted, InUse
  <2>3. op.kind = "reconcile" =>
          op'.kind = op.kind /\ op'.pc = "pods" /\ op'.wp = op.wp /\ op'.ids = op.ids
    BY <1>7, PodBoundEffect, Zenon DEF SameCall, SamePlace
  <2>4. InHand(wp, n, id) => InHand(wp, n, id)'
    BY <1>0, <2>1, <2>3, Zenon DEF InHand, Visiting, Empty
  <2>5. Holds(wp, n, id)'
    BY <2>1, <2>2, <2>4, Zenon DEF Holds
  <2> QED
    BY <2>5, Zenon
<1>8. ASSUME NEW c \in ContainerIDs, RemovePodContainerFromNri(c) PROVE IDsAccounted'
  <2>1. /\ op.pc = "idle" /\ UNCHANGED <<wpState, policyValues, policySettings, owner>>
        /\ faults' \in {faults, faults + 1}
        /\ \A d \in ContainerIDs : cgToPolicy'[d] \in {0, cgToPolicy[d]}
    BY <1>8, RemoveEffect, Zenon DEF OnlyAt
  <2>2. \A id \in PolicyIDs, wp \in Policies, n \in ContainerNames : ~InHand(wp, n, id)
    BY <1>0, <2>1, Zenon DEF InHand, Visiting
  <2>3. \A id \in PolicyIDs : InUse(id)' => InUse(id)
    BY <1>z, <2>1, Zenon DEF InUse
  <2> QED
    BY <1>f, <2>1, <2>2, <2>3, AccountedFrame
<1>9. ASSUME NEW wp \in Policies, NEW spec \in Specs, ReconcileWP(wp, spec) PROVE IDsAccounted'
  <2>1. /\ op.pc = "idle" /\ UNCHANGED <<cgToPolicy, policyValues, policySettings, owner, faults>>
        /\ \A q \in Policies : /\ wpState'[q].pol = wpState[q].pol
                               /\ wpState[q].live => wpState'[q].live
    BY <1>9, ReconcileEffect, Zenon DEF Started, OnlyAt
  <2>2. \A id \in PolicyIDs, q \in Policies, n \in ContainerNames : ~InHand(q, n, id)
    BY <1>0, <2>1, Zenon DEF InHand, Visiting
  <2> QED
    BY <2>1, <2>2, AccountedFrame, Zenon DEF InUse
<1>10. ASSUME NEW n \in ContainerNames, UpsertValues(n) PROVE IDsAccounted'
  <2> SUFFICES ASSUME faults' = 0, NEW id \in PolicyIDs, InUse(id)'
               PROVE  \E q \in Policies, m \in ContainerNames : Holds(q, m, id)'
    BY Zenon DEF IDsAccounted
  <2>1. /\ op.pc = "values" /\ op.kind = "reconcile" /\ n \in op.names /\ AllocPolicyID(n)
        /\ op'.pc = "settings" /\ op'.wp = op.wp /\ op.wp \in Policies
        /\ UNCHANGED <<wpState, cgToPolicy, policySettings, faults>>
    BY <1>10, <1>0, ValuesEffect, Zenon DEF SameCall, OpOK
  <2>2. op'.ids[n] = IF wpState[op.wp].pol[n] = 0 THEN SyncID(n) ELSE 0
    BY <1>10, ValuesEffect, Zenon
  <2>3. wpState[op.wp].live
    BY <2>1, Zenon DEF ProgressOK
  <2>4. CASE id = SyncID(n)
    <3>1. owner'[id] = <<op.wp, n>>
      BY <2>1, <2>4, SyncIDLemma, Zenon
    <3>2. CASE wpState[op.wp].pol[n] = 0
      <4>1. InHand(op.wp, n, id)'
        BY <2>1, <2>2, <2>4, <3>2, Zenon DEF InHand
      <4> QED
        BY <2>1, <3>1, <4>1, Zenon DEF Holds
    <3>3. CASE wpState[op.wp].pol[n] # 0
      <4>1. wpState[op.wp].pol[n] = id
        BY <2>1, <2>4, <3>3, SyncIDLemma, Zenon
      <4> QED
        BY <2>1, <2>3, <3>1, <4>1, Zenon DEF Holds
    <3> QED
      BY <3>2, <3>3, Zenon
  <2>5. CASE id # SyncID(n)
    <3>1. policyValues'[id] = policyValues[id] /\ owner'[id] = owner[id]
      BY <1>10, <2>1, <2>5, ValuesEffect, SyncIDLemma DEF OnlyAt
    <3>2. InUse(id)
      BY <2>1, <3>1, Zenon DEF InUse
    <3>3. PICK q \in Policies, m \in ContainerNames : Holds(q, m, id)
      BY <2>1, <3>2, Zenon DEF IDsAccounted
    <3>4. InHand(q, m, id) => InHand(q, m, id)'
      <4> SUFFICES ASSUME InHand(q, m, id) PROVE InHand(q, m, id)'
        BY Zenon
      <4>1. op.wp = q /\ op.ids[m] = id
        BY Zenon DEF InHand
      <4>2. m # n
        BY <1>z, <2>1, <4>1, Zenon DEF IDsCarried
      <4>3. op'.ids[m] = id
        BY <1>10, <4>1, <4>2, ValuesEffect DEF OnlyAt
      <4> QED
        BY <2>1, <4>1, <4>3, Zenon DEF InHand
    <3>5. Holds(q, m, id)'
      BY <2>1, <3>1, <3>3, <3>4, Zenon DEF Holds
    <3> QED
      BY <3>5, Zenon
  <2> QED
    BY <2>4, <2>5, Zenon
<1>11. ASSUME NEW n \in ContainerNames, UpsertValuesFails(n) PROVE IDsAccounted'
  <2>1. faults' = faults + 1
    BY <1>11, ValuesFailsEffect, Zenon
  <2> QED
    BY <1>f, <2>1 DEF IDsAccounted
<1>12. CASE UpsertSettings
  <2> SUFFICES ASSUME faults' = 0, NEW id \in PolicyIDs, InUse(id)'
               PROVE  \E wp \in Policies, n \in ContainerNames : Holds(wp, n, id)'
    BY DEF IDsAccounted
  <2>1. /\ op.pc = "settings" /\ op.kind = "reconcile" /\ op.name \in ContainerNames
        /\ op'.pc = "values" /\ op'.wp = op.wp /\ op.wp \in Policies /\ op'.ids = op.ids
        /\ UNCHANGED <<wpState, cgToPolicy, policyValues, owner, faults>>
    BY <1>12, <1>0, SettingsEffect, Zenon DEF SameCall, OpOK
  <2>2. wpState[op.wp].live
    BY <2>1, Zenon DEF ProgressOK
  <2>3. CASE id = CurrentID
    <3>1. CASE op.ids[op.name] # 0
      <4>1. PICK wp \in Policies, n \in ContainerNames : wp = op.wp /\ n = op.name
        BY <2>1, Zenon
      <4>2. id = op.ids[n] /\ owner[id] = <<wp, n>>
        BY <1>0, <2>1, <2>3, <3>1, <4>1 DEF CurrentID, IDsOwned, AllocatedFor
      <4>3. InHand(wp, n, id)'
        BY <2>1, <4>1, <4>2, Zenon DEF InHand
      <4> QED
        BY <2>1, <4>2, <4>3, Zenon DEF Holds
    <3>2. CASE op.ids[op.name] = 0
      <4>1. id = wpState[op.wp].pol[op.name] /\ id # 0
        BY <1>z, <2>3, <3>2, Zenon DEF CurrentID
      <4>2. owner[id] = <<op.wp, op.name>>
        BY <1>0, <2>1, <4>1, Zenon DEF IDsOwned, AllocatedFor
      <4> QED
        BY <2>1, <2>2, <4>1, <4>2, Zenon DEF Holds
    <3> QED
      BY <3>1, <3>2, Zenon
  <2>4. CASE id # CurrentID
    <3>1. policySettings'[id] = policySettings[id]
      BY <1>12, <2>4, SettingsEffect, Zenon DEF OnlyAt
    <3>2. InUse(id)
      BY <2>1, <3>1, Zenon DEF InUse
    <3>3. PICK wp \in Policies, n \in ContainerNames : Holds(wp, n, id)
      BY <2>1, <3>2, Zenon DEF IDsAccounted
    <3>4. InHand(wp, n, id) => InHand(wp, n, id)'
      BY <2>1, Zenon DEF InHand
    <3>5. Holds(wp, n, id)'
      BY <2>1, <3>3, <3>4, Zenon DEF Holds
    <3> QED
      BY <3>5
  <2> QED
    BY <2>3, <2>4, Zenon
<1>13. CASE UpsertSettingsFails
  <2>1. faults' = faults + 1
    BY <1>13, SettingsFailsEffect, Zenon
  <2> QED
    BY <1>f, <2>1 DEF IDsAccounted
<1>14. CASE SplitAppliedRemoved
  <2> SUFFICES ASSUME faults' = 0, NEW id \in PolicyIDs, InUse(id)'
               PROVE  \E wp \in Policies, n \in ContainerNames : Holds(wp, n, id)'
    BY DEF IDsAccounted
  <2>1. /\ op.pc = "values" /\ op.kind = "reconcile" /\ op.wp \in Policies
        /\ UNCHANGED <<cgToPolicy, policyValues, policySettings, owner, faults>>
        /\ \A q \in Policies : wpState'[q].live = wpState[q].live
    BY <1>14, SplitEffect, Zenon DEF OnlyAt
  <2>2. PICK wp \in Policies, n \in ContainerNames : Holds(wp, n, id)
    BY <2>1, Zenon DEF IDsAccounted, InUse
  <2>3. CASE wp # op.wp
    <3>1. ~InHand(wp, n, id) /\ wpState'[wp] = wpState[wp]
      BY <1>14, <2>3, SplitEffect, Zenon DEF OnlyAt, InHand
    <3> QED
      BY <2>1, <2>2, <3>1, Zenon DEF Holds
  <2>4. CASE wp = op.wp
    <3>1. op.ids[n] # 0 => wpState[op.wp].pol[n] = 0
      BY <2>1, Zenon DEF IDsCarried
    <3>2. op.ids[n] = id \/ wpState[op.wp].pol[n] = id
      BY <2>2, <2>4, Zenon DEF Holds, InHand
    <3>3. wpState'[op.wp].pol[n] = id
      BY <1>14, <1>z, <3>1, <3>2, SplitEffect, Zenon
    <3>4. wpState[op.wp].live
      BY <2>1, Zenon DEF ProgressOK
    <3> QED
      BY <2>1, <2>2, <2>4, <3>3, <3>4 DEF Holds
  <2> QED
    BY <2>3, <2>4, Zenon
<1>15. ASSUME NEW p \in Pods, VisitPod(p) PROVE IDsAccounted'
  <2> SUFFICES ASSUME faults' = 0, NEW id \in PolicyIDs, InUse(id)'
               PROVE  \E wp \in Policies, n \in ContainerNames : Holds(wp, n, id)'
    BY DEF IDsAccounted
  <2>1. /\ op.pc = "pods" /\ op'.pc = "unbind" /\ op.kind = "reconcile" /\ op'.kind = op.kind
        /\ op'.wp = op.wp /\ op'.ids = op.ids
        /\ UNCHANGED <<wpState, policyValues, policySettings, owner, faults>>
        /\ \A e \in ContainerIDs : cgToPolicy'[e] \in {0, cgToPolicy[e]}
    BY <1>15, VisitEffect, Zenon DEF SameCall
  <2>2. InUse(id)
    BY <1>z, <2>1, Zenon DEF InUse
  <2>3. PICK wp \in Policies, n \in ContainerNames : Holds(wp, n, id)
    BY <2>1, <2>2, Zenon DEF IDsAccounted
  <2>4. InHand(wp, n, id) => InHand(wp, n, id)'
    BY <2>1, Zenon DEF InHand, Visiting, Empty
  <2>5. Holds(wp, n, id)'
    BY <2>1, <2>3, <2>4, Zenon DEF Holds
  <2> QED
    BY <2>5
<1>16. ASSUME NEW c \in ContainerIDs, UnbindContainer(c) PROVE IDsAccounted'
  <2> SUFFICES ASSUME faults' = 0, NEW id \in PolicyIDs, InUse(id)'
               PROVE  \E wp \in Policies, n \in ContainerNames : Holds(wp, n, id)'
    BY DEF IDsAccounted
  <2>1. /\ op.pc = "unbind" /\ op'.pc = "clearValues" /\ op.kind = "reconcile" /\ op'.kind = op.kind
        /\ op'.wp = op.wp /\ op'.ids = op.ids
        /\ UNCHANGED <<wpState, policyValues, policySettings, owner, faults>>
        /\ \A e \in ContainerIDs : cgToPolicy'[e] \in {0, cgToPolicy[e]}
    BY <1>16, UnbindEffect, Zenon DEF SameCall, OnlyAt
  <2>2. InUse(id)
    BY <1>z, <2>1, Zenon DEF InUse
  <2>3. PICK wp \in Policies, n \in ContainerNames : Holds(wp, n, id)
    BY <2>1, <2>2, Zenon DEF IDsAccounted
  <2>4. InHand(wp, n, id) => InHand(wp, n, id)'
    BY <2>1, Zenon DEF InHand, Visiting, Empty
  <2>5. Holds(wp, n, id)'
    BY <2>1, <2>3, <2>4 DEF Holds
  <2> QED
    BY <2>5
<1>17. ASSUME NEW c \in ContainerIDs, UnbindContainerFails(c) PROVE IDsAccounted'
  <2>1. faults' = faults + 1
    BY <1>17, UnbindFailsEffect, Zenon
  <2> QED
    BY <1>f, <2>1 DEF IDsAccounted
<1>18. CASE PodUnbound
  <2> SUFFICES ASSUME faults' = 0, NEW id \in PolicyIDs, InUse(id)'
               PROVE  \E wp \in Policies, n \in ContainerNames : Holds(wp, n, id)'
    BY DEF IDsAccounted
  <2>1. /\ op.pc = "unbind" /\ op'.pc = "bind" /\ op.kind = "reconcile" /\ op'.kind = op.kind
        /\ op'.wp = op.wp /\ op'.ids = op.ids
        /\ UNCHANGED <<wpState, policyValues, policySettings, owner, faults>>
        /\ \A e \in ContainerIDs : cgToPolicy'[e] \in {0, cgToPolicy[e]}
    BY <1>18, PodUnboundEffect, Zenon DEF SameCall, SamePlace
  <2>2. InUse(id)
    BY <1>z, <2>1, Zenon DEF InUse
  <2>3. PICK wp \in Policies, n \in ContainerNames : Holds(wp, n, id)
    BY <2>1, <2>2, Zenon DEF IDsAccounted
  <2>4. InHand(wp, n, id) => InHand(wp, n, id)'
    BY <2>1, Zenon DEF InHand, Visiting, Empty
  <2>5. Holds(wp, n, id)'
    BY <2>1, <2>3, <2>4, Zenon DEF Holds
  <2> QED
    BY <2>5
<1>19. CASE ReconcileDone
  <2> SUFFICES ASSUME faults' = 0, NEW id \in PolicyIDs, InUse(id)'
               PROVE  \E wp \in Policies, n \in ContainerNames : Holds(wp, n, id)'
    BY DEF IDsAccounted
  <2>1. /\ op.pc = "pods" /\ op.kind = "reconcile" /\ op.pods = {} /\ op.wp \in Policies
        /\ UNCHANGED <<cgToPolicy, policyValues, policySettings, owner, faults>>
        /\ \A q \in Policies : /\ wpState'[q].live = wpState[q].live
                               /\ wpState'[q].pol = wpState[q].pol
    BY <1>19, ReconcileDoneEffect, Zenon DEF OnlyAt
  <2>2. InUse(id)
    BY <2>1, Zenon DEF InUse
  <2>3. PICK wp \in Policies, n \in ContainerNames : Holds(wp, n, id)
    BY <2>1, <2>2, Zenon DEF IDsAccounted
  <2>4. ~InHand(wp, n, id)
    <3> SUFFICES ASSUME InHand(wp, n, id) PROVE FALSE
      BY Zenon
    <3>1. op.wp = wp /\ op.ids[n] = id /\ Empty(id)
      BY <2>1, Zenon DEF InHand
    <3>2. PICK c \in ContainerIDs : cgToPolicy[c] = id
      BY <2>2, <3>1, Zenon DEF InUse, Empty
    <3>3. owner[id] = <<PolicyOf[PodOf[c]], NameOf[c]>> /\ id # 0
      BY <1>0, <1>z, <3>2, Zenon DEF IDsOwned, AllocatedFor
    <3>4. NameOf[c] = n
      BY <2>3, <3>3 DEF Holds
    <3> QED
      BY <2>1, <3>1, <3>2, <3>3, <3>4, Zenon DEF RemovedUnbound, Visiting, Unbinding
  <2> QED
    BY <2>1, <2>3, <2>4 DEF Holds
<1>20. ASSUME NEW wp \in Policies, HandleWPDelete(wp) PROVE IDsAccounted'
  <2> SUFFICES ASSUME faults' = 0, NEW id \in PolicyIDs, InUse(id)'
               PROVE  \E q \in Policies, m \in ContainerNames : Holds(q, m, id)'
    BY Zenon DEF IDsAccounted
  <2>1. /\ op.pc = "idle" /\ op'.kind = "delete" /\ op'.wp = wp /\ op'.ids = wpState[wp].pol
        /\ op'.pc = IF wpState[wp].live THEN "rmPolicy" ELSE "done"
        /\ op'.names = {n \in ContainerNames : wpState[wp].pol[n] # 0}
        /\ UNCHANGED <<cgToPolicy, policyValues, policySettings, owner, faults>>
    BY <1>20, DeleteEffect, Zenon DEF Started
  <2>2. PICK q \in Policies, m \in ContainerNames : Holds(q, m, id)
    BY <2>1, Zenon DEF IDsAccounted, InUse
  <2>3. wpState[q].live /\ wpState[q].pol[m] = id
    BY <1>0, <2>1, <2>2, Zenon DEF Holds, InHand, Visiting
  <2>4. CASE q = wp
    <3>1. InHand(q, m, id)'
      <4>1. op'.ids[m] = id /\ m \in op'.names
        BY <1>z, <2>1, <2>3, <2>4, Zenon
      <4> QED
        BY <2>1, <2>3, <2>4, <4>1, Zenon DEF InHand
    <3> QED
      BY <2>1, <2>2, <3>1, Zenon DEF Holds
  <2>5. CASE q # wp
    <3>1. wpState'[q] = wpState[q]
      BY <1>20, <2>5, DeleteEffect, Zenon DEF OnlyAt
    <3> QED
      BY <2>1, <2>2, <2>3, <3>1, Zenon DEF Holds
  <2> QED
    BY <2>4, <2>5, Zenon
<1>21. ASSUME NEW n \in ContainerNames, RemovePolicyStep(n) PROVE IDsAccounted'
  <2> SUFFICES ASSUME faults' = 0, NEW id \in PolicyIDs, InUse(id)'
               PROVE  \E q \in Policies, m \in ContainerNames : Holds(q, m, id)'
    BY DEF IDsAccounted
  <2>1. /\ op.pc = "rmPolicy" /\ op.kind = "delete" /\ n \in op.names
        /\ op'.pc = "clearValues" /\ op'.kind = op.kind /\ op'.wp = op.wp /\ op'.ids = op.ids
        /\ op'.names = op.names \ {n} /\ op'.name = n
        /\ UNCHANGED <<wpState, policyValues, policySettings, owner, faults>>
    BY <1>21, RemovePolicyEffect, Zenon DEF SameCall
  <2>2. /\ \A c \in ContainerIDs : cgToPolicy'[c] \in {0, cgToPolicy[c]}
        /\ op.ids[n] # 0 => Unused(op.ids[n])'
    BY <1>21, RemovePolicyEffect DEF Unused
  <2>3. InUse(id)
    BY <1>z, <2>1, <2>2, Zenon DEF InUse
  <2>4. PICK q \in Policies, m \in ContainerNames : Holds(q, m, id)
    BY <2>1, <2>3, Zenon DEF IDsAccounted
  <2>5. InHand(q, m, id) => InHand(q, m, id)'
    <3> SUFFICES ASSUME InHand(q, m, id) PROVE InHand(q, m, id)'
      OBVIOUS
    <3>1. op.wp = q /\ op.ids[m] = id /\ m \in op.names
      BY <2>1, Zenon DEF InHand, Visiting
    <3>2. m = n => Unused(id)'
      <4>1. id # 0
        BY <1>z, Zenon
      <4> QED
        BY <2>1, <2>2, <3>1, <4>1, Zenon
    <3> QED
      BY <2>1, <3>1, <3>2, Zenon DEF InHand
  <2>6. Holds(q, m, id)'
    BY <2>1, <2>4, <2>5 DEF Holds
  <2> QED
    BY <2>6
<1>22. ASSUME NEW n \in ContainerNames, RemovePolicyStepFails(n) PROVE IDsAccounted'
  <2>1. faults' = faults + 1
    BY <1>22, RemovePolicyFailsEffect, Zenon
  <2> QED
    BY <1>f, <2>1 DEF IDsAccounted
<1>23. CASE DeleteDone
  <2> SUFFICES ASSUME faults' = 0, NEW id \in PolicyIDs, InUse(id)'
               PROVE  \E wp \in Policies, n \in ContainerNames : Holds(wp, n, id)'
    BY DEF IDsAccounted
  <2>1. /\ op.pc = "rmPolicy" /\ op.names = {}
        /\ UNCHANGED <<wpState, cgToPolicy, policyValues, policySettings, owner, faults>>
    BY <1>23, DeleteDoneEffect, Zenon
  <2>2. PICK wp \in Policies, n \in ContainerNames : Holds(wp, n, id)
    BY <2>1, Zenon DEF IDsAccounted, InUse
  <2>3. ~InHand(wp, n, id)
    BY <2>1, Zenon DEF InHand, Visiting
  <2> QED
    BY <2>1, <2>2, <2>3, Zenon DEF Holds
<1>24. CASE ClearValues
  <2> SUFFICES ASSUME faults' = 0, NEW id \in PolicyIDs, InUse(id)'
               PROVE  \E wp \in Policies, n \in ContainerNames : Holds(wp, n, id)'
    BY DEF IDsAccounted
  <2>1. /\ op.pc = "clearValues" /\ op'.pc = "clearSettings" /\ op'.kind = op.kind
        /\ op'.wp = op.wp /\ op'.ids = op.ids /\ op'.names = op.names /\ op'.name = op.name
        /\ op.name \in ContainerNames
        /\ UNCHANGED <<wpState, cgToPolicy, policySettings, owner, faults>>
    BY <1>24, ClearValuesEffect, Zenon DEF SameCall, SamePlace
  <2>2. op.ids[op.name] \in PolicyIDs
    BY <2>1, OwnIDs, Zenon DEF IDsCarried
  <2>3. policyValues'[id] \in {{}, policyValues[id]}
    BY <1>24, <2>2, ClearValuesEffect, Zenon DEF OnlyAt
  <2>4. InUse(id) /\ (Empty(id) => Empty(id)') /\ (Unused(id) => Unused(id)')
    BY <2>1, <2>3, Zenon DEF InUse, Empty, Unused
  <2>5. PICK wp \in Policies, n \in ContainerNames : Holds(wp, n, id)
    BY <2>1, <2>4, Zenon DEF IDsAccounted
  <2>6. InHand(wp, n, id) => InHand(wp, n, id)'
    BY <2>1, <2>4, Zenon DEF InHand, Visiting
  <2>7. Holds(wp, n, id)'
    BY <2>1, <2>5, <2>6 DEF Holds
  <2> QED
    BY <2>7
<1>25. CASE ClearValuesFails
  <2>1. faults' = faults + 1
    BY <1>25, ClearValuesFailsEffect, Zenon
  <2> QED
    BY <1>f, <2>1 DEF IDsAccounted
<1>26. CASE ClearSettings
  <2> SUFFICES ASSUME faults' = 0, NEW id \in PolicyIDs, InUse(id)'
               PROVE  \E wp \in Policies, n \in ContainerNames : Holds(wp, n, id)'
    BY DEF IDsAccounted
  <2>1. /\ op.pc = "clearSettings" /\ op.kind \in {"reconcile", "delete"}
        /\ op'.pc = IF op.kind = "reconcile" THEN "unbind" ELSE "rmPolicy"
        /\ op'.kind = op.kind /\ op'.wp = op.wp /\ op'.ids = op.ids /\ op'.names = op.names
        /\ op.name \in ContainerNames /\ op.wp \in Policies
        /\ UNCHANGED <<cgToPolicy, policyValues, owner, faults>>
    BY <1>26, ClearSettingsEffect, Zenon DEF SameCall
  <2>2. op.ids[op.name] \in PolicyIDs /\ op.ids[op.name] # 0
    BY <2>1, OwnIDs, Zenon DEF IDsCarried
  <2>3. policySettings'[id] \in {NoSettings, policySettings[id]}
    BY <1>26, <2>2, ClearSettingsEffect, Zenon DEF OnlyAt
  <2>4. InUse(id) /\ (Empty(id) => Empty(id)') /\ (Unused(id) <=> Unused(id)')
    BY <2>1, <2>3, Zenon DEF InUse, Empty, Unused
  <2>5. PICK wp \in Policies, n \in ContainerNames : Holds(wp, n, id)
    BY <2>1, <2>4, Zenon DEF IDsAccounted
  <2>6. CASE id = op.ids[op.name]
    <3>1. wp = op.wp /\ n = op.name
      <4>1. owner[id] = <<wp, n>>
        BY <2>5, Zenon DEF Holds
      <4>2. owner[id] = <<op.wp, op.name>>
        BY <1>0, <2>1, <2>2, <2>6, Zenon DEF IDsOwned, AllocatedFor
      <4> QED
        BY <4>1, <4>2
    <3>2. Empty(id)'
      BY <1>26, <2>1, <2>2, <2>6, ClearSettingsEffect, Zenon DEF Empty, ClearedFirst
    <3>3. CASE op.kind = "reconcile"
      <4>1. InHand(wp, n, id)'
        BY <2>1, <2>6, <3>1, <3>2, <3>3 DEF InHand, Visiting
      <4> QED
        BY <2>1, <2>5, <4>1, Zenon DEF Holds
    <3>4. CASE op.kind = "delete"
      <4>1. ~Unused(id)
        BY <2>4, <3>2, Zenon DEF InUse, Empty, Unused
      <4>2. wpState[op.wp] = NilInfo
        BY <3>4, Zenon DEF ProgressOK
      <4>3. ~wpState[op.wp].live
        BY <4>2 DEF NilInfo
      <4>4. InHand(wp, n, id)
        BY <2>5, <3>1, <4>3, Zenon DEF Holds
      <4>5. n \in op.names
        BY <2>1, <3>4, <4>1, <4>4, Zenon DEF InHand, Visiting
      <4>6. InHand(wp, n, id)'
        BY <2>1, <2>6, <3>1, <3>4, <4>5 DEF InHand
      <4> QED
        BY <2>1, <2>5, <4>6 DEF Holds
    <3> QED
      BY <2>1, <3>3, <3>4, Zenon
  <2>7. CASE id # op.ids[op.name]
    <3>1. wpState[wp].live /\ wpState[wp].pol[n] = id =>
            wpState'[wp].live /\ wpState'[wp].pol[n] = id
      <4>1. CASE op.kind = "delete" \/ wp # op.wp
        BY <1>26, <2>1, <4>1, ClearSettingsEffect, Zenon DEF OnlyAt
      <4>2. CASE op.kind = "reconcile" /\ wp = op.wp
        <5>1. wpState[op.wp].pol[op.name] \in {0, op.ids[op.name]}
          BY <2>1, <2>2, <4>2, Zenon DEF IDsCarried, Visiting
        <5>2. wpState[wp].pol[n] = id => n # op.name
          BY <1>z, <2>7, <4>2, <5>1, Zenon
        <5> QED
          BY <1>26, <4>2, <5>2, ClearSettingsEffect, Zenon DEF OnlyAt
      <4> QED
        BY <2>1, <4>1, <4>2, Zenon
    <3>2. InHand(wp, n, id) => InHand(wp, n, id)'
      <4> SUFFICES ASSUME InHand(wp, n, id) PROVE InHand(wp, n, id)'
        BY Zenon
      <4>1. op.ids[n] = id /\ op.wp = wp /\ n # op.name
        BY <2>7, Zenon DEF InHand
      <4> QED
        BY <2>1, <2>4, <4>1, Zenon DEF InHand, Visiting
    <3>3. Holds(wp, n, id)'
      BY <2>1, <2>5, <3>1, <3>2 DEF Holds
    <3> QED
      BY <3>3
  <2> QED
    BY <2>6, <2>7, Zenon
<1>27. CASE ClearSettingsFails
  <2>1. faults' = faults + 1
    BY <1>27, ClearSettingsFailsEffect, Zenon
  <2> QED
    BY <1>f, <2>1 DEF IDsAccounted
<1>28. CASE Return
  <2>1. /\ op.pc \in {"done"}
        /\ UNCHANGED <<wpState, cgToPolicy, policyValues, policySettings, owner, faults>>
    BY <1>28, ReturnEffect, Zenon
  <2>2. \A id \in PolicyIDs, wp \in Policies, n \in ContainerNames : ~InHand(wp, n, id)
    BY <1>0, <2>1, Zenon DEF InHand, Visiting
  <2> QED
    BY <2>1, <2>2, AccountedFrame, Zenon DEF InUse
<1>29. ASSUME NEW c \in ContainerIDs, CgroupRelease(c) PROVE IDsAccounted'
  <2>1. UNCHANGED <<op, wpState, cgToPolicy, policyValues, policySettings, owner, faults>>
    BY <1>29, Zenon DEF CgroupRelease
  <2>2. \A id \in PolicyIDs, wp \in Policies, n \in ContainerNames :
          Holds(wp, n, id) => Holds(wp, n, id)'
    BY <2>1 DEF Holds, InHand, Visiting, Empty, Unused
  <2> QED
    BY <2>1, <2>2, Zenon DEF IDsAccounted, InUse
<1>30. CASE Restart
  <2>1. \A id \in PolicyIDs : ~InUse(id)'
    BY <1>30, <1>z, Zenon DEF Restart, InUse
  <2> QED
    BY <2>1, Zenon DEF IDsAccounted
<1>31. CASE UNCHANGED resolverVars
  <2>1. UNCHANGED <<op, wpState, cgToPolicy, policyValues, policySettings, owner, faults>>
    BY <1>31, Zenon DEF resolverVars
  <2>2. \A id \in PolicyIDs, wp \in Policies, n \in ContainerNames :
          Holds(wp, n, id) => Holds(wp, n, id)'
    BY <2>1 DEF Holds, InHand, Visiting, Empty, Unused
  <2> QED
    BY <2>1, <2>2, Zenon DEF IDsAccounted, InUse
<1> QED
  BY <1>1, <1>2, <1>3, <1>4, <1>5, <1>6, <1>7, <1>8, <1>9, <1>10, <1>11, <1>12, <1>13, <1>14,
     <1>15, <1>16, <1>17, <1>18, <1>19, <1>20, <1>21, <1>22, <1>23, <1>24, <1>25, <1>26, <1>27,
     <1>28, <1>29, <1>30, <1>31 DEF Next, OpStep

\* Every step keeps the account of the IDs in the maps.
LEMMA OrphanInvStep == IndInv /\ ReadyInv /\ OrphanInv /\ [Next]_resolverVars => OrphanInv'
  BY BoundCachedStep, RemovedUnboundStep, ClearedFirstStep, IDsAccountedStep, Zenon DEF ReadyInv,
     OrphanInv

\* A fresh agent starts with empty maps.
LEMMA OrphanInvInit == Init => OrphanInv
<1> SUFFICES ASSUME Init PROVE OrphanInv
  OBVIOUS
<1>1. op.pc = "idle" /\ op.kind = "none"
  BY Zenon DEF Init, FreshAgent, Idle
<1>2. 0 \notin PolicyIDs
  BY DEF PolicyIDs
<1>3. /\ \A c \in ContainerIDs : cgToPolicy[c] = 0
      /\ \A id \in PolicyIDs : ~InUse(id)
  BY <1>2, Zenon DEF Init, FreshAgent, InUse
<1> QED
  BY <1>1, <1>3, Zenon DEF OrphanInv, BoundCached, RemovedUnbound, ClearedFirst, IDsAccounted,
     Visiting

\* The account of the IDs is right in every state of the resolver.
THEOREM OrphanInvariance == Spec => [](IndInv /\ ReadyInv /\ OrphanInv)
  BY InitInv, NextInv, ReadyInvInit, ReadyInvStep, OrphanInvInit, OrphanInvStep, PTL DEF Spec

\* While no map call failed, ReconcileWP and HandleWPDelete leave nothing behind
\* in the maps: an ID that a map mentions is the current ID of a container of a
\* live policy whenever no operation is in progress.
THEOREM NothingLeftBehind == Spec => []NoOrphanIDs
<1>1. IndInv /\ ReadyInv /\ OrphanInv => NoOrphanIDs
  <2> SUFFICES ASSUME OrphanInv, op.pc = "idle", faults = 0, NEW id \in PolicyIDs, InUse(id)
               PROVE  \E wp \in Policies, n \in ContainerNames :
                        wpState[wp].live /\ wpState[wp].pol[n] = id /\ owner[id] = <<wp, n>>
    BY Zenon DEF NoOrphanIDs, Unlocked
  <2>1. PICK wp \in Policies, n \in ContainerNames : Holds(wp, n, id)
    BY Zenon DEF OrphanInv, IDsAccounted
  <2>2. ~InHand(wp, n, id)
    BY Zenon DEF InHand, Visiting
  <2> QED
    BY <2>1, <2>2, Zenon DEF Holds
<1> QED
  BY <1>1, OrphanInvariance, PTL

\* While no map call failed, an event of a bound cgroup finds its container in
\* the caches of the resolver.
THEOREM BoundResolvable == Spec => []BoundIsResolvable
<1>1. ReadyInv /\ OrphanInv => BoundIsResolvable
  BY ConstantsAssumption, Zenon DEF ReadyInv, OrphanInv, ProgressOK, BoundCached, BoundIsResolvable
<1> QED
  BY <1>1, OrphanInvariance, PTL

=============================================================================
