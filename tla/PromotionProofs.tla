--------------------------- MODULE PromotionProofs ---------------------------
(***************************************************************************)
(* For every set of agents and executables, every limit and every bound:   *)
(* a promoted policy is what a user approved, and agents do not undo each  *)
(* other's writes.                                                         *)
(*                                                                         *)
(* Both rest on one fact about versions.  Whatever a cache holds, a        *)
(* version that carries the current resource version is the current        *)
(* version, and a version that carries a label was approved as it is.      *)
(***************************************************************************)
EXTENDS Promotion, TLAPS

Objects == [uid : Nat, rv : Nat, label : Modes \cup {None}, rules : SUBSET Reqs]
Policies == [mode : Modes \cup {None}, rules : SUBSET Reqs, promoted : BOOLEAN]

ApprovedAs(label, rules) == [mode |-> label, rules |-> rules] \in approved

\* A version: it is not newer than the last one, and approved if it is labelled.
Known(v) ==
  v # None => /\ v \in Objects
              /\ v.rv <= rv
              /\ v.label # None => ApprovedAs(v.label, v.rules)

\* Two versions: the resource version tells them apart.
Agree(v, w) == v # None /\ w # None /\ v.rv = w.rv => v = w

\* The inductive invariant.
IInv ==
  /\ rv \in Nat
  /\ Known(proposal) /\ Known(previous) /\ Agree(proposal, previous)
  /\ seen \in [Readers -> [proposal : Objects \cup {None}, policy : Policies \cup {None}]]
  /\ \A r \in Readers :
       /\ Known(seen[r].proposal)
       /\ Agree(proposal, seen[r].proposal)
  /\ policy \in Policies \cup {None}
  /\ PolicyIsApproved

\* A new version, with the next resource version.
Fresh(n) ==
  n # None => /\ n \in Objects
              /\ n.rv = rv + 1
              /\ n.label # None => [mode |-> n.label, rules |-> n.rules] \in approved'

\* What a step may do to the versions.
VersionStep ==
  \/ UNCHANGED <<rv, previous, proposal>>
  \/ previous' = proposal /\ rv' = rv + 1 /\ Fresh(proposal')

\* What a step may do to the caches.
CacheStep ==
  \/ UNCHANGED seen
  \/ \E r \in Readers : \E cached \in Cached(r) : seen' = [seen EXCEPT ![r] = cached]

\* Steps of that form preserve the invariant: a new version has a resource version
\* that no cache has, and caches only ever take over versions that are known.
LEMMA StepKeeps ==
  ASSUME IInv, VersionStep, CacheStep, approved \subseteq approved',
         policy' \in Policies \cup {None}, PolicyIsApproved'
  PROVE  IInv'
<1>1. rv' \in Nat /\ rv <= rv'
  BY DEF IInv, VersionStep
<1>2. \A v : Known(v) => Known(v)'
  BY <1>1 DEF Known, ApprovedAs, Objects, IInv
<1>3. Known(proposal)' /\ Known(previous)' /\ Agree(proposal, previous)'
  <2>1. CASE UNCHANGED <<rv, previous, proposal>>
    BY <2>1, <1>2 DEF IInv, Agree, Known, ApprovedAs
  <2>2. CASE previous' = proposal /\ rv' = rv + 1 /\ Fresh(proposal')
    <3>1. Known(proposal)'
      BY <2>2, <1>1 DEF Fresh, Known, ApprovedAs
    <3>2. Known(previous)'
      BY <2>2, <1>1 DEF IInv, Known, ApprovedAs, Objects
    <3>3. Agree(proposal, previous)'
      BY <2>2 DEF IInv, Known, Agree, Fresh, Objects
    <3> QED
      BY <3>1, <3>2, <3>3
  <2> QED
    BY <2>1, <2>2 DEF VersionStep
<1>4. ASSUME NEW v, Known(v), Agree(proposal, v)
      PROVE  Known(v)' /\ (v # None /\ proposal' # None /\ proposal'.rv = v.rv => proposal' = v)
  <2>1. Known(v)'
    BY <1>1, <1>4 DEF Known, ApprovedAs, Objects, IInv
  <2>2. CASE UNCHANGED <<rv, previous, proposal>>
    BY <2>1, <2>2, <1>4 DEF Agree
  <2>3. CASE previous' = proposal /\ rv' = rv + 1 /\ Fresh(proposal')
    BY <2>1, <2>3, <1>4 DEF Known, Fresh, Objects, IInv
  <2> QED
    BY <2>1, <2>2, <2>3 DEF VersionStep
<1>5. ASSUME NEW r \in Readers, NEW cached \in Cached(r)
      PROVE  /\ cached \in [proposal : Objects \cup {None}, policy : Policies \cup {None}]
             /\ Known(cached.proposal) /\ Agree(proposal, cached.proposal)
  <2>1. Agree(proposal, proposal)
    BY DEF Agree
  <2>2. cached.proposal \in {proposal, previous, seen[r].proposal}
    BY DEF Cached
  <2>3. proposal \in Objects \cup {None} /\ previous \in Objects \cup {None}
    BY DEF IInv, Known
  <2>4. Known(cached.proposal) /\ Agree(proposal, cached.proposal)
    BY <2>1, <2>2 DEF IInv
  <2>5. seen[r].proposal \in Objects \cup {None} /\ seen[r].policy \in Policies \cup {None}
    BY DEF IInv
  <2>6. policy \in Policies \cup {None}
    BY DEF IInv
  <2>7. cached \in [proposal : Objects \cup {None}, policy : Policies \cup {None}]
    BY <2>3, <2>5, <2>6 DEF Cached
  <2> QED
    BY <2>4, <2>7
<1>6. /\ seen' \in [Readers -> [proposal : Objects \cup {None}, policy : Policies \cup {None}]]
      /\ \A r \in Readers : Known(seen'[r].proposal) /\ Agree(proposal, seen'[r].proposal)
  <2>1. CASE UNCHANGED seen
    BY <2>1 DEF IInv
  <2>2. CASE \E r \in Readers : \E cached \in Cached(r) : seen' = [seen EXCEPT ![r] = cached]
    <3>0. PICK r \in Readers : \E cached \in Cached(r) : seen' = [seen EXCEPT ![r] = cached]
      BY <2>2
    <3>1. PICK cached \in Cached(r) : seen' = [seen EXCEPT ![r] = cached]
      BY <3>0
    <3>2. seen \in [Readers -> [proposal : Objects \cup {None}, policy : Policies \cup {None}]]
      BY DEF IInv
    <3>3. \A q \in Readers : seen'[q] = IF q = r THEN cached ELSE seen[q]
      BY <3>1, <3>2
    <3>4. \A q \in Readers : Known(seen[q].proposal) /\ Agree(proposal, seen[q].proposal)
      BY DEF IInv
    <3> QED
      BY <3>1, <3>2, <3>3, <3>4, <1>5
  <2> QED
    BY <2>1, <2>2 DEF CacheStep
<1>7. \A r \in Readers : (Known(seen[r].proposal) /\ Agree(proposal, seen[r].proposal))'
  BY <1>4, <1>6 DEF Known, Agree, ApprovedAs
<1> QED
  BY <1>1, <1>3, <1>6, <1>7 DEF IInv

-----------------------------------------------------------------------------
(* The steps. *)

\* What reconcile makes of the rules: never fewer, and the same for a proposal that
\* has the label.
LEMMA MutateGrows ==
  ASSUME NEW p \in Objects, NEW req \in Reqs
  PROVE  /\ Mutate(p, req) \in SUBSET Reqs
         /\ p.rules \subseteq Mutate(p, req)
         /\ p.label # None => Mutate(p, req) = p.rules
  BY DEF Mutate, HasPromotionLabel, Objects

\* A read of the caches is a step of the caches.
LEMMA ReadCaches ==
  ASSUME NEW r \in Readers, NEW cached \in Cached(r), Read(r, cached)
  PROVE  CacheStep
  BY DEF Read, CacheStep

\* Learning, by any agent: a version that is written continues the current one, and
\* never one that has the label.
LEMMA LearnWrites ==
  ASSUME IInv, NEW a \in Agents, NEW req \in Reqs, Learn(a, req)
  PROVE  /\ VersionStep /\ CacheStep
         /\ UNCHANGED <<policy, approved>>
         /\ proposal # None /\ proposal' # proposal =>
              /\ proposal.label = None
              /\ proposal.rules \subseteq proposal'.rules
<1>1. PICK cached \in Cached(a) :
        /\ Read(a, cached)
        /\ \/ /\ cached.proposal = None
              /\ Create(a, req)
           \/ /\ cached.proposal # None /\ Mutate(cached.proposal, req) # cached.proposal.rules
              /\ Update(a, req, cached.proposal, Mutate(cached.proposal, req))
           \/ UNCHANGED <<rv, previous, proposal>>
  BY Zenon DEF Learn, handleAdmissionError
<1>2. a \in Readers
  BY DEF Readers
<1>3. CacheStep
  BY <1>1, <1>2, ReadCaches
<1>4. UNCHANGED <<policy, approved>>
  BY DEF Learn
<1>5. rv \in Nat /\ rv + 1 \in Nat
  BY DEF IInv
<1>6. CASE UNCHANGED <<rv, previous, proposal>>
  BY <1>3, <1>4, <1>6 DEF VersionStep
<1>7. CASE Create(a, req)
  <2>1. CASE proposal # None
    BY <2>1, <1>3, <1>4, <1>6, <1>7 DEF Create
  <2>2. CASE proposal = None
    <3> DEFINE new == [uid |-> rv + 1, rv |-> rv + 1, label |-> None, rules |-> {}]
    <3>1. new \in Objects
      BY <1>5 DEF Objects
    <3>2. Write([new EXCEPT !.rules = Mutate(new, req)])
      BY <2>2, <1>7 DEF Create
    <3>3. Mutate(new, req) \in SUBSET Reqs
      BY <3>1, MutateGrows
    <3>4. Fresh([new EXCEPT !.rules = Mutate(new, req)])
      BY <3>3, <1>5 DEF Fresh, Objects
    <3>5. VersionStep
      BY <3>2, <3>4 DEF Write, VersionStep
    <3> QED
      BY <2>2, <3>5, <1>3, <1>4
  <2> QED
    BY <2>1, <2>2
<1>8. ASSUME cached.proposal # None,
             Mutate(cached.proposal, req) # cached.proposal.rules,
             Update(a, req, cached.proposal, Mutate(cached.proposal, req))
      PROVE  /\ VersionStep
             /\ proposal # None /\ proposal' # proposal =>
                  /\ proposal.label = None
                  /\ proposal.rules \subseteq proposal'.rules
  <2> DEFINE p == cached.proposal
             w == [p EXCEPT !.rv = rv + 1, !.rules = Mutate(p, req)]
  <2>1. CASE proposal = None \/ proposal.rv # p.rv
    BY <2>1, <1>8 DEF Update, VersionStep
  <2>2. CASE proposal # None /\ proposal.rv = p.rv
    <3>1. cached.proposal \in {proposal, previous, seen[a].proposal}
      BY DEF Cached
    <3>2. p = proposal
      BY <2>2, <3>1, <1>2, <1>8 DEF IInv, Agree
    <3>3. p \in Objects
      BY <3>2, <2>2 DEF IInv, Known
    <3>4. /\ Mutate(p, req) \in SUBSET Reqs
          /\ p.rules \subseteq Mutate(p, req)
          /\ p.label = None
      BY <3>3, <1>8, MutateGrows
    <3>5. Write(w)
      BY <2>2, <1>8 DEF Update
    <3>6. w \in Objects /\ w.rv = rv + 1 /\ w.label = None /\ w.rules = Mutate(p, req)
      BY <3>3, <3>4, <1>5 DEF Objects
    <3>7. Fresh(w)
      BY <3>6 DEF Fresh
    <3>8. proposal' = w /\ VersionStep
      BY <3>5, <3>7 DEF Write, VersionStep
    <3> HIDE DEF w
    <3> QED
      BY <3>2, <3>4, <3>6, <3>8
  <2> QED
    BY <2>1, <2>2
<1> QED
  BY <1>1, <1>3, <1>4, <1>6, <1>7, <1>8

\* The user's label goes on the current version, and what it has then is approved.
LEMMA PromoteWrites ==
  ASSUME IInv, NEW mode \in Modes, Promote(mode)
  PROVE  /\ VersionStep /\ UNCHANGED <<policy, seen>>
         /\ approved \subseteq approved'
         /\ proposal.label = None
         /\ proposal'.rules = proposal.rules
<1>1. proposal \in Objects /\ proposal.label = None
  BY DEF Promote, IInv, Known, HasPromotionLabel
<1> DEFINE w == [proposal EXCEPT !.rv = rv + 1, !.label = mode]
<1>0. rv + 1 \in Nat /\ mode \in Modes \cup {None}
  BY DEF IInv
<1>2. w \in Objects /\ w.rv = rv + 1 /\ w.label = mode /\ w.rules = proposal.rules
  BY <1>0, <1>1 DEF Objects
<1>3. Write(w)
  BY DEF Promote
<1>4. approved' = approved \cup {[mode |-> mode, rules |-> proposal.rules]}
  BY DEF Promote
<1> HIDE DEF w
<1>5. Fresh(w)
  BY <1>2, <1>4 DEF Fresh
<1>6. proposal' = w /\ VersionStep
  BY <1>3, <1>5 DEF Write, VersionStep
<1> QED
  BY <1>1, <1>2, <1>4, <1>6 DEF Promote

\* A deletion by name removes the proposal or finds none.
LEMMA DeleteWrites ==
  ASSUME Delete
  PROVE  VersionStep /\ (proposal' = None \/ proposal' = proposal)
  BY DEF Delete, VersionStep, Fresh

\* The controller: a policy is made of a version that was approved, however old.
LEMMA ReconcileWrites ==
  ASSUME IInv, Reconcile
  PROVE  /\ VersionStep /\ CacheStep /\ UNCHANGED approved
         /\ proposal' = None \/ proposal' = proposal
         /\ policy' \in Policies \cup {None} /\ PolicyIsApproved'
<1>1. PICK cached \in Cached(Controller) :
        /\ Read(Controller, cached)
        /\ \/ ReconcileNothing(cached.proposal, HasProposalBeenPromoted(cached.policy))
           \/ ReconcileLeftover(cached.proposal, HasProposalBeenPromoted(cached.policy))
           \/ ReconcilePromote(cached.proposal, HasProposalBeenPromoted(cached.policy))
  BY Zenon DEF Reconcile
<1>2. Controller \in Readers
  BY DEF Readers
<1>3. CacheStep
  BY <1>1, <1>2, ReadCaches
<1>4. UNCHANGED approved
  BY DEF Reconcile
<1>5. CASE ReconcileNothing(cached.proposal, HasProposalBeenPromoted(cached.policy))
  BY <1>3, <1>4, <1>5 DEF ReconcileNothing, VersionStep, IInv, PolicyIsApproved, HasProposalBeenPromoted
<1>6. CASE ReconcileLeftover(cached.proposal, HasProposalBeenPromoted(cached.policy))
  BY <1>3, <1>4, <1>6, DeleteWrites DEF ReconcileLeftover, IInv, PolicyIsApproved, HasProposalBeenPromoted
<1>7. CASE ReconcilePromote(cached.proposal, HasProposalBeenPromoted(cached.policy))
  <2> DEFINE p == cached.proposal
  <2>1. p # None /\ p.label # None /\ UNCHANGED <<rv, previous, proposal>>
    BY <1>7 DEF ReconcilePromote, HasPromotionLabel
  <2>2. policy' = [mode |-> p.label, rules |-> p.rules, promoted |-> TRUE]
    BY <1>7 DEF ReconcilePromote
  <2>3. cached.proposal \in {proposal, previous, seen[Controller].proposal}
    BY DEF Cached
  <2>4. Known(p)
    BY <2>3, <1>2 DEF IInv
  <2>5. p \in Objects /\ [mode |-> p.label, rules |-> p.rules] \in approved
    BY <2>1, <2>4 DEF Known, ApprovedAs
  <2>6. policy' \in Policies
    BY <2>2, <2>5 DEF Policies, Objects
  <2>7. PolicyIsApproved'
    BY <2>2, <2>5, <1>4 DEF PolicyIsApproved
  <2> QED
    BY <2>1, <2>6, <2>7, <1>3, <1>4 DEF VersionStep
<1> QED
  BY <1>1, <1>5, <1>6, <1>7

\* The invariant holds at the start.
LEMMA InitIInv == Init => IInv
  BY DEF Init, IInv, Known, Agree, PolicyIsApproved, HasProposalBeenPromoted, Objects, Policies

\* Every step preserves it.
LEMMA NextIInv == IInv /\ [Next]_vars => IInv'
<1> SUFFICES ASSUME IInv, [Next]_vars PROVE IInv'
  OBVIOUS
<1> USE DEF CacheStep
<1>1. /\ policy \in Policies \cup {None} /\ PolicyIsApproved
      /\ UNCHANGED <<policy, approved>> \/ (UNCHANGED policy /\ approved \subseteq approved')
           => policy' \in Policies \cup {None} /\ PolicyIsApproved'
  BY DEF IInv, PolicyIsApproved, HasProposalBeenPromoted
<1>2. ASSUME NEW a \in Agents, NEW req \in Reqs, EnqueueEvent(a, req) PROVE IInv'
  BY <1>1, <1>2, StepKeeps DEF EnqueueEvent, VersionStep
<1>3. ASSUME NEW a \in Agents, NEW req \in Reqs, Learn(a, req) PROVE IInv'
  <2>1. VersionStep /\ CacheStep /\ UNCHANGED <<policy, approved>>
    BY <1>3, LearnWrites
  <2> QED
    BY <1>1, <2>1, StepKeeps
<1>4. CASE Reconcile
  BY <1>4, ReconcileWrites, StepKeeps
<1>5. CASE ReconcileDelete
  <2>1. VersionStep /\ UNCHANGED <<policy, approved, seen>>
    BY <1>5, DeleteWrites DEF ReconcileDelete
  <2> QED
    BY <1>1, <2>1, StepKeeps
<1>6. CASE Resync
  BY <1>1, <1>6, StepKeeps DEF Resync, VersionStep
<1>7. CASE Crash
  BY <1>1, <1>7, StepKeeps DEF Crash, VersionStep
<1>8. ASSUME NEW mode \in Modes, Promote(mode) PROVE IInv'
  <2>1. VersionStep /\ UNCHANGED <<policy, seen>> /\ approved \subseteq approved'
    BY <1>8, PromoteWrites
  <2> QED
    BY <1>1, <2>1, StepKeeps
<1>9. CASE DeleteProposal
  <2>1. VersionStep /\ UNCHANGED <<policy, approved, seen>>
    BY <1>9 DEF DeleteProposal, Write, VersionStep, Fresh
  <2> QED
    BY <1>1, <2>1, StepKeeps
<1>10. CASE DeletePolicy
  <2>1. VersionStep /\ UNCHANGED <<approved, seen>> /\ policy' = None
    BY <1>10 DEF DeletePolicy, VersionStep
  <2>2. PolicyIsApproved'
    BY <2>1 DEF PolicyIsApproved, HasProposalBeenPromoted
  <2> QED
    BY <2>1, <2>2, StepKeeps
<1>11. CASE CreatePolicy
  <2>1. /\ VersionStep /\ UNCHANGED <<approved, seen>>
        /\ policy' = [mode |-> None, rules |-> {}, promoted |-> FALSE]
    BY <1>11 DEF CreatePolicy, VersionStep
  <2>2. PolicyIsApproved' /\ policy' \in Policies
    BY <2>1 DEF PolicyIsApproved, HasProposalBeenPromoted, Policies
  <2> QED
    BY <2>1, <2>2, StepKeeps
<1>12. CASE UNCHANGED vars
  <2>1. VersionStep /\ UNCHANGED <<policy, approved, seen>>
    BY <1>12 DEF vars, VersionStep
  <2> QED
    BY <1>1, <2>1, StepKeeps
<1> QED
  BY <1>2, <1>3, <1>4, <1>5, <1>6, <1>7, <1>8, <1>9, <1>10, <1>11, <1>12 DEF Next

\* No step takes anything out of a proposal, and none changes one that has the label.
LEMMA NextMonotone ==
  ASSUME IInv, [Next]_vars, proposal # None, proposal' # None, proposal'.uid = proposal.uid
  PROVE  /\ proposal.rules \subseteq proposal'.rules
         /\ HasPromotionLabel(proposal) => proposal' = proposal
<1> DEFINE Goal == /\ proposal.rules \subseteq proposal'.rules
                   /\ proposal.label # None => proposal' = proposal
<1> SUFFICES Goal
  BY DEF HasPromotionLabel
<1>1. proposal' = proposal => Goal
  OBVIOUS
<1>2. ASSUME NEW a \in Agents, NEW req \in Reqs, EnqueueEvent(a, req) PROVE Goal
  BY <1>1, <1>2 DEF EnqueueEvent
<1>3. ASSUME NEW a \in Agents, NEW req \in Reqs, Learn(a, req) PROVE Goal
  BY <1>1, <1>3, LearnWrites
<1>4. CASE Reconcile
  BY <1>1, <1>4, ReconcileWrites
<1>5. CASE ReconcileDelete
  BY <1>1, <1>5, DeleteWrites DEF ReconcileDelete
<1>6. CASE Resync \/ Crash \/ DeletePolicy \/ CreatePolicy
  BY <1>1, <1>6 DEF Resync, Crash, DeletePolicy, CreatePolicy
<1>7. ASSUME NEW mode \in Modes, Promote(mode) PROVE Goal
  BY <1>7, PromoteWrites
<1>8. CASE DeleteProposal
  BY <1>8 DEF DeleteProposal, Write
<1>9. CASE UNCHANGED vars
  BY <1>1, <1>9 DEF vars
<1> HIDE DEF Goal
<1> QED
  BY <1>2, <1>3, <1>4, <1>5, <1>6, <1>7, <1>8, <1>9 DEF Next

-----------------------------------------------------------------------------
(* The results. *)

\* Whatever the agents learn and however old the controller's cache is, the policy
\* that a promotion creates allows exactly what a user approved, in the approved mode.
THEOREM PolicyIsApprovedAlways == Spec => []PolicyIsApproved
<1>1. IInv => PolicyIsApproved
  BY DEF IInv
<1> QED
  BY <1>1, InitIInv, NextIInv, PTL DEF Spec

\* Any number of agents learn into one proposal without losing each other's writes,
\* and without losing or going past the user's label.
THEOREM LearningMonotoneAlways == Spec => LearningMonotone
<1>1. IInv /\ [Next]_vars =>
        [proposal # None /\ proposal' # None /\ proposal'.uid = proposal.uid =>
           /\ proposal.rules \subseteq proposal'.rules
           /\ HasPromotionLabel(proposal) => proposal' = proposal]_vars
  BY NextMonotone
<1> QED
  BY <1>1, InitIInv, NextIInv, PTL DEF Spec, LearningMonotone
=============================================================================
