----------------------------- MODULE Promotion ------------------------------
(***************************************************************************)
(* From learned executables to a WorkloadPolicy, for one workload:         *)
(*   - the agents of the nodes on which the workload runs learn into one   *)
(*     WorkloadPolicyProposal (internal/eventhandler);                     *)
(*   - a user approves it with the promotion label                         *)
(*     (internal/kubectlplugin/proposal_promote.go);                       *)
(*   - the controller turns it into a policy of the same name and deletes  *)
(*     it (internal/controller/workloadpolicyproposal_controller.go).      *)
(* Agents and controller read from caches, of proposals and of policies,   *)
(* which lag independently; the API server checks resource versions on     *)
(* updates and names on creations, and nothing on deletions.               *)
(***************************************************************************)
EXTENDS Integers, FiniteSets

CONSTANTS
  Agents,
  Executables, Foreign,          \* what is learned: executables, or the foreign-root flag
  Modes,
  policyProposalMaxExecutables,
  maxConflictRetries,
  MaxEvents, MaxUser, MaxStale, MaxCrashes,   \* bounds
  None

ASSUME PromotionAssumption ==
  /\ Foreign \notin Executables
  /\ policyProposalMaxExecutables \in Nat /\ maxConflictRetries \in Nat

Reqs == Executables \cup {Foreign}

VARIABLES
  rv,         \* the last resource version
  previous,   \* the proposal before its last write
  proposal,   \* the proposal: uid, resource version, label and rules, or None
  policy,     \* the policy of that name: mode, rules, promoted-from label, or None
  seen,       \* what each reader last had in its caches
  queue,      \* each agent's work queue
  requeues,   \* each agent's rate limiter: conflicts so far
  pc,         \* the controller: "idle", or about to delete the proposal
  dirty,      \* the controller's work queue has the proposal
  used,       \* bounds that were used up
  approved,   \* history: mode and rules that users approved
  lost,       \* history: what an agent gave up learning
  deleted     \* history: a user deleted the proposal or the policy

vars == <<rv, previous, proposal, policy, seen, queue, requeues, pc, dirty, used, approved, lost, deleted>>

Controller == "controller"
Readers == Agents \cup {Controller}

Use(bound) == used' = [used EXCEPT ![bound] = @ + 1]

\* HasPromotionLabel
HasPromotionLabel(p) == p.label # None
\* HasProposalBeenPromoted
HasProposalBeenPromoted(wp) == wp # None /\ wp.promoted

-----------------------------------------------------------------------------
(* The API server and the caches. *)

\* A write of the proposal: another version, and an event for the controller.
Write(new) ==
  /\ proposal' = new /\ previous' = proposal
  /\ rv' = rv + 1
  /\ dirty' = TRUE

\* A cache holds the last version, the one before, or the one it held before.
Cached(reader) ==
  [proposal : {proposal, seen[reader].proposal}
                \cup IF seen[reader].proposal = proposal THEN {} ELSE {previous},
   policy : {policy, seen[reader].policy}]

\* A reader reads both its caches.
Read(reader, cached) ==
  /\ IF cached = [proposal |-> proposal, policy |-> policy] THEN UNCHANGED used
     ELSE used.stale < MaxStale /\ Use("stale")
  /\ seen' = [seen EXCEPT ![reader] = cached]

-----------------------------------------------------------------------------
(* Agents: LearningReconciler. *)

\* EnqueueEvent
EnqueueEvent(a, req) ==
  /\ used.events < MaxEvents /\ Use("events")
  /\ queue' = [queue EXCEPT ![a] = @ \cup {req}]
  /\ UNCHANGED <<rv, previous, proposal, policy, seen, requeues, pc, dirty, approved, lost, deleted>>

\* getExecutablesLength
getExecutablesLength(rules) == Cardinality(rules \ {Foreign})

\* IsFull
IsFull(rules) == getExecutablesLength(rules) >= policyProposalMaxExecutables

\* Mutant: a proposal is full when it has more than the maximum.
MutateLate(p, req) ==
  IF HasPromotionLabel(p) \/ (req # Foreign /\ getExecutablesLength(p.rules) > policyProposalMaxExecutables)
  THEN p.rules ELSE p.rules \cup {req}

\* What reconcile makes of the rules: AddProcess, SetAllowForeignRootExec, or
\* nothing.
Mutate(p, req) ==
  IF HasPromotionLabel(p) \/ (req # Foreign /\ IsFull(p.rules)) THEN p.rules ELSE p.rules \cup {req}

\* Reconcile forgets the request.
Done(a, req) ==
  /\ queue' = [queue EXCEPT ![a] = @ \ {req}]
  /\ requeues' = [requeues EXCEPT ![a][req] = 0]

\* Mutant: a conflict ends the request like a success.
ConflictIgnored(a, req) ==
  Done(a, req) /\ UNCHANGED lost

\* A conflict, or a proposal that already exists: again, up to a limit.
Conflict(a, req) ==
  IF requeues[a][req] > maxConflictRetries
  THEN Done(a, req) /\ lost' = lost \cup {req}
  ELSE requeues' = [requeues EXCEPT ![a][req] = @ + 1] /\ UNCHANGED <<queue, lost>>

\* Mutant: no resource version in the update.
UpdateUnchecked(a, req, p, rules) ==
  IF proposal = None THEN UNCHANGED <<rv, previous, proposal, dirty, queue, requeues, lost>>
  ELSE Write([p EXCEPT !.rv = rv + 1, !.rules = rules]) /\ Done(a, req) /\ UNCHANGED lost

\* CreateOrUpdate for a proposal that the cache has: a deleted proposal is an error
\* that is retried without a limit, another version a conflict.
Update(a, req, p, rules) ==
  IF proposal = None THEN UNCHANGED <<rv, previous, proposal, dirty, queue, requeues, lost>>
  ELSE IF proposal.rv # p.rv THEN Conflict(a, req) /\ UNCHANGED <<rv, previous, proposal, dirty>>
  ELSE Write([p EXCEPT !.rv = rv + 1, !.rules = rules]) /\ Done(a, req) /\ UNCHANGED lost

\* CreateOrUpdate for a proposal that the cache does not have.
Create(a, req) ==
  LET new == [uid |-> rv + 1, rv |-> rv + 1, label |-> None, rules |-> {}]
  IN IF proposal # None THEN Conflict(a, req) /\ UNCHANGED <<rv, previous, proposal, dirty>>
     ELSE Write([new EXCEPT !.rules = Mutate(new, req)]) /\ Done(a, req) /\ UNCHANGED lost

\* handleAdmissionError: a write that the webhook refuses for good, as when the
\* workload is gone, ends the request.  Any other refusal is an error after which the
\* request is retried without a limit, and changes nothing.
handleAdmissionError(a, req) ==
  /\ Done(a, req) /\ lost' = lost \cup {req}
  /\ UNCHANGED <<rv, previous, proposal, dirty>>

\* Reconcile: skipOrLearn and CreateOrUpdate.  The window between the reads and
\* the write is that of a cache that lags.
Learn(a, req) ==
  /\ req \in queue[a]
  /\ \E cached \in Cached(a) :
       LET p == cached.proposal
           rules == IF p = None THEN {} ELSE Mutate(p, req)
       IN /\ Read(a, cached)
          /\ \/ /\ p = None /\ ~HasProposalBeenPromoted(cached.policy)
                /\ Create(a, req) \/ handleAdmissionError(a, req)
             \/ /\ p # None /\ rules # p.rules
                /\ Update(a, req, p, rules) \/ (proposal # None /\ handleAdmissionError(a, req))
             \/ /\ IF p = None THEN HasProposalBeenPromoted(cached.policy) ELSE rules = p.rules
                /\ Done(a, req) /\ UNCHANGED <<rv, previous, proposal, dirty, lost>>
  /\ UNCHANGED <<policy, pc, approved, deleted>>

-----------------------------------------------------------------------------
(* Controller: WorkloadPolicyProposalReconciler. *)

\* A deletion by name deletes whatever has it.
Delete ==
  IF proposal = None THEN UNCHANGED <<rv, previous, proposal>>
  ELSE proposal' = None /\ previous' = proposal /\ rv' = rv + 1

\* Nothing to do: no proposal, no label, or a policy of that name already there.
ReconcileNothing(p, promoted) ==
  /\ p # None => ~promoted /\ (~HasPromotionLabel(p) \/ policy # None)
  /\ UNCHANGED <<rv, previous, proposal, policy, pc>>

\* Mutant: the label is looked at first.
ReconcileLeftoverLabelled(p, promoted) ==
  /\ p # None /\ HasPromotionLabel(p) /\ promoted
  /\ Delete
  /\ UNCHANGED <<policy, pc>>

\* The proposal came back after it was promoted, or was not deleted then.
ReconcileLeftover(p, promoted) ==
  /\ p # None /\ promoted
  /\ Delete
  /\ UNCHANGED <<policy, pc>>

\* Mutant: the label is not looked at.
ReconcilePromoteUnlabelled(p, promoted) ==
  /\ p # None /\ ~promoted /\ policy = None
  /\ policy' = [mode |-> p.label, rules |-> p.rules, promoted |-> TRUE]
  /\ pc' = "delete"
  /\ UNCHANGED <<rv, previous, proposal>>

\* Mutant: only one of the modes is promoted.
ReconcilePromoteProtect(p, promoted) ==
  /\ p # None /\ ~promoted /\ p.label = "protect" /\ policy = None
  /\ policy' = [mode |-> p.label, rules |-> p.rules, promoted |-> TRUE]
  /\ pc' = "delete"
  /\ UNCHANGED <<rv, previous, proposal>>

\* The proposal is promoted.
ReconcilePromote(p, promoted) ==
  /\ p # None /\ ~promoted /\ HasPromotionLabel(p) /\ policy = None
  /\ policy' = [mode |-> p.label, rules |-> p.rules, promoted |-> TRUE]
  /\ pc' = "delete"
  /\ UNCHANGED <<rv, previous, proposal>>

\* Reconcile up to the creation of the policy.  An event for a version that the
\* cache does not have yet is still to come.
Reconcile ==
  /\ pc = "idle" /\ dirty
  /\ \E cached \in Cached(Controller) :
       LET p == cached.proposal
           promoted == HasProposalBeenPromoted(cached.policy)
       IN /\ Read(Controller, cached)
          /\ dirty' = (p # proposal)
          /\ ReconcileNothing(p, promoted) \/ ReconcileLeftover(p, promoted) \/ ReconcilePromote(p, promoted)
  /\ UNCHANGED <<queue, requeues, approved, lost, deleted>>

\* Reconcile after the creation of the policy.
ReconcileDelete ==
  /\ pc = "delete"
  /\ pc' = "idle"
  /\ Delete
  /\ UNCHANGED <<policy, seen, queue, requeues, dirty, used, approved, lost, deleted>>

\* The resync of controller-runtime, or the list after a start.
Resync ==
  /\ proposal # None /\ ~dirty
  /\ dirty' = TRUE
  /\ UNCHANGED <<rv, previous, proposal, policy, seen, queue, requeues, pc, used, approved, lost, deleted>>

\* The controller restarts, maybe between the creation and the deletion.
Crash ==
  /\ used.crashes < MaxCrashes /\ Use("crashes")
  /\ pc' = "idle"
  /\ dirty' = TRUE
  /\ UNCHANGED <<rv, previous, proposal, policy, seen, queue, requeues, approved, lost, deleted>>

-----------------------------------------------------------------------------
(* Users *)

\* kubectl runtime-enforcer proposal promote: runProposalPromote reads the
\* proposal and updates it with the version it read.
Promote(mode) ==
  /\ used.user < MaxUser /\ Use("user")
  /\ proposal # None /\ ~HasPromotionLabel(proposal)
  /\ Write([proposal EXCEPT !.rv = rv + 1, !.label = mode])
  /\ approved' = approved \cup {[mode |-> mode, rules |-> proposal.rules]}
  /\ UNCHANGED <<policy, seen, queue, requeues, pc, lost, deleted>>

DeleteProposal ==
  /\ used.user < MaxUser /\ Use("user")
  /\ proposal # None
  /\ Write(None)
  /\ deleted' = TRUE
  /\ UNCHANGED <<policy, seen, queue, requeues, pc, approved, lost>>

\* No pod uses the policy, so ValidateDelete lets it go; a refused deletion changes
\* nothing.
DeletePolicy ==
  /\ used.user < MaxUser /\ Use("user")
  /\ policy # None
  /\ policy' = None
  /\ deleted' = TRUE
  /\ UNCHANGED <<rv, previous, proposal, seen, queue, requeues, pc, dirty, approved, lost>>

\* A policy of the same name that does not come from a proposal.
CreatePolicy ==
  /\ used.user < MaxUser /\ Use("user")
  /\ policy = None
  /\ policy' = [mode |-> None, rules |-> {}, promoted |-> FALSE]
  /\ UNCHANGED <<rv, previous, proposal, seen, queue, requeues, pc, dirty, approved, lost, deleted>>

-----------------------------------------------------------------------------
Init ==
  /\ rv = 0
  /\ previous = None /\ proposal = None /\ policy = None
  /\ seen = [r \in Readers |-> [proposal |-> None, policy |-> None]]
  /\ queue = [a \in Agents |-> {}]
  /\ requeues = [a \in Agents |-> [req \in Reqs |-> 0]]
  /\ pc = "idle" /\ dirty = FALSE
  /\ used = [events |-> 0, user |-> 0, stale |-> 0, crashes |-> 0]
  /\ approved = {} /\ lost = {} /\ deleted = FALSE

Next ==
  \/ \E a \in Agents, req \in Reqs : EnqueueEvent(a, req) \/ Learn(a, req)
  \/ Reconcile \/ ReconcileDelete \/ Resync \/ Crash
  \/ \E mode \in Modes : Promote(mode)
  \/ CreatePolicy \/ DeleteProposal \/ DeletePolicy

\* The work queues are drained, and the controller's cache is resynchronized again
\* and again.
Fairness ==
  /\ \A a \in Agents : WF_vars(\E req \in Reqs : Learn(a, req))
  /\ WF_vars(Reconcile) /\ WF_vars(ReconcileDelete) /\ WF_vars(Resync)

Spec == Init /\ [][Next]_vars /\ Fairness

-----------------------------------------------------------------------------
(* Properties. *)

\* Types; the proposal never has more executables than it may.
TypeOK ==
  /\ proposal # None =>
       /\ proposal.rv \in proposal.uid .. rv
       /\ proposal.label \in Modes \cup {None}
       /\ proposal.rules \subseteq Reqs
       /\ Cardinality(proposal.rules \ {Foreign}) <= policyProposalMaxExecutables
  /\ policy # None => policy.mode \in Modes \cup {None} /\ policy.rules \subseteq Reqs
  /\ queue \in [Agents -> SUBSET Reqs]
  /\ requeues \in [Agents -> [Reqs -> 0 .. maxConflictRetries + 1]]
  /\ pc \in {"idle", "delete"} /\ dirty \in BOOLEAN

\* "We don't learn any new process if the policy proposal was promoted"
\* (internal/eventhandler/learning_controller.go): a promoted policy allows exactly
\* what a user saw when approving it, although agents go on learning.
PolicyIsApproved ==
  HasProposalBeenPromoted(policy) =>
    [mode |-> policy.mode, rules |-> policy.rules] \in approved

\* Agents that learn at the same time do not undo each other's writes, or the
\* label of a user: a proposal only grows, and keeps its label, until it is deleted.
LearningMonotone ==
  [][proposal # None /\ proposal' # None /\ proposal'.uid = proposal.uid =>
       /\ proposal.rules \subseteq proposal'.rules
       /\ HasPromotionLabel(proposal) => proposal' = proposal]_vars

\* An approved proposal becomes a policy, also if the controller restarts.
PromotedEventually ==
  (proposal # None /\ HasPromotionLabel(proposal)) ~>
    (policy # None \/ proposal = None \/ ~HasPromotionLabel(proposal))

\* "If a WorkloadPolicy already exists with promoted-from=<proposalName>, treat the
\* proposal as leftover and delete it. This is eventually reconciled on the
\* controller-runtime resync" (workloadpolicyproposal_controller.go), if agents
\* with outdated caches bring it back or the controller restarts before it deletes it.
LeftoverDeleted ==
  (proposal # None /\ HasProposalBeenPromoted(policy)) ~>
    (proposal = None \/ ~HasProposalBeenPromoted(policy))

\* What became of an event: the proposal has it, or may not take it (it is full or
\* approved), it was promoted, or the agent ran out of retries.
Settled(req) ==
  \/ req \in lost \/ HasProposalBeenPromoted(policy)
  \/ /\ proposal # None
     /\ req \in proposal.rules \/ HasPromotionLabel(proposal) \/ (req # Foreign /\ IsFull(proposal.rules))

\* Every event leaves its queue, and is learned although other agents write the same
\* proposal and the caches lag, unless a user deletes the proposal or the policy.
LearnedEventually ==
  \A req \in Reqs :
    (\E a \in Agents : req \in queue[a]) ~>
      (\A a \in Agents : req \notin queue[a]) /\ (Settled(req) \/ deleted)
=============================================================================
