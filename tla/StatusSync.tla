----------------------------- MODULE StatusSync -----------------------------
(***************************************************************************)
(* How violations get from an agent to the status of a WorkloadPolicy, and *)
(* how users acknowledge them:                                             *)
(*   - the agent of one node records violations and answers scrapes        *)
(*     (internal/violationbuf, internal/grpcexporter/agent_observer.go);   *)
(*   - the controller keeps one client per node                            *)
(*     (internal/grpcexporter/agent_client_pool.go) and, in a single       *)
(*     goroutine, lists the policies, asks the agents, recomputes the      *)
(*     status and patches the status first and the annotations afterwards  *)
(*     (internal/controller/workloadpolicystatus_*.go,                     *)
(*     api/v1alpha1/violation_record.go);                                  *)
(*   - users annotate the policy with the ID of a violation and change its *)
(*     allow list.                                                         *)
(* Calls and patches may fail, also after they took effect, both processes *)
(* may restart, and the list of policies may come from a cache that lags.  *)
(***************************************************************************)
EXTENDS ViolationBuffer, FiniteSets, SequencesExt

CONSTANTS
  Keys,                  \* violationRecordKey: pod, container, executable, ...
  Second,                \* ticks per second: the API keeps times in seconds
  maxViolationRecords,
  MaxEvents, MaxAcks, MaxAllows, MaxAgents, MaxFaults,   \* bounds
  NoClient

ASSUME SyncAssumption ==
  /\ Records = [key : Keys, t : 1 .. MaxEvents]
  /\ MaxPos >= MaxEvents
  /\ maxViolationRecords \in Nat \ {0}
  /\ Second \in Nat \ {0}

VARIABLES
  clock,     \* the time, in ticks; one violation per tick
  agent,     \* the incarnation of the agent's pod
  listed,    \* the one that the controller's cache of pods has
  client,    \* the incarnation the pooled client is connected to, or NoClient
  policy,    \* the policy in the API server
  cache,     \* the version of it that the last sync listed
  sync,      \* the state of sync and processWorkloadPolicy
  logged,    \* IDs in the acknowledgement logs that were emitted, in order
  faults,
  \* history
  chosen,    \* what users acknowledged: ID and the violation they saw with it
  counted,   \* the violations that reached the status, in the order of the merge
  settled,   \* those whose record was acknowledged or cleared there
  ackedIDs,  \* the IDs that were acknowledged in the status
  stale      \* some sync worked on an outdated policy

syncVars == <<clock, agent, listed, client, policy, cache, sync, logged, faults,
              chosen, counted, settled, ackedIDs, stale>>
vars == <<bufferVars, syncVars>>
history == <<chosen, counted, settled, ackedIDs, stale>>

SetOf(seq) == {seq[i] : i \in DOMAIN seq}
IDs(seq) == {v.id : v \in SetOf(seq)}
KeysOf(seq) == {v.key : v \in SetOf(seq)}
Truncate(seq, n) == SubSeq(seq, 1, IF Len(seq) < n THEN Len(seq) ELSE n)

-----------------------------------------------------------------------------
(* RecomputeStatus *)

NewRecord(count, v) == [id |-> count, key |-> v.key, occurrences |-> 1, first |-> v.t, last |-> v.t]

\* Mutant: only a violation that is newer than its record is an occurrence of it.
MergeOneNewer(status, v) ==
  IF v.key \in KeysOf(status.violations)
  THEN [status EXCEPT !.count = @ + 1,
          !.violations = [i \in DOMAIN @ |->
             IF @[i].key # v.key \/ v.t <= @[i].last THEN @[i]
             ELSE [@[i] EXCEPT !.occurrences = @ + 1, !.last = v.t]]]
  ELSE [status EXCEPT !.count = @ + 1,
          !.violations = Append(@, NewRecord(status.count, v))]

MergeOne(status, v) ==
  IF v.key \in KeysOf(status.violations)
  THEN [status EXCEPT !.count = @ + 1,
          !.violations = [i \in DOMAIN @ |->
             IF @[i].key # v.key THEN @[i]
             ELSE [@[i] EXCEPT !.occurrences = @ + 1, !.last = IF v.t > @ THEN v.t ELSE @]]]
  ELSE [status EXCEPT !.count = @ + 1,
          !.violations = Append(@, NewRecord(status.count, v))]

\* A stable sort, newest first.
SortNewestFirst(seq) ==
  LET before(i, j) == seq[i].last > seq[j].last \/ (seq[i].last = seq[j].last /\ i < j)
      order == SetToSortSeq(DOMAIN seq, before)
  IN [i \in DOMAIN seq |-> seq[order[i]]]

\* Mutant: the list is cut before it is sorted.
mergeScrapedViolationsUnsorted(status, scraped) ==
  LET merged == FoldLeft(MergeOne, status, scraped)
  IN [merged EXCEPT !.violations = SortNewestFirst(Truncate(@, maxViolationRecords))]

\* Mutant: a limit that is off by one.
mergeScrapedViolationsOneMore(status, scraped) ==
  LET merged == FoldLeft(MergeOne, status, scraped)
  IN [merged EXCEPT !.violations = Truncate(SortNewestFirst(@), maxViolationRecords + 1)]

\* Mutant: the counter is raised once per scrape, after the IDs were taken from it.
mergeScrapedViolationsOneID(status, scraped) ==
  LET Merge(st, v) == [MergeOne(st, v) EXCEPT !.count = st.count]
      merged == FoldLeft(Merge, status, scraped)
  IN [merged EXCEPT !.count = @ + Len(scraped),
                    !.violations = Truncate(SortNewestFirst(@), maxViolationRecords)]

mergeScrapedViolations(status, scraped) ==
  LET merged == FoldLeft(MergeOne, status, scraped)
  IN [merged EXCEPT !.violations = Truncate(SortNewestFirst(@), maxViolationRecords)]

clearAllowedViolations(wp, status) ==
  LET Active(v) == v.key \notin wp.allowed
  IN [status EXCEPT !.violations = SelectSeq(@, Active)]

\* Mutant: the IDs of annotations begin at zero and those of records at one.
acknowledgeFromOne(wp, status) ==
  LET Asked(v) == v.id - 1 \in wp.annotations
      Open(v) == v.id - 1 \notin wp.annotations
  IN IF wp.annotations = {} THEN status
     ELSE [status EXCEPT
             !.violations = SelectSeq(@, Open),
             !.acknowledged = Truncate(SelectSeq(status.violations, Asked) \o @, maxViolationRecords)]

\* New acknowledgements have the latest time, so the stable sort puts them first.
acknowledgeViolationsFromAnnotations(wp, status) ==
  LET Asked(v) == v.id \in wp.annotations
      Open(v) == v.id \notin wp.annotations
  IN IF wp.annotations = {} THEN status
     ELSE [status EXCEPT
             !.violations = SelectSeq(@, Open),
             !.acknowledged = Truncate(SelectSeq(status.violations, Asked) \o @, maxViolationRecords)]

-----------------------------------------------------------------------------
(* The API server. *)

\* Times are kept in seconds.
Stored(t) == t - (t % Second)
StoredRecords(seq) ==
  [i \in DOMAIN seq |-> [seq[i] EXCEPT !.first = Stored(@), !.last = Stored(@)]]
StoredStatus(status) ==
  [status EXCEPT !.violations = StoredRecords(@), !.acknowledged = StoredRecords(@)]

\* A merge patch carries the fields in which the new object differs from the one
\* it is based on, lists as a whole, and no resource version.
MergePatch(current, base, new) ==
  [f \in DOMAIN current |-> IF new[f] = base[f] THEN current[f] ELSE new[f]]

\* Outcomes of a call: it fails before or after it took effect only as a fault.
Outcomes == {o \in {"ok", "failed", "lost"} : o = "ok" \/ faults < MaxFaults}
Cost(outcome) == faults' = IF outcome = "ok" THEN faults ELSE faults + 1

-----------------------------------------------------------------------------
(* Agent *)

\* reportViolation
Violate(key) ==
  /\ clock < MaxEvents
  /\ clock' = clock + 1
  /\ Record([key |-> key, t |-> clock + 1])
  /\ UNCHANGED <<agent, listed, client, policy, cache, sync, logged, faults, history>>

\* The agent's pod is replaced: another address, another buffer.
AgentRestart ==
  /\ agent < MaxAgents
  /\ agent' = agent + 1
  /\ NewBuffer
  /\ UNCHANGED <<clock, listed, client, policy, cache, sync, logged, faults, history>>

\* The controller's cache of pods catches up.
PodListed ==
  /\ listed # agent
  /\ listed' = agent
  /\ UNCHANGED <<bufferVars, clock, agent, client, policy, cache, sync, logged, faults, history>>

-----------------------------------------------------------------------------
(* Controller *)

NewPolicy == [status |-> [violations |-> <<>>, acknowledged |-> <<>>, count |-> 0],
              annotations |-> {}, allowed |-> {}]

Idle == [pc |-> "idle", wp |-> NewPolicy, scraped |-> <<>>, acked |-> {}]
Goto(pc) == sync' = [sync EXCEPT !.pc = pc]

\* getOrCreateClient for the node's pod, as the cache has it.  Creating a client
\* does not contact the agent; a failure to create it has the effect of a failed
\* call.
UpdatePool == client' = IF client = NoClient THEN listed ELSE client

\* sync: List and the first UpdatePool.
SyncList ==
  /\ sync.pc = "idle"
  /\ \E wp \in {policy, cache} :
       /\ wp # policy => faults < MaxFaults
       /\ sync' = [sync EXCEPT !.pc = "status", !.wp = wp, !.scraped = <<>>]
       /\ cache' = wp
       /\ stale' = (stale \/ wp # policy)
       /\ faults' = IF wp = policy THEN faults ELSE faults + 1
  /\ UpdatePool
  /\ UNCHANGED <<bufferVars, clock, agent, listed, policy, logged, chosen, counted, settled, ackedIDs>>

\* Mutant: the client of a failed call stays in the pool.
MarkStaleNever == client' = client

MarkStaleAgentClient == client' = NoClient

\* ListPoliciesStatus: what matters here is what a failure does to the client.
SyncListStatus ==
  /\ sync.pc = "status"
  /\ Goto("pool")
  /\ \/ client = agent /\ UNCHANGED <<client, faults>>
     \/ client = agent /\ faults < MaxFaults /\ faults' = faults + 1 /\ MarkStaleAgentClient
     \/ client # agent /\ MarkStaleAgentClient /\ UNCHANGED faults
  /\ UNCHANGED <<bufferVars, clock, agent, listed, policy, cache, logged, history>>

\* sync: the second UpdatePool.
SyncPool ==
  /\ sync.pc = "pool"
  /\ Goto("scrape")
  /\ UpdatePool
  /\ UNCHANGED <<bufferVars, clock, agent, listed, policy, cache, logged, faults, history>>

\* Mutant: nothing to do for a policy without new violations.
ContinueSkips(violations) ==
  sync' = IF violations = <<>> THEN Idle ELSE [sync EXCEPT !.pc = "patch", !.scraped = violations]

\* sync goes on with the violations it has got, if any.
Continue(violations) == sync' = [sync EXCEPT !.pc = "patch", !.scraped = violations]

\* getViolationsByPolicy: the agent drains its buffer before it answers.  The call
\* may fail on its way to the agent, and the answer may get lost.
SyncScrape ==
  /\ sync.pc = "scrape"
  /\ \/ /\ client = agent
        /\ Drain
        /\ \/ Continue(drained') /\ UNCHANGED <<client, faults>>
           \/ /\ faults < MaxFaults /\ faults' = faults + 1
              /\ Continue(<<>>) /\ MarkStaleAgentClient
     \/ /\ client # agent \/ faults < MaxFaults
        /\ faults' = IF client # agent THEN faults ELSE faults + 1
        /\ Continue(<<>>) /\ MarkStaleAgentClient
        /\ UNCHANGED bufferVars
  /\ UNCHANGED <<clock, agent, listed, policy, cache, logged, history>>

\* Mutant: the logs are emitted whether or not the status was patched.
EmitLogsAlways(outcome, acked) == logged' = logged \o SetToSeq(acked)

\* processWorkloadPolicy: one log for each acknowledged violation, but only if the
\* status was patched.
EmitLogs(outcome, acked) ==
  logged' = IF outcome = "ok" THEN logged \o SetToSeq(acked) ELSE logged

\* processWorkloadPolicy: RecomputeStatus and the patch of the status.
SyncPatchStatus ==
  /\ sync.pc = "patch"
  /\ \E merged \in {mergeScrapedViolations(sync.wp.status, sync.scraped)} :
     \E active \in {clearAllowedViolations(sync.wp, merged)} :
     \E new \in {acknowledgeViolationsFromAnnotations(sync.wp, active)} :
     \E acked \in {IDs(active.violations) \ IDs(new.violations)}, outcome \in Outcomes :
       /\ IF outcome = "failed"
          THEN UNCHANGED <<policy, counted, settled, ackedIDs>>
          ELSE /\ policy' = [policy EXCEPT !.status =
                               MergePatch(@, sync.wp.status, StoredStatus(new))]
               /\ counted' = counted \o sync.scraped
               /\ settled' = settled \cup {e \in SetOf(counted') : e.key \in
                                             KeysOf(merged.violations) \ KeysOf(new.violations)}
               /\ ackedIDs' = ackedIDs \cup acked
       /\ EmitLogs(outcome, acked)
       /\ sync' = IF outcome = "ok" THEN [sync EXCEPT !.pc = "annotations", !.acked = acked]
                  ELSE Idle
       /\ Cost(outcome)
  /\ UNCHANGED <<bufferVars, clock, agent, listed, client, cache, chosen, stale>>

\* Mutant: an update with the annotations that were listed, instead of a patch.
RemoveAnnotationsByUpdate(current) == sync.wp.annotations \ sync.acked

\* The patch removes the annotations of the violations that were acknowledged.
RemoveAnnotations(current) == current \ sync.acked

\* processWorkloadPolicy: the patch of the annotations.
SyncPatchAnnotations ==
  /\ sync.pc = "annotations"
  /\ sync' = Idle
  /\ \E outcome \in Outcomes :
       /\ IF outcome = "failed" THEN UNCHANGED policy
          ELSE policy' = [policy EXCEPT !.annotations = RemoveAnnotations(@)]
       /\ Cost(outcome)
  /\ UNCHANGED <<bufferVars, clock, agent, listed, client, cache, logged, history>>

\* The controller restarts, and its pool is empty.
ControllerRestart ==
  /\ faults < MaxFaults /\ faults' = faults + 1
  /\ sync.pc # "idle" /\ sync' = Idle
  /\ client' = NoClient
  /\ UNCHANGED <<bufferVars, clock, agent, listed, policy, cache, logged, history>>

-----------------------------------------------------------------------------
(* Users *)

\* kubectl runtime-enforcer policy ack: runPolicyAck reads the policy and updates
\* it with the resource version it read, so that a change in between is a conflict.
Acknowledge(v) ==
  /\ v.id \notin policy.annotations
  /\ Cardinality(chosen) < MaxAcks
  /\ policy' = [policy EXCEPT !.annotations = @ \cup {v.id}]
  /\ chosen' = chosen \cup {[id |-> v.id, key |-> v.key]}
  /\ UNCHANGED <<bufferVars, clock, agent, listed, client, cache, sync, logged, faults,
                 counted, settled, ackedIDs, stale>>

\* The executable of a listed violation is added to the allow list; violations of
\* it may still be on their way.
Allow(key) ==
  /\ key \notin policy.allowed
  /\ Cardinality(policy.allowed) < MaxAllows
  /\ policy' = [policy EXCEPT !.allowed = @ \cup {key}]
  /\ UNCHANGED <<bufferVars, clock, agent, listed, client, cache, sync, logged, faults, history>>

-----------------------------------------------------------------------------
Init ==
  /\ BufferInit
  /\ clock = 0 /\ agent = 1 /\ listed = 1 /\ client = NoClient
  /\ policy = NewPolicy /\ cache = NewPolicy
  /\ sync = Idle
  /\ logged = <<>> /\ faults = 0
  /\ chosen = {} /\ counted = <<>> /\ settled = {} /\ ackedIDs = {} /\ stale = FALSE

SyncStep ==
  SyncList \/ SyncListStatus \/ SyncPool \/ SyncScrape \/ SyncPatchStatus \/ SyncPatchAnnotations

UserStep == \E v \in SetOf(policy.status.violations) : Acknowledge(v) \/ Allow(v.key)

Next ==
  \/ SyncStep \/ ControllerRestart \/ AgentRestart \/ PodListed \/ UserStep
  \/ \E key \in Keys : Violate(key)

\* Start calls sync again and again, whatever it returns, and the informer of the
\* cache delivers every change in the end.
Fairness == WF_vars(SyncStep) /\ WF_vars(PodListed)

Spec == Init /\ [][Next]_vars /\ Fairness

-----------------------------------------------------------------------------
(* Properties. *)

\* Types; the status never lists more records than it may.
TypeOK ==
  /\ BufferTypeOK
  /\ agent \in 1 .. MaxAgents /\ listed \in 1 .. agent /\ client \in 1 .. agent \cup {NoClient}
  /\ policy.annotations \subseteq 0 .. MaxEvents
  /\ policy.status.count \in 0 .. MaxEvents
  /\ Len(policy.status.violations) <= maxViolationRecords
  /\ Len(policy.status.acknowledged) <= maxViolationRecords
  /\ sync.pc \in {"idle", "status", "pool", "scrape", "patch", "annotations"}
  /\ sync.scraped \in Seq(Records)
  /\ faults \in 0 .. MaxFaults

\* The violations that were merged into record v: those of its key from the one on
\* that created it, whose position in the merge is the record's ID.
Merged(v) == {i \in v.id + 1 .. Len(counted) : counted[i].key = v.key}
Latest(times) == CHOOSE t \in times : \A u \in times : u <= t
Newest(key) == Latest({e.t : e \in {f \in SetOf(counted) : f.key = key}})

\* However calls and patches fail, a violation is counted at most once, in the
\* policy's counter and in the occurrences of exactly one record: that of its key
\* that was listed when it arrived, else the one it created.  That record keeps
\* the time it was created with and has the time of the newest violation since.
CountedOnce ==
  ~stale =>
    LET list == policy.status.violations
    IN /\ Cardinality(SetOf(counted)) = Len(counted)
       /\ policy.status.count = Len(counted)
       /\ Cardinality(KeysOf(list)) = Len(list)
       /\ \A v \in SetOf(list) :
            /\ v.id + 1 \in Merged(v)
            /\ v.occurrences = Cardinality(Merged(v))
            /\ v.first = Stored(counted[v.id + 1].t)
            /\ v.last = Stored(Latest({counted[i].t : i \in Merged(v)}))

\* "firstObservedTimestamp is when the violation was first observed", stamped with
\* "the earliest one we know of" (api/v1alpha1/violation_record.go): no violation
\* of a record is older than that.
FirstObservedIsEarliest ==
  ~stale =>
    \A v \in SetOf(policy.status.violations), i \in DOMAIN counted :
      i \in Merged(v) => v.first <= Stored(counted[i].t)

\* "id is a per-policy unique identifier" (api/v1alpha1/violation_record.go): no
\* two records, active or acknowledged, have the same ID.
UniqueIDs ==
  ~stale =>
    LET all == policy.status.violations \o policy.status.acknowledged
    IN Cardinality(IDs(all)) = Len(all)

\* The controller acknowledges the violation that the user saw with the ID, also
\* when records come and go, or syncs fail, between the two.
AcknowledgesChosen ==
  ~stale =>
    \A v \in SetOf(policy.status.acknowledged) : [id |-> v.id, key |-> v.key] \in chosen

\* "we won't send duplicate logs in case of retries"
\* (internal/controller/workloadpolicystatus_helpers.go), and no log without the
\* acknowledgement in the status.
LoggedOnce ==
  ~stale => Cardinality(SetOf(logged)) = Len(logged) /\ SetOf(logged) \subseteq ackedIDs

\* "we use Patch() to prevent annotation changes made between two calls from being
\* lost": an annotation of a user stays until its violation is acknowledged in
\* the status, even when syncs work on outdated policies.
AnnotationsKept ==
  \A c \in chosen : c.id \in policy.annotations \cup ackedIDs

\* The limit drops the oldest records: a violation that reached the status and
\* was neither acknowledged nor allowed is listed, or older than all that are.
NewestListed ==
  ~stale =>
    \A e \in SetOf(counted) \ settled :
      \/ e.key \in KeysOf(policy.status.violations)
      \/ \A v \in SetOf(policy.status.violations) : Newest(v.key) > e.t

\* What the agent recorded is scraped or lost with the agent, also after the
\* agent's pod was replaced and the pooled client leads nowhere.
ScrapedEventually == pos > 0 ~> pos = 0

\* Acknowledgements are carried out, unless the record disappears otherwise.
Pending == policy.annotations \cap IDs(policy.status.violations)
AcknowledgedEventually == Pending # {} ~> Pending = {}
=============================================================================
