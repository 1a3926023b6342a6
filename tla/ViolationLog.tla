---------------------------- MODULE ViolationLog ----------------------------
(***************************************************************************)
(* What the violation buffer of the agent promises: a log that keeps the   *)
(* most recent MaxBufferEntries violations, says when it had to forget     *)
(* one, and is handed over newest first and emptied by a scrape.  It does  *)
(* not outlive the agent.                                                  *)
(***************************************************************************)
EXTENDS Integers, Sequences, SequencesExt

CONSTANTS Records, MaxBufferEntries

VARIABLES
  log,       \* the violations since the last scrape, oldest first
  dropped,   \* what the last Record returned
  drained    \* what the last Drain returned

Record(rec) ==
  /\ log' = IF Len(log) = MaxBufferEntries THEN Append(Tail(log), rec) ELSE Append(log, rec)
  /\ dropped' = (Len(log) = MaxBufferEntries)
  /\ UNCHANGED drained

Drain ==
  /\ log' = <<>>
  /\ drained' = Reverse(log)
  /\ UNCHANGED dropped

Init == log = <<>> /\ dropped = FALSE /\ drained = <<>>

Restart == log' = <<>> /\ dropped' = FALSE /\ drained' = <<>>

Next == Drain \/ Restart \/ \E rec \in Records : Record(rec)

Spec == Init /\ [][Next]_<<log, dropped, drained>>
=============================================================================
