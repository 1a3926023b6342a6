-------------------------- MODULE ViolationBuffer ---------------------------
(***************************************************************************)
(* The ring buffer between the event scraper, which calls Record for each  *)
(* violation, and the gRPC server, which calls Drain for each scrape       *)
(* (internal/violationbuf).  Both hold the mutex of the buffer, so each    *)
(* call is one step.  Drain resets pos and leaves the records in buf.      *)
(***************************************************************************)
EXTENDS Integers, Sequences

CONSTANTS
  Records,            \* the violations
  MaxBufferEntries,   \* capacity of the ring
  MaxPos,             \* bound on the calls of Record between two scrapes
  NoRecord            \* the zero ViolationRecord

ASSUME BufferAssumption ==
  /\ MaxBufferEntries \in Nat \ {0}
  /\ MaxPos \in Nat
  /\ NoRecord \notin Records

VARIABLES buf, pos, dropped, drained

bufferVars == <<buf, pos, dropped, drained>>

Slots == 0 .. MaxBufferEntries - 1

\* Mutant: the test for a full ring is off by one.
RecordLate(rec) ==
  /\ pos < MaxPos
  /\ dropped' = (pos > MaxBufferEntries)
  /\ buf' = [buf EXCEPT ![pos % MaxBufferEntries] = rec]
  /\ pos' = pos + 1
  /\ UNCHANGED drained

Record(rec) ==
  /\ pos < MaxPos
  /\ dropped' = (pos >= MaxBufferEntries)
  /\ buf' = [buf EXCEPT ![pos % MaxBufferEntries] = rec]
  /\ pos' = pos + 1
  /\ UNCHANGED drained

\* The number of records in the ring.
Count == IF pos < MaxBufferEntries THEN pos ELSE MaxBufferEntries

Drain ==
  /\ drained' = [i \in 1 .. Count |-> buf[(pos - i) % MaxBufferEntries]]
  /\ pos' = 0
  /\ UNCHANGED <<buf, dropped>>

\* NewBuffer: the buffer of a new agent process.
BufferInit ==
  /\ buf = [i \in Slots |-> NoRecord]
  /\ pos = 0
  /\ dropped = FALSE
  /\ drained = <<>>

\* Another agent process.
NewBuffer ==
  /\ buf' = [i \in Slots |-> NoRecord]
  /\ pos' = 0
  /\ dropped' = FALSE
  /\ drained' = <<>>

-----------------------------------------------------------------------------
(* Properties. *)

\* The slots that were written since the last scrape hold real records; the
\* others may hold the zero record or records of an earlier scrape.
BufferTypeOK ==
  /\ buf \in [Slots -> Records \cup {NoRecord}]
  /\ pos \in 0 .. MaxPos
  /\ \A i \in Slots : i < pos => buf[i] \in Records
  /\ dropped \in BOOLEAN
  /\ drained \in Seq(Records)

\* The records since the last scrape, oldest first.
Content == [i \in 1 .. Count |-> buf[(pos - Count + i - 1) % MaxBufferEntries]]

\* The ring implements the log: Record forgets exactly the oldest violation and
\* reports it, Drain returns exactly the retained ones, newest first, and
\* records that an earlier scrape left in the ring never come back.
Log == INSTANCE ViolationLog WITH log <- Content
RefinesLog == Log!Spec
=============================================================================
