---------------------------- MODULE MCStatusSync ----------------------------
(***************************************************************************)
(* An instance of StatusSync: three executables, of which the status lists *)
(* two, and an agent whose ring holds two violations.                      *)
(***************************************************************************)
EXTENDS StatusSync

CONSTANTS k1, k2, k3

MCRecords == [key : Keys, t : 1 .. MaxEvents]

\* Keys are interchangeable, so the n-th violation is of one of the first n keys.
MCKeys(n) == CASE n = 1 -> {k1} [] n = 2 -> {k1, k2} [] OTHER -> Keys

MCNext ==
  \/ SyncStep \/ ControllerRestart \/ AgentRestart \/ PodListed \/ UserStep
  \/ \E key \in MCKeys(clock + 1) : Violate(key)
MCSpec == Init /\ [][MCNext]_vars /\ Fairness
=============================================================================
