-------------------------- MODULE MCCgroupTracker ---------------------------
(***************************************************************************)
(* Instance of CgroupTracker for TLC: a container c with a nested cgroup x *)
(* and one level more in y; cgroup v2, cgroup v1 with a readable and an    *)
(* unreadable controller, and an unknown mount namespace of the host.      *)
(***************************************************************************)
EXTENDS CgroupTracker, TLC

CONSTANTS c, x, y

Tree == c :> Root @@ x :> c @@ y :> x

LoadTimeConfigs ==
  {[magic |-> "v2", subsys_idx |-> 0, host_mnt_ns |-> TRUE],
   [magic |-> "v1", subsys_idx |-> 4, host_mnt_ns |-> TRUE],
   [magic |-> "v1", subsys_idx |-> 12, host_mnt_ns |-> TRUE],
   [magic |-> "v2", subsys_idx |-> 0, host_mnt_ns |-> FALSE]}
=============================================================================
