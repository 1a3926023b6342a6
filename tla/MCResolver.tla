----------------------------- MODULE MCResolver -----------------------------
(***************************************************************************)
(* Small instances of Resolver: two pods of one policy, the first one with *)
(* two containers, and specs that add, change and remove a container.      *)
(***************************************************************************)
EXTENDS Resolver, TLC

CONSTANTS p1, p2, c1, c2, c3, main, side, wp1, sh, app

MCPodOf == [c \in ContainerIDs |-> IF c = c3 THEN p2 ELSE p1]
MCNameOf == [c \in ContainerIDs |-> IF c = c2 THEN side ELSE main]
MCPolicyOf == [p \in Pods |-> wp1]
MCBucketOf == (sh :> 0) @@ (app :> 4)

Rule(allowed) == [allowed |-> allowed, foreign |-> FALSE]
MCSpecs == {
  [mode |-> "protect", containers |-> {main, side},
   rules |-> (main :> Rule({app})) @@ (side :> Rule({sh}))],
  [mode |-> "monitor", containers |-> {side},
   rules |-> (main :> Rule({})) @@ (side :> Rule({app, sh}))]}
=============================================================================
