------------------------------ MODULE MCAgent -------------------------------
(***************************************************************************)
(* Small instances of Agent: one policy, one or two pods of it, and specs  *)
(* that protect all containers, tighten the allow list, relax mode and     *)
(* rules, and drop "main".  An update between the first two never allows   *)
(* "sh", whatever moment an exec hits; one between the first and the third *)
(* never denies "app", and one between the second and the third never      *)
(* denies files of a foreign root.                                         *)
(***************************************************************************)
EXTENDS Agent, TLC

CONSTANTS p1, p2, c1, c2, c3, main, side, wp1, sh, app

MCPodOf == [c \in ContainerIDs |-> IF c = c3 THEN p2 ELSE p1]
MCNameOf == [c \in ContainerIDs |-> IF c = c2 /\ side \in ContainerNames THEN side ELSE main]
MCPolicyOf == [p \in Pods |-> wp1]
MCBucketOf == (sh :> 0) @@ (app :> 4)

Rule(allowed, foreign) == [allowed |-> allowed, foreign |-> foreign]
Protecting == [mode |-> "protect", containers |-> ContainerNames,
               rules |-> [n \in ContainerNames |-> Rule({app}, FALSE)]]
Tightened == [mode |-> "protect", containers |-> ContainerNames,
              rules |-> [n \in ContainerNames |-> Rule({}, TRUE)]]
Relaxed == [mode |-> "monitor", containers |-> ContainerNames,
            rules |-> [n \in ContainerNames |-> Rule({app, sh}, TRUE)]]
Without == [mode |-> "protect", containers |-> ContainerNames \ {main},
            rules |-> [n \in ContainerNames |-> Rule({app}, FALSE)]]

SpecsOverlap == {Protecting, Tightened, Relaxed}
SpecsUpdate == {Protecting, Relaxed}
SpecsRemove == {Protecting, Without}
=============================================================================
