------------------------ MODULE CgroupTrackerProofs -------------------------
(***************************************************************************)
(* For every tree of cgroups, every set of containers in it and any number *)
(* of failures and restarts: whatever cgtracker_map says of a cgroup is    *)
(* the container it lies in.  The three writers do not exclude each other, *)
(* so the invariant has to say what a walk holds between its steps: a      *)
(* container, and directories below it.                                    *)
(***************************************************************************)
EXTENDS CgroupTracker, TLAPS

Walks == [pc : {"idle", "read", "next", "update"}, cg : Cgroups \union {NoCgroup},
          dir : Cgroups \union {NoCgroup}, todo : SUBSET Cgroups]

\* The walk stays below the container it was started for.
WalkBelow ==
  walk.pc # "idle" =>
    /\ walk.cg \in Containers
    /\ walk.dir \in Subtree(walk.cg)
    /\ walk.todo \subseteq Subtree(walk.cg)

IInv ==
  /\ cgtracker_map \in [Cgroups -> Cgroups \union {NoCgroup}]
  /\ walk \in Walks
  /\ WalkBelow
  /\ TrackerIsAncestor

\* A container's cgroup is below itself.
LEMMA SubtreeSelf == \A c \in Containers : c \in Subtree(c)
  BY CgroupAssumption, TreeAssumption DEF Subtree

\* A cgroup that is created below a cgroup of a container is the container's too.
LEMMA SubtreeChild ==
  ASSUME NEW c \in Containers, NEW d \in Subtree(c)
  PROVE  Children(d) \subseteq Subtree(c)
<1> SUFFICES ASSUME NEW h \in Children(d) PROVE h \in Subtree(c)
  OBVIOUS
<1>1. h \in Cgroups /\ ParentOf[h] = d
  BY DEF Children
<1>2. Ancestors[h] = {h} \union Ancestors[d]
  BY <1>1, TreeAssumption
<1> QED
  BY <1>1, <1>2 DEF Subtree

\* Nothing is a container's cgroup before it is one of the cgroups.
LEMMA NoCgroupNone == NoCgroup \notin Cgroups /\ Containers \subseteq Cgroups
  BY CgroupAssumption

\* An entry that names the container of its cgroup keeps the map truthful.
LEMMA WriteEntry ==
  ASSUME IInv, NEW g \in Cgroups, NEW c \in Containers, g \in Subtree(c),
         cgtracker_map' = [cgtracker_map EXCEPT ![g] = c]
  PROVE  cgtracker_map' \in [Cgroups -> Cgroups \union {NoCgroup}] /\ TrackerIsAncestor'
<1>1. cgtracker_map' \in [Cgroups -> Cgroups \union {NoCgroup}]
  BY NoCgroupNone DEF IInv
<1>2. \A h \in Cgroups : cgtracker_map'[h] = IF h = g THEN c ELSE cgtracker_map[h]
  BY DEF IInv
<1> QED
  BY <1>1, <1>2 DEF IInv, TrackerIsAncestor

\* So does a removed entry.
LEMMA DeleteEntry ==
  ASSUME IInv, NEW g \in Cgroups, cgtracker_map' = [cgtracker_map EXCEPT ![g] = NoCgroup]
  PROVE  cgtracker_map' \in [Cgroups -> Cgroups \union {NoCgroup}] /\ TrackerIsAncestor'
<1>1. cgtracker_map' \in [Cgroups -> Cgroups \union {NoCgroup}]
  BY DEF IInv
<1>2. \A h \in Cgroups : cgtracker_map'[h] = IF h = g THEN NoCgroup ELSE cgtracker_map[h]
  BY DEF IInv
<1> QED
  BY <1>1, <1>2 DEF IInv, TrackerIsAncestor

\* And an unchanged map.
LEMMA SameMap ==
  ASSUME IInv, UNCHANGED cgtracker_map
  PROVE  cgtracker_map' \in [Cgroups -> Cgroups \union {NoCgroup}] /\ TrackerIsAncestor'
  BY DEF IInv, TrackerIsAncestor

\* An unchanged walk stays below its container.
LEMMA SameWalk ==
  ASSUME IInv, UNCHANGED walk
  PROVE  walk' \in Walks /\ WalkBelow'
  BY DEF IInv, WalkBelow

\* So does no walk.
LEMMA NoWalk ==
  ASSUME walk' = IdleWalk
  PROVE  walk' \in Walks /\ WalkBelow'
  BY DEF IdleWalk, Walks, WalkBelow

\* The mkdir program: a child of a tracked cgroup lies in the same container.
LEMMA MkdirStep ==
  ASSUME IInv, NEW g \in Cgroups, Mkdir(g)
  PROVE  IInv'
<1> DEFINE tracker == cgrp_get_tracker_id(cgroup_get_parent_id(g))
<1>1. walk' \in Walks /\ WalkBelow'
  BY SameWalk DEF Mkdir, agent
<1>2. CASE tracker # NoCgroup /\ cgtracker_map' = [cgtracker_map EXCEPT ![g] = tracker]
  <2>1. g # Root
    BY CgroupAssumption
  <2>2. ParentOf[g] \in Cgroups /\ tracker = cgtracker_map[ParentOf[g]]
    BY <1>2, <2>1 DEF cgrp_get_tracker_id, cgroup_get_parent_id
  <2>3. tracker \in Containers /\ ParentOf[g] \in Subtree(tracker)
    BY <1>2, <2>2 DEF IInv, TrackerIsAncestor
  <2>4. g \in Subtree(tracker)
    BY <2>3, SubtreeChild DEF Children
  <2> QED
    BY <1>1, <1>2, <2>3, <2>4, WriteEntry DEF IInv
<1>3. CASE UNCHANGED cgtracker_map
  BY <1>1, <1>3, SameMap DEF IInv
<1> QED
  BY <1>2, <1>3 DEF Mkdir

\* UpdateCgTrackerMap before the walk.
LEMMA UpdateStep ==
  ASSUME IInv, NEW c \in Containers, NEW path, UpdateCgTrackerMap(c, path)
  PROVE  IInv'
<1>1. CASE /\ cgtracker_map' = [cgtracker_map EXCEPT ![c] = c]
           /\ walk' = IF path = "" THEN walk
                      ELSE [pc |-> "read", cg |-> c, dir |-> c, todo |-> {}]
  <2>1. c \in Cgroups /\ c \in Subtree(c)
    BY SubtreeSelf, NoCgroupNone
  <2>2. walk' \in Walks /\ WalkBelow'
    <3>1. CASE path = ""
      BY <1>1, <3>1, SameWalk
    <3>2. CASE path # ""
      BY <1>1, <3>2, <2>1 DEF Walks, WalkBelow
    <3> QED
      BY <3>1, <3>2
  <2> QED
    BY <1>1, <2>1, <2>2, WriteEntry DEF IInv
<1>2. CASE UNCHANGED <<cgtracker_map, walk>>
  BY <1>2, SameMap, SameWalk DEF IInv
<1> QED
  BY <1>1, <1>2 DEF UpdateCgTrackerMap

\* The steps of the walk.
LEMMA WalkStep ==
  ASSUME IInv, WalkReadDir \/ (\E d \in Cgroups : WalkStat(d)) \/ WalkUpdate \/ WalkEnd
  PROVE  IInv'
<1>1. walk \in Walks /\ WalkBelow
  BY DEF IInv
<1>2. CASE WalkReadDir
  <2>1. walk.cg \in Containers /\ walk.dir \in Subtree(walk.cg) /\ walk.todo \subseteq Subtree(walk.cg)
    BY <1>1, <1>2 DEF WalkReadDir, WalkBelow
  <2>2. Children(walk.dir) \subseteq Subtree(walk.cg)
    BY <2>1, SubtreeChild
  <2>3. PICK more \in SUBSET Subtree(walk.cg) : walk' = [walk EXCEPT !.pc = "next", !.todo = more]
    BY <1>2, <2>1, <2>2 DEF WalkReadDir
  <2>4. Subtree(walk.cg) \subseteq Cgroups
    BY DEF Subtree
  <2>5. walk' \in Walks /\ walk'.cg = walk.cg /\ walk'.dir = walk.dir /\ walk'.todo = more
    BY <1>1, <2>3, <2>4 DEF Walks
  <2>6. WalkBelow'
    BY <2>1, <2>5 DEF WalkBelow
  <2> QED
    BY <1>2, <2>5, <2>6, SameMap DEF IInv, WalkReadDir
<1>3. ASSUME NEW d \in Cgroups, WalkStat(d) PROVE IInv'
  <2>1. walk.cg \in Containers /\ d \in Subtree(walk.cg) /\ walk.todo \subseteq Subtree(walk.cg)
    BY <1>1, <1>3 DEF WalkStat, WalkBelow
  <2>2. PICK pc \in {"update", "read"} :
          walk' = [walk EXCEPT !.pc = pc, !.dir = d, !.todo = @ \ {d}]
    BY <1>3 DEF WalkStat
  <2>3. walk' \in Walks /\ walk'.cg = walk.cg /\ walk'.dir = d /\ walk'.todo = walk.todo \ {d}
    BY <1>1, <2>2 DEF Walks
  <2>4. WalkBelow'
    BY <2>1, <2>3 DEF WalkBelow
  <2> QED
    BY <1>3, <2>3, <2>4, SameMap DEF IInv, WalkStat
<1>4. CASE WalkUpdate
  <2>1. walk.cg \in Containers /\ walk.dir \in Subtree(walk.cg) /\ walk.todo \subseteq Subtree(walk.cg)
    BY <1>1, <1>4 DEF WalkUpdate, WalkBelow
  <2>2. walk' = [walk EXCEPT !.pc = "read"]
    BY <1>4 DEF WalkUpdate
  <2>3. walk' \in Walks /\ walk'.cg = walk.cg /\ walk'.dir = walk.dir /\ walk'.todo = walk.todo
    BY <1>1, <2>2 DEF Walks
  <2>4. WalkBelow'
    BY <2>1, <2>3 DEF WalkBelow
  <2>5. walk.dir \in Cgroups
    BY <2>1 DEF Subtree
  <2>6. \/ cgtracker_map' = [cgtracker_map EXCEPT ![walk.dir] = walk.cg]
        \/ UNCHANGED cgtracker_map
    BY <1>4 DEF WalkUpdate
  <2> QED
    BY <2>1, <2>3, <2>4, <2>5, <2>6, WriteEntry, SameMap DEF IInv
<1>5. CASE WalkEnd
  BY <1>5, NoWalk, SameMap DEF WalkEnd, IInv
<1> QED
  BY <1>2, <1>3, <1>4, <1>5

\* A new agent starts with an empty map and no walk.
LEMMA RestartStep ==
  ASSUME Restart
  PROVE  IInv'
<1>1. walk' \in Walks /\ WalkBelow'
  BY NoWalk DEF Restart
<1>2. cgtracker_map' = [g \in Cgroups |-> NoCgroup]
  BY DEF Restart
<1>3. cgtracker_map' \in [Cgroups -> Cgroups \union {NoCgroup}] /\ TrackerIsAncestor'
  BY <1>2 DEF TrackerIsAncestor
<1> QED
  BY <1>1, <1>3 DEF IInv

\* The invariant holds at the start.
LEMMA InitIInv == Init => IInv
<1> SUFFICES ASSUME Init PROVE IInv
  OBVIOUS
<1>1. walk \in Walks /\ WalkBelow
  BY DEF Init, IdleWalk, Walks, WalkBelow
<1>2. cgtracker_map \in [Cgroups -> Cgroups \union {NoCgroup}] /\ TrackerIsAncestor
  BY DEF Init, TrackerIsAncestor
<1> QED
  BY <1>1, <1>2 DEF IInv

\* Every step preserves it.
LEMMA NextIInv == IInv /\ [Next]_vars => IInv'
<1> SUFFICES ASSUME IInv, [Next]_vars PROVE IInv'
  OBVIOUS
<1>1. UNCHANGED <<cgtracker_map, walk>> => IInv'
  BY SameMap, SameWalk DEF IInv
<1>2. ASSUME NEW g \in Cgroups, Mkdir(g) PROVE IInv'
  BY <1>2, MkdirStep
<1>3. ASSUME NEW g \in Cgroups, Activate(g) \/ Rmdir(g) PROVE IInv'
  BY <1>1, <1>3 DEF Activate, Rmdir, agent
<1>4. ASSUME NEW g \in Cgroups, Release(g) PROVE IInv'
  <2>1. walk' \in Walks /\ WalkBelow'
    BY <1>4, SameWalk DEF Release, agent
  <2>2. cgtracker_map' = [cgtracker_map EXCEPT ![g] = NoCgroup] \/ UNCHANGED cgtracker_map
    BY <1>4 DEF Release
  <2> QED
    BY <2>1, <2>2, DeleteEntry, SameMap DEF IInv
<1>5. CASE Attach
  BY <1>1, <1>5 DEF Attach
<1>6. ASSUME NEW c \in Containers, NEW path \in {"", "path"}, UpdateCgTrackerMap(c, path) PROVE IInv'
  BY <1>6, UpdateStep
<1>7. CASE WalkReadDir \/ (\E d \in Cgroups : WalkStat(d)) \/ WalkUpdate \/ WalkEnd
  BY <1>7, WalkStep
<1>8. CASE Restart
  BY <1>8, RestartStep
<1>9. ASSUME NEW g \in Cgroups, NEW parent \in Cgroups \union {Root}, NEW ns \in {"own", "host"},
             ExecBegin(g, parent, ns)
      PROVE  IInv'
  BY <1>1, <1>9 DEF ExecBegin, agent
<1>10. CASE ExecBootstrap \/ ExecEnd
  BY <1>1, <1>10 DEF ExecBootstrap, ExecEnd, agent
<1>11. CASE UNCHANGED vars
  BY <1>1, <1>11 DEF vars, agent
<1> QED
  BY <1>2, <1>3, <1>4, <1>5, <1>6, <1>7, <1>8, <1>9, <1>10, <1>11 DEF Next

\* No process is ever judged by the policy of a container it does not run in: the
\* agent, the mkdir and the release program may write cgtracker_map in any order,
\* on any tree.
THEOREM TrackerIsAncestorAlways == Spec => []TrackerIsAncestor
<1>1. IInv => TrackerIsAncestor
  BY DEF IInv
<1> QED
  BY <1>1, InitIInv, NextIInv, PTL DEF Spec
=============================================================================
