----------------------------- MODULE MCExecPath -----------------------------
(***************************************************************************)
(* An instance of ExecPath with segments of 8 bytes and components of at   *)
(* most 3: the namespace's root mount, the container's root mounted over   *)
(* it, a bind mount of a directory and a mount over it, a mount of         *)
(* another namespace, one of none, and an internal mount with a memory     *)
(* file.  The files have paths of 2 to 19 bytes: 6, 7, 8, 9 around one     *)
(* segment, 16, 17, 19 around two.                                         *)
(*                                                                         *)
(* The string maps are explored next to it, with their real sizes: lengths *)
(* at a boundary of each of the three size schemes (multiples of 24, the   *)
(* change to doubling sizes, the longest key), and those just outside of   *)
(* what can be stored.  StringMapsProofs covers every length.              *)
(***************************************************************************)
EXTENDS ExecPath, StringMaps

CONSTANTS rootfs, ctr, bind, host, shm, over, detached

A == 2
B == 3
MCDeleted == <<4, 4>>

\* A directory of the container's root with four levels below it, and a leaf
\* of one to three bytes on some level.  Names are made of the bytes A and B.
MCDentries == {"/rootfs", "/ctr", "/host", "/shm", "/memfd", "/vol", "/det", "fdet",
               "d1", "d2", "d3", "d4", "d5",
               "f3", "f6", "f7", "f8", "f9", "f16", "f17", "f19", "fdel", "data", "fbind",
               "over", "fover", "fhost"}
MCParent ==
  [d \in MCDentries |->
     CASE d \in {"d1", "f3", "fdel"} -> "/ctr"
       [] d \in {"d2", "f6", "f7"} -> "d1"
       [] d \in {"d3", "f8", "f9"} -> "d2"
       [] d = "d4" -> "d3"
       [] d \in {"d5", "f16"} -> "d4"
       [] d \in {"f17", "f19"} -> "d5"
       [] d = "data" -> "/vol"
       [] d = "fbind" -> "data"
       [] d = "fover" -> "over"
       [] d = "fhost" -> "/host"
       [] d = "fdet" -> "/det"
       [] OTHER -> d]
MCName ==
  [d \in MCDentries |->
     CASE d \in {"d1", "d2", "d3", "d4", "d5", "data"} -> <<A, A>>
       [] d \in {"f8", "f17", "fbind", "fover", "/memfd"} -> <<B>>
       [] d \in {"f3", "f6", "f9", "fhost", "fdet", "fdel"} -> <<B, B>>
       [] d \in {"f7", "f16", "f19"} -> <<B, B, B>>
       [] OTHER -> <<>>]

MCMounts == {rootfs, ctr, bind, over, host, shm, detached}
MCMntRoot == [m \in MCMounts |-> CASE m = rootfs -> "/rootfs" [] m = ctr -> "/ctr"
                                   [] m = bind -> "data" [] m = over -> "over"
                                   [] m = host -> "/host" [] m = shm -> "/shm"
                                   [] m = detached -> "/det"]
MCMntParent == [m \in MCMounts |-> CASE m = ctr -> rootfs [] m = bind -> ctr [] m = over -> bind
                                     [] OTHER -> m]
MCMountpoint == [m \in MCMounts |-> CASE m = ctr -> "/rootfs" [] m = bind -> "d4"
                                      [] m = over -> "data" [] OTHER -> MCMntRoot[m]]
MCNs == [m \in MCMounts |-> CASE m \in {host, shm} -> "host" [] m = detached -> NoNs
                              [] OTHER -> "ctr"]

MCFiles == {<<ctr, "f3">>, <<ctr, "f6">>, <<ctr, "f7">>, <<ctr, "f8">>, <<ctr, "f9">>,
            <<ctr, "f16">>, <<ctr, "f17">>, <<ctr, "fdel">>,
            <<ctr, "f19">>, <<bind, "fbind">>, <<over, "fover">>, <<host, "fhost">>,
            <<shm, "/memfd">>, <<detached, "fdet">>}

MCAllowLists == {{<<SLASH, B, B>>, <<SLASH, B>>},
                 {<<SLASH, A, A, SLASH, B, B, B>>, <<SLASH, A, A, SLASH, A, A, SLASH, B>>}}

BoundaryLengths == {0, 24, 25, 120, 144, 145, 256, 4096, 4097}

\* The path and the maps share no variable, so what one does is independent of
\* where the other is: each runs while the other is in its initial state.
KernelInit == Init /\ MapsInit
KernelNext ==
  \/ MapsInit /\ Next /\ UNCHANGED mapsVars
  \/ Init /\ MapsNext /\ UNCHANGED vars
KernelSpec == KernelInit /\ [][KernelNext]_<<vars, mapsVars>>
=============================================================================
