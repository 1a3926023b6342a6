------------------------------ MODULE ExecPath ------------------------------
(***************************************************************************)
(* The path of an executed file, from the dentry to the allow list and to  *)
(* the event the agent reads (bpf/d_path_resolution.h, bpf/main.c).        *)
(* The program rebuilds the path from its end in a buffer of three         *)
(* segments that is kept from one exec to the next, one per CPU:           *)
(*   - the first one holds the path of the last event;                     *)
(*   - the path grows downwards from the end of the second one;            *)
(*   - the third one is never written, and pads the key of the lookup.     *)
(* Offsets and lengths are masked to please the verifier.  The sizes are   *)
(* parameters: the masks, the wrap-arounds and the boundaries are the same *)
(* for every power of two.                                                 *)
(***************************************************************************)
EXTENDS Integers, Sequences, FiniteSets

CONSTANTS
  MAX_PATH_LEN,       \* 4096 in the code
  MAX_COMPONENT_LEN,  \* 256 in the code
  PATH_ITERATIONS,    \* 2048 in the code, 512 on kernels before 6.4
  KeySizes,           \* sizes of the keys of the string maps
  Slack,              \* bytes of an event after the header and before the path's length
  NUL, SLASH,         \* two of the bytes
  DELETED_STRING,     \* the suffix of the path of an unlinked file
  Dentries, Mounts,   \* the file system, as the program sees it:
  d_parent,           \*   a root is its own parent
  d_name,             \*   the last component, a sequence of bytes
  unhashed,           \*   dentries that were removed from their directory
  mnt_root, mnt_parent, mnt_mountpoint,
  mnt_internal,       \*   mounts with MNT_INTERNAL
  mnt_ns,             \*   the mount namespace of a mount, or NoNs
  TaskNs,             \* the mount namespace of the tasks
  Files,              \* the files that are executed: mount and dentry
  AllowLists,         \* the allow lists considered, sets of paths
  NoPolicy, NoEvent, NoNs

U16 == 16 * MAX_PATH_LEN   \* 2^16
U32 == 64 * MAX_PATH_LEN   \* for 2^32: any multiple of 2^16 gives the same masks

ASSUME ExecPathAssumption ==
  /\ MAX_PATH_LEN \in Nat \ {0}
  /\ KeySizes \subseteq 1 .. MAX_PATH_LEN /\ MAX_PATH_LEN \in KeySizes
  /\ \A d \in Dentries : Len(d_name[d]) < MAX_COMPONENT_LEN
  /\ Files \subseteq Mounts \X Dentries
  /\ \A value \in UNION AllowLists : Len(value) \in 1 .. MAX_PATH_LEN
  /\ NoPolicy \notin AllowLists

VARIABLES
  path,         \* evt->path, the buffer
  path_len,     \* evt->path_len
  allow,        \* the allow list of the container's policy, if it has one
  last,         \* the last exec: file, allow list, outcome, path in the event
  overflowed    \* history: some path did not fit the first two segments

vars == <<path, path_len, allow, last, overflowed>>

-----------------------------------------------------------------------------
(* Buffers. *)

SAFE_PATH_LEN(n) == n % MAX_PATH_LEN
SAFE_PATH_ACCESS(n) == n % (2 * MAX_PATH_LEN)
SAFE_COMPONENT_ACCESS(n) == n % MAX_COMPONENT_LEN

\* A copy of bytes into the buffer.
Write(buf, at, bytes) ==
  [i \in DOMAIN buf |-> IF i \in at .. at + Len(bytes) - 1 THEN bytes[i - at + 1] ELSE buf[i]]

\* n bytes of the buffer.
Bytes(buf, at, n) == [i \in 1 .. n |-> buf[at + i - 1]]

\* A string with NULs up to n bytes.
Padded(bytes, n) == [i \in 1 .. n |-> IF i <= Len(bytes) THEN bytes[i] ELSE NUL]

-----------------------------------------------------------------------------
(* bpf_d_path_approx *)

IS_ROOT(d) == d_parent[d] = d
d_unlinked(d) == d \in unhashed /\ ~IS_ROOT(d)

copy_name(data, d) ==
  LET off == (data.curr_off - (Len(d_name[d]) + 1)) % U32
      name == SubSeq(d_name[d], 1, SAFE_COMPONENT_ACCESS(Len(d_name[d])))
  IN [data EXCEPT !.curr_off = off,
                  !.buf = Write(Write(@, SAFE_PATH_ACCESS(off), <<SLASH>>),
                                SAFE_PATH_ACCESS(off + 1), name)]

\* Mutant: the suffix begins one byte late.
StartOffsetLate(d) ==
  2 * MAX_PATH_LEN - IF d_unlinked(d) THEN Len(DELETED_STRING) - 1 ELSE 0

\* Where the path ends: before the suffix of a removed file.
StartOffset(d) ==
  2 * MAX_PATH_LEN - IF d_unlinked(d) THEN Len(DELETED_STRING) ELSE 0

\* One component, or one mount, upwards.  The first test of path_read compares
\* with root_dentry and root_mnt.  These are read through fs->root as if it were
\* a pointer to a path, and never hold a dentry and its mount: the walk ends at
\* the root of the mount namespace.
path_read(data) ==
  IF data.dentry = mnt_root[data.mnt] \/ IS_ROOT(data.dentry)
  THEN IF mnt_parent[data.mnt] = data.mnt
       THEN [data EXCEPT !.resolved = TRUE]
       ELSE [data EXCEPT !.dentry = mnt_mountpoint[data.mnt], !.mnt = mnt_parent[@]]
  ELSE [copy_name(data, data.dentry) EXCEPT !.dentry = d_parent[@]]

\* Mutant: the loop stops one step early.
bpf_d_path_approx_short(file, buf) ==
  LET off == StartOffset(file[2])
      start == [mnt |-> file[1], dentry |-> file[2], curr_off |-> off, resolved |-> FALSE,
                buf |-> IF d_unlinked(file[2])
                          THEN Write(buf, SAFE_PATH_ACCESS(off), DELETED_STRING) ELSE buf]
      after[i \in 0 .. PATH_ITERATIONS] ==
        IF i = 0 THEN start
        ELSE LET data == after[i - 1] IN IF data.resolved THEN data ELSE path_read(data)
      data == after[PATH_ITERATIONS - 1]
      end == IF data.curr_off = 2 * MAX_PATH_LEN THEN copy_name(data, data.dentry) ELSE data
  IN [buf |-> end.buf, off |-> IF end.resolved THEN end.curr_off ELSE 0]

\* The buffer and the offset of the path in it, 0 when it was not resolved.
bpf_d_path_approx(file, buf) ==
  LET off == StartOffset(file[2])
      start == [mnt |-> file[1], dentry |-> file[2], curr_off |-> off, resolved |-> FALSE,
                buf |-> IF d_unlinked(file[2])
                          THEN Write(buf, SAFE_PATH_ACCESS(off), DELETED_STRING) ELSE buf]
      after[i \in 0 .. PATH_ITERATIONS] ==
        IF i = 0 THEN start
        ELSE LET data == after[i - 1] IN IF data.resolved THEN data ELSE path_read(data)
      data == after[PATH_ITERATIONS]
      end == IF data.curr_off = 2 * MAX_PATH_LEN THEN copy_name(data, data.dentry) ELSE data
  IN [buf |-> end.buf, off |-> IF end.resolved THEN end.curr_off ELSE 0]

-----------------------------------------------------------------------------
(* enforce_cgroup_policy, from the path on. *)

\* exec_is_foreign_root(bprm).  The kernel's own mounts, and those attached to no
\* namespace, are not foreign.
exec_is_foreign_root(file) ==
  file[1] \notin mnt_internal /\ mnt_ns[file[1]] \notin {NoNs, TaskNs}

\* The key size the two sides choose for a length, as StringMaps has it.
KeySize(n) == IF n > MAX_PATH_LEN THEN MAX_PATH_LEN
              ELSE CHOOSE k \in KeySizes : k >= n /\ \A j \in KeySizes : j >= n => k <= j

\* Mutant: the mask of a length for an offset.
MatchFirstSegment(buf, off, len) ==
  \E value \in allow :
    /\ KeySize(Len(value)) = KeySize(len)
    /\ Padded(value, KeySize(len)) = Bytes(buf, SAFE_PATH_LEN(off), KeySize(len))

\* The lookup compares a whole key: the path, and the padding behind it.
Match(buf, off, len) ==
  \E value \in allow :
    /\ KeySize(Len(value)) = KeySize(len)
    /\ Padded(value, KeySize(len)) = Bytes(buf, SAFE_PATH_ACCESS(off), KeySize(len))

\* Mutant: the terminator is not copied, and neither is the last byte.
CopyShort(buf, off, len) ==
  Write(buf, 0, Bytes(buf, SAFE_PATH_ACCESS(off), SAFE_PATH_LEN(len - 1)))

\* The copy of the path, with its terminator, into the first segment.
CopyToFirst(buf, off, len) ==
  Write(buf, 0, Bytes(buf, SAFE_PATH_ACCESS(off), SAFE_PATH_LEN(len + 1)))

\* processRingbufEvents reads as many bytes as the header says, and zeros where
\* the record ends; a length above the maximum is an error.
Decode(buf, len) ==
  IF len > MAX_PATH_LEN THEN NoEvent
  ELSE Padded(Bytes(buf, 0, Slack + SAFE_PATH_LEN(len)), len)

Outcome(file, outcome, event) ==
  last' = [file |-> file, allow |-> allow, outcome |-> outcome, event |-> event]

\* Mutant: a length that is not a u16.
ResolvedWide(file) ==
  LET res == bpf_d_path_approx(file, path)
  IN [buf |-> res.buf, off |-> res.off, ok |-> res.off \notin {0, 2 * MAX_PATH_LEN},
      len |-> 2 * MAX_PATH_LEN - res.off]

\* populate_evt_with_path: the resolved path of a file, unless the offset says
\* that there is none.
Resolved(file) ==
  LET res == bpf_d_path_approx(file, path)
  IN [buf |-> res.buf, off |-> res.off, ok |-> res.off \notin {0, 2 * MAX_PATH_LEN},
      len |-> (2 * MAX_PATH_LEN - res.off) % U16]

\* The path from the root of the mount namespace, the reference for what the
\* program should compute.  A file without a path is known by its name.
FullName[file \in Mounts \X Dentries] ==
  LET mnt == file[1] d == file[2]
  IN IF d # mnt_root[mnt] /\ ~IS_ROOT(d) THEN FullName[<<mnt, d_parent[d]>>] \o <<SLASH>> \o d_name[d]
     ELSE IF mnt_parent[mnt] = mnt THEN <<>>
     ELSE FullName[<<mnt_parent[mnt], mnt_mountpoint[mnt]>>]

FullPath(file) ==
  LET name == IF FullName[file] = <<>> THEN <<SLASH>> \o d_name[file[2]] ELSE FullName[file]
  IN IF d_unlinked(file[2]) THEN name \o DELETED_STRING ELSE name

\* No policy, and a file on a foreign root: an event without a path.
LearnForeign(file) ==
  /\ allow = NoPolicy
  /\ exec_is_foreign_root(file)
  /\ path_len' = 0
  /\ Outcome(file, "learned", Decode(path, 0))
  /\ UNCHANGED <<path, overflowed>>

\* The path cannot be resolved: the exec goes through without an event.
ExecUnresolved(file, res) ==
  /\ ~res.ok
  /\ path' = res.buf
  /\ Outcome(file, "unresolved", NoEvent)
  /\ UNCHANGED path_len

\* The allow list has the path: the exec goes through without an event.
ExecAllowed(file, res) ==
  /\ allow # NoPolicy
  /\ ~exec_is_foreign_root(file)
  /\ res.ok
  /\ Match(res.buf, res.off, res.len)
  /\ path_len' = res.len
  /\ path' = res.buf
  /\ Outcome(file, "match", NoEvent)

\* An event for the learning controller without a policy.  With one, the exec is
\* denied: not in the allow list, or on a foreign root.
ExecReported(file, res) ==
  /\ res.ok
  /\ allow # NoPolicy => exec_is_foreign_root(file) \/ ~Match(res.buf, res.off, res.len)
  /\ path_len' = res.len
  /\ path' = CopyToFirst(res.buf, res.off, res.len)
  /\ Outcome(file, IF allow = NoPolicy THEN "learned" ELSE "denied", Decode(path', res.len))

\* An exec in a container without a policy, to be learned, or with a policy in
\* protect mode that does not allow foreign roots.
Exec(file) ==
  /\ \/ LearnForeign(file)
     \/ /\ allow = NoPolicy => ~exec_is_foreign_root(file)
        /\ \E res \in {Resolved(file)} :
             ExecUnresolved(file, res) \/ ExecAllowed(file, res) \/ ExecReported(file, res)
        /\ overflowed' = (overflowed \/ Len(FullPath(file)) > 2 * MAX_PATH_LEN)
  /\ UNCHANGED allow

\* The agent binds another policy, or none.
SetPolicy(list) ==
  /\ allow' = list
  /\ UNCHANGED <<path, path_len, last, overflowed>>

Init ==
  /\ path = [i \in 0 .. 3 * MAX_PATH_LEN - 1 |-> NUL]
  /\ path_len = 0
  /\ allow = NoPolicy
  /\ last = [file |-> NoEvent, allow |-> NoPolicy, outcome |-> "none", event |-> NoEvent]
  /\ overflowed = FALSE

Next ==
  \/ \E file \in Files : Exec(file)
  \/ \E list \in AllowLists \cup {NoPolicy} : SetPolicy(list)

Spec == Init /\ [][Next]_vars

-----------------------------------------------------------------------------
(* Properties. *)

\* Lengths keep their width, and outcomes are among those of the program.
TypeOK ==
  /\ DOMAIN path = 0 .. 3 * MAX_PATH_LEN - 1
  /\ path_len \in 0 .. U16 - 1
  /\ allow \in AllowLists \cup {NoPolicy}
  /\ last.outcome \in {"none", "learned", "unresolved", "match", "denied"}
  /\ overflowed \in BOOLEAN

\* The third segment is "full of NUL bytes" (bpf/main.c), whatever was executed
\* before, as long as every path fitted the first two segments.
PaddingIsNul ==
  ~overflowed => \A i \in 2 * MAX_PATH_LEN .. 3 * MAX_PATH_LEN - 1 : path[i] = NUL

\* The number of steps from a file to the root of its mount namespace.
Depth[file \in Mounts \X Dentries] ==
  LET mnt == file[1] d == file[2]
  IN 1 + IF d # mnt_root[mnt] /\ ~IS_ROOT(d) THEN Depth[<<mnt, d_parent[d]>>]
         ELSE IF mnt_parent[mnt] = mnt THEN 0
         ELSE Depth[<<mnt_parent[mnt], mnt_mountpoint[mnt]>>]

\* Only a file that is too deep, or whose path fills the two segments to the
\* last byte, is let through because its path cannot be resolved.
UnresolvedIsDeep ==
  last.outcome = "unresolved" =>
    \/ Depth[last.file] > PATH_ITERATIONS
    \/ Len(FullPath(last.file)) = 2 * MAX_PATH_LEN

\* The allow list decides about exactly the file's path, through mounts, bind
\* mounts and removed files, and independently of what the buffer held before: a
\* path of at most MAX_PATH_LEN bytes matches if and only if the list has it, and
\* a longer one if and only if the list has its first MAX_PATH_LEN bytes.
MatchExact ==
  LET full == FullPath(last.file)
  IN last.outcome \in {"match", "denied"} /\ ~overflowed =>
       (last.outcome = "match" <=>
          /\ ~exec_is_foreign_root(last.file)
          /\ \E value \in last.allow :
               value = IF Len(full) <= MAX_PATH_LEN THEN full ELSE SubSeq(full, 1, MAX_PATH_LEN))

\* The event carries the path of the executed file, not that of an earlier exec,
\* for every path that is shorter than MAX_PATH_LEN - 1 bytes; it carries no path
\* for a foreign file that is learned.
EventExact ==
  last.event # NoEvent =>
    IF last.outcome = "learned" /\ exec_is_foreign_root(last.file)
    THEN last.event = <<>>
    ELSE Len(FullPath(last.file)) < MAX_PATH_LEN - 1 => last.event = FullPath(last.file)
=============================================================================
