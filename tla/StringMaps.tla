----------------------------- MODULE StringMaps -----------------------------
(***************************************************************************)
(* The allow list of one policy ID as eleven hash maps with keys of        *)
(* increasing size.  The agent (internal/bpf/policy_values.go) stores a    *)
(* path in the map whose key is the smallest that holds it, padded with    *)
(* NULs; the LSM program (bpf/main.c) computes the map from the length of  *)
(* the path of the executed file.  Both sides compute the map on their     *)
(* own, so they have to agree on every length.                             *)
(*                                                                         *)
(* A path is represented by its length: two paths of the same length go to *)
(* the same map and are told apart by the hash lookup itself.              *)
(***************************************************************************)
EXTENDS Integers

CONSTANTS
  Lengths,    \* the path lengths under consideration
  Pre511      \* is the kernel older than 5.11

MaxStringMapsSize == 4096
KeyIncSize == 24
Indexes == 0 .. 10

ASSUME LengthsAssumption ==
  /\ Lengths \subseteq 0 .. MaxStringMapsSize + 1
  /\ Pre511 \in BOOLEAN

VARIABLES
  maps,       \* the lengths of the paths in each of the eleven maps
  values,     \* the allow list of the last update that succeeded
  found       \* the last lookup: its length and what the program did

mapsVars == <<maps, values, found>>

stringMapsSizes ==
  [i \in Indexes |-> CASE i < 6 -> (i + 1) * KeyIncSize
                       [] i = 6 -> 256 [] i = 7 -> 512 [] i = 8 -> 1024
                       [] i = 9 -> 2048 [] i = 10 -> 4096]

RoundUp(n) == IF n % KeyIncSize # 0 THEN ((n \div KeyIncSize) + 1) * KeyIncSize ELSE n

\* Longer paths go to the five maps whose sizes double.
LongPaddedLen(n) ==
  CASE n <= 256 -> 256
    [] n > 256 /\ n <= 512 -> 512
    [] n > 512 /\ n <= 1024 -> 1024
    [] n > 1024 /\ n <= 2048 -> 2048
    [] n > 2048 -> 4096

-----------------------------------------------------------------------------
(* The agent.                                                              *)

\* Mutant: the boundary of the small maps is exclusive.
stringPaddedLenExclusive(n) == IF n < 6 * KeyIncSize THEN RoundUp(n) ELSE LongPaddedLen(n)

stringPaddedLen(n) == IF n <= 6 * KeyIncSize THEN RoundUp(n) ELSE LongPaddedLen(n)

\* argStringSelectorValue refuses empty strings and those longer than any key.
ValidValue(n) == n > 0 /\ n <= IF Pre511 THEN 512 ELSE MaxStringMapsSize

\* putValueInMap: the map a valid value is stored in.
PutIndex(n) == CHOOSE i \in Indexes : stringMapsSizes[i] = stringPaddedLen(n)

\* Mutant: the values of the old allow list stay in the maps.
UpdateBinariesMerges(new) ==
  /\ IF \A n \in new : ValidValue(n)
     THEN /\ maps' = [i \in Indexes |-> maps[i] \cup {n \in new : PutIndex(n) = i}]
          /\ values' = new
     ELSE UNCHANGED <<maps, values>>
  /\ UNCHANGED found

\* replaceBPFMaps: one value that is not valid fails the whole update, before
\* any map is written.
UpdateBinaries(new) ==
  /\ IF \A n \in new : ValidValue(n)
     THEN /\ maps' = [i \in Indexes |-> {n \in new : PutIndex(n) = i}]
          /\ values' = new
     ELSE UNCHANGED <<maps, values>>
  /\ UNCHANGED found

-----------------------------------------------------------------------------
(* The LSM program.                                                        *)

string_padded_len(n) == IF n < stringMapsSizes[5] THEN RoundUp(n) ELSE LongPaddedLen(n)

string_map_index(padded) ==
  CASE padded < stringMapsSizes[5] -> (padded \div KeyIncSize) - 1
    [] padded = 256 -> 6
    [] padded = 512 -> 7
    [] padded = 1024 -> 8
    [] padded = 2048 -> 9
    [] OTHER -> 10

LookupIndex(n) == string_map_index(string_padded_len(n))

\* The lookup for a path of n bytes; empty paths were let through before.
Lookup(n) ==
  /\ n \in 1 .. MaxStringMapsSize
  /\ found' = [len |-> n,
               verdict |-> IF Pre511 /\ n > 512 THEN "too long"
                           ELSE IF n \in maps[LookupIndex(n)] THEN "match" ELSE "no match"]
  /\ UNCHANGED <<maps, values>>

MapsInit ==
  /\ maps = [i \in Indexes |-> {}]
  /\ values = {}
  /\ found = [len |-> 0, verdict |-> "none"]

MapsNext ==
  \/ \E new \in SUBSET Lengths : UpdateBinaries(new)
  \/ \E n \in Lengths : Lookup(n)

MapsSpec == MapsInit /\ [][MapsNext]_mapsVars

-----------------------------------------------------------------------------
(* Properties. *)

\* Every map holds lengths that fit its key; a lookup has one of its outcomes.
MapsTypeOK ==
  /\ maps \in [Indexes -> SUBSET (1 .. MaxStringMapsSize)]
  /\ values \subseteq 1 .. MaxStringMapsSize
  /\ found \in [len : 0 .. MaxStringMapsSize,
                verdict : {"none", "match", "no match", "too long"}]

\* The agent stores every value of the allow list, each in the map with the
\* smallest key that can hold it, as bpf/string_maps.h describes.
StoredInSmallest ==
  \A n \in values : \E i \in Indexes :
    /\ n \in maps[i]
    /\ n <= stringMapsSizes[i]
    /\ \A j \in Indexes : n <= stringMapsSizes[j] => i <= j

\* The lengths the two sides treat alike.
Agreed(n) == n < 121 \/ n > 144

\* A path of an agreed length matches exactly when the allow list in force has
\* it, after any sequence of updates, also updates that were refused.
LookupExact ==
  [][\A n \in Lengths : Agreed(n) /\ Lookup(n) =>
       (found'.verdict = "match" <=> n \in values)]_mapsVars

\* The same for every length: "Strings to be looked up are equally padded to
\* the smallest key size that can accommodate them".
LookupExactEverywhere ==
  [][\A n \in Lengths : Lookup(n) => (found'.verdict = "match" <=> n \in values)]_mapsVars
=============================================================================
