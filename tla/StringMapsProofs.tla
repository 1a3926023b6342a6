-------------------------- MODULE StringMapsProofs --------------------------
(***************************************************************************)
(* For any set of path lengths, on old and on new kernels: the agent keeps *)
(* every allowed path in the smallest map, and the LSM program finds it    *)
(* there unless its length is one of 121 .. 144.                           *)
(***************************************************************************)
EXTENDS StringMaps, TLAPS

\* The largest key, as a fact about numbers: an interval with its value in place
\* would be enumerated by the provers.
LEMMA MaxSize == MaxStringMapsSize = 4096
  BY DEF MaxStringMapsSize

\* A path that can be executed has a length that a lookup can record.
LEMMA LengthsFromZero == \A n \in 1 .. MaxStringMapsSize : n \in 0 .. MaxStringMapsSize
  BY MaxSize

\* The eleven key sizes.
LEMMA Sizes ==
  /\ stringMapsSizes[0] = 24 /\ stringMapsSizes[1] = 48 /\ stringMapsSizes[2] = 72
  /\ stringMapsSizes[3] = 96 /\ stringMapsSizes[4] = 120 /\ stringMapsSizes[5] = 144
  /\ stringMapsSizes[6] = 256 /\ stringMapsSizes[7] = 512 /\ stringMapsSizes[8] = 1024
  /\ stringMapsSizes[9] = 2048 /\ stringMapsSizes[10] = 4096
  BY DEF stringMapsSizes, Indexes, KeyIncSize

\* RoundUp is the least multiple of the increment that is not smaller.
LEMMA RoundUpSmallest ==
  ASSUME NEW n \in 1 .. 144
  PROVE  \E k \in 1 .. 6 : RoundUp(n) = k * 24 /\ n <= k * 24 /\ n > (k - 1) * 24
<1>1. CASE n % 24 = 0
  <2>1. n \div 24 \in 1 .. 6 /\ n = (n \div 24) * 24
    BY <1>1
  <2> QED
    BY <1>1, <2>1 DEF RoundUp, KeyIncSize
<1>2. CASE n % 24 # 0
  <2>1. /\ (n \div 24) + 1 \in 1 .. 6
        /\ n <= ((n \div 24) + 1) * 24
        /\ n > ((n \div 24) + 1 - 1) * 24
    BY <1>2
  <2> QED
    BY <1>2, <2>1 DEF RoundUp, KeyIncSize
<1> QED
  BY <1>1, <1>2

\* The map a valid value is put in exists, and no smaller one holds the value.
LEMMA PutIndexSmallest ==
  ASSUME NEW n \in 1 .. MaxStringMapsSize
  PROVE  /\ PutIndex(n) \in Indexes
         /\ stringMapsSizes[PutIndex(n)] = stringPaddedLen(n)
         /\ n <= stringMapsSizes[PutIndex(n)]
         /\ \A j \in Indexes : n <= stringMapsSizes[j] => PutIndex(n) <= j
<1>1. PICK i \in Indexes : /\ stringMapsSizes[i] = stringPaddedLen(n)
                           /\ n <= stringMapsSizes[i]
                           /\ \A j \in Indexes : n <= stringMapsSizes[j] => i <= j
  <2>1. CASE n <= 144
    <3>1. PICK k \in 1 .. 6 : RoundUp(n) = k * 24 /\ n <= k * 24 /\ n > (k - 1) * 24
      BY <2>1, RoundUpSmallest
    <3>2. stringMapsSizes[k - 1] = k * 24 /\ k - 1 \in Indexes
      BY Sizes DEF Indexes
    <3>3. \A j \in Indexes : n <= stringMapsSizes[j] => k - 1 <= j
      BY <3>1, Sizes DEF Indexes
    <3> QED
      BY <2>1, <3>1, <3>2, <3>3 DEF stringPaddedLen, KeyIncSize
  <2>2. CASE n > 144
    <3>1. stringPaddedLen(n) = LongPaddedLen(n)
      BY <2>2 DEF stringPaddedLen, KeyIncSize
    <3>2. PICK i \in 6 .. 10 : /\ stringMapsSizes[i] = LongPaddedLen(n)
                              /\ n <= stringMapsSizes[i] /\ n > stringMapsSizes[i - 1]
      <4>1. CASE n <= 256
        BY <2>2, <4>1, Sizes DEF LongPaddedLen
      <4>2. CASE n > 256 /\ n <= 512
        BY <4>2, Sizes DEF LongPaddedLen
      <4>3. CASE n > 512 /\ n <= 1024
        BY <4>3, Sizes DEF LongPaddedLen
      <4>4. CASE n > 1024 /\ n <= 2048
        BY <4>4, Sizes DEF LongPaddedLen
      <4>5. CASE n > 2048
        <5>1. LongPaddedLen(n) = 4096
          BY <4>5 DEF LongPaddedLen
        <5>2. 10 \in 6 .. 10 /\ stringMapsSizes[10] = 4096 /\ stringMapsSizes[10 - 1] = 2048
          BY Sizes
        <5>3. n <= 4096 /\ n > 2048
          BY <4>5, MaxSize
        <5> QED
          BY <5>1, <5>2, <5>3
      <4> QED
        BY <4>1, <4>2, <4>3, <4>4, <4>5, MaxSize
    <3>3. \A j \in Indexes : n <= stringMapsSizes[j] => i <= j
      BY <3>2, Sizes, MaxSize DEF Indexes
    <3> QED
      BY <3>1, <3>2, <3>3 DEF Indexes
  <2> QED
    BY <2>1, <2>2, MaxSize
<1>2. \A j \in Indexes : stringMapsSizes[j] = stringPaddedLen(n) => j = i
  BY <1>1, Sizes DEF Indexes
<1> QED
  BY <1>1, <1>2 DEF PutIndex

\* The LSM program computes the map the agent computed, outside 121 .. 144.
THEOREM IndexAgreement ==
  ASSUME NEW n \in 1 .. MaxStringMapsSize, Agreed(n)
  PROVE  LookupIndex(n) = PutIndex(n)
<1>1. /\ PutIndex(n) \in Indexes
      /\ stringMapsSizes[PutIndex(n)] = stringPaddedLen(n)
  BY PutIndexSmallest
<1>2. CASE n < 121
  <2>1. PICK k \in 1 .. 6 : RoundUp(n) = k * 24 /\ n <= k * 24 /\ n > (k - 1) * 24
    BY <1>2, RoundUpSmallest
  <2>2. k < 6 /\ stringPaddedLen(n) = k * 24 /\ string_padded_len(n) = k * 24
    BY <1>2, <2>1, Sizes DEF stringPaddedLen, string_padded_len, KeyIncSize
  <2>3. PutIndex(n) = k - 1
    BY <1>1, <2>2, Sizes DEF Indexes
  <2>4. string_map_index(k * 24) = k - 1
    BY <2>2, Sizes DEF string_map_index, KeyIncSize
  <2> QED
    BY <2>2, <2>3, <2>4 DEF LookupIndex
<1>3. CASE n > 144
  <2>1. stringPaddedLen(n) = LongPaddedLen(n) /\ string_padded_len(n) = LongPaddedLen(n)
    BY <1>3, Sizes DEF stringPaddedLen, string_padded_len, KeyIncSize
  <2>2. LongPaddedLen(n) \in {256, 512, 1024, 2048, 4096}
    BY <1>3 DEF LongPaddedLen
  <2> QED
    BY <1>1, <2>1, <2>2, Sizes DEF LookupIndex, string_map_index, Indexes
<1> QED
  BY <1>2, <1>3 DEF Agreed

-----------------------------------------------------------------------------

\* The maps hold exactly the allow list, each value in the map of its length.
IndInv ==
  /\ MapsTypeOK
  /\ maps = [i \in Indexes |-> {n \in values : PutIndex(n) = i}]
  /\ \A n \in values : ValidValue(n)

\* UpdateBinaries and Lookup keep the maps and the allow list together.
THEOREM Invariance == MapsSpec => []IndInv
<1>1. MapsInit => IndInv
  BY MaxSize DEF MapsInit, IndInv, MapsTypeOK
<1>2. IndInv /\ [MapsNext]_mapsVars => IndInv'
  <2> SUFFICES ASSUME IndInv, [MapsNext]_mapsVars PROVE IndInv'
    OBVIOUS
  <2>1. ASSUME NEW new \in SUBSET Lengths, UpdateBinaries(new) PROVE IndInv'
    <3>1. CASE \A n \in new : ValidValue(n)
      <4>1. new \subseteq 1 .. MaxStringMapsSize
        BY <3>1, LengthsAssumption, MaxSize DEF ValidValue
      <4>2. maps' = [i \in Indexes |-> {n \in new : PutIndex(n) = i}] /\ values' = new
        BY <2>1, <3>1 DEF UpdateBinaries
      <4>3. maps' \in [Indexes -> SUBSET (1 .. MaxStringMapsSize)]
        BY <4>1, <4>2
      <4> QED
        BY <2>1, <3>1, <4>1, <4>2, <4>3 DEF UpdateBinaries, IndInv, MapsTypeOK
    <3>2. CASE ~(\A n \in new : ValidValue(n))
      BY <2>1, <3>2 DEF UpdateBinaries, IndInv, MapsTypeOK
    <3> QED
      BY <3>1, <3>2
  <2>2. ASSUME NEW n \in Lengths, Lookup(n) PROVE IndInv'
    <3>1. found' \in [len : 0 .. MaxStringMapsSize,
                      verdict : {"none", "match", "no match", "too long"}]
      <4>1. n \in 1 .. MaxStringMapsSize
        BY <2>2, Zenon DEF Lookup
      <4>2. PICK v \in {"match", "no match", "too long"} : found' = [len |-> n, verdict |-> v]
        BY <2>2, Zenon DEF Lookup
      <4>3. n \in 0 .. MaxStringMapsSize
        BY <4>1, LengthsFromZero, Zenon
      <4> QED
        BY <4>2, <4>3
    <3> QED
      BY <2>2, <3>1 DEF Lookup, IndInv, MapsTypeOK
  <2>3. CASE UNCHANGED mapsVars
    BY <2>3 DEF mapsVars, IndInv, MapsTypeOK
  <2> QED
    BY <2>1, <2>2, <2>3 DEF MapsNext
<1> QED
  BY <1>1, <1>2, PTL DEF MapsSpec

\* Every value of the allow list is in the map with the smallest key for it.
THEOREM SmallestMap == MapsSpec => []StoredInSmallest
<1>1. IndInv => StoredInSmallest
  BY PutIndexSmallest DEF IndInv, MapsTypeOK, StoredInSmallest
<1> QED
  BY <1>1, Invariance, PTL

\* A path of an agreed length matches exactly when the allow list has it.
THEOREM ExactLookup == MapsSpec => LookupExact
<1>1. IndInv /\ [MapsNext]_mapsVars =>
        [\A n \in Lengths : Agreed(n) /\ Lookup(n) =>
           (found'.verdict = "match" <=> n \in values)]_mapsVars
  <2> SUFFICES ASSUME IndInv, NEW n \in Lengths, Agreed(n), Lookup(n)
               PROVE  found'.verdict = "match" <=> n \in values
    OBVIOUS
  <2>1. n \in 1 .. MaxStringMapsSize
    BY DEF Lookup
  <2>2. LookupIndex(n) = PutIndex(n) /\ PutIndex(n) \in Indexes
    BY <2>1, IndexAgreement, PutIndexSmallest
  <2>3. n \in maps[LookupIndex(n)] <=> n \in values
    BY <2>2 DEF IndInv
  <2>4. n \in values => ~(Pre511 /\ n > 512)
    BY <2>1, MaxSize DEF IndInv, ValidValue
  <2> QED
    BY <2>3, <2>4 DEF Lookup
<1> QED
  BY <1>1, Invariance, PTL DEF MapsSpec, LookupExact
=============================================================================
