---------------------------- MODULE MCStringMaps ----------------------------
(***************************************************************************)
(* Lengths around the largest of the sizes that are multiples of 24.       *)
(***************************************************************************)
EXTENDS StringMaps

SmallLengths == {24, 120, 121, 144, 145}
=============================================================================
