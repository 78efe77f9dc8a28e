---------------------------- MODULE MCJsonStore ----------------------------
(***************************************************************************)
(* JsonStore for TLC: two spellings of the same names and other names.     *)
(***************************************************************************)
EXTENDS JsonStore, TLC

CONSTANTS ab, ba, other, n1, n2

MCNamesOf == [s \in Spellings |-> IF s = other THEN n2 ELSE n1]

Symmetry == Permutations(Workers)
=============================================================================
