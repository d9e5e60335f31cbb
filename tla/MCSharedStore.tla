--------------------------- MODULE MCSharedStore ---------------------------
(***************************************************************************)
(* Instances of SharedStore for TLC.                                       *)
(***************************************************************************)
EXTENDS SharedStore, TLC

RequestSymmetry == Permutations(Requests)
============================================================================
