------------------------ MODULE MCPostgresAgreements ------------------------
(***************************************************************************)
(* Instances of PostgresAgreements for TLC.                                *)
(***************************************************************************)
EXTENDS PostgresAgreements, TLC

RequestSymmetry == Permutations(Requests)
============================================================================
