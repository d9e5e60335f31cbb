-------------------------- MODULE MCAgreementReads --------------------------
(***************************************************************************)
(* Instances of AgreementReads for TLC.                                    *)
(***************************************************************************)
EXTENDS AgreementReads, TLC

AgreementSymmetry == Permutations(Agreements)
============================================================================
