------------------------ MODULE MCAgreementLifecycle ------------------------
(***************************************************************************)
(* Instances of AgreementLifecycle for TLC.                                *)
(***************************************************************************)
EXTENDS AgreementLifecycle, TLC

CovenantSymmetry == Permutations(Covenants)
============================================================================
