-------------------------- MODULE MCAgreementTerms --------------------------
(***************************************************************************)
(* Amounts for AgreementTerms: a sum can be met by one, two or three       *)
(* installments, and with a negative one among them.                       *)
(***************************************************************************)
EXTENDS AgreementTerms

MCAmounts == {0, 2}

MCPrincipals == {-1, 1, 2}
=============================================================================
