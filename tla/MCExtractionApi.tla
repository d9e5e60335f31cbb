-------------------------- MODULE MCExtractionApi --------------------------
(***************************************************************************)
(* An instance of ExtractionApi for TLC.                                   *)
(***************************************************************************)
EXTENDS ExtractionApi

CONSTANTS k1, k2

\* At first both keys are an analyst's.  Then k1 is revoked, and k2 is put into
\* the officers' list without being taken out of the other one.
MCDeployments ==
  <<[analysts |-> {k1, k2}, officers |-> {}], [analysts |-> {k2}, officers |-> {k2}]>>
============================================================================
