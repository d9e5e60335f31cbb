\* Three requests on two agreements: those on a1 overlap, those on a2 follow one
\* another, and the two kinds interleave freely.  Once every request is answered
\* nothing more happens, so a state without successor is no deadlock.
CONSTANTS
  Agreements = {a1, a2}
  Covenants = {c1}
  NoCovenant = none
  Requests = {r1, r2, r3}
  Contended = {a1}
SPECIFICATION Spec
SYMMETRY RequestSymmetry
INVARIANTS TypeOK OnlyCommittedRows RowsInTheirPlace
PROPERTIES CommitStoresOwnRow StableRowsSurvive IsLedger
CHECK_DEADLOCK FALSE
