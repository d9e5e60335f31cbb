\* Up to three records: results of two covenants on two dates, and default
\* events of every kind.
CONSTANTS
  Covenants = {c1, c2}
  NoCovenant = none
  MaxDate = 1
  MaxRecords = 3
SPECIFICATION Spec
SYMMETRY CovenantSymmetry
INVARIANTS TypeOK BreachIsLatestFailure
PROPERTIES
  BreachNeedsLaterTest RepeatChangesNothing DefaultEndsWithItsLastEvent
