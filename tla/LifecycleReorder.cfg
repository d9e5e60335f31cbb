\* Two results of one covenant on one date.
CONSTANTS
  Covenants = {c1}
  NoCovenant = none
  MaxDate = 0
  MaxRecords = 2
SPECIFICATION Spec
PROPERTY SameDatePassClearsNothing
