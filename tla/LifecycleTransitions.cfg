\* One record, or a maturity date that has come, is enough to leave the table of
\* transitions.
CONSTANTS
  Covenants = {c1}
  NoCovenant = none
  MaxDate = 1
  MaxRecords = 1
SPECIFICATION Spec
PROPERTY StatusFollowsTable
