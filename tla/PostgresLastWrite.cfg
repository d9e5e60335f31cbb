\* Two requests on one agreement, in flight together.
CONSTANTS
  Agreements = {a1}
  Covenants = {c1}
  NoCovenant = none
  Requests = {r1, r2}
  Contended = {a1}
SPECIFICATION Spec
PROPERTY LastWriteWins
CHECK_DEADLOCK FALSE
