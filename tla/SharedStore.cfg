\* Five requests of a process that has just started.  They are all answered in
\* the end, so a state without successor is no deadlock.
CONSTANTS
  Requests = {r1, r2, r3, r4, r5}
  NoStore = none
SPECIFICATION Spec
SYMMETRY RequestSymmetry
INVARIANTS TypeOK LaterRecordsAreFound
CHECK_DEADLOCK FALSE
