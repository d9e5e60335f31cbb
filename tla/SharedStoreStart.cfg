\* Three requests of a process that has just started.
CONSTANTS
  Requests = {r1, r2, r3}
  NoStore = none
SPECIFICATION Spec
INVARIANT PostedIsFound
CHECK_DEADLOCK FALSE
