\* Every division of two keys among the roles.
CONSTANTS
  Keys = {k1, k2}
  NoKey = none
SPECIFICATION Spec
INVARIANT ScriptsGoThrough
CHECK_DEADLOCK FALSE
