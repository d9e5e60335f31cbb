\* Two callers, two threads, calls that may be stalled by two ticks.
CONSTANTS
  Identities = {i1, i2}
  Threads = {t1, t2}
  MaxRequests = 1
  Window = 3
  MaxStall = 2
  MaxTime = 6
SPECIFICATION Spec
SYMMETRY Symmetry
INVARIANTS TypeOK QuotaPerWindow BurstBounded RefusedOnlyWhenSpent WaitMatchesWindow
PROPERTY WindowsNeverOverlap
