\* Two requests, by two keys or none, that overlap from the first moment of the
\* process, with one change of the settings and any number of restarts; a quota of
\* one request in a window of one tick.
CONSTANTS
  k1 = k1
  k2 = k2
  Keys = {k1, k2}
  NoKey = none
  Deployments <- MCDeployments
  Jobs = {j1, j2}
  MaxAttempts = 2
  TransportRetries = 1
  MaxRequests = 1
  Window = 1
  MaxTime = 1
SPECIFICATION ApiSpec
INVARIANTS
  TypeOK ApiTypeOK PendingHasTask RequestsBounded
  SpendPerWindow RefusedByOwnRequests VerdictOfThisLife AnswersAreTrue
PROPERTIES PollsMoveForward EveryRequestEnds
