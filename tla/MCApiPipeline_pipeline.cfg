CONSTANTS
  k1 = k1
  k2 = k2
  n1 = n1
  Keys = {k1, k2}
  Limit = 1
  Window = 3
  Second = 2
  SweepAt = 0
  LogMax = 1
  TrimEvery = 2
  Clients = {a, b}
  Nonces = {n1}
  Requests <- MixedRequests
  Skew = 1
  FollowLimit = 1
  ViewLimit = 2
  MaxTime = 4
  MaxCalls = 4
SYMMETRY Symmetry
CHECK_DEADLOCK FALSE
SPECIFICATION Spec
INVARIANTS TypeOK RateIsBounded RetryIsAdmitted LogKeepsNewest AnsweredIsLogged FollowerMissesNothing NonceSpentByOne
