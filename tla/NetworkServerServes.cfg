SPECIFICATION FairSpec
CONSTANTS
  k1 = k1
  k2 = k2
  Conns = {k1, k2}
  MaxClients = 1
  MaxRequests <- Bound
INVARIANTS
  KilledByImpatience
  StopJoinsAll
PROPERTIES
  ServiceSpec
  StopReturns
  RequestsAnswered
CHECK_DEADLOCK FALSE
