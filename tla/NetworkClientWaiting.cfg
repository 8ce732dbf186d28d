SPECIFICATION FairSpec
CONSTANTS
  c1 = c1
  c2 = c2
  t1 = t1
  t2 = t2
  t3 = t3
  Callers = {c1, c2}
  Types = {t1, t2, t3}
  TypesOf <- PrivateTypes
  MaxRequests = 2
  MaxConns = 2
INVARIANTS
  AnswerHasType
  StaleOnlyAfterFailure
PROPERTIES
  RequestReturns
  DisconnectReturns
  DisconnectReleasesWaiters
  LineSpec
CHECK_DEADLOCK FALSE
