SPECIFICATION Spec
CONSTANTS
  c1 = c1
  c2 = c2
  t1 = t1
  t2 = t2
  t3 = t3
  Callers = {c1}
  Types = {t1}
  TypesOf <- SharedTypes
  MaxRequests = 1
  MaxConns = 2
INVARIANT ReconnectSurvives
CHECK_DEADLOCK FALSE
