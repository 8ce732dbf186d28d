SPECIFICATION Spec
CONSTANTS
  c1 = c1
  c2 = c2
  t1 = t1
  t2 = t2
  t3 = t3
  Callers = {c1, c2}
  Types = {t1}
  TypesOf <- SharedTypes
  MaxRequests = 3
  MaxConns = 2
INVARIANTS
  TypeOK
  AtMostOnce
  NoMissedNotify
  ConnectedMeansServiced
  StoppedMeansJoined
PROPERTY AnswersAdvance
CHECK_DEADLOCK FALSE
