SPECIFICATION FairSpec
CONSTANTS
  Workers = {w1, w2}
  Clients = {c1}
  Tasks = {t1, t2, t3}
  Null = Null
INVARIANT TypeOK
INVARIANT WorkConserving
INVARIANT NoStrandedTask
PROPERTY AllRunUnlessRacing
PROPERTY DtorCompletesUnlessParking
CHECK_DEADLOCK FALSE
