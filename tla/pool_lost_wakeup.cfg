SPECIFICATION FairSpec
CONSTANTS
  Workers = {w1}
  Clients = {c1}
  Tasks = {t1}
  Null = Null
PROPERTY DtorCompletes
CHECK_DEADLOCK FALSE
