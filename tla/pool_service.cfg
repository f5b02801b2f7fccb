SPECIFICATION FairServiceSpec
CONSTANTS
  Workers = {w1, w2}
  Clients = {c1}
  Tasks = {t1, t2, t3}
  Null = Null
PROPERTY ExecutorSpec
