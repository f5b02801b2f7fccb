SPECIFICATION FairSpec
CONSTANTS
  c1 = c1
  c2 = c2
  s1 = s1
  s2 = s2
  x1 = x1
  x2 = x2
  x3 = x3
  x4 = x4
  Coros = {c1, c2}
  Fds = {0, 1}
  Uses <- TwoFds
  BadFds = {}
  MayFail = {}
  Ctxs = {x1, x2, x3, x4}
  N = 1
  MaxEvents = 2
  Stoppers = {s1}
PROPERTY AsyncSpec
PROPERTY StopReturns
CHECK_DEADLOCK FALSE
