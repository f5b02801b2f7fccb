SPECIFICATION Spec
CONSTANTS
  c1 = c1
  c2 = c2
  s1 = s1
  s2 = s2
  x1 = x1
  x2 = x2
  x3 = x3
  x4 = x4
  Nobody = Nobody
  Coros = {c1, c2}
  Fds = {0, 1}
  Uses <- TwoFds
  BadFds = {}
  MayFail = {}
  Ctxs = {x1, x2, x3}
  N = 1
  Entries = 1
  Stoppers = {}
SYMMETRY Symmetry
INVARIANT NoSelfDeadlock
CHECK_DEADLOCK FALSE
