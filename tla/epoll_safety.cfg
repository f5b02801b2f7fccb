SPECIFICATION Spec
CONSTANTS
  c1 = c1
  c2 = c2
  s1 = s1
  s2 = s2
  x1 = x1
  x2 = x2
  x3 = x3
  x4 = x4
  Coros = {c1, c2}
  Fds = {0, 1, 2}
  Uses <- OwnFds
  BadFds = {1}
  MayFail = {0}
  Ctxs = {x1, x2, x3, x4}
  N = 2
  MaxEvents = 1
  Stoppers = {s1}
SYMMETRY Symmetry
INVARIANT TypeOK
INVARIANT NoDoubleUse
INVARIANT NoLeak
INVARIANT SingleResume
INVARIANT StopQuiesces
PROPERTY AsyncSafety
CHECK_DEADLOCK FALSE
