SPECIFICATION Spec
CONSTANTS
  c1 = c1
  c2 = c2
  s1 = s1
  s2 = s2
  x1 = x1
  x2 = x2
  x3 = x3
  x4 = x4
  Nobody = Nobody
  Coros = {c1, c2}
  Fds = {0, 1}
  Uses <- SharedFds
  BadFds = {0}
  MayFail = {0}
  Ctxs = {x1, x2, x3, x4}
  N = 2
  Entries = 1
  Stoppers = {s1}
SYMMETRY Symmetry
INVARIANT NoDoubleUse
INVARIANT NoLeak
INVARIANT OneRequest
INVARIANT SubmitsAlone
INVARIANT TypeOK
INVARIANT StopQuiesces
PROPERTY AsyncSafety
CHECK_DEADLOCK FALSE
