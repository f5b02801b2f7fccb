SPECIFICATION FairSpec
CONSTANTS
  Cap = 2
  Sizes = {1, 3}
  Kinds <- BothWays
  Messages = {1, 5}
  Buffer = 3
  MaxBytes <- Bounds
  MayRefuse = TRUE
INVARIANT TypeOK
INVARIANT ReadExact
INVARIANT ShortOnlyAtEof
INVARIANT Conserved
PROPERTY ConnectEnds
PROPERTY AbandonedEnds
PROPERTY EchoCompletes
CHECK_DEADLOCK FALSE
