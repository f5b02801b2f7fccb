SPECIFICATION Spec
CONSTANTS
  Cap = 2
  Sizes = {1, 3}
  Kinds <- OneWay
  Messages = {1}
  Buffer = 1
  MaxBytes <- ThreeBytes
  MayRefuse = FALSE
INVARIANT EofAccounted
CHECK_DEADLOCK FALSE
