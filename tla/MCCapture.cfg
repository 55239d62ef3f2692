CONSTANTS
  Conn = {c1, c2}
  Capacity = 2
  RotateAt = 2
  MaxSent = 6
  IoErrors = TRUE
SPECIFICATION FairSpec
CHECK_DEADLOCK FALSE
INVARIANTS
  CapturedInOrder
  RotationBoundary
PROPERTIES
  EventuallyOnDisk
