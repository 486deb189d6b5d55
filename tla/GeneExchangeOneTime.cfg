SPECIFICATION Spec
CONSTANTS
  b1 = b1
  b2 = b2
  None = None
  Badges <- Couple
  MaxKeys = 6
  QueueMax = 2
  MaxMishaps = 0
INVARIANTS
  OneTimeCode
SYMMETRY BadgeSymmetry
CHECK_DEADLOCK FALSE
