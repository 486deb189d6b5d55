SPECIFICATION FairSpec
CONSTANTS
  b1 = b1
  b2 = b2
  None = None
  Badges <- Couple
  MaxKeys = 5
  QueueMax = 2
  MaxMishaps = 1
INVARIANTS
  TypeOK
  NoSelfBreeding
  
PROPERTIES
  ConfirmationRaised
CHECK_DEADLOCK FALSE
