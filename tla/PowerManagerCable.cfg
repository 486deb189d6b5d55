SPECIFICATION Spec
CONSTANTS
  QueueMax = 3
  MaxEvents = 2
INVARIANTS
  NoAlarmOnPower
CHECK_DEADLOCK FALSE
