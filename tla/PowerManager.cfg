SPECIFICATION FairSpec
CONSTANTS
  QueueMax = 2
  MaxEvents = 3
INVARIANTS
  TypeOK
  ScreenCanWake
  WatchdogRuns
  SettingApplied
PROPERTIES
  KeyResumes
  UnattendedPowersDown
CHECK_DEADLOCK FALSE
