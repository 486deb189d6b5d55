SPECIFICATION FairSpec
CONSTANTS
  Images = {imgA, imgB}
  NumChunks = 2
  MaxFrames = 2
  MaxRetries = 1
  Faults = {"garble", "mute", "slow", "unplug", "crash", "pddb"}
  MaxFaults = 3
  MaxJobs = 2
  NoChunk = NoChunk
  Torn = Torn
INVARIANTS
  TypeOK
  CountIsFilled
  NoHoles
PROPERTIES
  JobsEnd
CHECK_DEADLOCK FALSE
