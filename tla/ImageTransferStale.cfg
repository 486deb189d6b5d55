SPECIFICATION Spec
CONSTANTS
  Images = {imgA, imgB}
  NumChunks = 2
  MaxFrames = 2
  MaxRetries = 1
  Faults = {"mute"}
  MaxFaults = 1
  MaxJobs = 2
  NoChunk = NoChunk
  Torn = Torn
PROPERTIES
  SuccessMeansStored
CHECK_DEADLOCK FALSE
