SPECIFICATION FairSpec
CONSTANTS
  Images = {imgA, imgB}
  NumChunks = 2
  MaxFrames = 2
  MaxRetries = 1
  Faults = {"unplug"}
  MaxFaults = 1
  MaxJobs = 2
  NoChunk = NoChunk
  Torn = Torn
PROPERTIES
  LegacyUploadSucceeds
CHECK_DEADLOCK FALSE
