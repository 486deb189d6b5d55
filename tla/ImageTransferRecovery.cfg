SPECIFICATION FairSpec
CONSTANTS
  Images = {imgA, imgB}
  NumChunks = 3
  MaxFrames = 2
  MaxRetries = 1
  Faults = {"garble", "unplug", "crash"}
  MaxFaults = 2
  MaxJobs = 3
  NoChunk = NoChunk
  Torn = Torn
INVARIANTS
  ViewConverges
PROPERTIES
  ImplementsPictureStore
  SuccessMeansStored
  CleanUploadSucceeds
CHECK_DEADLOCK FALSE
