SPECIFICATION FairSpec
CONSTANTS
  BufferSize = 3
  MaxEpisodes = 1
  ResumeIndex = 0
  ResumeCount = 0
  Camera = {c1}
  StagingSlots = 1
  Backend = "dataloop"
PROPERTIES KeptIsResolved QuietShutdown
