SPECIFICATION Spec
CONSTANTS
  BufferSize = 2
  MaxEpisodes = 2
  ResumeIndex = 0
  ResumeCount = 0
  Camera = {c1}
  StagingSlots = 1
  Backend = "local"
INVARIANTS SlotsAccounted CustodySound DirectoriesSound
PROPERTY EpisodesAsPromised
